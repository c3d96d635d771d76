---------------------------- MODULE ExportProofs ----------------------------
(***************************************************************************)
(* What holds of every export, whatever the source, the selection, the     *)
(* roots, the hash and the limits: no two files of a plan meet, and a      *)
(* report on disk is that of a complete run, however often one was killed. *)
(***************************************************************************)
EXTENDS ExportRun, OrderingProofs, SequenceTheorems

-----------------------------------------------------------------------------
(* Output names *)

LEMMA SanitisedSegment ==
    ASSUME NEW seg \in Segment
    PROVE  sanitise_segment(seg) \in Segment
<1> DEFINE clean == [k \in DOMAIN seg |-> IF seg[k] \in Illegal THEN Underscore ELSE seg[k]]
           I == {i \in 1 .. Len(clean) : clean[i] \notin Trailing}
<1>1. clean \in Seq(Token) /\ Len(clean) = Len(seg)
    BY CharAssumption DEF Segment, Token
<1>2. <<Unnamed>> \in Segment
    BY CharAssumption DEF Segment, Token
<1>3. CASE I = {}
  <2>1. sanitise_segment(seg) = <<Unnamed>>
      BY <1>3 DEF sanitise_segment, SelectLastInSeq
  <2>2. QED
      BY <2>1, <1>2
<1>4. CASE I # {}
  <2>1. PICK m \in I : \A n \in I : n <= m
    <3>1. Len(clean) \in Nat /\ I \in SUBSET (0 .. Len(clean))
        BY <1>1
    <3>2. QED
        BY <3>1, <1>4, GreatestNatural
  <2>2. Max(I) \in I
    <3>1. \E x \in I : \A y \in I : x >= y
        BY <2>1
    <3>2. QED
        BY <3>1 DEF Max
  <2>3. sanitise_segment(seg) = SubSeq(clean, 1, Max(I))
    <3>1. SelectLastInSeq(clean, LAMBDA t : t \notin Trailing) = Max(I)
        BY <1>4 DEF SelectLastInSeq
    <3>2. Max(I) # 0
        BY <2>2
    <3>3. QED
        BY <3>1, <3>2 DEF sanitise_segment
  <2>4. SubSeq(clean, 1, Max(I)) \in Seq(Token)
    <3> HIDE DEF clean
    <3>1. Max(I) \in 1 .. Len(clean)
        BY <2>2
    <3>2. \A i \in 1 .. Max(I) : clean[i] \in Token
        BY <3>1, <1>1
    <3>3. Max(I) \in Int
        BY <3>1
    <3>4. QED
        BY <3>2, <3>3, SubSeqProperties
  <2>5. QED
      BY <2>3, <2>4 DEF Segment
<1>5. QED
    BY <1>3, <1>4

LEMMA SanitisedPath ==
    ASSUME NEW path \in Path
    PROVE  sanitise_path(path) \in Path
BY SanitisedSegment DEF sanitise_path, Path
(* A path under some root has a longest, last root: attribute() picks it. *)
LEMMA AttributeOwns ==
    ASSUME roots \in RootList, NEW path \in Path, Owners(path) # {}
    PROVE  attribute(path) \in Owners(path)
<1> DEFINE O == Owners(path)
           len(k) == Len(roots[k].prefix)
           lens == {len(k) : k \in O}
<1>1. O \in SUBSET (0 .. Len(roots)) /\ Len(roots) \in Nat
    BY DEF Owners, RootList
<1>2. Len(path) \in Nat /\ \A k \in O : len(k) \in 0 .. Len(path)
    BY DEF Owners, Path, IsPrefix, RootList
<1>3. PICK longest \in lens : \A n \in lens : n <= longest
  <2> HIDE DEF O, len
  <2>1. lens \in SUBSET (0 .. Len(path)) /\ lens # {}
      BY <1>2 DEF O
  <2>2. QED
      BY <2>1, <1>2, GreatestNatural
<1> DEFINE L == {k \in O : len(k) = longest}
<1>4. PICK k \in L : \A j \in L : j <= k
  <2> HIDE DEF O, len
  <2>1. L \in SUBSET (0 .. Len(roots)) /\ L # {}
      BY <1>1, <1>3
  <2>2. QED
      BY <2>1, <1>1, GreatestNatural
<1>5. \A j \in O : len(j) < len(k) \/ (len(j) = len(k) /\ j <= k)
  <2> HIDE DEF O, len
  <2>1. \A j \in O : len(j) <= longest /\ len(j) \in Nat
      BY <1>2, <1>3
  <2>2. QED
      BY <2>1, <1>2, <1>4
<1>6. QED
    BY <1>4, <1>5 DEF attribute

(* A segment with a mark appended is a segment. *)
LEMMA MarkedSegment ==
    ASSUME NEW seg \in Segment, NEW m \in Mark, NEW n \in Nat
    PROVE  Append(seg, <<m, n>>) \in Segment
<1>1. <<m, n>> \in Token
    BY DEF Token
<1>2. QED
    BY <1>1, AppendProperties DEF Segment

LEMMA SingletonPath ==
    ASSUME NEW seg \in Segment
    PROVE  <<seg>> \in Path
BY DEF Path

(* Where a file lands is a folder path and a name. *)
LEMMA HashedFolder ==
    ASSUME NEW path \in Paths
    PROVE  /\ sanitise_segment(Last(path)) \in Segment
           /\ HashedItem(path).folder \in Path
           /\ HashedItem(path).folder[1] \in Segment
<1> DEFINE name == sanitise_segment(Last(path))
           folder == Append(name, <<"_", PathHash[path]>>)
<1>1. name \in Segment
    BY SanitisedSegment, PlanAssumption DEF Path, Last
<1>2. folder \in Segment
    BY <1>1, PlanAssumption, MarkedSegment DEF Mark
<1>3. HashedItem(path).folder = <<folder>>
    BY DEF HashedItem
<1> HIDE DEF folder, name
<1>4. QED
    BY <1>1, <1>2, <1>3, SingletonPath DEF name

LEMMA HashedItemType ==
    ASSUME NEW path \in Paths
    PROVE  HashedItem(path) \in Item
BY HashedFolder DEF HashedItem, Item

LEMMA TreeItemType ==
    ASSUME roots \in RootList, NEW path \in Paths, Owners(path) # {}
    PROVE  TreeItem(path) \in Item
<1> DEFINE root == roots[attribute(path)]
           rel == relative_under(root.prefix, path)
           folder == sanitise_label(root.label)
<1>1. path \in Path
    BY PlanAssumption
<1>2. attribute(path) \in DOMAIN roots /\ IsPrefix(root.prefix, path)
    BY <1>1, AttributeOwns DEF Owners
<1>3. folder \in Path
    BY <1>2 DEF RootList
<1>4. rel \in Path
  <2>1. Len(root.prefix) \in Nat
      BY <1>2 DEF Path, RootList
  <2>2. QED
      BY <1>1, <2>1 DEF relative_under, Path
<1>5. CASE rel = <<>>
  <2>1. sanitise_segment(<<>>) \in Segment
    <3>1. <<>> \in Segment
        BY DEF Segment
    <3>2. QED
        BY <3>1, SanitisedSegment
  <2>2. TreeItem(path) = [folder |-> folder, name |-> sanitise_segment(<<>>)]
      BY <1>5 DEF TreeItem
  <2>3. QED
      BY <1>3, <2>1, <2>2 DEF Item
<1>6. CASE rel # <<>>
  <2>1. Front(rel) \in Path /\ Last(rel) \in Segment
      BY <1>4, <1>6 DEF Front, Last, Path
  <2>2. sanitise_segment(Last(rel)) \in Segment
      BY <2>1, SanitisedSegment
  <2>3. folder \o sanitise_path(Front(rel)) \in Path
      BY <1>3, <2>1, SanitisedPath DEF Path
  <2>4. TreeItem(path) = [folder |-> folder \o sanitise_path(Front(rel)),
                          name |-> sanitise_segment(Last(rel))]
      BY <1>6 DEF TreeItem
  <2>5. QED
      BY <2>2, <2>3, <2>4 DEF Item
<1>7. QED
    BY <1>5, <1>6
(* Both layouts give one item per file. *)
LEMMA LayoutType ==
    ASSUME roots \in RootList, NEW list \in Seq(Entry)
    PROVE  Layout(list) \in Seq(Item) /\ Len(Layout(list)) = Len(list)
<1>1. \A k \in DOMAIN list : list[k].path \in Paths /\ list[k].start \in Nat
  <2>1. \A k \in DOMAIN list : list[k] \in Entry
      OBVIOUS
  <2>2. QED
      BY <2>1 DEF Entry
<1>2. FlatLayout(list) \in [1 .. Len(list) -> Item]
  <2> DEFINE item == [k \in DOMAIN list |-> HashedItem(list[k].path)]
             key == [k \in DOMAIN list |-> LowerSegment(item[k].folder[1])]
             shared(k) == \E j \in DOMAIN list : j # k /\ key[j] = key[k]
             folder(k) == <<Append(item[k].folder[1], <<"_0x", list[k].start>>)>>
  <2>1. \A k \in DOMAIN list : item[k] \in Item
      BY <1>1, HashedItemType
  <2>2. \A k \in DOMAIN list : folder(k) \in Path
    <3>1. SUFFICES ASSUME NEW k \in DOMAIN list PROVE folder(k) \in Path
        OBVIOUS
    <3>2. item[k].folder[1] \in Segment
        BY <1>1, HashedFolder
    <3>3. Append(item[k].folder[1], <<"_0x", list[k].start>>) \in Segment
        BY <3>2, <1>1, MarkedSegment DEF Mark
    <3>4. QED
        BY <3>3, SingletonPath
  <2>3. FlatLayout(list) = [k \in DOMAIN list |->
                               IF shared(k) THEN [item[k] EXCEPT !.folder = folder(k)]
                               ELSE item[k]]
      BY DEF FlatLayout
  <2> HIDE DEF item, key, shared, folder
  <2>4. \A k \in DOMAIN list : [item[k] EXCEPT !.folder = folder(k)] \in Item
      BY <2>1, <2>2 DEF Item
  <2>5. DOMAIN list = 1 .. Len(list)
      OBVIOUS
  <2> DEFINE laid(k) == IF shared(k) THEN [item[k] EXCEPT !.folder = folder(k)] ELSE item[k]
  <2>6. \A k \in DOMAIN list : laid(k) \in Item
      BY <2>1, <2>4
  <2>7. FlatLayout(list) = [k \in DOMAIN list |-> laid(k)]
      BY <2>3
  <2> HIDE DEF laid
  <2>8. QED
      BY <2>5, <2>6, <2>7
<1>3. TreeLayout(list) \in [1 .. Len(list) -> Item]
    BY <1>1, HashedItemType, TreeItemType DEF TreeLayout
<1>4. Layout(list) \in [1 .. Len(list) -> Item]
    BY <1>2, <1>3 DEF Layout
<1>5. QED
    BY <1>4
-----------------------------------------------------------------------------
(* Type correctness *)

LEMMA InitType == Init => TypeOK
<1> SUFFICES ASSUME Init PROVE TypeOK
    OBVIOUS
<1>1. files \in Seq(Entry) /\ roots \in RootList
    BY PlanAssumption DEF Init
<1>2. wanted \in Seq(Item) /\ items \in Seq(Item) /\ Len(wanted) = 0 /\ Len(items) = 0
  <2>1. <<>> \in Seq(Item) /\ Len(<<>>) = 0
      BY EmptySeq
  <2>2. wanted = <<>> /\ items = <<>>
      BY DEF Init
  <2>3. QED
      BY <2>1, <2>2
<1>3. renamed \in Seq([internal_path : Paths, wanted : Path, used : Path])
  <2>1. renamed = <<>>
      BY DEF Init
  <2>2. QED
      BY <2>1, EmptySeq
<1>4. cursor = 1 /\ suffix = 0 /\ phase = "layout" /\ layout \in {"flat", "tree"}
    BY DEF Init
<1>5. cursor \in 1 .. Len(items) + 1 /\ suffix \in Nat /\ ~(suffix > 0)
    BY <1>2, <1>4
<1>6. Len(wanted) = Len(items)
      /\ Len(items) = (IF phase = "layout" THEN 0 ELSE Len(files))
    BY <1>2, <1>4
<1>7. QED
    BY <1>1, <1>2, <1>3, <1>4, <1>5, <1>6 DEF TypeOK

LEMMA SuffixedType ==
    ASSUME NEW item \in Item, NEW n \in Nat
    PROVE  Suffixed(item, n) \in Item
<1>1. Append(item.name, <<"~", n>>) \in Segment
    BY MarkedSegment DEF Item, Mark
<1>2. QED
    BY <1>1 DEF Suffixed, Item

LEMMA OutputPathType ==
    ASSUME NEW item \in Item
    PROVE  output_path(item) \in Path
BY AppendProperties DEF output_path, Item, Path

LEMMA NextType == TypeOK /\ [Next]_planVars => TypeOK'
<1> SUFFICES ASSUME TypeOK, [Next]_planVars PROVE TypeOK'
    OBVIOUS
<1>1. CASE LayOut
  <2>1. wanted' \in Seq(Item) /\ Len(wanted') = Len(files)
      BY <1>1, LayoutType DEF LayOut, TypeOK
  <2>2. cursor' \in 1 .. Len(items') + 1
    <3>1. cursor' = 1 /\ items' \in Seq(Item)
      <4>1. Len(items) = 0 /\ cursor \in 1 .. Len(items) + 1
          BY <1>1 DEF LayOut, TypeOK
      <4>2. cursor' = cursor /\ items' = wanted'
          BY <1>1 DEF LayOut
      <4>3. QED
          BY <2>1, <4>1, <4>2
    <3>2. QED
        BY <3>1
  <2>3. QED
      BY <1>1, <2>1, <2>2 DEF LayOut, TypeOK, Claiming
<1>2. CASE ClaimWanted
    BY <1>2 DEF ClaimWanted, TypeOK, Claiming
<1>3. CASE FindTaken
    BY <1>3 DEF FindTaken, TypeOK, Claiming
<1>4. CASE ClaimSuffixed
  <2> DEFINE item == Suffixed(items[cursor], suffix)
             move == [internal_path |-> files[cursor].path,
                      wanted |-> output_path(items[cursor]),
                      used |-> output_path(item)]
  <2>1. Claiming /\ cursor \in 1 .. Len(items) /\ Len(files) = Len(items)
      BY <1>4 DEF ClaimSuffixed, TypeOK, Claiming
  <2>2. items[cursor] \in Item /\ files[cursor] \in Entry
    <3>1. items \in Seq(Item) /\ files \in Seq(Entry)
        BY DEF TypeOK
    <3>2. QED
        BY <2>1, <3>1
  <2>3. item \in Item
      BY <2>2, SuffixedType DEF TypeOK
  <2>4. move \in [internal_path : Paths, wanted : Path, used : Path]
      BY <2>2, <2>3, OutputPathType DEF Entry
  <2>5. /\ items' = [items EXCEPT ![cursor] = item]
        /\ renamed' = Append(renamed, move)
        /\ cursor' = cursor + 1 /\ suffix' = 0
        /\ UNCHANGED <<files, roots, layout, phase, wanted>>
      BY <1>4 DEF ClaimSuffixed
  <2> HIDE DEF item, move
  <2>6. items' \in Seq(Item) /\ Len(items') = Len(items)
      BY <2>1, <2>3, <2>5, ExceptSeq DEF TypeOK
  <2>7. renamed' \in Seq([internal_path : Paths, wanted : Path, used : Path])
      BY <2>4, <2>5, AppendProperties DEF TypeOK
  <2>8. cursor' \in 1 .. Len(items') + 1 /\ suffix' \in Nat /\ ~(suffix' > 0)
      BY <2>1, <2>5, <2>6
  <2>9. /\ files' \in Seq(Entry) /\ roots' \in RootList /\ layout' \in {"flat", "tree"}
        /\ phase' \in {"layout", "claim", "planned"}
        /\ wanted' \in Seq(Item) /\ Len(wanted') = Len(items')
        /\ Len(items') = (IF phase' = "layout" THEN 0 ELSE Len(files'))
      BY <2>5, <2>6 DEF TypeOK
  <2>10. QED
      BY <2>6, <2>7, <2>8, <2>9 DEF TypeOK
<1>5. CASE TryNextSuffix
    BY <1>5 DEF TryNextSuffix, TypeOK, Claiming
<1>6. CASE FinishPlan
    BY <1>6 DEF FinishPlan, TypeOK, Claiming
<1>7. CASE UNCHANGED planVars
    BY <1>7 DEF planVars, TypeOK, Claiming
<1>8. QED
    BY <1>1, <1>2, <1>3, <1>4, <1>5, <1>6, <1>7 DEF Next

(* Every variable of the planner keeps its type, whatever the source: no
   destination is left empty, no item is lost or added while destinations are
   settled, and the suffix loop is inside the claiming phase. *)
THEOREM TypeCorrect == Spec => []TypeOK
BY InitType, NextType, PTL DEF Spec
-----------------------------------------------------------------------------
(* Distinct destinations *)

(* disambiguate() keeps exactly the destinations of the settled items in
   `claimed`; distinctness alone does not survive a step without it. *)
Ledger == claimed = {Key(items[j]) : j \in Settled}

UniqueInv == TypeOK /\ Ledger /\ DistinctDestinations

LEMMA InitUnique == Init => UniqueInv
<1> SUFFICES ASSUME Init PROVE UniqueInv
    OBVIOUS
<1>1. TypeOK
    BY InitType
<1>2. cursor = 1 /\ claimed = {}
    BY DEF Init
<1>3. Settled = {}
    BY <1>2 DEF Settled
<1>4. QED
    BY <1>1, <1>2, <1>3 DEF UniqueInv, Ledger, DistinctDestinations

(* What a claim does: one more item is settled, on a key nobody had. *)
LEMMA ClaimKeepsUnique ==
    ASSUME UniqueInv, TypeOK',
           cursor \in Nat \ {0}, cursor' = cursor + 1,
           \A j \in Settled : items'[j] = items[j],
           Key(items'[cursor]) \notin claimed,
           claimed' = claimed \cup {Key(items'[cursor])}
    PROVE  UniqueInv'
<1>1. Settled' = Settled \cup {cursor} /\ cursor \notin Settled
    BY DEF Settled
<1> DEFINE K(j) == Key(items[j])
           L(j) == Key(items'[j])
<1>2. \A j \in Settled : L(j) = K(j)
    OBVIOUS
<1>3. claimed = {K(j) : j \in Settled} /\ \A j, k \in Settled : j # k => K(j) # K(k)
    BY DEF UniqueInv, Ledger, DistinctDestinations
<1> HIDE DEF K, L
<1>4. L(cursor) \notin claimed /\ claimed' = claimed \cup {L(cursor)}
    BY DEF L
<1>5. claimed' = {L(j) : j \in Settled'}
    BY <1>1, <1>2, <1>3, <1>4
<1>6. \A j, k \in Settled' : j # k => L(j) # L(k)
  <2>1. \A j \in Settled : L(j) \in claimed
      BY <1>2, <1>3
  <2>2. QED
      BY <2>1, <1>1, <1>2, <1>3, <1>4
<1>7. Ledger'
    BY <1>5 DEF Ledger, L, Key, LowerPath, output_path
<1>8. DistinctDestinations'
    BY <1>6 DEF DistinctDestinations, L, Key
<1>9. QED
    BY <1>7, <1>8 DEF UniqueInv

LEMMA NextUnique == UniqueInv /\ [Next]_planVars => UniqueInv'
<1> SUFFICES ASSUME UniqueInv, [Next]_planVars PROVE UniqueInv'
    OBVIOUS
<1>1. TypeOK /\ TypeOK'
    BY NextType DEF UniqueInv
<1>2. cursor \in Nat \ {0}
    BY <1>1 DEF TypeOK
<1>3. CASE LayOut
  <2>1. cursor = 1 /\ cursor' = 1 /\ claimed' = claimed
      BY <1>1, <1>3 DEF LayOut, TypeOK
  <2>2. Settled = {} /\ Settled' = {}
      BY <2>1 DEF Settled
  <2>3. QED
      BY <1>1, <2>1, <2>2 DEF UniqueInv, Ledger, DistinctDestinations
<1>4. CASE ClaimWanted
  <2>1. items' = items /\ cursor' = cursor + 1
        /\ Key(items[cursor]) \notin claimed
        /\ claimed' = claimed \cup {Key(items[cursor])}
      BY <1>4 DEF ClaimWanted, Key
  <2>2. QED
      BY <1>1, <1>2, <2>1, ClaimKeepsUnique
<1>5. CASE ClaimSuffixed
  <2> DEFINE item == Suffixed(items[cursor], suffix)
  <2>1. /\ items' = [items EXCEPT ![cursor] = item] /\ cursor' = cursor + 1
        /\ Key(item) \notin claimed
        /\ claimed' = claimed \cup {Key(item)}
        /\ Claiming
      BY <1>5 DEF ClaimSuffixed, Key
  <2> HIDE DEF item
  <2>2. items'[cursor] = item /\ \A j \in Settled : items'[j] = items[j]
    <3>1. items \in Seq(Item) /\ cursor \in DOMAIN items
        BY <1>1, <1>2, <2>1 DEF TypeOK, Claiming
    <3>2. \A j \in Settled : j \in DOMAIN items /\ j # cursor
        BY <3>1, <1>2 DEF Settled
    <3>3. QED
        BY <2>1, <3>1, <3>2
  <2>3. QED
      BY <1>1, <1>2, <2>1, <2>2, ClaimKeepsUnique
<1>6. CASE FindTaken \/ TryNextSuffix \/ FinishPlan \/ UNCHANGED planVars
  <2>1. UNCHANGED <<items, claimed, cursor>>
      BY <1>6 DEF FindTaken, TryNextSuffix, FinishPlan, planVars
  <2>2. Settled' = Settled
      BY <2>1 DEF Settled
  <2>3. QED
      BY <1>1, <2>1, <2>2 DEF UniqueInv, Ledger, DistinctDestinations
<1>7. QED
    BY <1>3, <1>4, <1>5, <1>6 DEF Next

(* No two files of one plan are given destinations that are equal or differ
   at most in ASCII case, for any files, roots and hash: disambiguate()'s "a
   destination no other item claims". *)
THEOREM UniqueDestinations == Spec => []DistinctDestinations
<1>1. UniqueInv => DistinctDestinations
    BY DEF UniqueInv
<1>2. QED
    BY InitUnique, NextUnique, <1>1, PTL DEF Spec
-----------------------------------------------------------------------------
(* The plan implements the abstract naming *)

(* Items behind the cursor have what they wanted, and the suffix loop runs
   only for a wish somebody holds. *)
Pending ==
    /\ \A k \in cursor .. Len(items) : items[k] = wanted[k]
    /\ suffix > 0 => Key(wanted[cursor]) \in claimed

NamingInv == UniqueInv /\ Pending

LEMMA InitNaming == Init => NamingInv
<1> SUFFICES ASSUME Init PROVE NamingInv
    OBVIOUS
<1>1. UniqueInv /\ TypeOK
    BY InitUnique, InitType
<1>2. phase = "layout" /\ suffix = 0 /\ cursor = 1
    BY DEF Init
<1>3. cursor .. Len(items) = {} /\ ~(suffix > 0)
    BY <1>1, <1>2 DEF TypeOK
<1>4. QED
    BY <1>1, <1>3 DEF NamingInv, Pending

LEMMA NextNaming == NamingInv /\ [Next]_planVars => NamingInv'
<1> SUFFICES ASSUME NamingInv, [Next]_planVars PROVE NamingInv'
    OBVIOUS
<1>1. TypeOK /\ TypeOK' /\ UniqueInv'
    BY NextUnique, NextType DEF NamingInv, UniqueInv
<1>2. cursor \in Nat \ {0} /\ Len(items) \in Nat /\ suffix \in Nat
    BY <1>1 DEF TypeOK
<1>3. CASE LayOut
  <2>1. items' = wanted' /\ suffix' = suffix /\ ~(suffix > 0)
      BY <1>1, <1>3 DEF LayOut, TypeOK, Claiming
  <2>2. QED
      BY <1>1, <2>1 DEF NamingInv, Pending
<1>4. CASE ClaimWanted
  <2>1. cursor' = cursor + 1 /\ suffix' = 0 /\ UNCHANGED <<items, wanted>>
      BY <1>4 DEF ClaimWanted
  <2>2. \A k \in cursor' .. Len(items') : items'[k] = wanted'[k]
      BY <1>2, <2>1 DEF NamingInv, Pending
  <2>3. QED
      BY <1>1, <2>1, <2>2 DEF NamingInv, Pending
<1>5. CASE FindTaken
  <2>1. UNCHANGED <<items, wanted, cursor, claimed>> /\ Key(items[cursor]) \in claimed
      BY <1>5 DEF FindTaken, Key
  <2>2. cursor \in cursor .. Len(items)
      BY <1>2, <1>5 DEF FindTaken, Claiming
  <2>3. items[cursor] = wanted[cursor]
      BY <2>2 DEF NamingInv, Pending
  <2>4. Key(wanted[cursor])' \in claimed'
      BY <2>1, <2>3
  <2>5. QED
      BY <1>1, <2>1, <2>4 DEF NamingInv, Pending
<1>6. CASE ClaimSuffixed
  <2> DEFINE item == Suffixed(items[cursor], suffix)
  <2>1. /\ items' = [items EXCEPT ![cursor] = item]
        /\ cursor' = cursor + 1 /\ suffix' = 0 /\ wanted' = wanted
      BY <1>6 DEF ClaimSuffixed
  <2> HIDE DEF item
  <2>2. \A k \in cursor' .. Len(items') : items'[k] = wanted'[k]
    <3>1. Len(items') = Len(items) /\ items \in Seq(Item)
        BY <1>1, <1>6 DEF TypeOK, ClaimSuffixed
    <3>2. \A k \in cursor + 1 .. Len(items) : k \in DOMAIN items /\ k # cursor
        BY <1>2, <3>1
    <3>3. \A k \in cursor + 1 .. Len(items) : items'[k] = items[k]
        BY <2>1, <3>2
    <3>4. QED
        BY <1>2, <2>1, <3>1, <3>3 DEF NamingInv, Pending
  <2>3. QED
      BY <1>1, <2>1, <2>2 DEF NamingInv, Pending
<1>7. CASE TryNextSuffix
  <2>1. UNCHANGED <<items, wanted, cursor, claimed>> /\ suffix > 0
      BY <1>7 DEF TryNextSuffix
  <2>2. Key(wanted[cursor])' = Key(wanted[cursor])
      BY <2>1
  <2>3. QED
      BY <1>1, <2>1, <2>2 DEF NamingInv, Pending
<1>8. CASE FinishPlan \/ UNCHANGED planVars
  <2>1. UNCHANGED <<items, wanted, cursor, claimed, suffix>>
      BY <1>8 DEF FinishPlan, planVars
  <2>2. Key(wanted[cursor])' = Key(wanted[cursor])
      BY <2>1
  <2>3. QED
      BY <1>1, <2>1, <2>2 DEF NamingInv, Pending
<1>9. QED
    BY <1>3, <1>4, <1>5, <1>6, <1>7, <1>8 DEF Next

(* Settling one more item places one more key. *)
LEMMA ClaimPlaces ==
    ASSUME NamingInv, TypeOK', cursor \in 1 .. Len(items),
           cursor' = cursor + 1, wanted' = wanted,
           \A j \in Settled : items'[j] = items[j],
           Key(items'[cursor]) \notin claimed,
           Key(wanted[cursor]) \notin claimed => Key(items'[cursor]) = Key(wanted[cursor])
    PROVE  Naming!Place
<1> DEFINE K(j) == Key(items[j])
           L(j) == Key(items'[j])
           W(j) == Key(wanted[j])
<1>1. \A j \in Settled : L(j) = K(j)
    OBVIOUS
<1>2. cursor \in Nat \ {0} /\ Len(wanted) = Len(items) /\ Len(items) \in Nat
      /\ DOMAIN wanted = 1 .. Len(wanted)
    BY DEF NamingInv, UniqueInv, TypeOK
<1>3. claimed = {K(j) : j \in Settled}
    BY DEF NamingInv, UniqueInv, Ledger
<1>4. PlacedKeys = [j \in 1 .. cursor - 1 |-> K(j)]
    BY DEF PlacedKeys, Settled
<1>5. PlacedKeys' = [j \in 1 .. cursor |-> L(j)]
    BY <1>2 DEF PlacedKeys, Settled
<1>6. WantedKeys = [j \in 1 .. Len(items) |-> W(j)] /\ WantedKeys' = WantedKeys
    BY <1>2 DEF WantedKeys, Key
<1>7. L(cursor) \notin claimed /\ (W(cursor) \notin claimed => L(cursor) = W(cursor))
    OBVIOUS
<1> HIDE DEF K, L, W
<1>8. Len(PlacedKeys) = cursor - 1 /\ Len(PlacedKeys') = cursor /\ Len(WantedKeys) = Len(items)
    BY <1>2, <1>4, <1>5, <1>6
<1>9. Naming!Front(PlacedKeys') = PlacedKeys
    BY <1>1, <1>2, <1>4, <1>5, <1>8, SMTT(40) DEF Naming!Front, Settled
<1>10. Naming!Last(PlacedKeys') = L(cursor)
    BY <1>2, <1>5, <1>8 DEF Naming!Last
<1>11. Naming!ToSet(PlacedKeys) = claimed
    BY <1>3, <1>4 DEF Naming!ToSet, Settled
<1>12. WantedKeys[cursor] = W(cursor)
    BY <1>6
<1>13. Len(PlacedKeys) + 1 = cursor
    BY <1>2, <1>8
<1>14. cursor <= Len(WantedKeys) /\ Len(PlacedKeys') = cursor
    BY <1>8
<1>15. /\ Naming!Last(PlacedKeys') \notin Naming!ToSet(PlacedKeys)
       /\ WantedKeys[cursor] \notin Naming!ToSet(PlacedKeys) => Naming!Last(PlacedKeys') = WantedKeys[cursor]
    BY <1>7, <1>10, <1>11, <1>12
<1>16. WantedKeys' = WantedKeys
    BY <1>6
<1>17. QED
    BY <1>9, <1>13, <1>14, <1>15, <1>16 DEF Naming!Place

LEMMA StepNames ==
    NamingInv /\ [Next]_planVars => [Naming!Next]_<<WantedKeys, PlacedKeys>>
<1> SUFFICES ASSUME NamingInv, [Next]_planVars
             PROVE  [Naming!Next]_<<WantedKeys, PlacedKeys>>
    OBVIOUS
<1>1. TypeOK /\ TypeOK'
    BY NextType DEF NamingInv, UniqueInv
<1>2. cursor \in Nat \ {0}
    BY <1>1 DEF TypeOK
<1>3. CASE LayOut
  <2>1. cursor = 1 /\ cursor' = 1 /\ Len(wanted) = 0 /\ wanted \in Seq(Item)
      BY <1>1, <1>3 DEF LayOut, TypeOK
  <2>2. PlacedKeys = <<>> /\ PlacedKeys' = <<>>
      BY <2>1 DEF PlacedKeys, Settled
  <2>3. WantedKeys = <<>>
      BY <2>1 DEF WantedKeys
  <2>4. QED
      BY <2>2, <2>3 DEF Naming!Next, Naming!Ask
<1>4. CASE ClaimWanted
  <2>1. /\ cursor' = cursor + 1 /\ wanted' = wanted /\ items' = items
        /\ Key(items[cursor]) \notin claimed
        /\ cursor \in cursor .. Len(items) /\ cursor \in 1 .. Len(items)
      BY <1>1, <1>2, <1>4 DEF ClaimWanted, Claiming, Key, TypeOK
  <2>2. items[cursor] = wanted[cursor]
      BY <2>1 DEF NamingInv, Pending
  <2>3. Naming!Place
      BY <1>1, <2>1, <2>2, ClaimPlaces
  <2>4. QED
      BY <2>3 DEF Naming!Next
<1>5. CASE ClaimSuffixed
  <2> DEFINE item == Suffixed(items[cursor], suffix)
  <2>1. /\ items' = [items EXCEPT ![cursor] = item]
        /\ cursor' = cursor + 1 /\ wanted' = wanted /\ suffix > 0
        /\ Key(item) \notin claimed /\ Claiming
      BY <1>5 DEF ClaimSuffixed, Key
  <2> HIDE DEF item
  <2>2. items \in Seq(Item) /\ cursor \in 1 .. Len(items)
      BY <1>1, <1>2, <2>1 DEF TypeOK, Claiming
  <2>3. items'[cursor] = item /\ \A j \in Settled : items'[j] = items[j]
    <3>1. \A j \in Settled : j \in DOMAIN items /\ j # cursor
        BY <2>2 DEF Settled
    <3>2. QED
        BY <2>1, <2>2, <3>1
  <2>4. Key(wanted[cursor]) \in claimed
      BY <2>1 DEF NamingInv, Pending
  <2>5. Naming!Place
      BY <1>1, <2>1, <2>2, <2>3, <2>4, ClaimPlaces
  <2>6. QED
      BY <2>5 DEF Naming!Next
<1>6. CASE FindTaken \/ TryNextSuffix \/ FinishPlan \/ UNCHANGED planVars
  <2>1. UNCHANGED <<items, wanted, cursor>>
      BY <1>6 DEF FindTaken, TryNextSuffix, FinishPlan, planVars
  <2>2. UNCHANGED <<WantedKeys, PlacedKeys>>
      BY <2>1 DEF WantedKeys, PlacedKeys, Settled, Key
  <2>3. QED
      BY <2>2
<1>7. QED
    BY <1>3, <1>4, <1>5, <1>6 DEF Next

(* plan() and plan_tree() keep the promise of UniqueNaming: files are placed
   one after another, each gets the key it wants if that is free and a free
   one otherwise, and no key once given is taken back. *)
THEOREM PlanImplementsNaming == Spec => ImplementsNaming
<1>1. Init => Naming!Init
  <2> SUFFICES ASSUME Init PROVE Naming!Init
      OBVIOUS
  <2>1. wanted = <<>> /\ cursor = 1
      BY DEF Init
  <2>2. WantedKeys = <<>> /\ PlacedKeys = <<>>
      BY <2>1 DEF WantedKeys, PlacedKeys, Settled
  <2>3. QED
      BY <2>2 DEF Naming!Init
<1>2. QED
    BY <1>1, InitNaming, NextNaming, StepNames, PTL DEF Spec, ImplementsNaming, Naming!Spec
-----------------------------------------------------------------------------
(* The run of a plan *)

RunJob == [path : Paths, entry : Entry, out : Path]

RunType ==
    /\ TypeOK
    /\ entries \in Seq(Entry)
    /\ jobs \in Seq(RunJob)
    /\ at \in Nat \ {0}
    /\ side \in Nat
    /\ report \in Seq(Range(report))
    /\ skipped \in Seq(Range(skipped))

(* No complete report is on disk. *)
Unreported == \A k \in DOMAIN disk : disk[k] # [body |-> ReportBody, whole |-> TRUE]

MainReported(j) == \E r \in Range(report) : r.path = jobs[j].path /\ r.out = jobs[j].out

SideReported(j, k) ==
    LET from == SidecarOf(jobs[j].path, Sidecar[k])
    IN  jobs[j].entry.body \in DbBody /\ by_path(from) # 0
        => \E r \in Range(report) :
              /\ r.path = from
              /\ r.out = SidecarOf(jobs[j].out, Sidecar[k])
              /\ r.body = entries[by_path(from)].body

Handled(j) ==
    \/ Record(jobs[j]) \in Range(skipped)
    \/ MainReported(j) /\ \A k \in DOMAIN Sidecar : SideReported(j, k)

(* The jobs before the current one are dealt with, the current one as far as
   the command has come, and the report is the last thing written. *)
Progress ==
    /\ step = "plan" => at = 1
    /\ step # "done" => Unreported
    /\ \A j \in DOMAIN jobs : j < at => Handled(j)
    /\ step \in {"write", "sidecars"} => at \in DOMAIN jobs
    /\ step = "sidecars" =>
          /\ side # 0
          /\ MainReported(at)
          /\ \A k \in DOMAIN Sidecar : k < side => SideReported(at, k)
    /\ step \in {"report", "done"} => at > Len(jobs)

RunInv == RunType /\ Progress

LEMMA ByPathIn ==
    ASSUME entries \in Seq(Entry), NEW path, by_path(path) # 0
    PROVE  by_path(path) \in DOMAIN entries /\ entries[by_path(path)].path = path
PROOF
<1> DEFINE I == {i \in 1 .. Len(entries) : entries[i].path = path}
<1>1. by_path(path) = IF I # {} THEN Max(I) ELSE 0
    BY DEF by_path, SelectLastInSeq
<1>2. I # {} /\ Max(I) = by_path(path)
    BY <1>1
<1>3. Len(entries) \in Nat /\ I \in SUBSET (0 .. Len(entries))
    OBVIOUS
<1>4. \E m \in I : \A n \in I : n <= m
    BY <1>2, <1>3, GreatestNatural
<1>5. Max(I) \in I
    BY <1>3, <1>4 DEF Max
<1> QED
    BY <1>2, <1>5

LEMMA SourceEntries ==
    ASSUME NEW source \in Sources
    PROVE  source \in Seq(Entry)
    BY RunAssumption

LEMMA RunInitInv == RunInit => RunInv
PROOF
<1> SUFFICES ASSUME RunInit
             PROVE  RunInv
    OBVIOUS
<1>1. TypeOK
    BY InitType DEF RunInit
<1>2. entries \in Seq(Entry)
    BY SourceEntries DEF RunInit
<1>3. RunType
    BY <1>1, <1>2 DEF RunType, RunInit, Range
<1>4. Progress
    BY DEF Progress, RunInit, Unreported
<1> QED
    BY <1>3, <1>4 DEF RunInv

LEMMA ByPathStays ==
    ASSUME entries' = entries
    PROVE  \A path : by_path(path)' = by_path(path)
PROOF
<1> TAKE path
<1> DEFINE I == {i \in 1 .. Len(entries) : entries[i].path = path}
<1>1. by_path(path) = IF I # {} THEN Max(I) ELSE 0
    BY DEF by_path, SelectLastInSeq
<1>2. by_path(path)' = IF I' # {} THEN Max(I') ELSE 0
    BY DEF by_path, SelectLastInSeq, Max
<1>3. I' = I
    OBVIOUS
<1> QED
    BY <1>1, <1>2, <1>3

(* Growing records keep what was dealt with. *)
LEMMA RecordsGrow ==
    ASSUME jobs' = jobs, entries' = entries, Range(report) \subseteq Range(report'),
           Range(skipped) \subseteq Range(skipped')
    PROVE  \A j : /\ MainReported(j) => MainReported(j)'
                  /\ \A k : SideReported(j, k) => SideReported(j, k)'
                  /\ Handled(j) => Handled(j)'
PROOF
<1>1. ASSUME NEW j, MainReported(j)
      PROVE  MainReported(j)'
    BY <1>1 DEF MainReported
<1>2. ASSUME NEW j, NEW k, SideReported(j, k)
      PROVE  SideReported(j, k)'
    <2> PICK from : from = SidecarOf(jobs[j].path, Sidecar[k])
        OBVIOUS
    <2>1. by_path(from)' = by_path(from)
        BY ByPathStays
    <2>2. SidecarOf(jobs[j].path, Sidecar[k])' = from
        BY DEF SidecarOf
    <2> QED
        BY <1>2, <2>1, <2>2 DEF SideReported, SidecarOf
<1>3. ASSUME NEW j, Record(jobs[j]) \in Range(skipped)
      PROVE  (Record(jobs[j]) \in Range(skipped))'
    BY <1>3 DEF Record
<1>4. ASSUME NEW j, Handled(j)
      PROVE  Handled(j)'
    BY <1>1, <1>2, <1>3, <1>4 DEF Handled
<1> QED
    BY <1>1, <1>2, <1>4

LEMMA StoredUnreported ==
    ASSUME Unreported, NEW key, NEW body, NEW whole,
           body # ReportBody \/ whole = FALSE,
           disk' = Stored(key, body, whole)
    PROVE  Unreported'
PROOF
<1>1. [body |-> body, whole |-> whole] # [body |-> ReportBody, whole |-> TRUE]
    OBVIOUS
<1> QED
    BY <1>1 DEF Unreported, Stored

LEMMA CutShortUnreported ==
    ASSUME Unreported, CutShort
    PROVE  Unreported'
PROOF
<1>1. CASE disk' = disk
    BY <1>1 DEF Unreported
<1>2. CASE disk' = Stored(FsKey(Target.out), Target.body, FALSE)
    BY <1>2, StoredUnreported
<1> QED
    BY <1>1, <1>2 DEF CutShort

LEMMA PlanStays ==
    ASSUME TypeOK, UNCHANGED planVars
    PROVE  TypeOK'
    BY NextType

LEMMA FreshJobsType ==
    ASSUME TypeOK, phase = "planned"
    PROVE  FreshJobs \in Seq(RunJob)
PROOF
<1>1. /\ files \in Seq(Entry) /\ items \in Seq(Item)
      /\ Len(items) \in Nat /\ DOMAIN items = 1 .. Len(items) /\ DOMAIN items = DOMAIN files
    BY DEF TypeOK
<1>2. ASSUME NEW k \in DOMAIN items
      PROVE  [path |-> files[k].path, entry |-> files[k], out |-> output_path(items[k])] \in RunJob
    <2>1. files[k] \in Entry /\ items[k] \in Item
        BY <1>1
    <2>2. output_path(items[k]) \in Path
        BY <2>1, OutputPathType
    <2> QED
        BY <2>1, <2>2 DEF RunJob, Entry
<1>3. FreshJobs \in [1 .. Len(items) -> RunJob]
    BY <1>1, <1>2 DEF FreshJobs
<1> QED
    BY <1>1, <1>3

LEMMA ManifestJobsType ==
    ASSUME TypeOK, entries \in Seq(Entry), phase = "planned"
    PROVE  ManifestJobs \in Seq(RunJob)
PROOF
<1> DEFINE before == {p \in Held \X Held : p[1] < p[2]}
           held == InOrder(Held, before)
           job(k) == [path |-> files[k].path, entry |-> entries[by_path(files[k].path)],
                      out |-> output_path(items[k])]
<1>1. /\ files \in Seq(Entry) /\ items \in Seq(Item)
      /\ Len(items) \in Nat /\ DOMAIN items = 1 .. Len(items) /\ DOMAIN items = DOMAIN files
    BY DEF TypeOK
<1>2. Held \in SUBSET (1 .. Len(items)) /\ IsFiniteSet(1 .. Len(items))
    BY <1>1, FS_Interval DEF Held
<1>3. IsFiniteSet(Held)
    BY <1>2, FS_Subset
<1>4. /\ \A x \in Held : <<x, x>> \notin before
      /\ \A x, y, z \in Held : <<x, y>> \in before /\ <<y, z>> \in before => <<x, z>> \in before
      /\ \A x, y \in Held : x # y => <<x, y>> \in before \/ <<y, x>> \in before
    BY <1>2
<1> HIDE DEF before
<1>5. /\ Cardinality(Held) \in Nat
      /\ DOMAIN held = 1 .. Cardinality(Held)
      /\ \A n \in 1 .. Cardinality(Held) : held[n] \in Held
    BY <1>3, <1>4, InOrderOk
<1>6. ASSUME NEW k \in Held
      PROVE  job(k) \in RunJob
    <2>1. files[k] \in Entry /\ items[k] \in Item /\ by_path(files[k].path) # 0
        BY <1>1, <1>2 DEF Held
    <2>2. output_path(items[k]) \in Path
        BY <2>1, OutputPathType
    <2>3. by_path(files[k].path) \in DOMAIN entries
        BY <2>1, ByPathIn
    <2>4. entries[by_path(files[k].path)] \in Entry
        BY <2>3
    <2> QED
        BY <2>1, <2>2, <2>4 DEF RunJob, Entry
<1>7. ManifestJobs = [n \in DOMAIN held |-> job(held[n])]
    BY DEF ManifestJobs, before
<1> HIDE DEF held, job
<1>8. ManifestJobs \in [1 .. Cardinality(Held) -> RunJob]
    BY <1>5, <1>6, <1>7
<1> QED
    BY <1>5, <1>8

LEMMA AcceptStep ==
    ASSUME RunInv, Accept
    PROVE  RunInv'
PROOF
<1>1. jobs' \in Seq(RunJob)
    BY FreshJobsType, ManifestJobsType DEF Accept, RunInv, RunType
<1>2. TypeOK'
    BY PlanStays DEF RunInv, RunType, Accept
<1>3. RunType'
    BY <1>1, <1>2 DEF RunInv, RunType, Accept, Range
<1>4. Unreported' /\ at = 1
    BY DEF RunInv, Progress, Accept, Unreported
<1>5. Progress'
    BY <1>1, <1>4 DEF Progress, Accept
<1> QED
    BY <1>3, <1>5 DEF RunInv

(* A step that keeps the plan, the source and the jobs, and only adds to the
   records, keeps the types. *)
LEMMA StepTypes ==
    ASSUME RunType, UNCHANGED <<planVars, entries, jobs>>, at' \in Nat \ {0}, side' \in Nat,
           report' = report \/ (\E r : report' = Append(report, r)),
           skipped' = skipped \/ (\E r : skipped' = Append(skipped, r))
    PROVE  /\ RunType'
           /\ Range(report) \subseteq Range(report')
           /\ Range(skipped) \subseteq Range(skipped')
           /\ \A r : report' = Append(report, r) => r \in Range(report')
           /\ \A r : skipped' = Append(skipped, r) => r \in Range(skipped')
PROOF
<1>1. TypeOK'
    BY PlanStays DEF RunType
<1>2. /\ report' \in Seq(Range(report')) /\ Range(report) \subseteq Range(report')
      /\ \A r : report' = Append(report, r) => r \in Range(report')
    <2>1. report \in Seq(Range(report))
        BY DEF RunType
    <2>2. ASSUME NEW r, report' = Append(report, r)
          PROVE  /\ report' \in Seq(Range(report')) /\ Range(report) \subseteq Range(report')
                 /\ r \in Range(report')
        BY <2>1, <2>2, AppendRange
    <2>3. CASE report' = report
        BY <2>1, <2>2, <2>3
    <2> QED
        BY <2>2, <2>3
<1>3. /\ skipped' \in Seq(Range(skipped')) /\ Range(skipped) \subseteq Range(skipped')
      /\ \A r : skipped' = Append(skipped, r) => r \in Range(skipped')
    <2>1. skipped \in Seq(Range(skipped))
        BY DEF RunType
    <2>2. ASSUME NEW r, skipped' = Append(skipped, r)
          PROVE  /\ skipped' \in Seq(Range(skipped')) /\ Range(skipped) \subseteq Range(skipped')
                 /\ r \in Range(skipped')
        BY <2>1, <2>2, AppendRange
    <2>3. CASE skipped' = skipped
        BY <2>1, <2>2, <2>3
    <2> QED
        BY <2>2, <2>3
<1>4. (Range(report))' = Range(report') /\ (Range(skipped))' = Range(skipped')
    BY DEF Range
<1>5. RunType'
    BY <1>1, <1>2, <1>3, <1>4 DEF RunType
<1> QED
    BY <1>2, <1>3, <1>5

LEMMA SkipTooLongStep ==
    ASSUME RunInv, SkipTooLong
    PROVE  RunInv'
PROOF
<1>1. RunType /\ at \in Nat \ {0}
    BY DEF RunInv, RunType
<1>2. /\ UNCHANGED <<planVars, entries, jobs>> /\ at' \in Nat \ {0} /\ side' \in Nat
      /\ report' = report /\ skipped' = Append(skipped, Record(Job))
      /\ at' = at + 1 /\ disk' = disk /\ step' = "check" /\ step = "check"
    BY <1>1 DEF SkipTooLong, RunType
<1>3. /\ RunType' /\ Range(report) \subseteq Range(report')
      /\ Range(skipped) \subseteq Range(skipped')
      /\ Record(Job) \in Range(skipped')
    BY <1>1, <1>2, StepTypes
<1>4. \A j : Handled(j) => Handled(j)'
    BY <1>2, <1>3, RecordsGrow
<1> PICK n : n = at
    OBVIOUS
<1>5. Handled(n)'
    <2>1. Record(jobs[n])' = Record(Job)
        BY <1>2 DEF Record, Job
    <2> QED
        BY <1>3, <2>1 DEF Handled
<1>6. ASSUME NEW j \in DOMAIN jobs', j < at'
      PROVE  Handled(j)'
    <2>1. CASE j = n
        BY <1>5, <2>1
    <2>2. CASE j < at
        BY <1>2, <1>4, <1>6, <2>2 DEF RunInv, Progress
    <2>3. Len(jobs) \in Nat /\ DOMAIN jobs = 1 .. Len(jobs)
        BY <1>1 DEF RunType
    <2> QED
        BY <1>1, <1>2, <1>6, <2>1, <2>2, <2>3
<1>7. Unreported'
    BY <1>2 DEF RunInv, Progress, Unreported
<1>8. Progress'
    BY <1>2, <1>6, <1>7 DEF Progress
<1> QED
    BY <1>3, <1>8 DEF RunInv

LEMMA PassGuardStep ==
    ASSUME RunInv, PassGuard
    PROVE  RunInv'
PROOF
<1>1. RunType /\ at \in DOMAIN jobs
    BY DEF RunInv, RunType, PassGuard, Writing
<1>2. /\ UNCHANGED <<planVars, entries, jobs, report, skipped, at, side, disk>>
      /\ at' \in Nat \ {0} /\ side' \in Nat /\ step' = "write" /\ step = "check"
    BY <1>1 DEF PassGuard, RunType
<1>3. RunType'
    BY <1>1, <1>2, StepTypes
<1>4. \A j : Handled(j) => Handled(j)'
    BY <1>2, RecordsGrow
<1>5. Unreported'
    BY <1>2 DEF RunInv, Progress, Unreported
<1>6. Progress'
    BY <1>1, <1>2, <1>4, <1>5 DEF RunInv, Progress
<1> QED
    BY <1>3, <1>6 DEF RunInv

LEMMA WriteMainStep ==
    ASSUME RunInv, WriteMain
    PROVE  RunInv'
PROOF
<1>1. /\ RunType /\ Unreported /\ step = "write" /\ at \in DOMAIN jobs
      /\ Job.entry.body \in Body
    <2>1. RunType /\ Unreported /\ step = "write" /\ at \in DOMAIN jobs
        BY DEF RunInv, Progress, WriteMain
    <2>2. jobs[at] \in RunJob
        BY <2>1 DEF RunType
    <2> QED
        BY <2>1, <2>2 DEF Job, RunJob, Entry
<1>2. PICK whole \in BOOLEAN :
         /\ disk' = Stored(FsKey(Job.out), Job.entry.body, whole)
         /\ report' = Append(report, FileRecord(Job.path, Job.out, Job.entry, whole))
    BY DEF WriteMain
<1> DEFINE new == FileRecord(Job.path, Job.out, Job.entry, whole)
<1>3. /\ UNCHANGED <<planVars, entries, jobs, skipped, at>> /\ side' = 1 /\ step' = "sidecars"
      /\ report' = Append(report, new)
      /\ new.path = jobs[at].path /\ new.out = jobs[at].out
    BY <1>2 DEF WriteMain, FileRecord, Job
<1> HIDE DEF new
<1>4. at' \in Nat \ {0} /\ side' \in Nat
    BY <1>1, <1>3 DEF RunType
<1>5. /\ RunType' /\ Range(report) \subseteq Range(report')
      /\ Range(skipped) \subseteq Range(skipped') /\ new \in Range(report')
    BY <1>1, <1>3, <1>4, StepTypes
<1>6. \A j : Handled(j) => Handled(j)'
    BY <1>3, <1>5, RecordsGrow
<1>7. MainReported(at)'
    BY <1>3, <1>5 DEF MainReported
<1>8. Unreported'
    BY <1>1, <1>2, RunAssumption, StoredUnreported
<1>9. Sidecar \in Seq(Char)
    BY RunAssumption
<1>10. Progress'
    BY <1>1, <1>3, <1>6, <1>7, <1>8, <1>9 DEF RunInv, Progress
<1> QED
    BY <1>5, <1>10 DEF RunInv

LEMMA WriteSidecarStep ==
    ASSUME RunInv, WriteSidecar
    PROVE  RunInv'
PROOF
<1>1. /\ RunType /\ Unreported /\ step = "sidecars" /\ at \in DOMAIN jobs
      /\ MainReported(at)
      /\ side \in Nat /\ side # 0 /\ at \in Nat \ {0}
    BY DEF RunInv, RunType, Progress, WriteSidecar
<1>2. by_path(SidePath) # 0
    BY DEF WriteSidecar, HasSidecar
<1>3. SideEntry.body \in Body
    <2>1. by_path(SidePath) \in DOMAIN entries
        BY <1>1, <1>2, ByPathIn DEF RunType
    <2>2. SideEntry \in Entry
        BY <1>1, <2>1 DEF SideEntry, RunType
    <2> QED
        BY <2>2 DEF Entry
<1>4. PICK whole \in BOOLEAN :
         /\ disk' = Stored(FsKey(SideOut), SideEntry.body, whole)
         /\ report' = Append(report, FileRecord(SidePath, SideOut, SideEntry, whole))
    BY DEF WriteSidecar
<1> DEFINE new == FileRecord(SidePath, SideOut, SideEntry, whole)
<1>5. /\ UNCHANGED <<planVars, entries, jobs, skipped, at>> /\ side' = side + 1
      /\ step' = "sidecars" /\ report' = Append(report, new)
      /\ new.path = SidePath /\ new.out = SideOut /\ new.body = SideEntry.body
    BY <1>1, <1>4 DEF WriteSidecar, FileRecord
<1> HIDE DEF new
<1>6. at' \in Nat \ {0} /\ side' \in Nat /\ side' # 0
    BY <1>1, <1>5
<1>7. /\ RunType' /\ Range(report) \subseteq Range(report')
      /\ Range(skipped) \subseteq Range(skipped') /\ new \in Range(report')
    BY <1>1, <1>5, <1>6, StepTypes
<1>8. \A j : /\ Handled(j) => Handled(j)'
             /\ MainReported(j) => MainReported(j)'
             /\ \A k : SideReported(j, k) => SideReported(j, k)'
    BY <1>5, <1>7, RecordsGrow
<1> PICK n : n = at
    OBVIOUS
<1> PICK m : m = side
    OBVIOUS
<1>9. SideReported(n, m)'
    <2> PICK from : from = SidecarOf(jobs[n].path, Sidecar[m])
        OBVIOUS
    <2>1. SidePath = from /\ new.path = from /\ new.out = SidecarOf(jobs[n].out, Sidecar[m])
        BY <1>5 DEF SidePath, SideOut, Job
    <2>2. new.body = entries[by_path(from)].body
        BY <1>5, <2>1 DEF SideEntry
    <2>3. by_path(from)' = by_path(from)
        BY <1>5, ByPathStays
    <2>4. /\ SidecarOf(jobs[n].path, Sidecar[m])' = from
          /\ SidecarOf(jobs[n].out, Sidecar[m])' = SidecarOf(jobs[n].out, Sidecar[m])
        BY <1>5 DEF SidecarOf
    <2> QED
        BY <1>5, <1>7, <2>1, <2>2, <2>3, <2>4 DEF SideReported
<1>10. Unreported'
    BY <1>1, <1>3, <1>4, RunAssumption, StoredUnreported
<1>11. Sidecar \in Seq(Char) /\ Len(Sidecar) \in Nat /\ DOMAIN Sidecar = 1 .. Len(Sidecar)
    BY RunAssumption
<1>12. ASSUME NEW k \in DOMAIN Sidecar, k < side'
       PROVE  SideReported(n, k)'
    <2>1. CASE k = m
        BY <1>9, <2>1
    <2>2. CASE k < side
        <3>1. SideReported(n, k)
            BY <1>1, <1>12, <2>2 DEF RunInv, Progress
        <3> QED
            BY <1>8, <3>1
    <2> QED
        BY <1>1, <1>5, <1>11, <1>12, <2>1, <2>2
<1>13. Progress'
    <2>1. MainReported(at)'
        BY <1>1, <1>5, <1>8 DEF MainReported
    <2>2. \A k \in DOMAIN Sidecar : k < side' => SideReported(at, k)'
        BY <1>5, <1>12 DEF SideReported
    <2> QED
        BY <1>1, <1>5, <1>6, <1>8, <1>10, <2>1, <2>2 DEF RunInv, Progress
<1> QED
    BY <1>7, <1>13 DEF RunInv

LEMMA PassSidecarStep ==
    ASSUME RunInv, PassSidecar
    PROVE  RunInv'
PROOF
<1>1. /\ RunType /\ step = "sidecars" /\ at \in DOMAIN jobs
      /\ side \in Nat /\ side # 0 /\ at \in Nat \ {0}
    BY DEF RunInv, RunType, Progress, PassSidecar
<1>2. /\ UNCHANGED <<planVars, entries, jobs, report, skipped, at, disk, step>>
      /\ side' = side + 1 /\ by_path(SidePath) = 0
    BY DEF PassSidecar
<1>3. at' \in Nat \ {0} /\ side' \in Nat /\ side' # 0
    BY <1>1, <1>2
<1>4. RunType'
    BY <1>1, <1>2, <1>3, StepTypes
<1>5. \A j : /\ Handled(j) => Handled(j)'
             /\ MainReported(j) => MainReported(j)'
             /\ \A k : SideReported(j, k) => SideReported(j, k)'
    BY <1>2, RecordsGrow
<1> PICK n : n = at
    OBVIOUS
<1>6. SideReported(n, side)
    BY <1>2 DEF SideReported, SidePath, Job
<1>7. Sidecar \in Seq(Char) /\ Len(Sidecar) \in Nat /\ DOMAIN Sidecar = 1 .. Len(Sidecar)
    BY RunAssumption
<1>8. ASSUME NEW k \in DOMAIN Sidecar, k < side'
      PROVE  SideReported(n, k)'
    <2>1. SideReported(n, k)
        BY <1>1, <1>2, <1>6, <1>7, <1>8 DEF RunInv, Progress
    <2> QED
        BY <1>5, <2>1
<1>9. MainReported(at)'
    <2>1. MainReported(n)
        BY <1>1 DEF RunInv, Progress
    <2>2. MainReported(n)'
        BY <1>5, <2>1
    <2> QED
        BY <1>2, <2>2 DEF MainReported
<1>10. \A k \in DOMAIN Sidecar : k < side' => SideReported(at, k)'
    BY <1>2, <1>8 DEF SideReported
<1>11. Unreported'
    BY <1>1, <1>2 DEF RunInv, Progress, Unreported
<1>12. Progress'
    BY <1>1, <1>2, <1>3, <1>5, <1>9, <1>10, <1>11 DEF RunInv, Progress
<1> QED
    BY <1>4, <1>12 DEF RunInv

LEMMA NextFileStep ==
    ASSUME RunInv, NextFile
    PROVE  RunInv'
PROOF
<1>1. /\ RunType /\ step = "sidecars" /\ at \in DOMAIN jobs /\ at \in Nat \ {0}
      /\ side \in Nat /\ Len(jobs) \in Nat /\ DOMAIN jobs = 1 .. Len(jobs)
    BY DEF RunInv, RunType, Progress, NextFile
<1>2. /\ UNCHANGED <<planVars, entries, jobs, report, skipped, disk>>
      /\ at' = at + 1 /\ side' = 0 /\ step' = "check"
    BY DEF NextFile
<1>3. at' \in Nat \ {0} /\ side' \in Nat
    BY <1>1, <1>2
<1>4. RunType'
    BY <1>1, <1>2, <1>3, StepTypes
<1>5. \A j : Handled(j) => Handled(j)'
    BY <1>2, RecordsGrow
<1>6. \A k \in DOMAIN Sidecar : SideReported(at, k)
    <2>1. CASE ~WantsSidecars
        BY <2>1 DEF SideReported, WantsSidecars, Job
    <2>2. CASE side > Len(Sidecar)
        <3>1. Sidecar \in Seq(Char) /\ Len(Sidecar) \in Nat /\ DOMAIN Sidecar = 1 .. Len(Sidecar)
            BY RunAssumption
        <3> QED
            BY <1>1, <2>2, <3>1 DEF RunInv, Progress
    <2> QED
        BY <2>1, <2>2 DEF NextFile
<1>7. Handled(at)
    BY <1>1, <1>6 DEF RunInv, Progress, Handled
<1>8. ASSUME NEW j \in DOMAIN jobs, j < at'
      PROVE  Handled(j)'
    <2>1. Handled(j)
        BY <1>1, <1>2, <1>7, <1>8 DEF RunInv, Progress
    <2> QED
        BY <1>5, <2>1
<1>9. Unreported'
    BY <1>1, <1>2 DEF RunInv, Progress, Unreported
<1>10. Progress'
    BY <1>2, <1>8, <1>9 DEF Progress
<1> QED
    BY <1>4, <1>10 DEF RunInv

LEMMA CreateDirectoriesStep ==
    ASSUME RunInv, CreateDirectories
    PROVE  RunInv'
PROOF
<1>1. /\ RunType /\ step = "check" /\ ~Writing /\ at \in Nat \ {0} /\ Len(jobs) \in Nat
      /\ side \in Nat
    BY DEF RunInv, RunType, CreateDirectories
<1>2. /\ UNCHANGED <<planVars, entries, jobs, report, skipped, disk, at, side>>
      /\ step' = "report"
    BY DEF CreateDirectories
<1>3. RunType'
    BY <1>1, <1>2, StepTypes
<1>4. \A j : Handled(j) => Handled(j)'
    BY <1>2, RecordsGrow
<1>5. Unreported'
    BY <1>1, <1>2 DEF RunInv, Progress, Unreported
<1>6. at' > Len(jobs')
    BY <1>1, <1>2 DEF Writing
<1>7. Progress'
    BY <1>1, <1>2, <1>4, <1>5, <1>6 DEF RunInv, Progress
<1> QED
    BY <1>3, <1>7 DEF RunInv

LEMMA WriteReportStep ==
    ASSUME RunInv, WriteReport
    PROVE  RunInv'
PROOF
<1>1. RunType /\ step = "report" /\ at \in Nat \ {0} /\ side \in Nat
    BY DEF RunInv, RunType, WriteReport
<1>2. /\ UNCHANGED <<planVars, entries, jobs, report, skipped, at, side>>
      /\ step' = "done"
    BY DEF WriteReport
<1>3. RunType'
    BY <1>1, <1>2, StepTypes
<1>4. \A j : Handled(j) => Handled(j)'
    BY <1>2, RecordsGrow
<1>5. Progress'
    BY <1>1, <1>2, <1>4 DEF RunInv, Progress
<1> QED
    BY <1>3, <1>5 DEF RunInv

(* An export that ends early leaves no complete report. *)
LEMMA AbortStep ==
    ASSUME RunInv, AbortBlocked \/ AbortIo
    PROVE  RunInv'
PROOF
<1>1. /\ RunType /\ at \in Nat \ {0} /\ side \in Nat
      /\ step \in {"write", "sidecars", "check", "report"}
    BY DEF RunInv, RunType, AbortBlocked, AbortIo, InWrite
<1>2. /\ UNCHANGED <<planVars, entries, jobs, report, skipped, at, side>>
      /\ step' = "failed"
    BY DEF AbortBlocked, AbortIo
<1>3. RunType'
    BY <1>1, <1>2, StepTypes
<1>4. \A j : Handled(j) => Handled(j)'
    BY <1>2, RecordsGrow
<1>5. Unreported
    BY <1>1 DEF RunInv, Progress
<1>6. Unreported'
    <2>1. CASE AbortBlocked
        BY <1>5, <2>1 DEF AbortBlocked, Unreported
    <2>2. CASE AbortIo
        BY <1>5, <2>2, CutShortUnreported DEF AbortIo
    <2> QED
        BY <2>1, <2>2
<1>7. Progress'
    BY <1>1, <1>2, <1>4, <1>6 DEF RunInv, Progress
<1> QED
    BY <1>3, <1>7 DEF RunInv

LEMMA PlanStep ==
    ASSUME RunInv, Plan
    PROVE  RunInv'
PROOF
<1>1. TypeOK'
    BY NextType DEF RunInv, RunType, Plan
<1>2. UNCHANGED runVars
    BY DEF Plan
<1>3. \A j : Handled(j) => Handled(j)'
    BY <1>2, RecordsGrow DEF runVars
<1>4. RunType'
    BY <1>1, <1>2 DEF RunInv, RunType, runVars, Range
<1>5. Unreported => Unreported'
    BY <1>2 DEF Unreported, runVars
<1>6. step = "plan"
    BY DEF Plan
<1>7. Progress'
    BY <1>2, <1>3, <1>5, <1>6 DEF RunInv, Progress, runVars
<1> QED
    BY <1>4, <1>7 DEF RunInv

LEMMA RefuseStep ==
    ASSUME RunInv, Refuse
    PROVE  RunInv'
PROOF
<1>1. /\ RunType /\ at \in Nat \ {0} /\ side \in Nat
    BY DEF RunInv, RunType
<1>2. /\ UNCHANGED <<planVars, entries, jobs, report, skipped, at, side, disk>>
      /\ step = "plan" /\ step' = "refused"
    BY DEF Refuse
<1>3. RunType'
    BY <1>1, <1>2, StepTypes
<1>4. \A j : Handled(j) => Handled(j)'
    BY <1>2, RecordsGrow
<1>5. Unreported'
    BY <1>2 DEF RunInv, Progress, Unreported
<1>6. Progress'
    BY <1>2, <1>4, <1>5 DEF RunInv, Progress
<1> QED
    BY <1>3, <1>6 DEF RunInv

(* Killed and given again: what is on disk stays, and it is no report. *)
LEMMA RerunStep ==
    ASSUME RunInv, Rerun
    PROVE  RunInv'
PROOF
<1>1. RunType /\ TypeOK /\ Unreported
    BY DEF RunInv, RunType, Progress, Rerun
<1>2. TypeOK'
    BY <1>1 DEF TypeOK, Rerun, Claiming
<1>3. RunType'
    BY <1>1, <1>2 DEF RunType, Rerun, Range
<1>4. Unreported'
    BY <1>1, CutShortUnreported DEF Rerun
<1>5. Progress'
    BY <1>4 DEF Progress, Rerun
<1> QED
    BY <1>3, <1>5 DEF RunInv

LEMMA ReingestStep ==
    ASSUME RunInv, Reingest
    PROVE  RunInv'
PROOF
<1>1. RunType /\ UNCHANGED planVars
    BY DEF RunInv, Reingest
<1>2. TypeOK'
    BY <1>1, PlanStays DEF RunType
<1>3. entries' \in Seq(Entry)
    BY RunAssumption DEF Reingest
<1>4. RunType'
    BY <1>2, <1>3 DEF RunType, Reingest, Range
<1>5. Unreported'
    BY DEF Unreported, Reingest
<1>6. Progress'
    BY <1>5 DEF Progress, Reingest
<1> QED
    BY <1>4, <1>6 DEF RunInv

LEMMA RunNextInv == RunInv /\ [RunNext]_vars => RunInv'
PROOF
<1> SUFFICES ASSUME RunInv, [RunNext]_vars
             PROVE  RunInv'
    OBVIOUS
<1>1. CASE UNCHANGED vars
    <2>1. TypeOK' /\ UNCHANGED runVars
        BY <1>1, PlanStays DEF RunInv, RunType, vars
    <2>2. \A j : /\ Handled(j) => Handled(j)'
                 /\ MainReported(j) => MainReported(j)'
                 /\ \A k : SideReported(j, k) => SideReported(j, k)'
        BY <2>1, RecordsGrow DEF runVars
    <2>3. RunType'
        BY <2>1 DEF RunInv, RunType, runVars, Range
    <2>4. Unreported => Unreported'
        BY <2>1 DEF Unreported, runVars
    <2>5. \A j \in DOMAIN jobs : j < at => Handled(j)'
        BY <2>2 DEF RunInv, Progress
    <2> PICK n : n = at
        OBVIOUS
    <2>6. step = "sidecars" => /\ MainReported(n)'
                               /\ \A k \in DOMAIN Sidecar : k < side => SideReported(n, k)'
        BY <2>2 DEF RunInv, Progress
    <2>7. step' = "sidecars" =>
              /\ MainReported(at)'
              /\ \A k \in DOMAIN Sidecar : k < side' => SideReported(at, k)'
        BY <2>1, <2>6 DEF runVars, MainReported, SideReported
    <2>8. Progress'
        BY <2>1, <2>4, <2>5, <2>7 DEF RunInv, Progress, runVars
    <2> QED
        BY <2>3, <2>8 DEF RunInv
<1> QED
    BY <1>1, PlanStep, RefuseStep, AcceptStep, SkipTooLongStep, PassGuardStep, WriteMainStep,
       WriteSidecarStep, PassSidecarStep, NextFileStep, CreateDirectoriesStep, WriteReportStep,
       AbortStep, RerunStep, ReingestStep
    DEF RunNext, Proceed

THEOREM RunInvariant == RunSpec => []RunInv
PROOF
<1>1. RunInit => RunInv
    BY RunInitInv
<1>2. RunInv /\ [RunNext]_vars => RunInv'
    BY RunNextInv
<1> QED
    BY <1>1, <1>2, PTL DEF RunSpec

LEMMA AllHandled ==
    ASSUME RunInv, step = "done"
    PROVE  \A j \in DOMAIN jobs : Handled(j)
PROOF
<1>1. at > Len(jobs) /\ at \in Nat /\ jobs \in Seq(RunJob)
    BY DEF RunInv, RunType, Progress
<1>2. \A j \in DOMAIN jobs : j < at
    BY <1>1
<1> QED
    BY <1>2 DEF RunInv, Progress

(* For every source, plan, file system and cap, and however often the command
   is killed: a complete export-report.json is there only when every job was
   written or recorded as skipped. *)
THEOREM ReportIsComplete == RunSpec => []ReportMeansComplete
PROOF
<1>1. RunInv => ReportMeansComplete
    <2> SUFFICES ASSUME RunInv, OnDisk(ReportPath, ReportBody)
                 PROVE  /\ step = "done"
                        /\ \A k \in DOMAIN jobs :
                              \/ \E r \in ToSet(report) :
                                    r.path = jobs[k].path /\ r.out = jobs[k].out
                              \/ Record(jobs[k]) \in ToSet(skipped)
        BY DEF ReportMeansComplete
    <2>1. step = "done"
        BY DEF OnDisk, RunInv, Progress, Unreported
    <2>2. ToSet(report) = Range(report) /\ ToSet(skipped) = Range(skipped)
        BY DEF ToSet, Range
    <2> QED
        BY <2>1, <2>2, AllHandled DEF Handled, MainReported
<1> QED
    BY <1>1, RunInvariant, PTL

(* For every source and every plan, renamed files included: the report of a
   finished export records each sidecar of a written database under the output
   name that belongs to it, with the content the source has. *)
THEOREM DatabasesAreComplete == RunSpec => []DatabaseComplete
PROOF
<1>1. RunInv => DatabaseComplete
    <2> SUFFICES ASSUME RunInv, step = "done",
                        NEW j \in DOMAIN jobs, NEW k \in DOMAIN Sidecar,
                        jobs[j].entry.body \in DbBody,
                        Record(jobs[j]) \notin ToSet(skipped),
                        by_path(SidecarOf(jobs[j].path, Sidecar[k])) # 0
                 PROVE  \E r \in ToSet(report) :
                           /\ r.path = SidecarOf(jobs[j].path, Sidecar[k])
                           /\ r.out = SidecarOf(jobs[j].out, Sidecar[k])
                           /\ r.body = entries[by_path(SidecarOf(jobs[j].path, Sidecar[k]))].body
        BY DEF DatabaseComplete
    <2>1. ToSet(report) = Range(report) /\ ToSet(skipped) = Range(skipped)
        BY DEF ToSet, Range
    <2>2. SideReported(j, k)
        BY <2>1, AllHandled DEF Handled
    <2> QED
        BY <2>1, <2>2 DEF SideReported
<1> QED
    BY <1>1, RunInvariant, PTL

-----------------------------------------------------------------------------
(* Two runs *)

Jobs == IF mode = "fresh" THEN FreshJobs ELSE ManifestJobs

Passes(out) == check_export_path(out) # "skip"

(* A record is that of a file that passed the guard, or of one of its sidecars. *)
IsMain(r, j) ==
    r.path = jobs[j].path /\ r.out = jobs[j].out /\ r.body = jobs[j].entry.body

IsSide(r, j) ==
    /\ jobs[j].entry.body \in DbBody
    /\ \E k \in DOMAIN Sidecar :
          r.path = SidecarOf(jobs[j].path, Sidecar[k]) /\ r.out = SidecarOf(jobs[j].out, Sidecar[k])
    /\ by_path(r.path) # 0 /\ r.body = entries[by_path(r.path)].body

IsCopy(r) == \E j \in DOMAIN jobs : Passes(jobs[j].out) /\ (IsMain(r, j) \/ IsSide(r, j))

(* What is due from the planned files and the host alone: a file goes to its
   place, and what is among the files as a database's sidecar goes beside it. *)
DueTo(k, path, out) ==
    \/ path = files[k].path /\ out = output_path(items[k])
    \/ /\ files[k].body \in DbBody
       /\ \E s \in DOMAIN Sidecar : /\ path = SidecarOf(files[k].path, Sidecar[s])
                                    /\ out = SidecarOf(output_path(items[k]), Sidecar[s])

IsDue(c) ==
    \E m \in DOMAIN files, k \in DOMAIN items :
        /\ Passes(output_path(items[k]))
        /\ DueTo(k, files[m].path, c.out)
        /\ c = [path |-> files[m].path, out |-> c.out, body |-> files[m].body]

(* Only what passed the guard is written, and only that is not skipped. *)
CopyInv ==
    /\ mode \in {"fresh", "replay"}
    /\ mode = "fresh" => Selects(files, entries)
    /\ mode = "replay" \/ step # "plan" => phase = "planned"
    /\ step \in {"plan", "refused"} => report = <<>> /\ skipped = <<>>
    /\ step \notin {"plan", "refused"} => jobs = Jobs
    /\ step \in {"write", "sidecars"} => Passes(jobs[at].out)
    /\ \A s \in Range(skipped) : ~Passes(s.out)
    /\ \A r \in Range(report) : IsCopy(r)

(* The first run copied what was due, and what is due has not changed. *)
FirstInv ==
    mode = "replay" /\ first.report # <<>> /\ NoDuplicates(first.entries) =>
        \A c : c \in Copied(first.report) <=> IsDue(c)

LEMMA SelectedIsThere ==
    ASSUME NEW list, NEW source \in Seq(Entry), Selects(list, source), NEW k \in DOMAIN list
    PROVE  \E i \in DOMAIN source : list[k] = source[i]
PROOF
<1>1. PICK S \in SUBSET DOMAIN source : list = Picked(source, S)
    BY DEF Selects
<1> DEFINE picked == InOrder(S, {p \in S \X S : p[1] < p[2]})
<1>2. Len(source) \in Nat /\ DOMAIN source = 1 .. Len(source)
    OBVIOUS
<1>3. \A n \in DOMAIN picked : picked[n] \in S
    BY <1>2, AscendingOk DEF Ascending
<1>4. list = [n \in DOMAIN picked |-> source[picked[n]]]
    BY <1>1 DEF Picked, Ascending
<1> HIDE DEF picked
<1> QED
    BY <1>3, <1>4

(* Where no name occurs twice, a selected file is what its name leads to. *)
LEMMA OwnEntry ==
    ASSUME entries \in Seq(Entry), NoDuplicates(entries), Selects(files, entries),
           NEW m \in DOMAIN files
    PROVE  by_path(files[m].path) # 0 /\ entries[by_path(files[m].path)] = files[m]
PROOF
<1>1. PICK i \in DOMAIN entries : files[m] = entries[i]
    BY SelectedIsThere
<1> PICK path : path = files[m].path
    OBVIOUS
<1> DEFINE I == {n \in 1 .. Len(entries) : entries[n].path = path}
<1>2. by_path(path) = IF I # {} THEN Max(I) ELSE 0
    BY DEF by_path, SelectLastInSeq
<1>3. i \in I /\ I \in SUBSET (0 .. Len(entries)) /\ Len(entries) \in Nat
    BY <1>1
<1>4. \E n \in I : \A o \in I : o <= n
    BY <1>3, GreatestNatural
<1>5. Max(I) \in I
    BY <1>3, <1>4 DEF Max
<1>6. by_path(path) \in I
    BY <1>2, <1>3, <1>5
<1> HIDE DEF I
<1>7. by_path(path) \in DOMAIN entries /\ by_path(path) # 0 /\ entries[by_path(path)].path = path
    BY <1>6 DEF I
<1>8. by_path(path) = i
    BY <1>1, <1>7 DEF NoDuplicates
<1> QED
    BY <1>1, <1>7, <1>8

Planned(k) == [path |-> files[k].path, entry |-> files[k], out |-> output_path(items[k])]

(* A first run and a replay have the same jobs. *)
LEMMA JobsAsPlanned ==
    ASSUME RunType, phase = "planned", jobs = Jobs, NoDuplicates(entries), Selects(files, entries)
    PROVE  /\ \A j \in DOMAIN jobs : \E k \in DOMAIN items : jobs[j] = Planned(k)
           /\ \A k \in DOMAIN items : \E j \in DOMAIN jobs : jobs[j] = Planned(k)
PROOF
<1>1. /\ Len(items) \in Nat /\ DOMAIN items = 1 .. Len(items) /\ DOMAIN items = DOMAIN files
      /\ entries \in Seq(Entry)
    BY DEF RunType, TypeOK
<1>2. CASE mode = "fresh"
    <2>1. jobs = [k \in DOMAIN items |-> Planned(k)]
        BY <1>2 DEF Jobs, FreshJobs, Planned
    <2> QED
        BY <2>1
<1>3. CASE mode # "fresh"
    <2> DEFINE held == Ascending(Held)
    <2>1. Held = DOMAIN items
        BY <1>1, OwnEntry DEF Held
    <2>2. /\ \A n \in DOMAIN held : held[n] \in DOMAIN items
          /\ \A k \in DOMAIN items : \E n \in DOMAIN held : held[n] = k
        <3>1. Held \in SUBSET (1 .. Len(items)) /\ Len(items) \in Nat
            BY <1>1, <2>1
        <3>2. /\ \A n \in DOMAIN held : held[n] \in Held
              /\ \A k \in Held : \E n \in DOMAIN held : held[n] = k
            BY <3>1, AscendingOk
        <3> HIDE DEF held
        <3> QED
            BY <2>1, <3>2
    <2>3. jobs = [n \in DOMAIN held |->
                    [path |-> files[held[n]].path,
                     entry |-> entries[by_path(files[held[n]].path)],
                     out |-> output_path(items[held[n]])]]
        BY <1>3 DEF Jobs, ManifestJobs, Ascending
    <2> HIDE DEF held
    <2>4. \A k \in DOMAIN items : entries[by_path(files[k].path)] = files[k]
        BY <1>1, OwnEntry
    <2>5. \A n \in DOMAIN held : jobs[n] = Planned(held[n])
        BY <2>2, <2>3, <2>4 DEF Planned
    <2>6. DOMAIN jobs = DOMAIN held
        BY <2>3
    <2> QED
        BY <2>2, <2>5, <2>6
<1> QED
    BY <1>2, <1>3

(* A finished run has copied what is due. *)
LEMMA CopiesAreDue ==
    ASSUME RunInv, CopyInv, step = "done", NoDuplicates(entries), Selects(files, entries)
    PROVE  \A c : c \in Copied(report) <=> IsDue(c)
PROOF
<1>1. RunType /\ entries \in Seq(Entry)
    BY DEF RunInv, RunType
<1>2. /\ \A j \in DOMAIN jobs : \E k \in DOMAIN items : jobs[j] = Planned(k)
      /\ \A k \in DOMAIN items : \E j \in DOMAIN jobs : jobs[j] = Planned(k)
      /\ DOMAIN items = DOMAIN files
    BY <1>1, JobsAsPlanned DEF CopyInv, RunType, TypeOK
<1>3. ToSet(report) = Range(report)
    BY DEF ToSet, Range
<1>4. ASSUME NEW r \in Range(report), NEW m \in DOMAIN files, r.path = files[m].path
      PROVE  /\ r.body = files[m].body
             /\ \E k \in DOMAIN items :
                   Passes(output_path(items[k])) /\ DueTo(k, files[m].path, r.out)
    <2>1. PICK j \in DOMAIN jobs : Passes(jobs[j].out) /\ (IsMain(r, j) \/ IsSide(r, j))
        BY DEF CopyInv, IsCopy
    <2>2. PICK k \in DOMAIN items : jobs[j] = Planned(k)
        BY <1>2
    <2>3. /\ jobs[j].path = files[k].path /\ jobs[j].entry = files[k]
          /\ jobs[j].out = output_path(items[k])
        BY <2>2 DEF Planned
    <2>4. entries[by_path(r.path)] = files[m]
        BY <1>1, <1>4, OwnEntry
    <2>5. CASE IsMain(r, j)
        <3>1. entries[by_path(r.path)] = files[k]
            BY <1>1, <1>2, <2>3, <2>5, OwnEntry DEF IsMain
        <3>2. r.body = files[m].body
            BY <2>3, <2>4, <2>5, <3>1 DEF IsMain
        <3>3. DueTo(k, files[m].path, r.out)
            BY <1>4, <2>3, <2>5 DEF IsMain, DueTo
        <3> QED
            BY <2>1, <2>3, <3>2, <3>3
    <2>6. CASE IsSide(r, j)
        <3>1. r.body = files[m].body
            BY <2>4, <2>6 DEF IsSide
        <3>2. DueTo(k, files[m].path, r.out)
            BY <1>4, <2>3, <2>6 DEF IsSide, DueTo
        <3> QED
            BY <2>1, <2>3, <3>1, <3>2
    <2> QED
        BY <2>1, <2>5, <2>6
<1>5. ASSUME NEW c, c \in Copied(report)
      PROVE  IsDue(c)
    <2>1. PICK r \in Range(report), m \in DOMAIN files :
             r.path = files[m].path /\ c = [path |-> r.path, out |-> r.out, body |-> r.body]
        BY <1>3, <1>5 DEF Copied
    <2>2. c.out = r.out
        BY <2>1
    <2> QED
        BY <1>4, <2>1, <2>2 DEF IsDue
<1>6. ASSUME NEW c, IsDue(c)
      PROVE  c \in Copied(report)
    <2>1. PICK m \in DOMAIN files, k \in DOMAIN items :
             /\ Passes(output_path(items[k])) /\ DueTo(k, files[m].path, c.out)
             /\ c = [path |-> files[m].path, out |-> c.out, body |-> files[m].body]
        BY <1>6 DEF IsDue
    <2>2. PICK j \in DOMAIN jobs : jobs[j] = Planned(k)
        BY <1>2
    <2>3. /\ jobs[j].path = files[k].path /\ jobs[j].entry = files[k]
          /\ jobs[j].out = output_path(items[k])
        BY <2>2 DEF Planned
    <2>4. Record(jobs[j]) \notin Range(skipped)
        <3>1. Record(jobs[j]).out = output_path(items[k])
            BY <2>3 DEF Record
        <3> QED
            BY <2>1, <3>1 DEF CopyInv
    <2>5. MainReported(j) /\ \A s \in DOMAIN Sidecar : SideReported(j, s)
        BY <2>4, AllHandled DEF Handled
    <2>6. \E r \in Range(report) : r.path = files[m].path /\ r.out = c.out
        <3>1. CASE files[m].path = files[k].path /\ c.out = output_path(items[k])
            BY <2>3, <2>5, <3>1 DEF MainReported
        <3>2. ASSUME files[k].body \in DbBody, NEW s \in DOMAIN Sidecar,
                     files[m].path = SidecarOf(files[k].path, Sidecar[s]),
                     c.out = SidecarOf(output_path(items[k]), Sidecar[s])
              PROVE  \E r \in Range(report) : r.path = files[m].path /\ r.out = c.out
            <4>1. by_path(files[m].path) # 0
                BY <1>1, OwnEntry
            <4>2. SideReported(j, s)
                BY <2>5
            <4> QED
                BY <2>3, <3>2, <4>1, <4>2 DEF SideReported
        <3> QED
            BY <2>1, <3>1, <3>2 DEF DueTo
    <2>7. PICK r \in Range(report) : r.path = files[m].path /\ r.out = c.out
        BY <2>6
    <2>8. c = [path |-> r.path, out |-> r.out, body |-> r.body]
        BY <1>4, <2>1, <2>7
    <2> QED
        BY <1>3, <2>7, <2>8 DEF Copied
<1> QED
    BY <1>5, <1>6

-----------------------------------------------------------------------------
(* What stays as it is when the source, the host and the plan do *)

LEMMA PassesStays ==
    ASSUME host' = host
    PROVE  \A out : Passes(out)' <=> Passes(out)
BY DEF Passes, check_export_path, TooLong

LEMMA CopyStays ==
    ASSUME UNCHANGED <<host, entries, jobs>>
    PROVE  \A r : IsCopy(r) => IsCopy(r)'
PROOF
<1> SUFFICES ASSUME NEW r, IsCopy(r)
             PROVE  IsCopy(r)'
    OBVIOUS
<1>1. PICK j \in DOMAIN jobs : Passes(jobs[j].out) /\ (IsMain(r, j) \/ IsSide(r, j))
    BY DEF IsCopy
<1>2. (Passes(jobs[j].out))'
    <2>1. PICK out : out = jobs[j].out
        OBVIOUS
    <2> QED
        BY <1>1, <2>1, PassesStays DEF Passes
<1>3. IsMain(r, j) => IsMain(r, j)'
    BY DEF IsMain
<1>4. IsSide(r, j) => IsSide(r, j)'
    <2>1. by_path(r.path)' = by_path(r.path)
        BY ByPathStays
    <2> QED
        BY <2>1 DEF IsSide, SidecarOf
<1> QED
    BY <1>1, <1>2, <1>3, <1>4 DEF IsCopy

LEMMA DueStays ==
    ASSUME UNCHANGED <<files, items, host>>
    PROVE  \A c : IsDue(c)' <=> IsDue(c)
PROOF
<1>1. \A k : Passes(output_path(items[k]))' <=> Passes(output_path(items[k]))
    BY DEF Passes, check_export_path, TooLong, output_path
<1>2. \A k, path, out : DueTo(k, path, out)' <=> DueTo(k, path, out)
    BY DEF DueTo, output_path, SidecarOf
<1> QED
    BY <1>1, <1>2 DEF IsDue

LEMMA FirstStays ==
    ASSUME FirstInv, UNCHANGED <<files, items, host, mode, first>>
    PROVE  FirstInv'
PROOF
<1>1. \A c : (c \in Copied(first.report))' <=> c \in Copied(first.report)
    BY DEF Copied
<1>2. NoDuplicates(first.entries)' <=> NoDuplicates(first.entries)
    BY DEF NoDuplicates
<1> QED
    BY <1>1, <1>2, DueStays DEF FirstInv

LEMMA SelectsStays ==
    ASSUME UNCHANGED <<files, entries>>, Selects(files, entries)
    PROVE  Selects(files, entries)'
BY DEF Selects

LEMMA JobsStay ==
    ASSUME UNCHANGED <<planVars, entries, mode>>
    PROVE  Jobs' = Jobs
PROOF
<1>1. FreshJobs' = FreshJobs
    BY DEF FreshJobs, planVars, output_path
<1>2. \A path : by_path(path)' = by_path(path)
    BY ByPathStays DEF planVars
<1>3. \A k : by_path(files[k].path)' = by_path(files[k].path)
    <2> TAKE k
    <2>1. PICK path : path = files[k].path
        OBVIOUS
    <2>2. by_path(files[k].path)' = by_path(path)'
        BY <2>1 DEF planVars, by_path
    <2> QED
        BY <1>2, <2>1, <2>2
<1>4. Held' = Held
    BY <1>3 DEF Held, planVars
<1>5. ManifestJobs' = ManifestJobs
    BY <1>3, <1>4 DEF ManifestJobs, planVars, output_path
<1> QED
    BY <1>1, <1>5 DEF Jobs

-----------------------------------------------------------------------------
(* The steps *)

LEMMA CopyInit == RunInit => CopyInv /\ FirstInv
PROOF
<1> SUFFICES ASSUME RunInit
             PROVE  CopyInv /\ FirstInv
    OBVIOUS
<1>1. Range(report) = {} /\ Range(skipped) = {}
    BY DEF RunInit, Range
<1> QED
    BY <1>1 DEF RunInit, CopyInv, FirstInv

(* A step of the writing, in one run: records are added as CopyInv says. *)
LEMMA WritingKeeps ==
    ASSUME RunInv, CopyInv, FirstInv,
           UNCHANGED <<planVars, host, entries, mode, jobs, first>>,
           step \notin {"plan", "refused"}, step' \notin {"plan", "refused"},
           step' \in {"write", "sidecars"} => Passes(jobs[at'].out),
           report' = report \/ (\E r : report' = Append(report, r) /\ IsCopy(r)),
           skipped' = skipped \/ (\E r : skipped' = Append(skipped, r) /\ ~Passes(r.out))
    PROVE  CopyInv' /\ FirstInv'
PROOF
<1>1. report \in Seq(Range(report)) /\ skipped \in Seq(Range(skipped))
    BY DEF RunInv, RunType
<1>2. \A r \in Range(report') : IsCopy(r)
    <2>1. CASE report' = report
        BY <2>1 DEF CopyInv
    <2>2. ASSUME NEW r, report' = Append(report, r), IsCopy(r)
          PROVE  \A q \in Range(report') : IsCopy(q)
        <3>1. Range(report') = Range(report) \cup {r}
            BY <1>1, <2>2, AppendRange
        <3> QED
            BY <2>2, <3>1 DEF CopyInv
    <2> QED
        BY <2>1, <2>2
<1>3. \A r \in Range(skipped') : ~Passes(r.out)
    <2>1. CASE skipped' = skipped
        BY <2>1 DEF CopyInv
    <2>2. ASSUME NEW r, skipped' = Append(skipped, r), ~Passes(r.out)
          PROVE  \A q \in Range(skipped') : ~Passes(q.out)
        <3>1. Range(skipped') = Range(skipped) \cup {r}
            BY <1>1, <2>2, AppendRange
        <3> QED
            BY <2>2, <3>1 DEF CopyInv
    <2> QED
        BY <2>1, <2>2
<1>4. \A r \in Range(report') : IsCopy(r)'
    BY <1>2, CopyStays
<1>5. \A out : Passes(out)' <=> Passes(out)
    BY PassesStays
<1>6. \A r \in Range(skipped') : ~Passes(r.out)'
    BY <1>3, <1>5
<1>7. step' \in {"write", "sidecars"} => Passes(jobs[at].out)'
    <2>1. PICK out : out = jobs[at'].out
        OBVIOUS
    <2> QED
        BY <1>5, <2>1 DEF Passes
<1>8. Jobs' = Jobs
    BY JobsStay
<1>9. mode = "fresh" => Selects(files, entries)'
    BY SelectsStays DEF CopyInv, planVars
<1>10. (Range(report))' = Range(report') /\ (Range(skipped))' = Range(skipped')
    BY DEF Range
<1>11. CopyInv'
    BY <1>4, <1>6, <1>7, <1>8, <1>9, <1>10 DEF CopyInv, planVars
<1>12. FirstInv'
    BY FirstStays DEF planVars
<1> QED
    BY <1>11, <1>12

LEMMA PlanEnds == phase = "planned" => ~Next
BY DEF Next, LayOut, ClaimWanted, FindTaken, ClaimSuffixed, TryNextSuffix, FinishPlan, Claiming

LEMMA PlanCopies ==
    ASSUME RunInv, CopyInv, FirstInv, Plan
    PROVE  CopyInv' /\ FirstInv'
PROOF
<1>1. mode = "fresh" /\ step = "plan" /\ UNCHANGED runVars
    BY PlanEnds DEF Plan, CopyInv
<1>2. files' = files
    BY DEF Plan, Next, LayOut, ClaimWanted, FindTaken, ClaimSuffixed, TryNextSuffix, FinishPlan
<1>3. Selects(files, entries)'
    BY <1>1, <1>2, SelectsStays DEF CopyInv, runVars
<1>4. report' = <<>> /\ skipped' = <<>>
    BY <1>1 DEF CopyInv, runVars
<1>5. (Range(report))' = {} /\ (Range(skipped))' = {}
    BY <1>4 DEF Range
<1> QED
    BY <1>1, <1>3, <1>4, <1>5 DEF CopyInv, FirstInv, runVars

LEMMA RefuseCopies ==
    ASSUME RunInv, CopyInv, FirstInv, Refuse
    PROVE  CopyInv' /\ FirstInv'
PROOF
<1>1. /\ UNCHANGED <<planVars, host, entries, mode, jobs, report, skipped, first>>
      /\ step = "plan" /\ step' = "refused" /\ phase = "planned"
    BY DEF Refuse
<1>2. mode = "fresh" => Selects(files, entries)'
    BY <1>1, SelectsStays DEF CopyInv, planVars
<1>3. report' = <<>> /\ skipped' = <<>>
    BY <1>1 DEF CopyInv
<1>4. (Range(report))' = {} /\ (Range(skipped))' = {}
    BY <1>3 DEF Range
<1>5. FirstInv'
    BY <1>1, FirstStays DEF planVars
<1> QED
    BY <1>1, <1>2, <1>3, <1>4, <1>5 DEF CopyInv, planVars

LEMMA AcceptCopies ==
    ASSUME RunInv, CopyInv, FirstInv, Accept
    PROVE  CopyInv' /\ FirstInv'
PROOF
<1>1. /\ UNCHANGED <<planVars, host, entries, mode, report, skipped, first>>
      /\ step = "plan" /\ step' = "check" /\ phase = "planned" /\ jobs' = Jobs
    BY DEF Accept, Jobs
<1>2. mode = "fresh" => Selects(files, entries)'
    BY <1>1, SelectsStays DEF CopyInv, planVars
<1>3. report' = <<>> /\ skipped' = <<>>
    BY <1>1 DEF CopyInv
<1>4. (Range(report))' = {} /\ (Range(skipped))' = {}
    BY <1>3 DEF Range
<1>5. FirstInv'
    BY <1>1, FirstStays DEF planVars
<1>6. jobs' = Jobs'
    BY <1>1, JobsStay
<1> QED
    BY <1>1, <1>2, <1>4, <1>5, <1>6 DEF CopyInv, planVars

LEMMA SkipCopies ==
    ASSUME RunInv, CopyInv, FirstInv, SkipTooLong
    PROVE  CopyInv' /\ FirstInv'
PROOF
<1>1. /\ UNCHANGED <<planVars, host, entries, mode, jobs, first>>
      /\ step = "check" /\ step' = "check" /\ report' = report
      /\ skipped' = Append(skipped, Record(Job))
    BY DEF SkipTooLong
<1>2. ~Passes(Record(Job).out)
    BY DEF SkipTooLong, Passes, Record
<1> QED
    BY <1>1, <1>2, WritingKeeps

LEMMA PassGuardCopies ==
    ASSUME RunInv, CopyInv, FirstInv, PassGuard
    PROVE  CopyInv' /\ FirstInv'
PROOF
<1>1. /\ UNCHANGED <<planVars, host, entries, mode, jobs, first, report, skipped, at>>
      /\ step = "check" /\ step' = "write"
    BY DEF PassGuard
<1>2. Passes(jobs[at'].out)
    BY <1>1 DEF PassGuard, Passes, Job
<1> QED
    BY <1>1, <1>2, WritingKeeps

LEMMA WriteMainCopies ==
    ASSUME RunInv, CopyInv, FirstInv, WriteMain
    PROVE  CopyInv' /\ FirstInv'
PROOF
<1>1. PICK whole \in BOOLEAN :
         report' = Append(report, FileRecord(Job.path, Job.out, Job.entry, whole))
    BY DEF WriteMain
<1> DEFINE new == FileRecord(Job.path, Job.out, Job.entry, whole)
<1>2. /\ UNCHANGED <<planVars, host, entries, mode, jobs, first, skipped, at>>
      /\ step = "write" /\ step' = "sidecars"
    BY DEF WriteMain
<1>3. at \in DOMAIN jobs /\ Passes(jobs[at].out)
    BY <1>2 DEF RunInv, Progress, CopyInv
<1>4. IsMain(new, at)
    BY DEF IsMain, FileRecord, Job
<1>5. report' = Append(report, new) /\ IsCopy(new)
    BY <1>1, <1>3, <1>4 DEF IsCopy
<1> HIDE DEF new
<1> QED
    BY <1>2, <1>3, <1>5, WritingKeeps

LEMMA WriteSidecarCopies ==
    ASSUME RunInv, CopyInv, FirstInv, WriteSidecar
    PROVE  CopyInv' /\ FirstInv'
PROOF
<1>1. PICK whole \in BOOLEAN :
         report' = Append(report, FileRecord(SidePath, SideOut, SideEntry, whole))
    BY DEF WriteSidecar
<1> DEFINE new == FileRecord(SidePath, SideOut, SideEntry, whole)
<1>2. /\ UNCHANGED <<planVars, host, entries, mode, jobs, first, skipped, at, step>>
      /\ step = "sidecars"
    BY DEF WriteSidecar
<1>3. at \in DOMAIN jobs /\ Passes(jobs[at].out)
    BY <1>2 DEF RunInv, Progress, CopyInv
<1>4. side \in DOMAIN Sidecar
    <2>1. side \in Nat /\ side # 0 /\ side <= Len(Sidecar)
        BY <1>2 DEF RunInv, RunType, Progress, WriteSidecar, HasSidecar
    <2>2. Sidecar \in Seq(Char)
        BY RunAssumption
    <2> QED
        BY <2>1, <2>2
<1>5. new.path = SidePath /\ new.out = SideOut /\ new.body = SideEntry.body
    BY DEF FileRecord
<1>6. report' = Append(report, new)
    BY <1>1
<1> HIDE DEF new
<1>7. IsSide(new, at)
    BY <1>4, <1>5 DEF IsSide, WriteSidecar, HasSidecar, WantsSidecars, SidePath, SideOut, SideEntry, Job
<1>8. IsCopy(new)
    BY <1>3, <1>7 DEF IsCopy
<1> QED
    BY <1>2, <1>3, <1>6, <1>8, WritingKeeps

(* The steps that record nothing. *)
LEMMA RestCopies ==
    ASSUME RunInv, CopyInv, FirstInv,
           PassSidecar \/ NextFile \/ CreateDirectories \/ WriteReport \/ AbortBlocked \/ AbortIo
    PROVE  CopyInv' /\ FirstInv'
PROOF
<1>1. /\ UNCHANGED <<planVars, host, entries, mode, jobs, first, report, skipped>>
      /\ step \in {"write", "sidecars", "check", "report"}
      /\ step' \notin {"plan", "refused"}
      /\ step' \in {"write", "sidecars"} => step' = step /\ at' = at
    BY DEF PassSidecar, NextFile, CreateDirectories, WriteReport, AbortBlocked, AbortIo, InWrite
<1>2. step' \in {"write", "sidecars"} => Passes(jobs[at'].out)
    BY <1>1 DEF CopyInv
<1> QED
    BY <1>1, <1>2, WritingKeeps

LEMMA RerunCopies ==
    ASSUME RunInv, CopyInv, FirstInv, Rerun
    PROVE  CopyInv' /\ FirstInv'
PROOF
<1>1. /\ UNCHANGED <<files, entries, mode>> /\ mode = "fresh" /\ step' = "plan"
      /\ report' = <<>> /\ skipped' = <<>>
    BY DEF Rerun
<1>2. Selects(files, entries)'
    BY <1>1, SelectsStays DEF CopyInv
<1>3. (Range(report))' = {} /\ (Range(skipped))' = {}
    BY <1>1 DEF Range
<1> QED
    BY <1>1, <1>2, <1>3 DEF CopyInv, FirstInv

(* The first run ended: its report is what was due then, and still is. *)
LEMMA ReingestCopies ==
    ASSUME RunInv, CopyInv, FirstInv, Reingest
    PROVE  CopyInv' /\ FirstInv'
PROOF
<1>1. /\ UNCHANGED <<planVars, host>> /\ mode = "fresh" /\ mode' = "replay" /\ step' = "plan"
      /\ step \in {"done", "refused"} /\ first' = [entries |-> entries, report |-> report]
      /\ report' = <<>> /\ skipped' = <<>>
    BY DEF Reingest
<1>2. (Range(report))' = {} /\ (Range(skipped))' = {}
    BY <1>1 DEF Range
<1>3. phase' = "planned"
    BY <1>1 DEF CopyInv, planVars
<1>4. CopyInv'
    BY <1>1, <1>2, <1>3 DEF CopyInv
<1>5. first'.report = report /\ first'.entries = entries
    BY <1>1
<1>6. ASSUME first'.report # <<>>, NoDuplicates(first.entries)'
      PROVE  \A c : (c \in Copied(first.report))' <=> IsDue(c)'
    <2>1. step = "done" /\ Selects(files, entries)
        BY <1>1, <1>5, <1>6 DEF CopyInv
    <2>2. NoDuplicates(entries)
        BY <1>5, <1>6 DEF NoDuplicates
    <2>3. \A c : c \in Copied(report) <=> IsDue(c)
        BY <2>1, <2>2, CopiesAreDue
    <2>4. \A c : (c \in Copied(first.report))' <=> c \in Copied(report)
        BY <1>1, <1>5 DEF Copied, planVars
    <2> QED
        BY <1>1, <2>3, <2>4, DueStays DEF planVars
<1>7. FirstInv'
    BY <1>6 DEF FirstInv
<1> QED
    BY <1>4, <1>7

LEMMA StillCopies ==
    ASSUME RunInv, CopyInv, FirstInv, UNCHANGED vars
    PROVE  CopyInv' /\ FirstInv'
PROOF
<1>1. UNCHANGED planVars /\ UNCHANGED runVars
    BY DEF vars
<1>2. UNCHANGED <<host, entries, mode, jobs, at, step, report, skipped, first>>
    BY <1>1 DEF runVars
<1>3. CASE step \in {"plan", "refused"}
    <2>1. mode = "fresh" => Selects(files, entries)'
        BY <1>1, <1>2, SelectsStays DEF CopyInv, planVars
    <2>2. report' = <<>> /\ skipped' = <<>>
        BY <1>2, <1>3 DEF CopyInv
    <2>3. (Range(report))' = {} /\ (Range(skipped))' = {}
        BY <2>2 DEF Range
    <2>4. FirstInv'
        BY <1>1, <1>2, FirstStays DEF planVars
    <2> QED
        BY <1>1, <1>2, <1>3, <2>1, <2>2, <2>3, <2>4 DEF CopyInv, planVars
<1>4. CASE step \notin {"plan", "refused"}
    BY <1>1, <1>2, <1>4, WritingKeeps DEF CopyInv
<1> QED
    BY <1>3, <1>4

(* For every pair of sources, whatever the first run's host refused: a replay
   from its manifest repeats it, file by file. *)
THEOREM ReplayIsFaithful == RunSpec => []ReplayFaithful
PROOF
<1>1. RunInv /\ CopyInv /\ FirstInv /\ [RunNext]_vars => CopyInv' /\ FirstInv'
    BY PlanCopies, RefuseCopies, AcceptCopies, SkipCopies, PassGuardCopies, WriteMainCopies,
       WriteSidecarCopies, RestCopies, RerunCopies, ReingestCopies, StillCopies
    DEF RunNext, Proceed
<1>2. RunInv /\ CopyInv /\ FirstInv => ReplayFaithful
    <2> SUFFICES ASSUME RunInv, CopyInv, FirstInv, mode = "replay", step = "done",
                        first.report # <<>>, NoDuplicates(first.entries),
                        NoDuplicates(entries), Selects(files, entries)
                 PROVE  Copied(report) = Copied(first.report)
        BY DEF ReplayFaithful
    <2>1. \A c : c \in Copied(report) <=> IsDue(c)
        BY CopiesAreDue
    <2>2. \A c : c \in Copied(first.report) <=> IsDue(c)
        BY DEF FirstInv
    <2> QED
        BY <2>1, <2>2
<1> QED
    BY <1>1, <1>2, RunInvariant, CopyInit, PTL DEF RunSpec

=============================================================================
