---------------------------- MODULE FormatProofs -----------------------------
(***************************************************************************)
(* For every file, whatever its pointers are: the walk of a b-tree visits  *)
(* the pages under its root and no others, and a key path that is told of  *)
(* a byte of a property list leads where it says.                          *)
(***************************************************************************)
EXTENDS SqliteReader, ObjectPaths, WalReplay, OrderingProofs, SequenceTheorems

-----------------------------------------------------------------------------
(* The pages of a table *)

Owed == seen \cup Range(stack) \cup {0}

(* The walk so far: what it owes lies on the stack, and what it has seen or will
   see belongs to every closed set of pages. *)
TreeInv ==
    /\ file \in Files
    /\ stack \in Seq(PageNumbers \cup {root})
    /\ 0 \notin seen
    /\ phase = "header" => root = 1 /\ seen = {}
    /\ phase \notin {"header", "none"} => root \in Owed
    /\ \A pg \in seen : Range(interior_children(pg)) \subseteq Owed
    /\ \A C \in SUBSET PageNumbers : IsClosed(C) => (seen \cup Range(stack)) \ {0} \subseteq C

(* What a concatenation, and a stack without its top, hold. *)
LEMMA RangeConcat ==
    ASSUME NEW S, NEW s \in Seq(S), NEW t \in Seq(S)
    PROVE  Range(s \o t) = Range(s) \cup Range(t)
<1>1. Range(s \o t) \subseteq Range(s) \cup Range(t)
  BY DEF Range
<1>2. Range(s) \subseteq Range(s \o t)
  BY DEF Range
<1>3. ASSUME NEW i \in DOMAIN t PROVE t[i] \in Range(s \o t)
  <2>1. Len(s) + i \in DOMAIN (s \o t) /\ (s \o t)[Len(s) + i] = t[i]
    OBVIOUS
  <2> QED BY <2>1 DEF Range
<1> QED BY <1>1, <1>2, <1>3 DEF Range

LEMMA RangeFront ==
    ASSUME NEW S, NEW s \in Seq(S), s # <<>>
    PROVE  /\ Front(s) \in Seq(S)
           /\ Last(s) \in S
           /\ Range(s) = Range(Front(s)) \cup {Last(s)}
<1>1. Len(s) \in Nat \ {0}
  OBVIOUS
<1>6. \A i \in 1 .. Len(s) - 1 : s[i] \in S
  BY <1>1
<1> DEFINE f == SubSeq(s, 1, Len(s) - 1)
<1>2. /\ f \in Seq(S)
      /\ Len(f) = (IF 1 <= Len(s) - 1 THEN (Len(s) - 1) - 1 + 1 ELSE 0)
      /\ \A i \in 1 .. (Len(s) - 1) - 1 + 1 : f[i] = s[1 + i - 1]
  <2>1. 1 \in Int /\ Len(s) - 1 \in Int
    BY <1>1
  <2> QED BY <1>6, <2>1, SubSeqProperties
<1>7. Front(s) = f
  BY DEF Front
<1> HIDE DEF f
<1>3. /\ Front(s) \in Seq(S) /\ Len(Front(s)) = Len(s) - 1
      /\ \A i \in 1 .. Len(s) - 1 : Front(s)[i] = s[i]
  BY <1>1, <1>2, <1>7
<1>4. Last(s) = s[Len(s)] /\ Last(s) \in S
  BY <1>1 DEF Last
<1>5. DOMAIN s = (1 .. Len(s) - 1) \cup {Len(s)} /\ DOMAIN Front(s) = 1 .. Len(s) - 1
  BY <1>1, <1>3
<1> QED BY <1>3, <1>4, <1>5 DEF Range

LEMMA ChildrenType ==
    ASSUME file \in Files, NEW pg
    PROVE  interior_children(pg) \in Seq(PageNumbers)
BY FileAssumption DEF interior_children, Is, Pages, IsPage

(* A step that leaves the walk alone. *)
LEMMA TreeUntouched ==
    ASSUME TreeInv, UNCHANGED <<file, root, stack, seen>>,
           phase' # "header", phase \notin {"header", "none"}
    PROVE  TreeInv'
BY DEF TreeInv, Owed, IsClosed, interior_children, Is, Pages

(* The top of the stack is taken, and its children, if any, are put there. *)
LEMMA TreeVisit ==
    ASSUME TreeInv, phase = "walk", stack # <<>>, NEW children \in Seq(PageNumbers),
           UNCHANGED <<file, root>>, phase' # "header",
           stack' = Front(stack) \o children,
           \/ Top # 0 /\ seen' = seen \cup {Top} /\ children = interior_children(Top)
           \/ Top \in seen \cup {0} /\ seen' = seen /\ children = <<>>
    PROVE  TreeInv'
<1> DEFINE S == PageNumbers \cup {root}
<1>1. children \in Seq(S) /\ stack \in Seq(S)
  BY DEF TreeInv
<1>2. /\ Front(stack) \in Seq(S)
      /\ Range(stack) = Range(Front(stack)) \cup {Top}
  BY <1>1, RangeFront DEF Top
<1>3. stack' \in Seq(S)
  BY <1>1, <1>2
<1>4. Range(stack') = Range(Front(stack)) \cup Range(children)
  BY <1>1, <1>2, RangeConcat
<1>5. Owed \subseteq Owed'
  BY <1>2, <1>4 DEF Owed
<1>6. \A pg : interior_children(pg)' = interior_children(pg)
  BY DEF interior_children, Is, Pages
<1>7. \A C : IsClosed(C)' <=> IsClosed(C)
  BY <1>6 DEF IsClosed
<1>8. \A pg \in seen' : Range(interior_children(pg)') \subseteq Owed'
  <2>1. CASE seen' = seen
    BY <2>1, <1>5, <1>6 DEF TreeInv
  <2>2. CASE seen' = seen \cup {Top} /\ children = interior_children(Top)
    BY <2>2, <1>4, <1>5, <1>6 DEF TreeInv, Owed
  <2> QED BY <2>1, <2>2
<1>9. ASSUME NEW C \in SUBSET PageNumbers, IsClosed(C)
      PROVE  (seen' \cup Range(stack')) \ {0} \subseteq C
  <2>1. (seen \cup Range(Front(stack)) \cup {Top}) \ {0} \subseteq C
    BY <1>2, <1>9 DEF TreeInv
  <2>2. CASE Top # 0 /\ seen' = seen \cup {Top} /\ children = interior_children(Top)
    <3>1. Top \in C
      BY <2>1, <2>2
    <3>2. Range(children) \subseteq C \cup {0}
      BY <3>1, <2>2, <1>9 DEF IsClosed
    <3> QED BY <3>1, <3>2, <2>1, <2>2, <1>4
  <2>3. CASE seen' = seen /\ children = <<>>
    BY <2>1, <2>3, <1>4 DEF Range
  <2> QED BY <2>2, <2>3
<1> QED BY <1>3, <1>5, <1>6, <1>7, <1>8, <1>9 DEF TreeInv

LEMMA FrontType ==
    ASSUME TreeInv, stack # <<>>
    PROVE  Front(stack) \in Seq(PageNumbers \cup {root})
BY RangeFront DEF TreeInv

LEMMA TreeInit == Init => TreeInv
BY FileAssumption DEF Init, TreeInv, Range, Owed

LEMMA TreeNext == TreeInv /\ [Next]_vars => TreeInv'
<1> SUFFICES ASSUME TreeInv, [Next]_vars PROVE TreeInv'
  OBVIOUS
<1> USE DEF treeVars, cellVars, chainVars
<1>1. CASE ParseHeader
  <2>1. /\ stack' = <<1>> /\ root' = 1 /\ seen' = {} /\ file' = file
        /\ phase' = "walk" /\ root = 1
    BY <1>1 DEF ParseHeader, TreeInv
  <2>2. Range(stack') = {1} /\ stack' \in Seq({1})
    BY <2>1 DEF Range
  <2>3. ASSUME NEW C \in SUBSET PageNumbers, IsClosed(C)'
        PROVE  (seen' \cup Range(stack')) \ {0} \subseteq C
    BY <2>1, <2>2, <2>3 DEF IsClosed
  <2> QED BY <2>1, <2>2, <2>3, FileAssumption DEF TreeInv, Owed
<1>2. CASE NotADatabase
  <2>1. phase' = "none" /\ UNCHANGED <<file, root, stack, seen>>
    BY <1>2 DEF NotADatabase
  <2> QED BY <2>1 DEF TreeInv, Owed, IsClosed, interior_children, Is, Pages
<1>3. CASE SkipPage
  <2>1. Front(stack) = Front(stack) \o <<>>
    BY <1>3, FrontType DEF SkipPage
  <2>2. <<>> \in Seq(PageNumbers)
    OBVIOUS
  <2>3. /\ phase = "walk" /\ stack # <<>> /\ phase' = "walk"
        /\ Top \in seen \cup {0} /\ seen' = seen
        /\ UNCHANGED <<file, root>> /\ stack' = Front(stack) \o <<>>
    BY <1>3, <2>1 DEF SkipPage
  <2> QED BY <2>2, <2>3, TreeVisit
<1>4. CASE VisitInterior
  BY <1>4, TreeVisit, ChildrenType DEF VisitInterior, Visit, TreeInv
<1>5. CASE VisitLeaf \/ VisitOther
  <2>1. interior_children(Top) = <<>>
    BY <1>5 DEF VisitLeaf, VisitOther, interior_children, Is
  <2>2. Front(stack) = Front(stack) \o <<>>
    BY <1>5, FrontType DEF VisitLeaf, VisitOther, Visit
  <2>3. <<>> \in Seq(PageNumbers)
    OBVIOUS
  <2>4. /\ phase = "walk" /\ stack # <<>> /\ phase' # "header" /\ phase' # "none"
        /\ Top # 0 /\ seen' = seen \cup {Top} /\ <<>> = interior_children(Top)
        /\ UNCHANGED <<file, root>> /\ stack' = Front(stack) \o <<>>
    BY <1>5, <2>1, <2>2 DEF VisitLeaf, VisitOther, Visit
  <2> QED BY <2>3, <2>4, TreeVisit
<1>6. CASE \/ SkipCell \/ ReadDefinition \/ ReadRow \/ StartChain
           \/ FollowChain \/ AbortChain \/ EndChain \/ EndPage
           \/ UnknownTable \/ Finish
  BY <1>6, TreeUntouched
     DEF SkipCell, ReadDefinition, ReadRow, StartChain, FollowChain, AbortChain,
         EndChain, EndPage, UnknownTable, Finish, AtCell, MoreToRead, Walked
<1>7. CASE FindTable
  <2>1. /\ stack' = <<root'>> /\ seen' = {} /\ file' = file
        /\ phase' = "walk"
    BY <1>7 DEF FindTable, Walked
  <2>2. Range(stack') = {root'} /\ stack' \in Seq({root'})
    BY <2>1 DEF Range
  <2>3. ASSUME NEW C \in SUBSET PageNumbers, IsClosed(C)'
        PROVE  (seen' \cup Range(stack')) \ {0} \subseteq C
    BY <2>1, <2>2, <2>3 DEF IsClosed
  <2> QED BY <2>1, <2>2, <2>3 DEF TreeInv, Owed
<1>8. CASE UNCHANGED vars
  BY <1>8 DEF vars, TreeInv, Owed, IsClosed, interior_children, Is, Pages
<1> QED BY <1>1, <1>2, <1>3, <1>4, <1>5, <1>6, <1>7, <1>8 DEF Next

(* for_each_leaf_cell() and pages_of() visit exactly the pages under the root,
   in every file that parse_header() accepts. *)
THEOREM WalksWholeTree == Spec => []WholeTreeWalked
<1>1. TreeInv => WholeTreeWalked
  <2> SUFFICES ASSUME TreeInv, Walked
               PROVE  /\ 0 \notin seen /\ IsClosed(seen)
                      /\ \A C \in SUBSET PageNumbers : IsClosed(C) => seen \subseteq C
    BY DEF WholeTreeWalked
  <2>1. Owed = seen \cup {0}
    BY DEF Walked, Owed, Range
  <2> QED BY <2>1 DEF TreeInv, Walked, IsClosed
<1>2. Spec => []TreeInv
  BY TreeInit, TreeNext, PTL DEF Spec
<1> QED BY <1>1, <1>2, PTL

-----------------------------------------------------------------------------
(* The objects of a property list *)

IsSeq(s) == s \in Seq(Range(s))

Down(what) == IF what = "archive" THEN LogicalEdges ELSE PlainEdges

(* The segments above the first object of a trail: the entry of $top. *)
NamedAbove(what) == IF what = "archive" THEN 1 ELSE 0

StartsAt(what, segments, oid) ==
    IF what = "archive"
    THEN \E i \in DOMAIN Tops.keys : segments[1] = string_value(Tops.keys[i]) /\ oid = Deref(Tops.kids[i])
    ELSE oid = list.top

(* Segment by segment, from each object to the next. *)
Threaded(what, segments, oids) ==
    \A n \in 1 .. Len(oids) - 1 :
        Leads(Down(what)[oids[n]], segments[n + NamedAbove(what)], oids[n + 1])

(* A trail of objects, and the segments that lead along it. *)
Trail(what, segments, oids) ==
    /\ IsSeq(segments) /\ IsSeq(oids) /\ oids # <<>>
    /\ StartsAt(what, segments, oids[1])
    /\ Threaded(what, segments, oids)

WalkKind == IF stage = "logical" THEN "archive" ELSE "key"
OnStack == [n \in DOMAIN frames |-> frames[n].oid]

(* While a walk is on, the objects on its stack are the trail of its path. *)
StackIsTrail ==
    Walking =>
        /\ IsSeq(frames)
        /\ Trail(WalkKind, path, OnStack)
        /\ Len(path) = Len(frames) - 1 + NamedAbove(WalkKind)

PathInv == StackIsTrail /\ KeyPathLeads

-----------------------------------------------------------------------------
(* Sequences *)

LEMMA Appended ==
    ASSUME NEW s, NEW e, IsSeq(s)
    PROVE  /\ IsSeq(Append(s, e))
           /\ Len(Append(s, e)) = Len(s) + 1
           /\ Append(s, e)[Len(s) + 1] = e
           /\ Last(Append(s, e)) = e
           /\ \A n \in 1 .. Len(s) : Append(s, e)[n] = s[n]
PROOF
<1>1. s \in Seq(Range(s) \cup {e})
    BY DEF IsSeq
<1>2. Append(s, e) \in Seq(Range(s) \cup {e})
    BY <1>1
<1>3. Len(Append(s, e)) = Len(s) + 1 /\ DOMAIN Append(s, e) = 1 .. Len(s) + 1
    BY <1>1, <1>2
<1>4. \A n \in 1 .. Len(s) + 1 : Append(s, e)[n] \in Range(Append(s, e))
    BY <1>3 DEF Range
<1> QED
    BY <1>1, <1>2, <1>3, <1>4 DEF IsSeq, Last

LEMMA Fronted ==
    ASSUME NEW s, IsSeq(s), s # <<>>
    PROVE  /\ IsSeq(Front(s))
           /\ Len(Front(s)) = Len(s) - 1
           /\ Len(s) \in Nat \ {0}
           /\ \A n \in 1 .. Len(s) - 1 : Front(s)[n] = s[n]
PROOF
<1>1. Len(s) \in Nat \ {0}
    BY DEF IsSeq
<1>2. Front(s) = [n \in 1 .. Len(s) - 1 |-> s[n]]
    BY <1>1 DEF IsSeq, Front
<1>3. \A n \in 1 .. Len(s) - 1 : Front(s)[n] \in Range(Front(s))
    BY <1>2 DEF Range
<1> QED
    BY <1>1, <1>2, <1>3 DEF IsSeq

-----------------------------------------------------------------------------
(* The graph depends on the file only. *)
LEMMA SameGraph ==
    ASSUME UNCHANGED list
    PROVE  /\ LogicalEdges' = LogicalEdges /\ PlainEdges' = PlainEdges
           /\ \A what : Down(what)' = Down(what)
           /\ \A what, segments, oid : StartsAt(what, segments, oid)' <=> StartsAt(what, segments, oid)
           /\ \A oid, inner : Wraps(oid, inner)' <=> Wraps(oid, inner)
PROOF
<1>1. \A oid : Obj(oid)' = Obj(oid)
    BY DEF Obj, Scalar
<1>2. /\ \A oid, kind : IsKind(oid, kind)' <=> IsKind(oid, kind)
      /\ \A oid : string_value(oid)' = string_value(oid) /\ uid_value(oid)' = uid_value(oid)
    BY <1>1 DEF IsKind, string_value, uid_value
<1>3. \A oid, name : Named(oid, name)' = Named(oid, name)
    BY <1>1, <1>2 DEF Named
<1>4. ASSUME NEW oid, NEW name PROVE Field(oid, name)' = Field(oid, name)
    <2> DEFINE is == Named(oid, name)
               last == CHOOSE i \in is : \A j \in is : j <= i
    <2>1. is' = is
        BY <1>3
    <2>2. last' = last
        BY <2>1
    <2> QED
        BY <1>1, <2>1, <2>2 DEF Field
<1>5. Tops' = Tops /\ Objects' = Objects
    BY <1>1, <1>4 DEF Tops, Objects
<1>6. \A oid : Deref(oid)' = Deref(oid)
    BY <1>2, <1>5 DEF Deref, oid_for_uid
<1>7. \A oid : (IsNsDictionary(oid)' <=> IsNsDictionary(oid)) /\ (IsNsArray(oid)' <=> IsNsArray(oid))
    BY <1>2, <1>3, <1>4 DEF IsNsDictionary, IsNsArray
<1>8. \A oid, key : Name(oid, key)' = Name(oid, key)
    BY <1>2 DEF Name
<1>9. ASSUME NEW oid PROVE NsDictionary(oid)' = NsDictionary(oid)
    <2> DEFINE ks == Obj(Field(oid, "NS.keys")).kids
               vs == Obj(Field(oid, "NS.objects")).kids
    <2>1. ks' = ks /\ vs' = vs
        BY <1>1, <1>4
    <2> QED
        BY <1>6, <1>8, <2>1 DEF NsDictionary
<1>10. ASSUME NEW oid PROVE NsArray(oid)' = NsArray(oid)
    <2> DEFINE refs == Obj(Field(oid, "NS.objects")).kids
    <2>1. refs' = refs
        BY <1>1, <1>4
    <2>2. [i \in DOMAIN refs |-> Deref(refs[i])]' = [i \in DOMAIN refs |-> Deref(refs[i])]
        BY <1>6, <2>1
    <2> QED
        BY <2>2 DEF NsArray, Array
<1>11. LogicalEdges' = LogicalEdges
    BY <1>7, <1>9, <1>10 DEF LogicalEdges
<1>12. \A oid : Dict(oid)' = Dict(oid)
    BY <1>1, <1>8 DEF Dict
<1>13. PlainEdges' = PlainEdges
    BY <1>1, <1>2, <1>12 DEF PlainEdges, Array
<1>14. ASSUME NEW what, NEW segments, NEW oid
       PROVE  StartsAt(what, segments, oid)' <=> StartsAt(what, segments, oid)
    BY <1>2, <1>5, <1>6 DEF StartsAt
<1>15. ASSUME NEW oid, NEW inner
       PROVE  Wraps(oid, inner)' <=> Wraps(oid, inner)
    BY <1>1, <1>3, <1>7 DEF Wraps
<1>16. \A what : Down(what)' = Down(what)
    BY <1>11, <1>13 DEF Down
<1> QED
    BY <1>11, <1>13, <1>14, <1>15, <1>16

LEMMA SameTrail ==
    ASSUME UNCHANGED list, NEW what, NEW segments, NEW oids
    PROVE  Trail(what, segments, oids)' <=> Trail(what, segments, oids)
BY SameGraph DEF Trail, Threaded

(* A trail grows by an edge of its last object. *)
LEMMA TrailGrows ==
    ASSUME NEW what \in {"archive", "key"}, NEW segments, NEW oids, Trail(what, segments, oids),
           Len(segments) = Len(oids) - 1 + NamedAbove(what),
           NEW seg, NEW child, Leads(Down(what)[Last(oids)], seg, child)
    PROVE  /\ Trail(what, Append(segments, seg), Append(oids, child))
           /\ Len(Append(segments, seg)) = Len(Append(oids, child)) - 1 + NamedAbove(what)
PROOF
<1> DEFINE more == Append(segments, seg)
           further == Append(oids, child)
<1>1. /\ IsSeq(more) /\ Len(more) = Len(segments) + 1 /\ more[Len(segments) + 1] = seg
      /\ \A n \in 1 .. Len(segments) : more[n] = segments[n]
    BY Appended DEF Trail
<1>2. /\ IsSeq(further) /\ Len(further) = Len(oids) + 1 /\ further[Len(oids) + 1] = child
      /\ \A n \in 1 .. Len(oids) : further[n] = oids[n]
    BY Appended DEF Trail
<1>3. Len(oids) \in Nat \ {0} /\ Len(segments) \in Nat /\ Last(oids) = oids[Len(oids)]
    BY DEF Trail, IsSeq, Last
<1>4. NamedAbove(what) \in {0, 1} /\ (what = "archive" <=> NamedAbove(what) = 1)
    BY DEF NamedAbove
<1> HIDE DEF more, further
<1>5. StartsAt(what, more, further[1])
    <2>1. further[1] = oids[1]
        BY <1>2, <1>3
    <2>2. what = "archive" => more[1] = segments[1]
        BY <1>1, <1>3, <1>4
    <2> QED
        BY <2>1, <2>2 DEF Trail, StartsAt
<1>6. Threaded(what, more, further)
    <2> SUFFICES ASSUME NEW n \in 1 .. Len(further) - 1
                 PROVE  Leads(Down(what)[further[n]], more[n + NamedAbove(what)], further[n + 1])
        BY DEF Threaded
    <2>1. CASE n < Len(oids)
        <3>1. /\ n \in 1 .. Len(oids) - 1 /\ n \in 1 .. Len(oids) /\ n + 1 \in 1 .. Len(oids)
              /\ n + NamedAbove(what) \in 1 .. Len(segments)
            BY <1>2, <1>3, <1>4, <2>1
        <3>2. further[n] = oids[n] /\ further[n + 1] = oids[n + 1]
              /\ more[n + NamedAbove(what)] = segments[n + NamedAbove(what)]
            BY <1>1, <1>2, <3>1
        <3> QED
            BY <3>1, <3>2 DEF Trail, Threaded
    <2>2. CASE n = Len(oids)
        BY <1>1, <1>2, <1>3, <1>4, <2>2
    <2> QED
        BY <1>2, <1>3, <2>1, <2>2
<1>7. further # <<>>
    BY <1>2, <1>3 DEF IsSeq
<1>8. Len(more) = Len(further) - 1 + NamedAbove(what)
    BY <1>1, <1>2, <1>3, <1>4
<1> QED
    BY <1>1, <1>2, <1>5, <1>6, <1>7, <1>8 DEF Trail, more, further

LEMMA TrailShrinks ==
    ASSUME NEW what \in {"archive", "key"}, NEW segments, NEW oids, Trail(what, segments, oids),
           Len(segments) = Len(oids) - 1 + NamedAbove(what), Len(oids) > 1
    PROVE  /\ Trail(what, Front(segments), Front(oids))
           /\ Len(Front(segments)) = Len(Front(oids)) - 1 + NamedAbove(what)
PROOF
<1> DEFINE fewer == Front(segments)
           nearer == Front(oids)
<1>1. NamedAbove(what) \in {0, 1} /\ (what = "archive" <=> NamedAbove(what) = 1)
    BY DEF NamedAbove
<1>a. Len(oids) \in Nat /\ Len(segments) \in Nat
    BY DEF Trail, IsSeq
<1>b. Len(oids) \in Nat \ {0, 1} /\ Len(segments) \in Nat \ {0}
    <2> DEFINE l == Len(oids)
               m == Len(segments)
               k == NamedAbove(what)
    <2>1. l \in Nat /\ m \in Nat /\ k \in {0, 1} /\ m = l - 1 + k /\ l > 1
        BY <1>1, <1>a
    <2> HIDE DEF l, m, k
    <2>2. l \in Nat \ {0, 1} /\ m \in Nat \ {0}
        BY <2>1
    <2> QED
        BY <2>2 DEF l, m
<1>2. Len(oids) \in Nat \ {0, 1} /\ Len(segments) \in Nat \ {0} /\ segments # <<>> /\ oids # <<>>
    BY <1>b
<1>3. IsSeq(fewer) /\ Len(fewer) = Len(segments) - 1 /\ \A n \in 1 .. Len(segments) - 1 : fewer[n] = segments[n]
    BY <1>2, Fronted DEF Trail
<1>4. IsSeq(nearer) /\ Len(nearer) = Len(oids) - 1 /\ \A n \in 1 .. Len(oids) - 1 : nearer[n] = oids[n]
    BY <1>2, Fronted DEF Trail
<1> HIDE DEF fewer, nearer
<1>5. StartsAt(what, fewer, nearer[1])
    <2>1. nearer[1] = oids[1] /\ (what = "archive" => fewer[1] = segments[1])
        BY <1>1, <1>2, <1>3, <1>4
    <2> QED
        BY <2>1 DEF Trail, StartsAt
<1>6. Threaded(what, fewer, nearer)
    <2> SUFFICES ASSUME NEW n \in 1 .. Len(nearer) - 1
                 PROVE  Leads(Down(what)[nearer[n]], fewer[n + NamedAbove(what)], nearer[n + 1])
        BY DEF Threaded
    <2>1. /\ n \in 1 .. Len(oids) - 1 /\ n + 1 \in 1 .. Len(oids) - 1
          /\ n + NamedAbove(what) \in 1 .. Len(segments) - 1
        BY <1>1, <1>2, <1>4
    <2> QED
        BY <1>3, <1>4, <2>1 DEF Trail, Threaded
<1>7. nearer # <<>> /\ Len(fewer) = Len(nearer) - 1 + NamedAbove(what)
    BY <1>1, <1>2, <1>3, <1>4 DEF IsSeq
<1> QED
    BY <1>3, <1>4, <1>5, <1>6, <1>7 DEF Trail, fewer, nearer

(* One more segment disturbs no trail. *)
LEMMA TrailAbove ==
    ASSUME NEW what \in {"archive", "key"}, NEW segments, NEW oids, Trail(what, segments, oids),
           Len(segments) = Len(oids) - 1 + NamedAbove(what), NEW seg
    PROVE  /\ Trail(what, Append(segments, seg), oids)
           /\ Len(Append(segments, seg)) = Len(oids) + NamedAbove(what)
           /\ Last(Append(segments, seg)) = seg
PROOF
<1>1. /\ IsSeq(Append(segments, seg)) /\ Len(Append(segments, seg)) = Len(segments) + 1
      /\ Last(Append(segments, seg)) = seg
      /\ \A n \in 1 .. Len(segments) : Append(segments, seg)[n] = segments[n]
    BY Appended DEF Trail
<1>2. Len(oids) \in Nat \ {0} /\ Len(segments) \in Nat
    BY DEF Trail, IsSeq
<1>3. NamedAbove(what) \in {0, 1} /\ (what = "archive" <=> NamedAbove(what) = 1)
    BY DEF NamedAbove
<1>4. StartsAt(what, Append(segments, seg), oids[1])
    BY <1>1, <1>2, <1>3 DEF Trail, StartsAt
<1>5. Threaded(what, Append(segments, seg), oids)
    <2> SUFFICES ASSUME NEW n \in 1 .. Len(oids) - 1
                 PROVE  Leads(Down(what)[oids[n]], Append(segments, seg)[n + NamedAbove(what)], oids[n + 1])
        BY DEF Threaded
    <2>1. n + NamedAbove(what) \in 1 .. Len(segments)
        BY <1>2, <1>3
    <2> QED
        BY <1>1, <2>1 DEF Trail, Threaded
<1> QED
    BY <1>1, <1>2, <1>3, <1>4, <1>5 DEF Trail

-----------------------------------------------------------------------------
(* What an answer must be, for the key path in it to lead to the object. *)
LeadsTo(what, segments, oids) ==
    /\ Trail(what, segments, oids)
    /\ \/ /\ Len(segments) = Len(oids) + NamedAbove(what)
          /\ Below(Down(what)[Last(oids)], Last(segments))
       \/ /\ Len(segments) = Len(oids) - 1 + NamedAbove(what)
          /\ Last(oids) = target \/ (what = "archive" /\ Wraps(Last(oids), target))

LEMMA TellHolds ==
    ASSUME NEW what \in {"archive", "key"}, NEW segments, NEW oids, LeadsTo(what, segments, oids),
           Tell(Place(what, segments, oids))
    PROVE  PathInv'
PROOF
<1>1. told' = [what |-> what, path |-> segments, trail |-> oids] /\ stage' = "told" /\ UNCHANGED <<list, target>>
    BY DEF Tell, Place, listVars
<1>2. /\ Down(what)' = Down(what) /\ \A oid, inner : Wraps(oid, inner)' <=> Wraps(oid, inner)
      /\ StartsAt(what, segments, oids[1])' <=> StartsAt(what, segments, oids[1])
    BY <1>1, SameGraph
<1>3. Below(Down(what)[Last(oids)], Last(segments))' <=> Below(Down(what)[Last(oids)], Last(segments))
    BY <1>1, <1>2 DEF Below
<1>4. StackIsTrail'
    BY <1>1 DEF StackIsTrail, Walking
<1>5. Len(oids) \in Nat /\ Len(segments) \in Nat /\ oids # <<>> /\ NamedAbove(what) \in {0, 1}
    BY DEF LeadsTo, Trail, IsSeq, NamedAbove
<1>6. StartsAt(what, segments, oids[1])' /\ Threaded(what, segments, oids)'
    BY <1>2 DEF LeadsTo, Trail, Threaded
<1>7. LET rest == Len(segments) - (Len(oids) - 1 + NamedAbove(what)) IN
         \/ rest = 1 /\ Below(Down(what)[Last(oids)], Last(segments))'
         \/ rest = 0 /\ (Last(oids) = target' \/ (what = "archive" /\ Wraps(Last(oids), target)'))
    BY <1>1, <1>2, <1>3, <1>5 DEF LeadsTo
<1>8. \A n \in 1 .. Len(oids) - 1 :
          Leads(Down(what)'[oids[n]], segments[n + NamedAbove(what)], oids[n + 1])
    BY <1>6 DEF Threaded
<1>9. ASSUME what = "archive" PROVE KeyPathLeads'
    <2>1. Down(what)' = LogicalEdges' /\ NamedAbove(what) = 1
        BY <1>9 DEF Down, NamedAbove
    <2>2. \E i \in DOMAIN Tops'.keys : segments[1] = string_value(Tops.keys[i])' /\ oids[1] = Deref(Tops.kids[i])'
        BY <1>6, <1>9 DEF StartsAt
    <2> QED
        BY <1>1, <1>5, <1>7, <1>8, <1>9, <2>1, <2>2 DEF KeyPathLeads
<1>10. ASSUME what = "key" PROVE KeyPathLeads'
    <2>1. Down(what)' = PlainEdges' /\ NamedAbove(what) = 0
        BY <1>10 DEF Down, NamedAbove
    <2>2. oids[1] = list'.top
        BY <1>6, <1>10 DEF StartsAt
    <2> QED
        BY <1>1, <1>5, <1>7, <1>8, <1>10, <2>1, <2>2 DEF KeyPathLeads
<1>11. KeyPathLeads'
    BY <1>9, <1>10
<1> QED
    BY <1>4, <1>11 DEF PathInv

(* What is told that is no key path. *)
LEMMA TellOther ==
    ASSUME NEW answer, answer.what \notin {"archive", "key"}, Tell(answer)
    PROVE  PathInv'
BY DEF Tell, PathInv, StackIsTrail, Walking, KeyPathLeads, Placed

(* A walk that goes on has told nothing. *)
LEMMA WalkHolds ==
    ASSUME stage' # "told", StackIsTrail'
    PROVE  PathInv'
BY DEF PathInv, KeyPathLeads, Placed

(* The walk at one of its children. *)
LEMMA AtEdge ==
    ASSUME StackIsTrail, AtChild
    PROVE  /\ WalkKind \in {"archive", "key"}
           /\ Trail(WalkKind, path, OnStack) /\ Len(path) = Len(OnStack) - 1 + NamedAbove(WalkKind)
           /\ Last(OnStack) = Current.oid
           /\ Leads(Down(WalkKind)[Last(OnStack)], Edge.seg, Edge.child)
           /\ target \in {Edge.key, Edge.child} => Below(Down(WalkKind)[Last(OnStack)], Edge.seg)
PROOF
<1>1. /\ IsSeq(frames) /\ IsSeq(OnStack) /\ OnStack # <<>>
      /\ Trail(WalkKind, path, OnStack)
      /\ Len(path) = Len(frames) - 1 + NamedAbove(WalkKind)
    BY DEF AtChild, StackIsTrail, Trail
<1>2. Len(OnStack) = Len(frames) /\ Len(frames) \in Nat \ {0} /\ Last(OnStack) = Current.oid
    BY <1>1 DEF OnStack, IsSeq, Last, Current
<1>3. Edges = Down(WalkKind)[Current.oid]
    BY DEF Edges, Down, WalkKind
<1> QED
    BY <1>1, <1>2, <1>3 DEF AtChild, Edge, Leads, Below, WalkKind

-----------------------------------------------------------------------------
(* The first object of a walk is a trail of its own. *)
LEMMA WalkStarts ==
    ASSUME NEW oid, NEW what \in {"archive", "key"}, NEW segments,
           stage' \in {"logical", "plain"}, WalkKind' = what,
           frames' = <<Call(oid)>>, path' = segments, UNCHANGED list,
           IsSeq(segments), Len(segments) = NamedAbove(what), StartsAt(what, segments, oid)
    PROVE  PathInv'
PROOF
<1> DEFINE alone == <<oid>>
<1>1. OnStack' = alone
    BY DEF OnStack, Call
<1>2. IsSeq(alone) /\ alone # <<>> /\ Len(alone) = 1 /\ alone[1] = oid
    BY DEF IsSeq, Range
<1>3. IsSeq(frames)' /\ Len(frames') = 1
    BY DEF IsSeq, Range
<1> HIDE DEF alone
<1>4. Trail(what, segments, alone)
    BY <1>2 DEF Trail, Threaded
<1>5. Trail(what, segments, alone)'
    BY <1>4, SameTrail
<1>6. NamedAbove(what) \in {0, 1}
    BY DEF NamedAbove
<1>7. Trail(WalkKind, path, OnStack)'
    BY <1>1, <1>5
<1>8. Len(path') = Len(frames') - 1 + NamedAbove(WalkKind')
    BY <1>3, <1>6
<1>9. StackIsTrail'
    BY <1>3, <1>7, <1>8 DEF StackIsTrail, NamedAbove
<1> QED
    BY <1>9, WalkHolds

(* The walk at its next child: the objects on the stack stay. *)
LEMMA Advanced ==
    ASSUME NEW calls, IsSeq(calls), calls # <<>>
    PROVE  /\ IsSeq(Advance(calls)) /\ Len(Advance(calls)) = Len(calls)
           /\ [n \in DOMAIN Advance(calls) |-> Advance(calls)[n].oid] = [n \in DOMAIN calls |-> calls[n].oid]
PROOF
<1>1. Len(calls) \in Nat \ {0} /\ calls \in Seq(Range(calls))
    BY DEF IsSeq
<1> DEFINE more == Advance(calls)
           call == [calls[Len(calls)] EXCEPT !.at = @ + 1]
<1>2. more = [calls EXCEPT ![Len(calls)] = call]
    BY DEF Advance
<1>3. more \in Seq(Range(calls) \cup {call})
    BY <1>1, <1>2
<1>4. DOMAIN more = DOMAIN calls /\ Len(more) = Len(calls) /\ DOMAIN calls = 1 .. Len(calls)
    BY <1>1, <1>2, <1>3
<1>5. \A n \in DOMAIN calls : more[n].oid = calls[n].oid
    BY <1>1, <1>2, <1>4
<1>6. \A n \in 1 .. Len(more) : more[n] \in Range(more)
    BY <1>4 DEF Range
<1>7. IsSeq(more)
    BY <1>3, <1>6 DEF IsSeq
<1> HIDE DEF more
<1> QED
    BY <1>4, <1>5, <1>7 DEF more

LEMMA StackMoves ==
    ASSUME NEW calls, IsSeq(calls), calls # <<>>, frames' = Advance(calls), UNCHANGED <<list, stage>>, Walking,
           Trail(WalkKind, path', [n \in DOMAIN calls |-> calls[n].oid]),
           Len(path') = Len(calls) - 1 + NamedAbove(WalkKind)
    PROVE  PathInv'
PROOF
<1>1. /\ IsSeq(frames)' /\ Len(frames') = Len(calls)
      /\ OnStack' = [n \in DOMAIN calls |-> calls[n].oid]
    BY Advanced DEF OnStack
<1>2. WalkKind' = WalkKind /\ NamedAbove(WalkKind)' = NamedAbove(WalkKind)
    BY DEF WalkKind, NamedAbove
<1>3. Trail(WalkKind, path, OnStack)'
    BY <1>1, <1>2, SameTrail
<1>4. StackIsTrail'
    BY <1>1, <1>2, <1>3 DEF StackIsTrail
<1> QED
    BY <1>4, WalkHolds DEF Walking

LEMMA DescendHolds == PathInv /\ Descend => PathInv'
PROOF
<1> SUFFICES ASSUME PathInv, Descend PROVE PathInv'
    OBVIOUS
<1> USE DEF PathInv
<1>1. AtChild /\ frames' = Append(frames, Call(Edge.child)) /\ path' = Append(path, Edge.seg)
      /\ UNCHANGED <<list, stage>>
    BY DEF Descend, listVars
<1>2. /\ WalkKind \in {"archive", "key"}
      /\ Trail(WalkKind, path, OnStack) /\ Len(path) = Len(OnStack) - 1 + NamedAbove(WalkKind)
      /\ Leads(Down(WalkKind)[Last(OnStack)], Edge.seg, Edge.child)
    BY <1>1, AtEdge
<1>3. /\ Trail(WalkKind, path', Append(OnStack, Edge.child))
      /\ Len(path') = Len(Append(OnStack, Edge.child)) - 1 + NamedAbove(WalkKind)
    BY <1>1, <1>2, TrailGrows
<1>4. IsSeq(frames) /\ Len(frames) \in Nat /\ IsSeq(OnStack) /\ Len(OnStack) = Len(frames)
    BY <1>1, <1>2 DEF StackIsTrail, AtChild, Trail, IsSeq, OnStack
<1>5. /\ IsSeq(frames') /\ Len(frames') = Len(frames) + 1 /\ frames'[Len(frames) + 1] = Call(Edge.child)
      /\ \A n \in 1 .. Len(frames) : frames'[n] = frames[n]
    BY <1>1, <1>4, Appended
<1>6. OnStack' = Append(OnStack, Edge.child)
    <2>1. DOMAIN frames' = 1 .. Len(frames) + 1 /\ DOMAIN frames = 1 .. Len(frames)
        BY <1>4, <1>5 DEF IsSeq
    <2>2. /\ Len(Append(OnStack, Edge.child)) = Len(frames) + 1
          /\ Append(OnStack, Edge.child)[Len(frames) + 1] = Edge.child
          /\ \A n \in 1 .. Len(frames) : Append(OnStack, Edge.child)[n] = OnStack[n]
          /\ IsSeq(Append(OnStack, Edge.child))
        BY <1>4, Appended
    <2>3. \A n \in 1 .. Len(frames) + 1 : frames'[n].oid = Append(OnStack, Edge.child)[n]
        BY <1>4, <1>5, <2>1, <2>2 DEF OnStack, Call
    <2>4. Append(OnStack, Edge.child) = [n \in 1 .. Len(frames) + 1 |-> Append(OnStack, Edge.child)[n]]
        BY <1>4, <2>2 DEF IsSeq
    <2>5. OnStack' = [n \in 1 .. Len(frames) + 1 |-> frames'[n].oid]
        BY <2>1 DEF OnStack
    <2> QED
        BY <2>3, <2>4, <2>5
<1>7. WalkKind' = WalkKind /\ NamedAbove(WalkKind)' = NamedAbove(WalkKind)
    BY <1>1 DEF WalkKind, NamedAbove
<1>8. Trail(WalkKind, path, OnStack)'
    BY <1>1, <1>3, <1>6, <1>7, SameTrail
<1>9. Len(path') = Len(frames') - 1 + NamedAbove(WalkKind)'
    <2>1. Len(OnStack') = Len(frames')
        BY <1>5 DEF OnStack, IsSeq
    <2> QED
        BY <1>3, <1>6, <1>7, <2>1
<1>10. StackIsTrail'
    BY <1>5, <1>8, <1>9 DEF StackIsTrail
<1> QED
    BY <1>1, <1>10, WalkHolds DEF AtChild, Walking

LEMMA ReturnHolds == PathInv /\ Return => PathInv'
PROOF
<1> SUFFICES ASSUME PathInv, Return PROVE PathInv'
    OBVIOUS
<1>1. /\ Walking /\ Len(frames) > 1 /\ frames' = Advance(Front(frames)) /\ path' = Front(path)
      /\ UNCHANGED <<list, stage>>
    BY DEF Return, AtEnd, listVars
<1>2. /\ IsSeq(frames) /\ Trail(WalkKind, path, OnStack) /\ WalkKind \in {"archive", "key"}
      /\ Len(path) = Len(frames) - 1 + NamedAbove(WalkKind)
    BY <1>1 DEF PathInv, StackIsTrail, WalkKind
<1>3. Len(frames) \in Nat /\ DOMAIN frames = 1 .. Len(frames) /\ Len(OnStack) = Len(frames) /\ IsSeq(OnStack)
    BY <1>2 DEF IsSeq, Trail, OnStack
<1>4. frames # <<>> /\ OnStack # <<>>
    BY <1>1, <1>3
<1>5. /\ IsSeq(Front(frames)) /\ Len(Front(frames)) = Len(frames) - 1
      /\ \A n \in 1 .. Len(frames) - 1 : Front(frames)[n] = frames[n]
    BY <1>2, <1>4, Fronted, SMTT(40)
<1>6. /\ IsSeq(Front(OnStack)) /\ Len(Front(OnStack)) = Len(frames) - 1
      /\ \A n \in 1 .. Len(frames) - 1 : Front(OnStack)[n] = OnStack[n]
    BY <1>3, <1>4, Fronted
<1>7. [n \in DOMAIN Front(frames) |-> Front(frames)[n].oid] = Front(OnStack)
    <2>1. DOMAIN Front(frames) = 1 .. Len(frames) - 1 /\ DOMAIN Front(OnStack) = 1 .. Len(frames) - 1
        BY <1>5, <1>6 DEF IsSeq
    <2>2. \A n \in 1 .. Len(frames) - 1 : Front(frames)[n].oid = Front(OnStack)[n]
        BY <1>3, <1>5, <1>6 DEF OnStack
    <2>3. Front(OnStack) = [n \in 1 .. Len(frames) - 1 |-> Front(OnStack)[n]]
        BY <1>6, <2>1 DEF IsSeq
    <2> QED
        BY <2>1, <2>2, <2>3
<1>8. /\ Trail(WalkKind, path', Front(OnStack))
      /\ Len(path') = Len(Front(OnStack)) - 1 + NamedAbove(WalkKind)
    BY <1>1, <1>2, <1>3, TrailShrinks
<1>9. Front(frames) # <<>>
    BY <1>1, <1>3, <1>5
<1> QED
    BY <1>1, <1>5, <1>6, <1>7, <1>8, <1>9, StackMoves

-----------------------------------------------------------------------------
(* The steps that tell *)

LEMMA TellTopHolds == TellTop => PathInv'
PROOF
<1> SUFFICES ASSUME TellTop PROVE PathInv'
    OBVIOUS
<1>1. entry \in DOMAIN Tops.keys /\ TopObject = target /\ Tell(Place("archive", TopPath, <<TopObject>>))
    BY DEF TellTop, AtTop
<1>2. /\ IsSeq(TopPath) /\ Len(TopPath) = 1 /\ TopPath[1] = string_value(Tops.keys[entry])
      /\ IsSeq(<<TopObject>>) /\ Len(<<TopObject>>) = 1 /\ <<TopObject>>[1] = TopObject /\ Last(<<TopObject>>) = target
    BY <1>1 DEF IsSeq, Range, Last, TopPath
<1>3. StartsAt("archive", TopPath, TopObject)
    BY <1>1, <1>2 DEF StartsAt, TopObject
<1>4. Trail("archive", TopPath, <<TopObject>>)
    BY <1>2, <1>3 DEF Trail, Threaded
<1>5. LeadsTo("archive", TopPath, <<TopObject>>)
    BY <1>2, <1>4 DEF LeadsTo, NamedAbove
<1> QED
    BY <1>1, <1>5, TellHolds

LEMMA TellRootHolds == TellRoot => PathInv'
PROOF
<1> SUFFICES ASSUME TellRoot PROVE PathInv'
    OBVIOUS
<1> DEFINE alone == <<list.top>>
           none == << >>
<1>1. list.top = target /\ Tell(Place("key", none, alone))
    BY DEF TellRoot
<1>2. IsSeq(none) /\ Len(none) = 0 /\ IsSeq(alone) /\ Len(alone) = 1 /\ alone[1] = target /\ Last(alone) = target
    BY <1>1 DEF IsSeq, Range, Last
<1>3. StartsAt("key", none, alone[1])
    BY DEF StartsAt
<1>4. Trail("key", none, alone)
    BY <1>2, <1>3 DEF Trail, Threaded
<1>5. LeadsTo("key", none, alone)
    BY <1>2, <1>4 DEF LeadsTo, NamedAbove
<1> QED
    BY <1>1, <1>5, TellHolds

LEMMA TellBelowHolds == PathInv /\ (TellKey \/ TellChild) => PathInv'
PROOF
<1> SUFFICES ASSUME PathInv, TellKey \/ TellChild PROVE PathInv'
    OBVIOUS
<1>1. AtChild /\ target \in {Edge.key, Edge.child} /\ Tell(Answer(Append(path, Edge.seg))) /\ StackIsTrail
    BY DEF TellKey, TellChild, KeyHit, ChildHit, PathInv
<1>2. Answer(Append(path, Edge.seg)) = Place(WalkKind, Append(path, Edge.seg), OnStack)
    BY DEF Answer, WalkKind, OnStack
<1>3. /\ WalkKind \in {"archive", "key"}
      /\ Trail(WalkKind, path, OnStack) /\ Len(path) = Len(OnStack) - 1 + NamedAbove(WalkKind)
      /\ Below(Down(WalkKind)[Last(OnStack)], Edge.seg)
    BY <1>1, AtEdge
<1>4. /\ Trail(WalkKind, Append(path, Edge.seg), OnStack)
      /\ Len(Append(path, Edge.seg)) = Len(OnStack) + NamedAbove(WalkKind)
      /\ Last(Append(path, Edge.seg)) = Edge.seg
    BY <1>3, TrailAbove
<1>5. LeadsTo(WalkKind, Append(path, Edge.seg), OnStack)
    BY <1>3, <1>4 DEF LeadsTo
<1> QED
    BY <1>1, <1>2, <1>3, <1>5, TellHolds

LEMMA TellWrappedHolds == PathInv /\ TellWrapped => PathInv'
PROOF
<1> SUFFICES ASSUME PathInv, TellWrapped PROVE PathInv'
    OBVIOUS
<1>1. Walking /\ WalkKind = "archive" /\ Wraps(Current.oid, target) /\ Tell(Answer(path)) /\ StackIsTrail
    BY DEF TellWrapped, AtEnd, PathInv, WalkKind
<1>2. Answer(path) = Place(WalkKind, path, OnStack)
    BY DEF Answer, WalkKind, OnStack
<1>3. IsSeq(frames) /\ Trail(WalkKind, path, OnStack) /\ Len(path) = Len(frames) - 1 + NamedAbove(WalkKind)
    BY <1>1 DEF StackIsTrail
<1>4. Len(OnStack) = Len(frames) /\ Last(OnStack) = Current.oid
    <2>1. IsSeq(OnStack) /\ OnStack # <<>> /\ DOMAIN OnStack = DOMAIN frames
        BY <1>3 DEF Trail, OnStack
    <2>2. Len(OnStack) = Len(frames) /\ Len(frames) \in Nat \ {0} /\ DOMAIN frames = 1 .. Len(frames)
        BY <1>3, <2>1 DEF IsSeq
    <2> QED
        BY <2>2 DEF OnStack, Last, Current
<1>5. LeadsTo(WalkKind, path, OnStack)
    BY <1>1, <1>3, <1>4 DEF LeadsTo
<1> QED
    BY <1>1, <1>2, <1>5, TellHolds

(* Nothing found: "$" is told, along no trail. *)
LEMMA EndPlainHolds == EndPlain => PathInv'
BY DEF EndPlain, Tell, Place, PathInv, StackIsTrail, Walking, KeyPathLeads, Placed

-----------------------------------------------------------------------------
(* The other steps *)

LEMMA WalkTopHolds == PathInv /\ WalkTop => PathInv'
PROOF
<1> SUFFICES ASSUME PathInv, WalkTop PROVE PathInv'
    OBVIOUS
<1>1. CASE TopObject \in visited
    <2>1. stage' = "tops"
        BY <1>1 DEF WalkTop, AtTop
    <2> QED
        BY <2>1, WalkHolds DEF StackIsTrail, Walking
<1>2. CASE TopObject \notin visited
    <2>1. /\ frames' = <<Call(TopObject)>> /\ path' = TopPath /\ stage' = "logical" /\ UNCHANGED list
          /\ entry \in DOMAIN Tops.keys
        BY <1>2 DEF WalkTop, AtTop, listVars
    <2>2. IsSeq(TopPath) /\ Len(TopPath) = 1 /\ TopPath[1] = string_value(Tops.keys[entry])
        BY DEF IsSeq, Range, TopPath
    <2>3. StartsAt("archive", TopPath, TopObject)
        BY <2>1, <2>2 DEF StartsAt, TopObject
    <2>4. WalkKind' = "archive" /\ Len(TopPath) = NamedAbove("archive") /\ stage' \in {"logical", "plain"}
        BY <2>1, <2>2 DEF WalkKind, NamedAbove
    <2>5. PICK oid, segments : oid = TopObject /\ segments = TopPath
        OBVIOUS
    <2>6. frames' = <<Call(oid)>> /\ path' = segments /\ UNCHANGED list
        BY <2>1, <2>5
    <2>7. IsSeq(segments) /\ Len(segments) = NamedAbove("archive") /\ StartsAt("archive", segments, oid)
        BY <2>2, <2>3, <2>4, <2>5
    <2> QED
        BY <2>4, <2>6, <2>7, WalkStarts
<1> QED
    BY <1>1, <1>2

LEMMA EnterRootHolds == EnterRoot => PathInv'
PROOF
<1> SUFFICES ASSUME EnterRoot PROVE PathInv'
    OBVIOUS
<1> DEFINE none == << >>
<1>1. frames' = <<Call(list.top)>> /\ path' = none /\ stage' = "plain" /\ UNCHANGED list
    BY DEF EnterRoot, listVars
<1>2. IsSeq(none) /\ Len(none) = 0 /\ NamedAbove("key") = 0 /\ StartsAt("key", none, list.top)
    BY DEF IsSeq, Range, NamedAbove, StartsAt
<1>3. WalkKind' = "key"
    BY <1>1 DEF WalkKind
<1> QED
    BY <1>1, <1>2, <1>3, WalkStarts

LEMMA SkipChildHolds == PathInv /\ SkipChild => PathInv'
PROOF
<1> SUFFICES ASSUME PathInv, SkipChild PROVE PathInv'
    OBVIOUS
<1>1. /\ frames' = Advance(frames) /\ UNCHANGED <<list, stage, path>> /\ Walking
    BY DEF SkipChild, AtChild, listVars
<1>2. IsSeq(frames) /\ Trail(WalkKind, path, OnStack) /\ Len(path) = Len(frames) - 1 + NamedAbove(WalkKind)
    BY <1>1 DEF PathInv, StackIsTrail
<1>3. frames # <<>>
    BY <1>2 DEF Trail, OnStack, IsSeq
<1> QED
    BY <1>1, <1>2, <1>3, StackMoves DEF OnStack

(* Between two walks there is no stack to speak of. *)
LEMMA BetweenHolds == BeginWalk \/ DanglingTop \/ NoMoreTops \/ EndLogical => PathInv'
BY WalkHolds DEF BeginWalk, DanglingTop, NoMoreTops, EndLogical, StackIsTrail, Walking

LEMMA RegionHolds == ParseFails \/ TellRegion => PathInv'
BY TellOther DEF ParseFails, TellRegion, Unplaced

LEMMA StillHolds == PathInv /\ UNCHANGED pathVars => PathInv'
PROOF
<1> SUFFICES ASSUME PathInv, UNCHANGED pathVars PROVE PathInv'
    OBVIOUS
<1>1. UNCHANGED <<list, stage, target, frames, path, told>>
    BY DEF pathVars, listVars, walkVars
<1>2. StackIsTrail'
    <2>1. WalkKind' = WalkKind /\ OnStack' = OnStack /\ (Walking' <=> Walking)
        BY <1>1 DEF WalkKind, OnStack, Walking
    <2>2. Trail(WalkKind, path, OnStack)' <=> Trail(WalkKind, path, OnStack)
        BY <1>1, <2>1, SameTrail
    <2> QED
        BY <1>1, <2>1, <2>2 DEF PathInv, StackIsTrail, NamedAbove
<1>3. KeyPathLeads'
    <2>1. /\ LogicalEdges' = LogicalEdges /\ PlainEdges' = PlainEdges
          /\ \A oid, inner : Wraps(oid, inner)' <=> Wraps(oid, inner)
        BY <1>1, SameGraph
    <2>2. \A segments, oid : StartsAt("archive", segments, oid)' <=> StartsAt("archive", segments, oid)
        BY <1>1, SameGraph
    <2>3. \A segments, oid :
            (\E i \in DOMAIN Tops.keys : segments[1] = string_value(Tops.keys[i]) /\ oid = Deref(Tops.kids[i]))'
            <=> (\E i \in DOMAIN Tops.keys : segments[1] = string_value(Tops.keys[i]) /\ oid = Deref(Tops.kids[i]))
        BY <2>2 DEF StartsAt
    <2>4. \A edges, seg : Below(edges, seg)' <=> Below(edges, seg)
        BY <1>1 DEF Below
    <2>5. KeyPathLeads
        BY DEF PathInv
    <2>6. CASE Placed /\ told.what = "archive"
        <3>1. /\ told.trail # <<>>
              /\ \E i \in DOMAIN Tops.keys : /\ told.path[1] = string_value(Tops.keys[i])
                                            /\ told.trail[1] = Deref(Tops.kids[i])
            BY <2>5, <2>6 DEF KeyPathLeads
        <3>2. (\E i \in DOMAIN Tops.keys : /\ told.path[1] = string_value(Tops.keys[i])
                                          /\ told.trail[1] = Deref(Tops.kids[i]))'
            <4>1. PICK segments, oid : segments = told.path /\ oid = told.trail[1]
                OBVIOUS
            <4>2. (\E i \in DOMAIN Tops.keys : segments[1] = string_value(Tops.keys[i]) /\ oid = Deref(Tops.kids[i]))'
                BY <2>3, <3>1, <4>1, SMTT(40)
            <4>3. segments = told'.path /\ oid = told'.trail[1]
                BY <1>1, <4>1
            <4> QED
                BY <4>2, <4>3
        <3> DEFINE oids == told.trail
        <3>3. /\ \A n \in 1 .. Len(oids) - 1 : Leads(LogicalEdges[oids[n]], told.path[n + 1], oids[n + 1])
              /\ LET more == Len(told.path) - (Len(oids) - 1 + 1)
                 IN  \/ more = 1 /\ Below(LogicalEdges[Last(oids)], Last(told.path))
                     \/ more = 0 /\ (Last(oids) = target \/ Wraps(Last(oids), target))
            BY <2>5, <2>6 DEF KeyPathLeads
        <3> QED
            BY <1>1, <2>1, <2>4, <2>6, <3>1, <3>2, <3>3 DEF KeyPathLeads, Placed
    <2>7. CASE Placed /\ told.what = "key"
        BY <1>1, <2>1, <2>3, <2>4, <2>5, <2>7 DEF KeyPathLeads, Placed
    <2>8. CASE ~Placed
        BY <1>1, <2>8 DEF KeyPathLeads, Placed
    <2> QED
        BY <2>6, <2>7, <2>8 DEF Placed
<1> QED
    BY <1>2, <1>3 DEF PathInv

-----------------------------------------------------------------------------
(* For every list or archive that parses, damaged or not, and every byte: a key
   path that is told leads, segment by segment, to the object that owns the byte
   (bplist::path::path_to(), nskeyed::find_path()). *)
THEOREM KeyPathsLead == PathSpec => []KeyPathLeads
PROOF
<1>1. (\E b \in Bplists, o \in Nat : ListInit(b, o)) => PathInv
    BY DEF ListInit, PathInv, StackIsTrail, Walking, KeyPathLeads, Placed
<1>2. PathInv /\ [WalkNext]_pathVars => PathInv'
    <2> SUFFICES ASSUME PathInv, [WalkNext]_pathVars PROVE PathInv'
        OBVIOUS
    <2>1. CASE ParseFails \/ TellRegion
        BY <2>1, RegionHolds
    <2>2. CASE BeginWalk \/ DanglingTop \/ NoMoreTops \/ EndLogical
        BY <2>2, BetweenHolds
    <2>3. CASE TellTop
        BY <2>3, TellTopHolds
    <2>4. CASE WalkTop
        BY <2>4, WalkTopHolds
    <2>5. CASE EnterRoot
        BY <2>5, EnterRootHolds
    <2>6. CASE TellRoot
        BY <2>6, TellRootHolds
    <2>7. CASE TellKey \/ TellChild
        BY <2>7, TellBelowHolds
    <2>8. CASE SkipChild
        BY <2>8, SkipChildHolds
    <2>9. CASE Descend
        BY <2>9, DescendHolds
    <2>10. CASE TellWrapped
        BY <2>10, TellWrappedHolds
    <2>11. CASE Return
        BY <2>11, ReturnHolds
    <2>12. CASE EndPlain
        BY <2>12, EndPlainHolds
    <2>13. CASE UNCHANGED pathVars
        BY <2>13, StillHolds
    <2> QED
        BY <2>1, <2>2, <2>3, <2>4, <2>5, <2>6, <2>7, <2>8, <2>9, <2>10, <2>11, <2>12, <2>13 DEF WalkNext
<1>3. PathInv => KeyPathLeads
    BY DEF PathInv
<1> QED
    BY <1>1, <1>2, <1>3, PTL DEF PathSpec

-----------------------------------------------------------------------------
(* The invariant *)

Opened == txn # NoTxn
Region == (committed + 1) .. (committed + InFlight)

(* What the writer of a frame added to the checksum, and what the frame before
   it had added to it then. *)
Tip(f) == f.sum[Len(f.sum)]
Base(f) == f.sum[Len(f.sum) - 1]

TypeInv ==
    /\ main \in Databases
    /\ salt \in 0 .. MaxGenerations
    /\ log_frames \in Seq(Frame)
    /\ committed \in 0 .. Len(log_frames)
    /\ begun \in 0 .. MaxTxns
    /\ limit \in Nat /\ backfilled \in Nat /\ reached \in Nat
    /\ copied \in SUBSET (1 .. MaxPages)
    /\ Opened =>
          /\ txn.size \in 1 .. MaxPages
          /\ txn.pages \in SUBSET (1 .. txn.size) /\ txn.pages # {}
          /\ txn.left \in SUBSET txn.pages
          /\ begun # 0 /\ salt # 0
          /\ txn = [size |-> txn.size, pages |-> txn.pages, left |-> txn.left, outcome |-> txn.outcome]
    /\ salt = 0 => log_frames = <<>>

(* Frames carry what was added for them, and beyond the committed ones they are
   of one writer with the frame before them as it was then. *)
FrameInv ==
    \A k \in DOMAIN log_frames :
        LET f == log_frames[k] IN
        /\ Len(f.sum) >= 2
        /\ Tip(f) = Added(f.page, f.size, Tip(f)[3])
        /\ Tip(f)[3] <= begun
        /\ f.salt <= salt
        /\ f.data \in {Torn, Tip(f)[3]}
        /\ f.salt = salt /\ k > committed + 1 => Base(f)[3] = Tip(f)[3]
        /\ f.salt = salt /\ Opened /\ k > committed + InFlight => Tip(f)[3] < begun

(* The frames of the open transaction. *)
TxnInv ==
    Opened =>
        /\ committed + InFlight <= Len(log_frames)
        /\ \A k \in Region :
              LET f == log_frames[k] IN
              /\ f.salt = salt
              /\ f.sum = Append(Running(log, k), Added(f.page, f.size, begun))
              /\ f.page \in txn.pages \ txn.left
              /\ f.size = (IF txn.left = {} /\ k = committed + InFlight THEN txn.size ELSE 0)
        /\ \A p \in txn.pages \ txn.left : \E k \in Region : log_frames[k].page = p
        /\ txn.left = {} => Pending # {}
        /\ txn.outcome = Result(Latest, txn.size, txn.pages, begun)
        /\ (Len(Latest) + 1) .. txn.size \subseteq txn.pages

(* What is committed verifies, and nothing behind it commits. *)
LogInv ==
    /\ Valid(log, committed)
    /\ \A j \in (committed + 1) .. Len(log_frames) : Valid(log, j) => log_frames[j].size = 0
    /\ \A i \in 1 .. committed : log_frames[i].size # 0 <=> i \in DOMAIN past

NoWrite(p, a, b) == \A i \in (a + 1) .. b : log_frames[i].page # p

(* A past database is the frames up to its own over an earlier one. *)
PastInv ==
    /\ DOMAIN past \subseteq 0 .. committed
    /\ 0 \in DOMAIN past /\ committed \in DOMAIN past
    /\ \A n \in DOMAIN past :
          /\ past[n] \in Databases
          /\ n > 0 => Len(past[n]) = log_frames[n].size
          /\ \A p \in DOMAIN past[n] :
                /\ \A m \in DOMAIN past :
                      m <= n /\ NoWrite(p, m, n) => p \in DOMAIN past[m] /\ past[n][p] = past[m][p]
                /\ \A i \in 1 .. n :
                      log_frames[i].page = p /\ NoWrite(p, i, n) => past[n][p] = log_frames[i].data

(* A page of the main file is as of the last checkpoint that ended, unless a
   frame that a later one may have copied holds it. *)
MainInv ==
    /\ backfilled \in DOMAIN past /\ reached \in DOMAIN past /\ backfilled <= reached
    /\ limit # 0 => limit \in DOMAIN past /\ backfilled < limit /\ limit <= reached
    /\ \A p \in DOMAIN past[backfilled] :
          NoWrite(p, backfilled, reached) => p \in DOMAIN main /\ main[p] = past[backfilled][p]
    /\ limit # 0 => \A p \in copied : p \in DOMAIN main /\ p \in DOMAIN past[limit] /\ main[p] = past[limit][p]
    /\ backfilled = committed => main = Latest
    /\ reached = 0 => main = past[0]

WalInv == TypeInv /\ FrameInv /\ TxnInv /\ LogInv /\ PastInv /\ MainInv

-----------------------------------------------------------------------------
(* Databases, greatest elements, frames *)

LEMMA DatabaseType ==
    ASSUME WalAssumption, NEW d \in Databases
    PROVE  /\ Len(d) \in 1 .. MaxPages /\ DOMAIN d = 1 .. Len(d)
           /\ d \in Seq(Data) /\ d # NoImage
           /\ d = [p \in 1 .. Len(d) |-> d[p]]
           /\ \A p \in DOMAIN d : d[p] \in Data
PROOF
<1>1. PICK n \in 1 .. MaxPages : d \in [1 .. n -> Data]
    BY DEF Databases
<1>2. n \in Nat /\ d \in Seq(Data)
    BY <1>1 DEF WalAssumption
<1>3. Len(d) = n /\ DOMAIN d = 1 .. n
    BY <1>1, <1>2
<1> QED
    BY <1>1, <1>2, <1>3 DEF WalAssumption, Data, Torn

LEMMA DatabaseMade ==
    ASSUME WalAssumption, NEW n \in 1 .. MaxPages, NEW d \in [1 .. n -> Data]
    PROVE  d \in Databases /\ Len(d) = n
PROOF
<1>1. n \in Nat /\ d \in Seq(Data) /\ DOMAIN d = 1 .. n
    BY DEF WalAssumption
<1> QED
    BY <1>1 DEF Databases

LEMMA GreatestIs ==
    ASSUME NEW bound \in Nat, NEW T \in SUBSET (0 .. bound), T # {}
    PROVE  Max(T) \in T /\ \A n \in T : n <= Max(T)
PROOF
<1>1. \E m \in T : \A n \in T : m >= n
    <2>1. PICK m \in T : \A n \in T : n <= m
        BY GreatestNatural
    <2>2. \A n \in T : m >= n
        BY <2>1
    <2> QED
        BY <2>2
<1>2. Max(T) \in T /\ \A n \in T : Max(T) >= n
    BY <1>1 DEF Max
<1> QED
    BY <1>2

LEMMA FrameType ==
    ASSUME log_frames \in Seq(Frame), FrameInv, NEW k \in DOMAIN log_frames
    PROVE  /\ log_frames[k] \in Frame
           /\ log_frames[k].sum \in Seq(Nat \X Nat \X Nat) /\ Len(log_frames[k].sum) \in Nat
           /\ Tip(log_frames[k]) \in Nat \X Nat \X Nat /\ Base(log_frames[k]) \in Nat \X Nat \X Nat
           /\ Tip(log_frames[k])[3] \in Nat
PROOF
<1>1. log_frames[k] \in Frame /\ Len(log_frames[k].sum) >= 2
    BY DEF FrameInv
<1> PICK s : s = log_frames[k].sum
    OBVIOUS
<1> DEFINE T == Nat \X Nat \X Nat
<1>2. s \in Seq(T)
    BY <1>1 DEF Frame
<1> HIDE DEF T
<1>3. Len(s) \in Nat /\ s[Len(s)] \in T /\ s[Len(s) - 1] \in T
    BY <1>1, <1>2
<1>4. s[Len(s)][3] \in Nat
    BY <1>3 DEF T
<1> QED
    BY <1>1, <1>2, <1>3, <1>4 DEF Tip, Base, T

(* What verifies was written whole, each frame after the one before it. *)
LEMMA ValidMeans ==
    ASSUME NEW l, l.frames \in Seq(Frame), \A k \in DOMAIN l.frames : Len(l.frames[k].sum) >= 2,
           NEW j \in DOMAIN l.frames, Valid(l, j)
    PROVE  \A k \in 1 .. j :
              /\ k \in DOMAIN l.frames
              /\ l.frames[k].salt = l.salt
              /\ l.frames[k].data = Tip(l.frames[k])[3]
              /\ k > 1 => Base(l.frames[k]) = Tip(l.frames[k - 1])
PROOF
<1> PICK fs : fs = l.frames
    OBVIOUS
<1> SUFFICES ASSUME NEW k \in 1 .. j
             PROVE  /\ k \in DOMAIN fs
                    /\ fs[k].salt = l.salt
                    /\ fs[k].data = Tip(fs[k])[3]
                    /\ k > 1 => Base(fs[k]) = Tip(fs[k - 1])
    OBVIOUS
<1>1. k \in DOMAIN fs /\ k \in Nat
    OBVIOUS
<1>2. /\ fs[k].salt = l.salt
      /\ fs[k].sum = Append(Running(l, k), Added(fs[k].page, fs[k].size, fs[k].data))
    BY DEF Valid, Verifies
<1>3. CASE k > 1
    <2>1. k - 1 \in DOMAIN fs /\ fs[k - 1] \in Frame
        BY <1>1, <1>3
    <2> PICK g : g = fs[k - 1].sum
        OBVIOUS
    <2>2. g \in Seq(Nat \X Nat \X Nat) /\ Running(l, k) = g /\ Len(g) \in Nat
        <3>1. Running(l, k) = g
            BY <1>3 DEF Running
        <3>2. g \in Seq(Nat \X Nat \X Nat)
            BY <2>1 DEF Frame
        <3> QED
            BY <3>1, <3>2, SMTT(40)
    <2> PICK a : a = Added(fs[k].page, fs[k].size, fs[k].data)
        OBVIOUS
    <2>3. fs[k].sum = Append(g, a)
        BY <1>2, <2>2
    <2>4. /\ Len(Append(g, a)) = Len(g) + 1 /\ Append(g, a)[Len(g) + 1] = a
          /\ Len(g) > 0 => Append(g, a)[Len(g)] = g[Len(g)]
        <3> DEFINE T == (Nat \X Nat \X Nat) \cup {a}
        <3>1. g \in Seq(T) /\ a \in T
            BY <2>2
        <3> HIDE DEF T
        <3>2. /\ Len(Append(g, a)) = Len(g) + 1 /\ Append(g, a)[Len(g) + 1] = a
              /\ \A i \in 1 .. Len(g) : Append(g, a)[i] = g[i]
            BY ONLY <3>1, AppendProperties
        <3> QED
            BY <2>2, <3>2
    <2>5. Tip(fs[k]) = a
        BY <2>2, <2>3, <2>4 DEF Tip
    <2>6. Len(g) > 0
        BY <2>1, <2>2
    <2>7. Base(fs[k]) = Tip(fs[k - 1])
        BY <2>2, <2>3, <2>4, <2>6 DEF Base, Tip
    <2> QED
        BY <1>1, <1>2, <2>5, <2>7 DEF Added
<1>4. CASE k = 1
    <2>1. Running(l, k) = <<<<l.salt, 0, 0>>>>
        BY <1>4 DEF Running
    <2> QED
        BY <1>1, <1>2, <1>4, <2>1 DEF Tip, Added
<1> QED
    BY <1>1, <1>3, <1>4

-----------------------------------------------------------------------------
(* The reader *)

(* A log that lost its end, but nothing that a checkpoint has begun to copy. *)
LEMMA CutReads ==
    ASSUME WalAssumption, WalInv, NEW n \in reached .. Len(log_frames)
    PROVE  Readable(main, CutAt(n)) = past[Max({m \in DOMAIN past : m <= n})]
PROOF
<1> PICK cut : cut = CutAt(n)
    OBVIOUS
<1> DEFINE T == {m \in DOMAIN past : m <= n}
<1>1. /\ log_frames \in Seq(Frame) /\ Len(log_frames) \in Nat /\ DOMAIN log_frames = 1 .. Len(log_frames)
      /\ reached \in DOMAIN past /\ DOMAIN past \subseteq 0 .. committed
      /\ committed \in 0 .. Len(log_frames) /\ n \in Nat /\ reached \in Nat /\ n <= Len(log_frames)
    BY DEF WalInv, TypeInv, PastInv, MainInv
<1>2. /\ cut.salt = salt /\ Len(cut.frames) = n /\ DOMAIN cut.frames = 1 .. n
      /\ \A k \in 1 .. n : cut.frames[k] = log_frames[k]
    <2>1. cut = [salt |-> salt, frames |-> SubSeq(log_frames, 1, n)]
        BY DEF CutAt, log
    <2>2. \A k \in 1 .. n : log_frames[k] \in Frame
        BY <1>1
    <2>3. /\ SubSeq(log_frames, 1, n) \in Seq(Frame)
          /\ Len(SubSeq(log_frames, 1, n)) = (IF 1 <= n THEN n - 1 + 1 ELSE 0)
          /\ \A i \in 1 .. n - 1 + 1 : SubSeq(log_frames, 1, n)[i] = log_frames[1 + i - 1]
        BY <1>1, <2>2, SubSeqProperties
    <2>4. Len(SubSeq(log_frames, 1, n)) = n
        BY <1>1, <2>3
    <2> QED
        BY <1>1, <2>1, <2>3, <2>4
<1>3. \A i \in 1 .. n : Valid(cut, i) <=> Valid(log, i)
    <2>1. \A k \in 1 .. n : Verifies(cut, k) <=> Verifies(log, k)
        <3> SUFFICES ASSUME NEW k \in 1 .. n
                     PROVE  Verifies(cut, k) <=> Verifies(log, k)
            OBVIOUS
        <3>1. cut.frames[k] = log_frames[k] /\ log.frames = log_frames /\ log.salt = salt /\ cut.salt = salt
            BY <1>2 DEF log
        <3>2. Running(cut, k) = Running(log, k)
            <4>1. CASE k = 1
                BY <3>1, <4>1 DEF Running
            <4>2. CASE k # 1
                <5>1. k - 1 \in 1 .. n
                    BY <1>1, <4>2
                <5>2. cut.frames[k - 1] = log_frames[k - 1]
                    BY <1>2, <5>1
                <5> QED
                    BY <3>1, <4>2, <5>2 DEF Running
            <4> QED
                BY <4>1, <4>2
        <3> QED
            BY <3>1, <3>2 DEF Verifies
    <2> QED
        BY <1>1, <2>1 DEF Valid
<1>4. T \in SUBSET (0 .. n) /\ reached \in T
    BY <1>1
<1> PICK m : m = Max(T)
    OBVIOUS
<1>5. m \in T /\ \A j \in T : j <= m
    BY <1>1, <1>4, GreatestIs
<1> HIDE DEF T
<1>6. m \in DOMAIN past /\ m <= n /\ m \in Nat /\ reached <= m
    BY <1>1, <1>4, <1>5 DEF T
<1>7. \A i \in 1 .. n : Commits(cut, i) <=> i \in DOMAIN past
    <2> SUFFICES ASSUME NEW i \in 1 .. n
                 PROVE  Commits(cut, i) <=> i \in DOMAIN past
        OBVIOUS
    <2>1. Commits(cut, i) <=> log_frames[i].size # 0 /\ Valid(log, i)
        BY <1>2, <1>3 DEF Commits
    <2>2. CASE i <= committed
        <3>1. Valid(log, i)
            BY <1>1, <2>2 DEF WalInv, LogInv, Valid
        <3>2. log_frames[i].size # 0 <=> i \in DOMAIN past
            BY <1>1, <2>2 DEF WalInv, LogInv
        <3> QED
            BY <2>1, <3>1, <3>2
    <2>3. CASE i > committed
        BY <1>1, <2>1, <2>3 DEF WalInv, LogInv
    <2> QED
        BY <1>1, <2>2, <2>3
<1>8. LastCommit(cut) = IF m = 0 THEN {} ELSE {m}
    <2>1. \A i \in 1 .. n : i \in DOMAIN past => i <= m
        BY <1>5 DEF T
    <2>2. ASSUME NEW i \in LastCommit(cut)
          PROVE  i = m /\ m # 0
        <3>1. i \in 1 .. n /\ i \in DOMAIN past /\ \A j \in i + 1 .. n : ~Commits(cut, j)
            BY <1>2, <1>7, <2>2 DEF LastCommit
        <3>2. i <= m /\ m # 0
            BY <1>6, <2>1, <3>1
        <3>3. m \in 1 .. n /\ Commits(cut, m)
            BY <1>1, <1>6, <1>7, <3>2
        <3> QED
            BY <1>6, <3>1, <3>2, <3>3
    <2>3. ASSUME m # 0
          PROVE  m \in LastCommit(cut)
        <3>1. m \in 1 .. n /\ Commits(cut, m)
            BY <1>1, <1>6, <1>7, <2>3
        <3>2. \A j \in m + 1 .. n : ~Commits(cut, j)
            BY <1>1, <1>6, <1>7, <2>1
        <3> QED
            BY <1>2, <3>1, <3>2 DEF LastCommit
    <2> QED
        BY <2>2, <2>3
<1>9. CASE m = 0
    <2>1. Readable(main, cut) = main
        BY <1>8, <1>9 DEF Readable, checkpoint
    <2>2. reached = 0
        BY <1>1, <1>6, <1>9
    <2> QED
        BY <1>9, <2>1, <2>2 DEF WalInv, MainInv, T
<1>10. CASE m # 0
    <2>1. m \in 1 .. n /\ m \in DOMAIN log_frames
        BY <1>1, <1>6, <1>10
    <2>2. salt # 0
        BY <1>1, <2>1 DEF WalInv, TypeInv
    <2>3. past[m] \in Databases /\ Len(past[m]) = log_frames[m].size
        BY <1>6, <1>10 DEF WalInv, PastInv
    <2> DEFINE image == [p \in 1 .. ImageSize(cut, m) |-> PageImage(main, cut, m, p)]
    <2>4. ImageSize(cut, m) = Len(past[m])
        BY <1>2, <2>1, <2>3 DEF ImageSize
    <2>5. ASSUME NEW p \in DOMAIN past[m]
          PROVE  PageImage(main, cut, m, p) = past[m][p]
        <3> DEFINE writes == {i \in 1 .. m : cut.frames[i].page = p}
        <3>1. writes = {i \in 1 .. m : log_frames[i].page = p}
            BY <1>2, <1>6
        <3>2. PageImage(main, cut, m, p) =
                  IF writes # {} THEN cut.frames[Max(writes)].data
                  ELSE IF p \in DOMAIN main THEN main[p] ELSE 0
            BY DEF PageImage
        <3>3. writes \in SUBSET (0 .. m)
            BY <1>6
        <3>4. CASE writes # {}
            <4>1. Max(writes) \in writes /\ \A i \in writes : i <= Max(writes)
                BY <1>6, <3>3, <3>4, GreatestIs
            <4> PICK w : w = Max(writes)
                OBVIOUS
            <4>2. w \in 1 .. m /\ log_frames[w].page = p /\ NoWrite(p, w, m)
                <5>1. w \in 1 .. m /\ log_frames[w].page = p
                    BY <3>1, <4>1
                <5>2. ASSUME NEW i \in (w + 1) .. m, log_frames[i].page = p
                      PROVE  FALSE
                    <6>1. i \in 1 .. m /\ i > w
                        BY <1>6, <5>1
                    <6>2. i \in writes
                        BY <3>1, <5>2, <6>1
                    <6> HIDE DEF writes
                    <6> QED
                        BY <4>1, <5>1, <6>1, <6>2
                <5> QED
                    BY <5>1, <5>2 DEF NoWrite
            <4>3. past[m][p] = log_frames[w].data
                BY <1>6, <4>2 DEF WalInv, PastInv
            <4>4. cut.frames[w] = log_frames[w]
                <5>1. w \in 1 .. n
                    BY <1>1, <1>6, <4>2
                <5> QED
                    BY <1>2, <5>1
            <4> QED
                BY <3>2, <3>4, <4>3, <4>4
        <3>5. CASE writes = {}
            <4>1. /\ backfilled \in DOMAIN past /\ backfilled <= reached /\ backfilled \in Nat
                BY DEF WalInv, MainInv, TypeInv
            <4>2. NoWrite(p, backfilled, m) /\ NoWrite(p, backfilled, reached)
                BY <1>1, <1>6, <3>1, <3>5, <4>1 DEF NoWrite
            <4>3. p \in DOMAIN past[backfilled] /\ past[m][p] = past[backfilled][p]
                BY <1>1, <1>6, <4>1, <4>2 DEF WalInv, PastInv
            <4>4. p \in DOMAIN main /\ main[p] = past[backfilled][p]
                BY <4>2, <4>3 DEF WalInv, MainInv
            <4> QED
                BY <3>2, <3>5, <4>3, <4>4
        <3> QED
            BY <3>4, <3>5
    <2>6. image = past[m]
        <3>1. DOMAIN past[m] = 1 .. Len(past[m]) /\ past[m] = [p \in 1 .. Len(past[m]) |-> past[m][p]]
            BY <2>3, DatabaseType
        <3> QED
            BY <2>4, <2>5, <3>1
    <2>7. checkpoint(main, cut) = image
        <3>1. {[p \in 1 .. ImageSize(cut, last) |-> PageImage(main, cut, last, p)] :
                  last \in LastCommit(cut)} = {image}
            BY <1>8, <1>10
        <3> HIDE DEF image
        <3> QED
            BY <1>2, <2>2, <3>1 DEF checkpoint
    <2>8. image # NoImage
        BY <2>3, <2>6, DatabaseType
    <2> HIDE DEF image
    <2> QED
        BY <2>6, <2>7, <2>8 DEF Readable, T
<1> QED
    BY <1>9, <1>10

LEMMA ReadsLatest ==
    ASSUME WalAssumption, WalInv
    PROVE  Readable(main, log) = Latest
PROOF
<1>1. /\ log_frames \in Seq(Frame) /\ Len(log_frames) \in Nat /\ DOMAIN log_frames = 1 .. Len(log_frames)
      /\ reached \in DOMAIN past /\ DOMAIN past \subseteq 0 .. committed
      /\ committed \in 0 .. Len(log_frames) /\ committed \in DOMAIN past
    BY DEF WalInv, TypeInv, PastInv, MainInv
<1> PICK n : n = Len(log_frames)
    OBVIOUS
<1>2. n \in reached .. Len(log_frames)
    BY <1>1
<1>3. CutAt(n) = log
    <2>1. \A k \in 1 .. n : log_frames[k] \in Frame
        BY <1>1
    <2>2. /\ SubSeq(log_frames, 1, n) \in Seq(Frame)
          /\ Len(SubSeq(log_frames, 1, n)) = (IF 1 <= n THEN n - 1 + 1 ELSE 0)
          /\ \A i \in 1 .. n - 1 + 1 : SubSeq(log_frames, 1, n)[i] = log_frames[1 + i - 1]
        BY <1>1, <2>1, SubSeqProperties
    <2>3. SubSeq(log_frames, 1, n) = log_frames
        BY <1>1, <2>2
    <2> QED
        BY <2>3 DEF CutAt, log
<1> DEFINE T == {m \in DOMAIN past : m <= n}
<1>4. T \in SUBSET (0 .. n) /\ committed \in T
    BY <1>1
<1>5. Max(T) \in T /\ \A j \in T : j <= Max(T)
    BY <1>1, <1>4, GreatestIs
<1>6. Max(T) = committed
    <2> PICK top : top = Max(T)
        OBVIOUS
    <2>1. top \in DOMAIN past /\ committed <= top
        BY <1>4, <1>5
    <2>2. top \in 0 .. committed
        BY <1>1, <2>1
    <2>3. top = committed
        BY <1>1, <2>1, <2>2
    <2> QED
        BY <2>3
<1>7. Readable(main, CutAt(n)) = past[Max(T)]
    BY <1>2, CutReads
<1> HIDE DEF T
<1> QED
    BY <1>3, <1>6, <1>7 DEF Latest

-----------------------------------------------------------------------------
(* The writer *)

LEMMA InFlightCount ==
    ASSUME WalAssumption, TypeInv
    PROVE  /\ InFlight \in Nat
           /\ ~Opened => InFlight = 0
           /\ Opened => /\ txn.left = txn.pages => InFlight = 0
                        /\ txn.left # txn.pages => InFlight > 0
                        /\ Cardinality(txn.left) \in Nat
                        /\ Cardinality(txn.left) = 0 <=> txn.left = {}
                        /\ \A p \in txn.left :
                              /\ Cardinality(txn.left \ {p}) = Cardinality(txn.left) - 1
                              /\ Cardinality(txn.left) = 1 <=> txn.left \ {p} = {}
PROOF
<1>1. CASE ~Opened
    <2>1. txn.pages = {} /\ txn.left = {}
        BY <1>1 DEF Opened, NoTxn
    <2> QED
        BY <1>1, <2>1, FS_EmptySet DEF InFlight
<1>2. CASE Opened
    <2>1. /\ txn.size \in Nat /\ txn.pages \in SUBSET (1 .. txn.size)
          /\ txn.left \in SUBSET txn.pages
        BY <1>2 DEF TypeInv, WalAssumption
    <2> PICK pages : pages = txn.pages
        OBVIOUS
    <2> PICK left : left = txn.left
        OBVIOUS
    <2>2. IsFiniteSet(pages)
        <3> PICK n : n = txn.size
            OBVIOUS
        <3>1. n \in Nat /\ pages \in SUBSET (1 .. n)
            BY <2>1
        <3>2. IsFiniteSet(1 .. n)
            BY <3>1, FS_Interval
        <3> QED
            BY <3>1, <3>2, FS_Subset
    <2>3. /\ IsFiniteSet(left) /\ Cardinality(left) <= Cardinality(pages)
          /\ Cardinality(pages) = Cardinality(left) => pages = left
        BY <2>1, <2>2, FS_Subset
    <2>4. Cardinality(pages) \in Nat /\ Cardinality(left) \in Nat
        BY <2>2, <2>3, FS_CardinalityType
    <2>5. Cardinality(left) = 0 <=> left = {}
        BY <2>3, FS_EmptySet
    <2>6. ASSUME NEW p \in left
          PROVE  /\ Cardinality(left \ {p}) = Cardinality(left) - 1
                 /\ Cardinality(left) = 1 <=> left \ {p} = {}
        <3>1. IsFiniteSet(left \ {p}) /\ Cardinality(left \ {p}) = Cardinality(left) - 1
            BY <2>3, <2>6, FS_RemoveElement
        <3>2. Cardinality(left \ {p}) = 0 <=> left \ {p} = {}
            BY <3>1, FS_EmptySet
        <3> QED
            BY <2>4, <3>1, <3>2
    <2>7. InFlight = Cardinality(pages) - Cardinality(left)
        BY DEF InFlight
    <2> PICK all : all = Cardinality(pages)
        OBVIOUS
    <2> PICK few : few = Cardinality(left)
        OBVIOUS
    <2>8. all \in Nat /\ few \in Nat /\ few <= all /\ (all = few => pages = left) /\ InFlight = all - few
        BY <2>3, <2>4, <2>7
    <2>9. InFlight \in Nat /\ (left = pages => InFlight = 0) /\ (left # pages => InFlight > 0)
        <3>1. left = pages => few = all
            OBVIOUS
        <3> QED
            BY ONLY <2>8, <3>1
    <2> QED
        BY <1>2, <2>4, <2>5, <2>6, <2>9
<1> QED
    BY <1>1, <1>2

LEMMA KeepLog ==
    ASSUME LogInv, PastInv, UNCHANGED <<salt, log_frames, committed, past>>
    PROVE  LogInv' /\ PastInv'
PROOF
<1>1. log' = log
    BY DEF log
<1>2. \A j : Valid(log, j)' <=> Valid(log, j)
    BY <1>1 DEF Valid, Verifies, Running
<1>3. Valid(log, committed)'
    BY <1>1 DEF LogInv, Valid, Verifies, Running
<1>4. LogInv'
    BY <1>2, <1>3 DEF LogInv
<1>5. PastInv'
    BY DEF PastInv, NoWrite
<1> QED
    BY <1>4, <1>5

LEMMA KeepMain ==
    ASSUME MainInv, UNCHANGED <<main, log_frames, committed, past, limit, copied, backfilled, reached>>
    PROVE  MainInv'
BY DEF MainInv, NoWrite, Latest

LEMMA KeepTxn ==
    ASSUME FrameInv, TxnInv, UNCHANGED <<salt, log_frames, committed, past, txn, begun>>
    PROVE  FrameInv' /\ TxnInv'
BY DEF FrameInv, TxnInv, Opened, InFlight, Tip, Base, Region, Running, log, Pending, Latest

LEMMA WalInit ==
    ASSUME WalAssumption, LogInit
    PROVE  WalInv
PROOF
<1>1. Created \in Databases /\ Len(Created) = 1
    <2>1. 1 \in 1 .. MaxPages /\ Created \in [1 .. 1 -> Data]
        BY DEF WalAssumption, Created, Data, Torn
    <2> QED
        BY <2>1 DEF Databases, Created
<1>2. ~Opened
    BY DEF LogInit, Opened
<1>3. TypeInv
    BY <1>1, <1>2 DEF WalAssumption, LogInit, TypeInv
<1>4. FrameInv /\ TxnInv
    BY <1>2 DEF LogInit, FrameInv, TxnInv
<1>5. LogInv
    BY DEF LogInit, LogInv, Valid
<1>6. PastInv
    BY <1>1 DEF LogInit, PastInv
<1>7. MainInv
    BY <1>1 DEF LogInit, MainInv, Created, Latest
<1> QED
    BY <1>3, <1>4, <1>5, <1>6, <1>7 DEF WalInv

LEMMA BeginStep ==
    ASSUME WalAssumption, WalInv, Begin
    PROVE  WalInv'
PROOF
<1>1. /\ salt # 0 /\ ~Opened /\ begun < MaxTxns /\ begun' = begun + 1
      /\ UNCHANGED <<main, salt, log_frames, committed, limit, copied, backfilled, reached, past>>
    BY DEF Begin, Opened
<1> PICK size \in 1 .. MaxPages :
          \E pages \in Changes(Latest, size) :
              txn' = [size |-> size, pages |-> pages, left |-> pages,
                      outcome |-> Result(Latest, size, pages, begun + 1)]
    BY DEF Begin
<1>2. PICK pages \in Changes(Latest, size) :
          txn' = [size |-> size, pages |-> pages, left |-> pages,
                  outcome |-> Result(Latest, size, pages, begun + 1)]
    BY DEF Begin
<1>3. /\ pages \in SUBSET (1 .. size) /\ pages # {} /\ (Len(Latest) + 1) .. size \subseteq pages
      /\ txn'.size = size /\ txn'.pages = pages /\ txn'.left = pages
      /\ txn'.outcome = Result(Latest, size, pages, begun + 1)
      /\ txn' = [size |-> txn'.size, pages |-> txn'.pages, left |-> txn'.left, outcome |-> txn'.outcome]
    BY <1>2 DEF Changes
<1>4. TypeInv'
    <2>1. TypeInv
        BY DEF WalInv
    <2>2. begun + 1 \in 0 .. MaxTxns /\ begun + 1 # 0
        BY <1>1, <2>1 DEF TypeInv, WalAssumption
    <2>3. /\ txn'.size \in 1 .. MaxPages /\ txn'.pages \in SUBSET (1 .. txn'.size)
          /\ txn'.pages # {} /\ txn'.left \in SUBSET txn'.pages
        BY <1>3
    <2> QED
        BY <1>1, <2>1, <2>2, <2>3 DEF TypeInv
<1>5. Opened' /\ InFlight' = 0
    <2>1. Opened'
        BY <1>3 DEF Opened, NoTxn
    <2>2. txn'.left = txn'.pages
        BY <1>3
    <2>3. Cardinality(pages) \in Nat
        <3>1. size \in Nat
            BY DEF WalAssumption
        <3>2. IsFiniteSet(1 .. size)
            BY <3>1, FS_Interval
        <3>3. IsFiniteSet(pages)
            BY <1>3, <3>2, FS_Subset
        <3> QED
            BY <3>3, FS_CardinalityType
    <2> QED
        BY <1>3, <2>1, <2>3 DEF InFlight
<1>6. FrameInv'
    <2>1. begun \in Nat /\ log_frames \in Seq(Frame) /\ committed \in Nat
        BY DEF WalInv, TypeInv
    <2> SUFFICES ASSUME NEW k \in DOMAIN log_frames
                 PROVE  LET f == log_frames[k] IN
                        /\ Len(f.sum) >= 2
                        /\ Tip(f) = Added(f.page, f.size, Tip(f)[3])
                        /\ Tip(f)[3] <= begun + 1 /\ Tip(f)[3] < begun + 1
                        /\ f.salt <= salt
                        /\ f.data \in {Torn, Tip(f)[3]}
                        /\ f.salt = salt /\ k > committed + 1 => Base(f)[3] = Tip(f)[3]
        BY <1>1, <1>5 DEF FrameInv, Tip, Base
    <2>2. Tip(log_frames[k])[3] <= begun
        BY DEF WalInv, FrameInv
    <2>3. Tip(log_frames[k])[3] \in Nat
        BY <2>1, FrameType DEF WalInv
    <2> QED
        BY <2>1, <2>2, <2>3 DEF WalInv, FrameInv
<1>7. TxnInv'
    <2>1. committed \in Nat /\ committed <= Len(log_frames) /\ Len(log_frames) \in Nat
        BY DEF WalInv, TypeInv
    <2>2. Region' = {} /\ Latest' = Latest
        BY <1>1, <1>5, <2>1 DEF Region, Latest
    <2> QED
        BY <1>1, <1>3, <1>5, <2>1, <2>2 DEF TxnInv
<1> QED
    BY <1>1, <1>4, <1>6, <1>7, KeepLog, KeepMain DEF WalInv

LEMMA AbandonStep ==
    ASSUME WalAssumption, WalInv, Abandon
    PROVE  WalInv'
PROOF
<1>1. /\ ~Opened'
      /\ UNCHANGED <<main, salt, log_frames, committed, begun, limit, copied, backfilled, reached, past>>
    BY DEF Abandon, Opened
<1>2. TypeInv' /\ FrameInv' /\ TxnInv'
    BY <1>1 DEF WalInv, TypeInv, FrameInv, TxnInv, Tip, Base
<1> QED
    BY <1>1, <1>2, KeepLog, KeepMain DEF WalInv

(* A step that writes behind the committed frames. *)
LEMMA KeepPrefix ==
    ASSUME WalInv, UNCHANGED <<salt, committed, past>>, log_frames' \in Seq(Frame),
           Len(log_frames') >= committed, \A i \in 1 .. committed : log_frames'[i] = log_frames[i]
    PROVE  /\ PastInv'
           /\ Valid(log, committed)'
           /\ \A i \in 1 .. committed' : (log_frames'[i].size # 0 <=> i \in DOMAIN past')
           /\ UNCHANGED <<main, limit, copied, backfilled, reached>> => MainInv'
PROOF
<1>1. /\ committed \in Nat /\ DOMAIN past \subseteq 0 .. committed
      /\ limit \in Nat /\ backfilled \in Nat /\ reached \in Nat
    BY DEF WalInv, TypeInv, PastInv
<1>2. \A p, a : \A b \in 0 .. committed : a \in Nat => (NoWrite(p, a, b)' <=> NoWrite(p, a, b))
    <2> SUFFICES ASSUME NEW p, NEW a \in Nat, NEW b \in 0 .. committed
                 PROVE  NoWrite(p, a, b)' <=> NoWrite(p, a, b)
        OBVIOUS
    <2>1. \A i \in (a + 1) .. b : log_frames'[i] = log_frames[i]
        BY <1>1
    <2> QED
        BY <2>1 DEF NoWrite
<1>3. PastInv'
    <2>1. ASSUME NEW n \in DOMAIN past
          PROVE  /\ past[n] \in Databases
                 /\ n > 0 => Len(past[n]) = log_frames'[n].size
                 /\ n \in 0 .. committed /\ n \in Nat
        BY <1>1 DEF WalInv, PastInv
    <2>2. ASSUME NEW n \in DOMAIN past, NEW p \in DOMAIN past[n], NEW m \in DOMAIN past,
                 m <= n, NoWrite(p, m, n)'
          PROVE  p \in DOMAIN past[m] /\ past[n][p] = past[m][p]
        <3>1. NoWrite(p, m, n)
            BY <1>2, <2>1, <2>2
        <3> QED
            BY <2>2, <3>1 DEF WalInv, PastInv
    <2>3. ASSUME NEW n \in DOMAIN past, NEW p \in DOMAIN past[n], NEW i \in 1 .. n,
                 log_frames'[i].page = p, NoWrite(p, i, n)'
          PROVE  past[n][p] = log_frames'[i].data
        <3>1. n \in 0 .. committed /\ i \in 1 .. committed /\ i \in Nat
            BY <1>1, <2>1
        <3>2. NoWrite(p, i, n) /\ log_frames'[i] = log_frames[i]
            BY <1>2, <2>3, <3>1
        <3> QED
            BY <2>3, <3>2 DEF WalInv, PastInv
    <2> QED
        BY <2>1, <2>2, <2>3 DEF WalInv, PastInv
<1>4. Valid(log, committed)'
    <2>1. \A k \in 1 .. committed : Running(log, k)' = Running(log, k)
        <3> SUFFICES ASSUME NEW k \in 1 .. committed
                     PROVE  Running(log, k)' = Running(log, k)
            OBVIOUS
        <3>1. CASE k = 1
            BY <3>1 DEF Running, log
        <3>2. CASE k # 1
            <4>1. k - 1 \in 1 .. committed
                BY <1>1, <3>2
            <4>2. log_frames'[k - 1] = log_frames[k - 1]
                BY <4>1
            <4> QED
                BY <3>2, <4>2 DEF Running, log
        <3> QED
            BY <3>1, <3>2
    <2>2. \A k \in 1 .. committed : Verifies(log, k)' <=> Verifies(log, k)
        BY <2>1 DEF Verifies, log
    <2> QED
        BY <2>2 DEF WalInv, LogInv, Valid
<1>5. \A i \in 1 .. committed' : (log_frames'[i].size # 0 <=> i \in DOMAIN past')
    BY DEF WalInv, LogInv
<1>6. ASSUME UNCHANGED <<main, limit, copied, backfilled, reached>>
      PROVE  MainInv'
    <2> PICK low : low = backfilled
        OBVIOUS
    <2> PICK high : high = reached
        OBVIOUS
    <2>1. low \in Nat /\ high \in 0 .. committed
        BY <1>1 DEF WalInv, MainInv
    <2>2. ASSUME NEW p \in DOMAIN past[low], NoWrite(p, low, high)'
          PROVE  p \in DOMAIN main /\ main[p] = past[low][p]
        <3>1. NoWrite(p, low, high)
            BY <1>2, <2>1, <2>2
        <3> QED
            BY <3>1 DEF WalInv, MainInv
    <2>3. (\A p \in DOMAIN past[backfilled] :
              NoWrite(p, backfilled, reached) => p \in DOMAIN main /\ main[p] = past[backfilled][p])'
        BY <1>6, <2>2 DEF NoWrite
    <2> QED
        BY <1>6, <2>3 DEF WalInv, MainInv, Latest
<1> QED
    BY <1>3, <1>4, <1>5, <1>6

(* A frame written over, or after the last. *)
LEMMA Replaced ==
    ASSUME NEW F, NEW s \in Seq(F), NEW n \in 1 .. Len(s) + 1, NEW e \in F
    PROVE  /\ PutAt(s, n, e) \in Seq(F)
           /\ Len(PutAt(s, n, e)) = (IF n = Len(s) + 1 THEN n ELSE Len(s))
           /\ PutAt(s, n, e)[n] = e
           /\ \A k \in 1 .. Len(s) : k # n => PutAt(s, n, e)[k] = s[k]
PROOF
<1> PICK t : t = PutAt(s, n, e)
    OBVIOUS
<1>1. n \in Nat /\ Len(s) \in Nat /\ \A i \in 1 .. Len(s) : s[i] \in F
    OBVIOUS
<1> DEFINE m == IF n = Len(s) + 1 THEN n ELSE Len(s)
<1>2. Max({n, Len(s)}) = m /\ m \in Nat
    <2>1. {n, Len(s)} \in SUBSET (0 .. m) /\ m \in Nat
        BY <1>1
    <2>2. Max({n, Len(s)}) \in {n, Len(s)} /\ \A i \in {n, Len(s)} : i <= Max({n, Len(s)})
        BY <2>1, GreatestIs
    <2> QED
        BY <1>1, <2>1, <2>2
<1>3. t = [i \in 1 .. m |-> IF i = n THEN e ELSE s[i]]
    BY <1>2 DEF PutAt
<1>4. \A i \in 1 .. m : i = n \/ i \in 1 .. Len(s)
    BY <1>1
<1>5. n \in 1 .. m /\ \A k \in 1 .. Len(s) : k \in 1 .. m
    BY <1>1
<1> HIDE DEF m
<1>6. \A i \in 1 .. m : t[i] \in F
    BY <1>1, <1>3, <1>4
<1>7. t \in [1 .. m -> F]
    BY <1>3, <1>6
<1>8. t \in Seq(F) /\ Len(t) = m
    BY ONLY <1>2, <1>7
<1> QED
    BY <1>3, <1>5, <1>8 DEF m

(* What a writer adds to a checksum is the tip of the new one, over the tip of
   the old. *)
LEMMA Chained ==
    ASSUME WalAssumption, TypeInv, FrameInv, NEW n \in 1 .. Len(log_frames) + 1,
           NEW a \in Nat \X Nat \X Nat, NEW f, f.sum = Append(Running(log, n), a)
    PROVE  /\ f.sum \in Seq(Nat \X Nat \X Nat) /\ Len(f.sum) >= 2
           /\ Tip(f) = a
           /\ n > 1 => Base(f) = Tip(log_frames[n - 1])
PROOF
<1> DEFINE T == Nat \X Nat \X Nat
<1> PICK g : g = Running(log, n)
    OBVIOUS
<1>1. g \in Seq(T) /\ Len(g) >= 1 /\ (n > 1 => g[Len(g)] = Tip(log_frames[n - 1]))
    <2>1. CASE n = 1
        <3>1. g = <<<<salt, 0, 0>>>>
            BY <2>1 DEF Running, log
        <3>2. salt \in Nat /\ 0 \in Nat
            BY DEF TypeInv, WalAssumption
        <3>3. <<salt, 0, 0>> \in T
            BY <3>2
        <3> HIDE DEF T
        <3> PICK e : e = <<salt, 0, 0>>
            OBVIOUS
        <3>4. <<e>> \in Seq(T) /\ Len(<<e>>) = 1
            BY <3>3
        <3>5. g = <<e>>
            BY <3>1
        <3>6. g \in Seq(T) /\ Len(g) = 1
            BY ONLY <3>4, <3>5
        <3> QED
            BY <2>1, <3>6
    <2>2. CASE n > 1
        <3>1. n - 1 \in DOMAIN log_frames
            BY <2>2, SMTT(40) DEF TypeInv
        <3>2. g = log_frames[n - 1].sum
            BY <2>2 DEF Running, log
        <3>3. Len(log_frames[n - 1].sum) >= 2
            BY <3>1 DEF FrameInv
        <3>4. log_frames[n - 1].sum \in Seq(Nat \X Nat \X Nat)
            BY <3>1, FrameType DEF TypeInv
        <3> QED
            BY <3>2, <3>3, <3>4 DEF Tip
    <2> QED
        BY <2>1, <2>2 DEF TypeInv
<1>2. a \in T
    OBVIOUS
<1> HIDE DEF T
<1>3. Len(g) \in Nat
    BY <1>1
<1>4. /\ Append(g, a) \in Seq(T) /\ Len(Append(g, a)) = Len(g) + 1
      /\ Append(g, a)[Len(g) + 1] = a
      /\ \A i \in 1 .. Len(g) : Append(g, a)[i] = g[i]
    BY <1>1, <1>2, AppendProperties
<1>5. Append(g, a)[Len(g)] = g[Len(g)]
    BY <1>1, <1>3, <1>4
<1>6. f.sum = Append(g, a)
    OBVIOUS
<1>7. (Len(g) + 1) - 1 = Len(g)
    BY <1>3
<1>8. Tip(f) = a
    BY <1>4, <1>6 DEF Tip
<1>9. n > 1 => Base(f) = Tip(log_frames[n - 1])
    BY <1>1, <1>4, <1>5, <1>6, <1>7 DEF Base
<1> QED
    BY <1>1, <1>3, <1>4, <1>6, <1>8, <1>9 DEF T

LEMMA WriteFrameStep ==
    ASSUME WalAssumption, WalInv, WriteFrame
    PROVE  WalInv'
PROOF
<1>a. PICK n : n = committed + InFlight + 1
    OBVIOUS
<1>b. PICK size : size = IF Cardinality(txn.left) = 1 THEN txn.size ELSE 0
    OBVIOUS
<1>1. /\ Opened /\ txn.left # {}
      /\ UNCHANGED <<main, salt, committed, begun, limit, copied, backfilled, reached, past>>
    BY DEF WriteFrame, Opened
<1>c. PICK p \in txn.left :
          /\ log_frames' = PutAt(log_frames, n, [page |-> p, size |-> size, salt |-> salt, data |-> Torn,
                                         sum |-> Append(Running(log, n), Added(p, size, begun))])
          /\ txn' = [txn EXCEPT !.left = @ \ {p}]
    BY <1>a, <1>b DEF WriteFrame
<1>d. PICK fr : fr = [page |-> p, size |-> size, salt |-> salt, data |-> Torn,
                    sum |-> Append(Running(log, n), Added(p, size, begun))]
    OBVIOUS
<1>2. /\ TypeInv /\ FrameInv /\ TxnInv /\ LogInv /\ PastInv /\ MainInv
      /\ log_frames \in Seq(Frame) /\ Len(log_frames) \in Nat /\ DOMAIN log_frames = 1 .. Len(log_frames)
      /\ committed \in Nat /\ begun \in Nat /\ begun # 0 /\ salt \in Nat /\ salt # 0
      /\ InFlight \in Nat /\ n \in Nat /\ committed < n
    <2>1. TypeInv /\ FrameInv /\ TxnInv /\ LogInv /\ PastInv /\ MainInv
        BY DEF WalInv
    <2>2. InFlight \in Nat
        BY <2>1, InFlightCount
    <2>3. /\ log_frames \in Seq(Frame) /\ committed \in 0 .. Len(log_frames)
          /\ begun \in Nat /\ begun # 0 /\ salt \in Nat /\ salt # 0
        BY <1>1, <2>1 DEF TypeInv, WalAssumption
    <2> HIDE DEF Frame
    <2>4. Len(log_frames) \in Nat /\ DOMAIN log_frames = 1 .. Len(log_frames)
        BY <2>3
    <2> QED
        BY <1>a, <2>1, <2>2, <2>3, <2>4
<1>3. n \in 1 .. Len(log_frames) + 1
    <2>1. committed + InFlight <= Len(log_frames)
        BY <1>1, <1>2 DEF TxnInv
    <2> QED
        BY ONLY <1>a, <1>2, <2>1
<1>4. /\ txn.size \in 1 .. MaxPages /\ txn.pages \in SUBSET (1 .. txn.size)
      /\ txn.left \in SUBSET txn.pages /\ p \in txn.pages
      /\ size \in 0 .. MaxPages /\ size \in Nat /\ p \in 1 .. MaxPages /\ p \in Nat
    <2>1. /\ txn.size \in 1 .. MaxPages /\ txn.pages \in SUBSET (1 .. txn.size)
          /\ txn.left \in SUBSET txn.pages /\ MaxPages \in Nat
        BY <1>1, <1>2 DEF TypeInv, WalAssumption
    <2>2. p \in txn.pages
        BY <2>1
    <2> QED
        BY <1>b, <2>1, <2>2
<1>5. /\ txn' = [size |-> txn.size, pages |-> txn.pages, left |-> txn.left \ {p}, outcome |-> txn.outcome]
      /\ Opened'
    <2>1. txn' = [size |-> txn.size, pages |-> txn.pages, left |-> txn.left \ {p}, outcome |-> txn.outcome]
        <3>1. txn = [size |-> txn.size, pages |-> txn.pages, left |-> txn.left, outcome |-> txn.outcome]
            BY <1>1, <1>2 DEF TypeInv
        <3> QED
            BY <1>c, <3>1
    <2>2. txn'.pages # {}
        BY <1>4, <2>1
    <2> QED
        BY <2>1, <2>2 DEF Opened, NoTxn
<1>6. /\ InFlight' = InFlight + 1
      /\ txn.left \ {p} = {} <=> Cardinality(txn.left) = 1
      /\ n > committed + 1 => InFlight > 0
    <2>1. /\ Cardinality(txn.left \ {p}) = Cardinality(txn.left) - 1
          /\ txn.left \ {p} = {} <=> Cardinality(txn.left) = 1
          /\ Cardinality(txn.left) \in Nat
        BY <1>1, <1>2, InFlightCount
    <2>2. Cardinality(txn.pages) - Cardinality(txn.left) \in Nat
        BY <1>2 DEF InFlight
    <2>3. Cardinality(txn.pages) - (Cardinality(txn.left) - 1)
              = Cardinality(txn.pages) - Cardinality(txn.left) + 1
        <3>1. IsFiniteSet(txn.pages)
            <4> PICK k : k = txn.size
                OBVIOUS
            <4>1. k \in Nat /\ txn.pages \in SUBSET (1 .. k)
                BY <1>4
            <4>2. IsFiniteSet(1 .. k)
                BY <4>1, FS_Interval
            <4> QED
                BY <4>1, <4>2, FS_Subset
        <3>2. Cardinality(txn.pages) \in Nat
            BY <3>1, FS_CardinalityType
        <3> QED
            BY <2>1, <3>2
    <2>4. InFlight' = Cardinality(txn.pages) - Cardinality(txn.left \ {p})
        BY <1>5 DEF InFlight
    <2>5. InFlight' = InFlight + 1
        BY <2>1, <2>3, <2>4 DEF InFlight
    <2>6. n > committed + 1 => InFlight > 0
        BY ONLY <1>a, <1>2
    <2> QED
        BY <2>1, <2>5, <2>6
<1>7. /\ fr.page = p /\ fr.size = size /\ fr.salt = salt /\ fr.data = Torn
      /\ fr.sum = Append(Running(log, n), Added(p, size, begun))
    BY <1>d
<1>8. /\ fr \in Frame /\ Len(fr.sum) >= 2
      /\ Tip(fr) = Added(p, size, begun) /\ Tip(fr)[3] = begun
      /\ n > 1 => Base(fr) = Tip(log_frames[n - 1])
    <2>1. Added(p, size, begun) \in Nat \X Nat \X Nat /\ Added(p, size, begun)[3] = begun
        BY <1>2, <1>4 DEF Added
    <2>2. /\ fr.sum \in Seq(Nat \X Nat \X Nat) /\ Len(fr.sum) >= 2
          /\ Tip(fr) = Added(p, size, begun)
          /\ n > 1 => Base(fr) = Tip(log_frames[n - 1])
        BY <1>2, <1>3, <1>7, <2>1, Chained
    <2>3. salt \in 1 .. MaxGenerations /\ Torn \in Data
        <3>1. salt \in 0 .. MaxGenerations /\ MaxGenerations \in Nat /\ MaxTxns \in Nat
            BY <1>2 DEF TypeInv, WalAssumption
        <3> QED
            BY <1>2, <3>1 DEF Data, Torn
    <2>4. fr = [page |-> p, size |-> size, salt |-> salt, data |-> Torn, sum |-> fr.sum]
        BY <1>d, <1>7
    <2>5. fr \in Frame
        <3> PICK s : s = fr.sum
            OBVIOUS
        <3>1. fr = [page |-> p, size |-> size, salt |-> salt, data |-> Torn, sum |-> s]
            BY <2>4
        <3>2. s \in Seq(Nat \X Nat \X Nat)
            BY <2>2
        <3> QED
            BY ONLY <1>4, <2>3, <3>1, <3>2 DEF Frame
    <2> QED
        BY <2>1, <2>2, <2>5
<1>9. /\ log_frames' \in Seq(Frame)
      /\ Len(log_frames') = (IF n = Len(log_frames) + 1 THEN n ELSE Len(log_frames))
      /\ log_frames'[n] = fr
      /\ \A k \in 1 .. Len(log_frames) : k # n => log_frames'[k] = log_frames[k]
    <2>1. log_frames' = PutAt(log_frames, n, fr)
        BY <1>c, <1>d
    <2>2. fr \in Frame /\ log_frames \in Seq(Frame)
        BY <1>2, <1>8
    <2>3. PutAt(log_frames, n, fr) \in Seq(Frame)
        BY ONLY <1>3, <2>2, Replaced
    <2>4. Len(PutAt(log_frames, n, fr)) = (IF n = Len(log_frames) + 1 THEN n ELSE Len(log_frames))
        BY ONLY <1>3, <2>2, Replaced
    <2>5. PutAt(log_frames, n, fr)[n] = fr
        BY ONLY <1>3, <2>2, Replaced
    <2>6. \A k \in 1 .. Len(log_frames) : k # n => PutAt(log_frames, n, fr)[k] = log_frames[k]
        <3> SUFFICES ASSUME NEW k \in 1 .. Len(log_frames), k # n
                     PROVE  PutAt(log_frames, n, fr)[k] = log_frames[k]
            OBVIOUS
        <3> PICK s : s = log_frames
            OBVIOUS
        <3>1. s \in Seq(Frame) /\ n \in 1 .. Len(s) + 1 /\ k \in 1 .. Len(s) /\ k # n
            BY <1>3, <2>2
        <3>2. PutAt(s, n, fr)[k] = s[k]
            BY ONLY <2>2, <3>1, Replaced
        <3> QED
            BY <3>2
    <2> QED
        BY <2>1, <2>3, <2>4, <2>5, <2>6
<1> HIDE DEF Tip, Base
<1>10. /\ Len(log_frames') \in Nat /\ DOMAIN log_frames' = 1 .. Len(log_frames')
       /\ n \in DOMAIN log_frames' /\ Len(log_frames') >= n
       /\ \A k \in DOMAIN log_frames' : k # n => k \in DOMAIN log_frames /\ log_frames'[k] = log_frames[k]
    <2>1. Len(log_frames') \in Nat /\ DOMAIN log_frames' = 1 .. Len(log_frames')
        BY <1>9
    <2> HIDE DEF Frame
    <2>2. n \in DOMAIN log_frames' /\ Len(log_frames') >= n
        BY ONLY <1>2, <1>3, <1>9, <2>1
    <2>3. ASSUME NEW k \in DOMAIN log_frames', k # n
          PROVE  k \in DOMAIN log_frames /\ log_frames'[k] = log_frames[k]
        <3>1. k \in 1 .. Len(log_frames)
            BY ONLY <1>2, <1>3, <1>9, <2>1, <2>3
        <3> QED
            BY <1>2, <1>9, <2>3, <3>1
    <2> QED
        BY <2>1, <2>2, <2>3
<1>11. TypeInv'
    <2>1. committed' \in 0 .. Len(log_frames')
        BY <1>1, <1>2, <1>10
    <2>2. /\ txn'.size = txn.size /\ txn'.pages = txn.pages /\ txn'.left = txn.left \ {p}
          /\ txn' = [size |-> txn'.size, pages |-> txn'.pages, left |-> txn'.left, outcome |-> txn'.outcome]
        BY <1>5
    <2>3. txn'.left \in SUBSET txn'.pages /\ txn'.pages # {}
        BY <1>4, <2>2
    <2> QED
        BY <1>1, <1>2, <1>4, <1>9, <2>1, <2>2, <2>3 DEF TypeInv
<1>12. \A k \in DOMAIN log_frames' : k \in Nat /\ (k < n \/ k = n \/ k > n)
    BY ONLY <1>2, <1>10
<1>13. FrameInv'
    <2> SUFFICES ASSUME NEW k \in DOMAIN log_frames'
                 PROVE  LET f == log_frames'[k] IN
                        /\ Len(f.sum) >= 2
                        /\ Tip(f) = Added(f.page, f.size, Tip(f)[3])
                        /\ Tip(f)[3] <= begun
                        /\ f.salt <= salt
                        /\ f.data \in {Torn, Tip(f)[3]}
                        /\ f.salt = salt /\ k > committed + 1 => Base(f)[3] = Tip(f)[3]
                        /\ f.salt = salt /\ k > committed + (InFlight + 1) => Tip(f)[3] < begun
        BY <1>1, <1>5, <1>6 DEF FrameInv, Tip, Base
    <2>1. CASE k = n
        <3>1. n > committed + 1 => Base(fr)[3] = begun
            <4> SUFFICES ASSUME n > committed + 1
                         PROVE  Base(fr)[3] = begun
                OBVIOUS
            <4>1. n - 1 \in Region /\ n - 1 \in 1 .. Len(log_frames) + 1 /\ n > 1 /\ n - 1 \in DOMAIN log_frames
                BY <1>a, <1>2, <1>3, <1>6 DEF Region
            <4>2. log_frames[n - 1].sum = Append(Running(log, n - 1), Added(log_frames[n - 1].page, log_frames[n - 1].size, begun))
                BY <1>1, <1>2, <4>1 DEF TxnInv
            <4>3. log_frames[n - 1] \in Frame
                BY <1>2, <4>1
            <4>4. Added(log_frames[n - 1].page, log_frames[n - 1].size, begun) \in Nat \X Nat \X Nat
                <5>1. log_frames[n - 1].page \in Nat /\ log_frames[n - 1].size \in Nat
                    BY <4>3 DEF Frame, WalAssumption
                <5> QED
                    BY <1>2, <5>1 DEF Added
            <4>5. Tip(log_frames[n - 1]) = Added(log_frames[n - 1].page, log_frames[n - 1].size, begun)
                BY <1>2, <4>1, <4>2, <4>4, Chained, SMTT(40)
            <4> QED
                BY <1>8, <4>1, <4>5 DEF Added
        <3>2. ~(n > committed + (InFlight + 1))
            BY ONLY <1>a, <1>2
        <3>3. Added(p, size, begun)[3] = begun
            BY <1>8
        <3>4. begun <= begun /\ salt <= salt
            BY <1>2
        <3> QED
            BY <1>7, <1>8, <1>9, <2>1, <3>1, <3>2, <3>3, <3>4
    <2>2. CASE k # n
        <3>1. k \in DOMAIN log_frames /\ log_frames'[k] = log_frames[k]
            BY <1>10, <2>2
        <3>2. k > committed + (InFlight + 1) => k > committed + InFlight
            BY ONLY <1>2, <1>12, k \in DOMAIN log_frames'
        <3> QED
            BY <1>1, <1>2, <3>1, <3>2 DEF FrameInv
    <2> QED
        BY <2>1, <2>2
<1>14. Region' = Region \cup {n} /\ n \notin Region /\ \A k \in Region : k < n /\ k \in DOMAIN log_frames'
    <2>1. Region' = (committed + 1) .. (committed + (InFlight + 1))
        BY <1>1, <1>6 DEF Region
    <2> PICK c : c = committed
        OBVIOUS
    <2> PICK w : w = InFlight
        OBVIOUS
    <2>a. c \in Nat /\ w \in Nat /\ n = c + w + 1
        BY <1>a, <1>2
    <2>b. /\ (c + 1) .. (c + (w + 1)) = ((c + 1) .. (c + w)) \cup {n}
          /\ n \notin (c + 1) .. (c + w)
          /\ \A k \in (c + 1) .. (c + w) : k < n /\ k \in Nat /\ k >= 1
        BY ONLY <2>a
    <2>c. Region = (c + 1) .. (c + w) /\ Region' = (c + 1) .. (c + (w + 1))
        BY <2>1 DEF Region
    <2>2. Region' = Region \cup {n} /\ n \notin Region /\ \A k \in Region : k < n /\ k \in Nat /\ k >= 1
        BY <2>b, <2>c
    <2> QED
        BY <1>2, <1>10, <2>2
<1>15. \A k \in Region' : Running(log, k)' = Running(log, k)
    <2> SUFFICES ASSUME NEW k \in Region'
                 PROVE  Running(log, k)' = Running(log, k)
        OBVIOUS
    <2>1. CASE k = 1
        BY <1>1, <2>1 DEF Running, log
    <2>2. CASE k # 1
        <3>1. k \in Nat /\ k >= 1 /\ k <= n
            BY <1>2, <1>12, <1>14 DEF Region
        <3>2. k - 1 \in DOMAIN log_frames' /\ k - 1 # n
            BY <1>10, <1>2, <2>2, <3>1
        <3>3. log_frames'[k - 1] = log_frames[k - 1]
            BY <1>10, <3>2
        <3> QED
            BY <2>2, <3>3 DEF Running, log
    <2> QED
        BY <2>1, <2>2
<1>16. TxnInv'
    <2>1. committed + (InFlight + 1) <= Len(log_frames')
        BY <1>a, <1>2, <1>10
    <2>2. ASSUME NEW k \in Region'
          PROVE  /\ log_frames'[k].salt = salt
                 /\ log_frames'[k].sum = Append(Running(log, k)', Added(log_frames'[k].page, log_frames'[k].size, begun))
                 /\ log_frames'[k].page \in txn.pages \ (txn.left \ {p})
                 /\ log_frames'[k].size = (IF txn.left \ {p} = {} /\ k = committed + (InFlight + 1)
                                        THEN txn.size ELSE 0)
        <3>1. CASE k = n
            <4>1. n = committed + (InFlight + 1)
                BY ONLY <1>a, <1>2
            <4> QED
                BY <1>b, <1>4, <1>6, <1>7, <1>9, <1>15, <3>1, <4>1
        <3>2. CASE k # n
            <4>1. k \in Region /\ log_frames'[k] = log_frames[k] /\ k # committed + (InFlight + 1)
                BY <1>a, <1>2, <1>10, <1>14, <3>2
            <4> QED
                BY <1>1, <1>2, <1>15, <4>1 DEF TxnInv
        <3> QED
            BY <3>1, <3>2
    <2>3. ASSUME NEW q \in txn.pages \ (txn.left \ {p})
          PROVE  \E k \in Region' : log_frames'[k].page = q
        <3>1. CASE q = p
            BY <1>7, <1>9, <1>14, <3>1
        <3>2. CASE q # p
            <4>1. PICK k \in Region : log_frames[k].page = q
                BY <1>1, <1>2, <3>2 DEF TxnInv
            <4> QED
                BY <1>10, <1>14, <4>1
        <3> QED
            BY <3>1, <3>2
    <2>4. Pending' # {}
        <3>1. n \in Region'
            BY <1>14
        <3>2. log_frames'[n].data = Torn
            BY <1>7, <1>9
        <3> QED
            BY <3>1, <3>2 DEF Pending, Region
    <2>5. /\ txn.outcome = Result(Latest, txn.size, txn.pages, begun)
          /\ (Len(Latest) + 1) .. txn.size \subseteq txn.pages
          /\ Latest' = Latest
        BY <1>1, <1>2 DEF TxnInv, Latest
    <2> QED
        BY <1>1, <1>5, <1>6, <2>1, <2>2, <2>3, <2>4, <2>5 DEF TxnInv
<1>17. Len(log_frames') >= committed /\ \A i \in 1 .. committed : log_frames'[i] = log_frames[i]
    <2>1. Len(log_frames') >= committed
        BY <1>2, <1>10
    <2>2. ASSUME NEW i \in 1 .. committed
          PROVE  log_frames'[i] = log_frames[i]
        <3>1. i \in DOMAIN log_frames' /\ i # n
            BY <1>2, <1>10
        <3> QED
            BY <1>10, <3>1
    <2> QED
        BY <2>1, <2>2
<1>18. PastInv' /\ MainInv' /\ Valid(log, committed)'
    BY <1>1, <1>9, <1>17, KeepPrefix
<1>19. LogInv'
    <2> SUFFICES ASSUME NEW j \in (committed + 1) .. Len(log_frames'), Valid(log', j)
                 PROVE  log_frames'[j].size = 0
        BY <1>1, <1>9, <1>17, <1>18, KeepPrefix DEF LogInv, Valid, Verifies, Running
    <2>1. CASE j < n
        <3>1. j \in Region /\ j \in DOMAIN log_frames' /\ j # n
            BY <1>a, <1>2, <1>10, <2>1 DEF Region
        <3>2. log_frames[j].size = 0
            BY <1>1, <1>2, <3>1 DEF TxnInv
        <3> QED
            BY <1>10, <3>1, <3>2
    <2>2. CASE j >= n
        <3> PICK l : l = log'
            OBVIOUS
        <3>1. l.frames = log_frames' /\ l.salt = salt'
            BY DEF log
        <3>2. \A k \in DOMAIN l.frames : Len(l.frames[k].sum) >= 2
            BY <1>13, <3>1 DEF FrameInv
        <3>3. j \in DOMAIN l.frames /\ l.frames \in Seq(Frame) /\ Valid(l, j) /\ n \in 1 .. j
            BY <1>2, <1>9, <1>10, <2>2, <3>1
        <3>4. l.frames[n].data = Tip(l.frames[n])[3]
            BY <3>2, <3>3, ValidMeans
        <3>5. Torn = begun
            BY <1>7, <1>8, <1>9, <3>1, <3>4
        <3> QED
            BY <1>2, <3>5 DEF Torn
    <2> QED
        BY <1>2, <1>10, <2>1, <2>2, SMTT(40)
<1> QED
    BY <1>11, <1>13, <1>16, <1>18, <1>19 DEF WalInv

LEMMA DatabaseChanged ==
    ASSUME WalAssumption, NEW d \in Databases, NEW size \in 1 .. MaxPages, NEW pages \in SUBSET (1 .. size),
           (Len(d) + 1) .. size \subseteq pages, NEW id \in 0 .. MaxTxns
    PROVE  /\ Result(d, size, pages, id) \in Databases
           /\ Len(Result(d, size, pages, id)) = size /\ DOMAIN Result(d, size, pages, id) = 1 .. size
           /\ \A p \in pages : Result(d, size, pages, id)[p] = id
           /\ \A p \in 1 .. size : p \notin pages => p \in DOMAIN d /\ Result(d, size, pages, id)[p] = d[p]
PROOF
<1> DEFINE r == Result(d, size, pages, id)
<1>1. /\ Len(d) \in 1 .. MaxPages /\ DOMAIN d = 1 .. Len(d) /\ \A p \in DOMAIN d : d[p] \in Data
    BY DatabaseType
<1>2. MaxPages \in Nat /\ size \in Nat /\ Len(d) \in Nat /\ id \in Data
    BY <1>1 DEF WalAssumption, Data, Torn
<1>3. \A p \in 1 .. size : p \notin pages => p \in 1 .. Len(d)
    BY <1>2
<1>4. r = [p \in 1 .. size |-> IF p \in pages THEN id ELSE d[p]]
    BY DEF Result
<1> HIDE DEF r
<1>5. r \in [1 .. size -> Data]
    BY <1>1, <1>2, <1>3, <1>4
<1>6. r \in Databases /\ Len(r) = size
    BY <1>5, DatabaseMade
<1> QED
    BY <1>1, <1>3, <1>4, <1>6 DEF r

LEMMA RegionMeans ==
    ASSUME WalInv, Opened, NEW k \in Region
    PROVE  /\ log_frames[k].salt = salt
           /\ log_frames[k].sum = Append(Running(log, k), Added(log_frames[k].page, log_frames[k].size, begun))
           /\ log_frames[k].page \in txn.pages \ txn.left
           /\ log_frames[k].size = (IF txn.left = {} /\ k = committed + InFlight THEN txn.size ELSE 0)
BY DEF WalInv, TxnInv

(* A frame's data lands: nothing else in the log changes. *)
LEMMA LandMeans ==
    ASSUME WalAssumption, WalInv, NEW i, Land(i)
    PROVE  /\ Opened /\ i \in Region /\ i \in DOMAIN log_frames
           /\ committed \in Nat /\ InFlight \in Nat /\ InFlight > 0 /\ begun \in 1 .. MaxTxns
           /\ Len(log_frames) \in Nat /\ DOMAIN log_frames = 1 .. Len(log_frames) /\ DOMAIN log_frames' = DOMAIN log_frames
           /\ committed + InFlight <= Len(log_frames)
           /\ log_frames' \in Seq(Frame) /\ Len(log_frames') = Len(log_frames)
           /\ \A k \in DOMAIN log_frames :
                 /\ log_frames'[k].page = log_frames[k].page /\ log_frames'[k].size = log_frames[k].size
                 /\ log_frames'[k].salt = log_frames[k].salt /\ log_frames'[k].sum = log_frames[k].sum
                 /\ k # i => log_frames'[k] = log_frames[k]
           /\ log_frames'[i].data = begun /\ log_frames[i].data = Torn
           /\ \A k \in Region : k \in DOMAIN log_frames /\ Tip(log_frames[k])[3] = begun
PROOF
<1>1. TypeInv /\ FrameInv /\ TxnInv
    BY DEF WalInv
<1>2. /\ log_frames \in Seq(Frame) /\ Len(log_frames) \in Nat /\ DOMAIN log_frames = 1 .. Len(log_frames)
      /\ committed \in Nat /\ InFlight \in Nat /\ MaxTxns \in Nat
      /\ begun \in 0 .. MaxTxns
    BY <1>1, InFlightCount DEF TypeInv, WalAssumption
<1>3. i \in Region /\ log_frames[i].data = Torn
    BY DEF Land, Pending, Region
<1>4. InFlight > 0
    BY <1>2, <1>3 DEF Region
<1>5. Opened
    BY <1>1, <1>2, <1>4, InFlightCount
<1>6. begun \in 1 .. MaxTxns
    BY <1>1, <1>2, <1>5 DEF TypeInv
<1>7. committed + InFlight <= Len(log_frames)
    BY <1>1, <1>5 DEF TxnInv
<1>8. \A k \in Region : k \in DOMAIN log_frames
    BY <1>2, <1>7 DEF Region
<1>9. ASSUME NEW k \in Region
      PROVE  Tip(log_frames[k])[3] = begun
    <2>1. log_frames[k] \in Frame /\ k \in 1 .. Len(log_frames) + 1
        BY <1>2, <1>8, <1>9
    <2> PICK a : a = Added(log_frames[k].page, log_frames[k].size, begun)
        OBVIOUS
    <2>2. a \in Nat \X Nat \X Nat /\ a[3] = begun
        <3>1. log_frames[k].page \in Nat /\ log_frames[k].size \in Nat /\ begun \in Nat
            BY <1>6, <1>2, <2>1 DEF Frame, WalAssumption
        <3> QED
            BY <3>1 DEF Added
    <2>3. log_frames[k].sum = Append(Running(log, k), a)
        BY <1>1, <1>5, <1>9 DEF TxnInv
    <2>4. Tip(log_frames[k]) = a
        BY <1>1, <2>1, <2>2, <2>3, Chained
    <2> QED
        BY <2>2, <2>4
<1>10. log_frames' = [log_frames EXCEPT ![i].data = begun] /\ i \in DOMAIN log_frames
    BY <1>3, <1>8 DEF Land
<1>11. log_frames[i] \in Frame /\ begun \in Data
    BY <1>2, <1>6, <1>10 DEF Data, Torn
<1> PICK g : g = [log_frames[i] EXCEPT !.data = begun]
    OBVIOUS
<1>12. /\ g \in Frame /\ g.data = begun
       /\ g.page = log_frames[i].page /\ g.size = log_frames[i].size /\ g.salt = log_frames[i].salt /\ g.sum = log_frames[i].sum
    <2> DEFINE T == Seq(Nat \X Nat \X Nat)
    <2> HIDE DEF T
    <2>1. Frame = [page : 1 .. MaxPages, size : 0 .. MaxPages, salt : 1 .. MaxGenerations, sum : T, data : Data]
        BY DEF Frame, T
    <2> QED
        BY <1>11, <2>1
<1>13. log_frames' = [log_frames EXCEPT ![i] = g]
    BY <1>10
<1> HIDE DEF Frame
<1>14. /\ DOMAIN log_frames' = DOMAIN log_frames /\ log_frames'[i] = g
       /\ \A k \in DOMAIN log_frames : k # i => log_frames'[k] = log_frames[k]
    BY <1>10, <1>13
<1>15. log_frames' \in Seq(Frame) /\ Len(log_frames') = Len(log_frames)
    <2> PICK n : n = Len(log_frames)
        OBVIOUS
    <2>1. \A k \in 1 .. n : log_frames'[k] \in Frame
        BY <1>2, <1>12, <1>14
    <2>2. log_frames' = [k \in 1 .. n |-> log_frames'[k]]
        BY <1>2, <1>13, <1>14
    <2>3. log_frames' \in [1 .. n -> Frame] /\ n \in Nat
        BY <1>2, <2>1, <2>2
    <2> QED
        BY <2>3
<1> QED
    BY <1>2, <1>3, <1>4, <1>5, <1>6, <1>7, <1>8, <1>9, <1>10, <1>12, <1>14, <1>15

(* What verifies in the new log was written whole. *)
LEMMA LandValid ==
    ASSUME WalAssumption, WalInv, NEW i, Land(i), NEW j \in DOMAIN log_frames, Valid(log', j)
    PROVE  /\ j <= committed + InFlight
           /\ \A k \in Region : k <= j => log_frames'[k].data # Torn
PROOF
<1>1. /\ i \in Region /\ i \in DOMAIN log_frames
      /\ committed \in Nat /\ InFlight \in Nat /\ InFlight > 0 /\ begun \in 1 .. MaxTxns /\ begun \in Nat
      /\ Len(log_frames) \in Nat /\ DOMAIN log_frames = 1 .. Len(log_frames) /\ DOMAIN log_frames' = DOMAIN log_frames
      /\ log_frames' \in Seq(Frame)
    BY LandMeans DEF WalAssumption
<1>2. \A k \in DOMAIN log_frames : log_frames'[k].salt = log_frames[k].salt /\ log_frames'[k].sum = log_frames[k].sum
    BY LandMeans
<1>3. \A k \in Region : k \in DOMAIN log_frames /\ Tip(log_frames[k])[3] = begun
    BY LandMeans
<1> PICK l : l = log'
    OBVIOUS
<1>4. l.frames = log_frames' /\ l.salt = salt
    BY DEF log, Land
<1>5. \A k \in DOMAIN log_frames : /\ Len(log_frames'[k].sum) >= 2
                                   /\ Tip(log_frames'[k]) = Tip(log_frames[k]) /\ Base(log_frames'[k]) = Base(log_frames[k])
    BY <1>2 DEF WalInv, FrameInv, Tip, Base
<1>6. \A k \in 1 .. j : /\ log_frames'[k].salt = salt
                        /\ log_frames'[k].data = Tip(log_frames'[k])[3]
                        /\ k > 1 => Base(log_frames'[k]) = Tip(log_frames'[k - 1])
    <2>1. \A k \in DOMAIN l.frames : Len(l.frames[k].sum) >= 2
        BY <1>1, <1>4, <1>5
    <2>2. j \in DOMAIN l.frames /\ l.frames \in Seq(Frame) /\ Valid(l, j)
        BY <1>1, <1>4
    <2> QED
        BY <1>4, <2>1, <2>2, ValidMeans
<1>7. j <= committed + InFlight
    <2> SUFFICES ASSUME j > committed + InFlight
                 PROVE  FALSE
        BY <1>1
    <2> PICK k : k = committed + InFlight
        OBVIOUS
    <2>1. /\ k \in Region /\ k + 1 \in 1 .. j /\ k + 1 > 1 /\ (k + 1) - 1 = k /\ k + 1 \in DOMAIN log_frames
          /\ k + 1 > committed + 1 /\ k + 1 > committed + InFlight /\ k \in DOMAIN log_frames
        BY <1>1 DEF Region
    <2>2. Base(log_frames[k + 1]) = Tip(log_frames[k]) /\ log_frames[k + 1].salt = salt
        <3>1. Base(log_frames'[k + 1]) = Tip(log_frames'[k]) /\ log_frames'[k + 1].salt = salt
            BY <1>6, <2>1
        <3> QED
            BY <1>2, <1>5, <2>1, <3>1
    <2>3. Base(log_frames[k + 1])[3] = Tip(log_frames[k + 1])[3] /\ Tip(log_frames[k + 1])[3] < begun
        <3>1. Opened
            BY LandMeans
        <3> QED
            BY <2>1, <2>2, <3>1 DEF WalInv, FrameInv
    <2>4. Tip(log_frames[k])[3] = begun
        BY <1>3, <2>1
    <2>5. Tip(log_frames[k + 1])[3] = begun
        BY <2>2, <2>3, <2>4
    <2> QED
        BY <1>1, <2>3, <2>5
<1>8. ASSUME NEW k \in Region, k <= j
      PROVE  log_frames'[k].data # Torn
    <2>1. k \in 1 .. j /\ k \in DOMAIN log_frames
        BY <1>1, <1>3, <1>8
    <2>2. log_frames'[k].data = begun
        BY <1>3, <1>5, <1>6, <2>1
    <2> QED
        BY <1>1, <2>2 DEF Torn
<1> QED
    BY <1>7, <1>8

LEMMA LandOnly ==
    ASSUME WalAssumption, WalInv, NEW i, Land(i), ~(txn.left = {} /\ Pending = {i})
    PROVE  WalInv'
PROOF
<1>1. /\ Opened /\ i \in Region /\ i \in DOMAIN log_frames
      /\ committed \in Nat /\ InFlight \in Nat /\ InFlight > 0 /\ begun \in 1 .. MaxTxns
      /\ Len(log_frames) \in Nat /\ DOMAIN log_frames = 1 .. Len(log_frames) /\ DOMAIN log_frames' = DOMAIN log_frames
      /\ committed + InFlight <= Len(log_frames)
      /\ log_frames' \in Seq(Frame) /\ Len(log_frames') = Len(log_frames)
      /\ log_frames'[i].data = begun /\ log_frames[i].data = Torn
      /\ \A k \in Region : k \in DOMAIN log_frames /\ Tip(log_frames[k])[3] = begun
    BY LandMeans
<1>2. \A k \in DOMAIN log_frames :
         /\ log_frames'[k].page = log_frames[k].page /\ log_frames'[k].size = log_frames[k].size
         /\ log_frames'[k].salt = log_frames[k].salt /\ log_frames'[k].sum = log_frames[k].sum
         /\ k # i => log_frames'[k] = log_frames[k]
    BY LandMeans
<1>3. UNCHANGED <<main, salt, committed, begun, limit, copied, backfilled, reached, past, txn>>
    BY DEF Land
<1>4. InFlight' = InFlight /\ Region' = Region /\ (Opened' <=> Opened) /\ Latest' = Latest
    BY <1>3 DEF InFlight, Region, Opened, Latest
<1>5. TypeInv'
    <2>1. TypeInv
        BY DEF WalInv
    <2>2. log_frames # <<>>
        BY <1>1
    <2> QED
        BY <1>1, <1>3, <1>4, <2>1, <2>2 DEF TypeInv
<1>6. FrameInv'
    <2> SUFFICES ASSUME NEW k \in DOMAIN log_frames
                 PROVE  LET f == log_frames'[k] IN
                        /\ Len(f.sum) >= 2
                        /\ Tip(f) = Added(f.page, f.size, Tip(f)[3])
                        /\ Tip(f)[3] <= begun
                        /\ f.salt <= salt
                        /\ f.data \in {Torn, Tip(f)[3]}
                        /\ f.salt = salt /\ k > committed + 1 => Base(f)[3] = Tip(f)[3]
                        /\ f.salt = salt /\ Opened /\ k > committed + InFlight => Tip(f)[3] < begun
        BY <1>1, <1>3, <1>4 DEF FrameInv, Tip, Base
    <2>1. Tip(log_frames'[k]) = Tip(log_frames[k]) /\ Base(log_frames'[k]) = Base(log_frames[k])
        BY <1>2 DEF Tip, Base
    <2>2. log_frames'[k].data \in {Torn, Tip(log_frames[k])[3]}
        BY <1>1, <1>2 DEF WalInv, FrameInv
    <2> QED
        BY <1>2, <2>1, <2>2 DEF WalInv, FrameInv
<1>7. \A k \in Region : Running(log, k)' = Running(log, k)
    <2> SUFFICES ASSUME NEW k \in Region, k # 1
                 PROVE  Running(log, k)' = Running(log, k)
        BY <1>3 DEF Running, log
    <2>1. k - 1 \in DOMAIN log_frames
        BY <1>1 DEF Region
    <2>2. log_frames'[k - 1].sum = log_frames[k - 1].sum
        BY <1>2, <2>1
    <2> QED
        BY <2>2 DEF Running, log
<1>8. TxnInv'
    <2>1. ASSUME NEW k \in Region
          PROVE  /\ log_frames'[k].salt = salt
                 /\ log_frames'[k].sum = Append(Running(log, k)', Added(log_frames'[k].page, log_frames'[k].size, begun))
                 /\ log_frames'[k].page \in txn.pages \ txn.left
                 /\ log_frames'[k].size = (IF txn.left = {} /\ k = committed + InFlight THEN txn.size ELSE 0)
        <3>1. k \in DOMAIN log_frames /\ Running(log, k)' = Running(log, k)
            BY <1>1, <1>7, <2>1
        <3>2. /\ log_frames'[k].page = log_frames[k].page /\ log_frames'[k].size = log_frames[k].size
              /\ log_frames'[k].salt = log_frames[k].salt /\ log_frames'[k].sum = log_frames[k].sum
            BY <1>2, <3>1
        <3> QED
            BY <1>1, <2>1, <3>1, <3>2, RegionMeans
    <2>2. ASSUME NEW p \in txn.pages \ txn.left
          PROVE  \E k \in Region : log_frames'[k].page = p
        <3>1. PICK k \in Region : log_frames[k].page = p
            BY <1>1 DEF WalInv, TxnInv
        <3>2. log_frames'[k].page = p
            BY <1>1, <1>2, <3>1
        <3> QED
            BY <3>2
    <2>3. txn.left = {} => Pending' # {}
        <3> SUFFICES ASSUME txn.left = {}
                     PROVE  Pending' # {}
            OBVIOUS
        <3>1. Pending # {i} /\ i \in Pending
            BY DEF Land
        <3>2. PICK k \in Pending : k # i
            BY <3>1
        <3>3. k \in Region /\ log_frames'[k].data = Torn
            BY <1>1, <1>2, <3>2 DEF Pending, Region
        <3> QED
            BY <1>4, <3>3 DEF Pending, Region
    <2>4. /\ committed + InFlight <= Len(log_frames)
          /\ txn.outcome = Result(Latest, txn.size, txn.pages, begun)
          /\ (Len(Latest) + 1) .. txn.size \subseteq txn.pages
        BY <1>1 DEF WalInv, TxnInv
    <2> QED
        BY <1>1, <1>3, <1>4, <2>1, <2>2, <2>3, <2>4 DEF TxnInv
<1>9. \A k \in 1 .. committed : log_frames'[k] = log_frames[k]
    <2> SUFFICES ASSUME NEW k \in 1 .. committed
                 PROVE  k \in DOMAIN log_frames /\ k # i
        BY <1>2
    <2> QED
        BY <1>1 DEF Region
<1>10. /\ PastInv' /\ MainInv' /\ Valid(log, committed)'
       /\ \A k \in 1 .. committed' : (log_frames'[k].size # 0 <=> k \in DOMAIN past')
    BY <1>1, <1>3, <1>9, KeepPrefix
<1>11. ASSUME NEW j \in (committed + 1) .. Len(log_frames), Valid(log', j)
       PROVE  log_frames'[j].size = 0
    <2>1. j \in DOMAIN log_frames
        BY <1>1
    <2>2. j <= committed + InFlight /\ \A k \in Region : k <= j => log_frames'[k].data # Torn
        BY <1>11, <2>1, LandValid
    <2>3. j \in Region
        BY <1>1, <2>1, <2>2 DEF Region
    <2>4. log_frames[j].size = (IF txn.left = {} /\ j = committed + InFlight THEN txn.size ELSE 0)
        BY <1>1, <2>3 DEF WalInv, TxnInv
    <2>5. ASSUME txn.left = {}, j = committed + InFlight
          PROVE  FALSE
        <3>1. Pending # {i} /\ i \in Pending
            BY <2>5 DEF Land
        <3>2. PICK k \in Pending : k # i
            BY <3>1
        <3>3. k \in Region /\ log_frames'[k].data = Torn /\ k <= j
            BY <1>1, <1>2, <2>5, <3>2 DEF Pending, Region
        <3> QED
            BY <2>2, <3>3
    <2> QED
        BY <1>2, <2>1, <2>4, <2>5
<1>12. LogInv'
    <2>1. \A j : Valid(log', j) <=> Valid(log, j)'
        BY DEF Valid, Verifies, Running
    <2> QED
        BY <1>1, <1>3, <1>10, <1>11, <2>1 DEF LogInv
<1> QED
    BY <1>5, <1>6, <1>8, <1>10, <1>12 DEF WalInv

LEMMA LandCommit ==
    ASSUME WalAssumption, WalInv, NEW i, Land(i), txn.left = {}, Pending = {i}
    PROVE  WalInv'
PROOF
<1> PICK m : m = committed + InFlight
    OBVIOUS
<1>1. /\ Opened /\ i \in Region /\ i \in DOMAIN log_frames
      /\ committed \in Nat /\ InFlight \in Nat /\ InFlight > 0 /\ begun \in 1 .. MaxTxns
      /\ Len(log_frames) \in Nat /\ DOMAIN log_frames = 1 .. Len(log_frames) /\ DOMAIN log_frames' = DOMAIN log_frames
      /\ committed + InFlight <= Len(log_frames)
      /\ log_frames' \in Seq(Frame) /\ Len(log_frames') = Len(log_frames)
      /\ log_frames'[i].data = begun /\ log_frames[i].data = Torn
      /\ \A k \in Region : k \in DOMAIN log_frames /\ Tip(log_frames[k])[3] = begun
    BY LandMeans
<1>2. \A k \in DOMAIN log_frames :
         /\ log_frames'[k].page = log_frames[k].page /\ log_frames'[k].size = log_frames[k].size
         /\ log_frames'[k].salt = log_frames[k].salt /\ log_frames'[k].sum = log_frames[k].sum
         /\ k # i => log_frames'[k] = log_frames[k]
    BY LandMeans
<1>3. /\ UNCHANGED <<main, salt, begun, limit, copied, backfilled, reached>>
      /\ committed' = m /\ txn' = NoTxn
      /\ past' = [n \in DOMAIN past \cup {m} |-> IF n = m THEN txn.outcome ELSE past[n]]
    BY DEF Land
<1>4. /\ m \in Nat /\ committed < m /\ m \in 1 .. Len(log_frames) /\ m \in Region /\ ~Opened'
      /\ Region = (committed + 1) .. m
    BY <1>1, <1>3 DEF Region, Opened
<1>5. /\ TypeInv /\ FrameInv /\ TxnInv /\ LogInv /\ PastInv /\ MainInv
      /\ DOMAIN past \subseteq 0 .. committed /\ 0 \in DOMAIN past /\ committed \in DOMAIN past
      /\ MaxPages \in Nat
    BY DEF WalInv, PastInv, WalAssumption
<1>6. TypeInv'
    <2>1. committed' \in 0 .. Len(log_frames') /\ log_frames # <<>>
        BY <1>1, <1>3, <1>4
    <2> QED
        BY <1>1, <1>3, <1>4, <1>5, <2>1 DEF TypeInv
<1>7. FrameInv'
    <2> SUFFICES ASSUME NEW k \in DOMAIN log_frames
                 PROVE  LET f == log_frames'[k] IN
                        /\ Len(f.sum) >= 2
                        /\ Tip(f) = Added(f.page, f.size, Tip(f)[3])
                        /\ Tip(f)[3] <= begun
                        /\ f.salt <= salt
                        /\ f.data \in {Torn, Tip(f)[3]}
                        /\ f.salt = salt /\ k > m + 1 => Base(f)[3] = Tip(f)[3]
        BY <1>1, <1>3, <1>4 DEF FrameInv, Tip, Base
    <2>1. Tip(log_frames'[k]) = Tip(log_frames[k]) /\ Base(log_frames'[k]) = Base(log_frames[k])
        BY <1>2 DEF Tip, Base
    <2>2. log_frames'[k].data \in {Torn, Tip(log_frames[k])[3]}
        BY <1>1, <1>2, <1>5 DEF FrameInv
    <2>3. k > m + 1 => k > committed + 1
        BY <1>1, <1>4
    <2> QED
        BY <1>2, <1>5, <2>1, <2>2, <2>3 DEF FrameInv
<1>8. TxnInv'
    BY <1>4 DEF TxnInv
<1>9. ASSUME NEW k \in Region
      PROVE  /\ log_frames'[k].salt = salt /\ log_frames'[k].data = begun
             /\ log_frames'[k].sum = Append(Running(log, k), Added(log_frames'[k].page, log_frames'[k].size, begun))
             /\ log_frames'[k].page \in txn.pages
             /\ log_frames'[k].size = (IF k = m THEN txn.size ELSE 0)
    <2>1. k \in DOMAIN log_frames
        BY <1>1, <1>9
    <2>2. log_frames'[k].data = begun
        <3>1. CASE k = i
            BY <1>1, <3>1
        <3>2. CASE k # i
            <4>1. k \notin Pending
                BY <3>2
            <4>2. log_frames[k].data # Torn
                BY <1>9, <4>1 DEF Pending, Region
            <4>3. log_frames[k].data = begun
                BY <1>1, <1>5, <1>9, <2>1, <4>2 DEF FrameInv
            <4> QED
                BY <1>2, <2>1, <3>2, <4>3
        <3> QED
            BY <3>1, <3>2
    <2>3. /\ log_frames'[k].page = log_frames[k].page /\ log_frames'[k].size = log_frames[k].size
          /\ log_frames'[k].salt = log_frames[k].salt /\ log_frames'[k].sum = log_frames[k].sum
        BY <1>2, <2>1
    <2>4. txn.left = {} /\ Opened /\ m = committed + InFlight
        BY <1>1
    <2> QED
        BY <1>9, <2>2, <2>3, <2>4, RegionMeans
<1>10. \A k \in 1 .. m : k \in DOMAIN log_frames /\ (k \in 1 .. committed \/ k \in Region)
    BY <1>1, <1>4
<1>11. \A k \in 1 .. committed : k # i /\ log_frames'[k] = log_frames[k]
    <2> SUFFICES ASSUME NEW k \in 1 .. committed
                 PROVE  k \in DOMAIN log_frames /\ k # i
        BY <1>2
    <2> QED
        BY <1>1 DEF Region
<1>12. \A k \in 1 .. m : Running(log, k)' = Running(log, k)
    <2> SUFFICES ASSUME NEW k \in 1 .. m, k # 1
                 PROVE  Running(log, k)' = Running(log, k)
        BY <1>3 DEF Running, log
    <2>1. k - 1 \in DOMAIN log_frames
        BY <1>1, <1>4
    <2>2. log_frames'[k - 1].sum = log_frames[k - 1].sum
        BY <1>2, <2>1
    <2> QED
        BY <2>2 DEF Running, log
<1>13. LogInv'
    <2>1. \A j : (Valid(log', j) <=> Valid(log, j)') /\ log'.salt = salt /\ log'.frames = log_frames'
        BY <1>3 DEF Valid, Verifies, Running, log
    <2>2. ASSUME NEW k \in 1 .. m
          PROVE  Verifies(log, k)'
        <3>1. CASE k \in Region
            BY <1>3, <1>9, <1>12, <3>1 DEF Verifies, log
        <3>2. CASE k \in 1 .. committed
            <4>1. Verifies(log, k)
                BY <1>5, <3>2 DEF LogInv, Valid
            <4> QED
                BY <1>3, <1>11, <1>12, <3>2, <4>1 DEF Verifies, log
        <3> QED
            BY <1>10, <3>1, <3>2
    <2>3. Valid(log, committed)'
        BY <1>3, <2>2 DEF Valid
    <2>4. \A j \in (m + 1) .. Len(log_frames) : ~Valid(log', j)
        <3> SUFFICES ASSUME NEW j \in (m + 1) .. Len(log_frames), Valid(log', j)
                     PROVE  FALSE
            OBVIOUS
        <3>1. j \in DOMAIN log_frames /\ j > m /\ j \in Nat
            BY <1>1, <1>4
        <3>2. j <= committed + InFlight
            BY <3>1, LandValid
        <3> QED
            BY <1>4, <3>1, <3>2
    <2>5. ASSUME NEW k \in 1 .. m
          PROVE  log_frames'[k].size # 0 <=> k \in DOMAIN past'
        <3>1. DOMAIN past' = DOMAIN past \cup {m}
            BY <1>3
        <3>2. CASE k \in Region
            <4>1. txn.size # 0
                BY <1>1, <1>5 DEF TypeInv
            <4>2. k \notin DOMAIN past
                BY <1>1, <1>5, <3>2 DEF Region
            <4> QED
                BY <1>9, <3>1, <3>2, <4>1, <4>2
        <3>3. CASE k \in 1 .. committed
            <4>1. k # m
                BY <1>1, <1>4, <3>3
            <4> QED
                BY <1>5, <1>11, <3>1, <3>3, <4>1 DEF LogInv
        <3> QED
            BY <1>10, <3>2, <3>3
    <2> QED
        BY <1>1, <1>3, <2>1, <2>3, <2>4, <2>5 DEF LogInv
<1>14. \A p, a : \A b \in 0 .. committed : a \in Nat => (NoWrite(p, a, b)' <=> NoWrite(p, a, b))
    <2> SUFFICES ASSUME NEW p, NEW a \in Nat, NEW b \in 0 .. committed
                 PROVE  NoWrite(p, a, b)' <=> NoWrite(p, a, b)
        OBVIOUS
    <2>1. \A k \in (a + 1) .. b : log_frames'[k] = log_frames[k]
        BY <1>1, <1>11
    <2> QED
        BY <2>1 DEF NoWrite
<1> DEFINE new == txn.outcome
<1>15. /\ new \in Databases /\ Len(new) = txn.size /\ DOMAIN new = 1 .. txn.size
       /\ \A p \in txn.pages : new[p] = begun
       /\ \A p \in DOMAIN new : p \notin txn.pages => p \in DOMAIN Latest /\ new[p] = Latest[p]
    <2>1. /\ Latest \in Databases /\ txn.size \in 1 .. MaxPages /\ txn.pages \in SUBSET (1 .. txn.size)
          /\ begun \in 0 .. MaxTxns
          /\ (Len(Latest) + 1) .. txn.size \subseteq txn.pages
          /\ new = Result(Latest, txn.size, txn.pages, begun)
        BY <1>1, <1>5 DEF TypeInv, TxnInv, PastInv, Latest
    <2> PICK old : old = Latest
        OBVIOUS
    <2> PICK size : size = txn.size
        OBVIOUS
    <2> PICK pages : pages = txn.pages
        OBVIOUS
    <2>2. /\ old \in Databases /\ size \in 1 .. MaxPages /\ pages \in SUBSET (1 .. size)
          /\ begun \in 0 .. MaxTxns /\ (Len(old) + 1) .. size \subseteq pages
        BY <2>1
    <2> HIDE DEF new
    <2>3. new = Result(old, size, pages, begun)
        BY <2>1
    <2>4. /\ Result(old, size, pages, begun) \in Databases
          /\ Len(Result(old, size, pages, begun)) = size /\ DOMAIN Result(old, size, pages, begun) = 1 .. size
          /\ \A p \in pages : Result(old, size, pages, begun)[p] = begun
          /\ \A p \in 1 .. size : p \notin pages =>
                 p \in DOMAIN old /\ Result(old, size, pages, begun)[p] = old[p]
        BY ONLY <2>2, WalAssumption, DatabaseChanged
    <2> QED
        BY <2>3, <2>4
<1> HIDE DEF new
<1>16. PastInv'
    <2>1. DOMAIN past' = DOMAIN past \cup {m} /\ m \notin DOMAIN past
        BY <1>1, <1>3, <1>4, <1>5
    <2>2. past'[m] = new /\ \A n \in DOMAIN past : past'[n] = past[n]
        BY <1>3, <2>1 DEF new
    <2>3. \A n \in DOMAIN past : n \in 0 .. committed /\ n \in Nat /\ n < m
        BY <1>1, <1>4, <1>5
    <2>4. ASSUME NEW n \in DOMAIN past'
          PROVE  past'[n] \in Databases /\ (n > 0 => Len(past'[n]) = log_frames'[n].size)
        <3>1. CASE n = m
            BY <1>4, <1>9, <1>15, <2>2, <3>1
        <3>2. CASE n \in DOMAIN past
            <4>1. n > 0 => n \in 1 .. committed
                BY <2>3, <3>2
            <4> QED
                BY <1>5, <1>11, <2>2, <3>2, <4>1 DEF PastInv
        <3> QED
            BY <2>1, <3>1, <3>2
    <2>5. ASSUME NEW n \in DOMAIN past', NEW p \in DOMAIN past'[n], NEW a \in DOMAIN past',
                 a <= n, NoWrite(p, a, n)'
          PROVE  p \in DOMAIN past'[a] /\ past'[n][p] = past'[a][p]
        <3>1. CASE n = m /\ a = m
            BY <3>1
        <3>2. CASE n = m /\ a \in DOMAIN past
            <4>1. p \notin txn.pages
                <5> SUFFICES ASSUME p \in txn.pages
                             PROVE  FALSE
                    OBVIOUS
                <5>1. PICK k \in Region : log_frames[k].page = p
                    BY <1>1, <1>5 DEF TxnInv
                <5>2. k \in (a + 1) .. n /\ log_frames'[k].page = p
                    <6>1. k \in DOMAIN log_frames /\ log_frames'[k].page = p
                        BY <1>1, <1>2, <5>1
                    <6>2. k \in (a + 1) .. m
                        BY <1>1, <1>4, <2>3, <3>2
                    <6> QED
                        BY <3>2, <6>1, <6>2
                <5> QED
                    BY <2>5, <5>2 DEF NoWrite
            <4>2. p \in DOMAIN Latest /\ new[p] = Latest[p]
                BY <1>15, <2>2, <2>5, <3>2, <4>1
            <4>3. NoWrite(p, a, committed)
                <5>1. \A k \in (a + 1) .. committed : k \in (a + 1) .. m /\ k \in 1 .. committed
                    BY <1>1, <1>4, <2>3, <3>2
                <5>2. \A k \in (a + 1) .. m : log_frames'[k].page # p
                    BY <2>5, <3>2 DEF NoWrite
                <5> QED
                    BY <1>11, <5>1, <5>2 DEF NoWrite
            <4>4. p \in DOMAIN past[a] /\ Latest[p] = past[a][p]
                BY <1>1, <1>5, <2>3, <3>2, <4>2, <4>3 DEF PastInv, Latest
            <4> QED
                BY <2>2, <3>2, <4>2, <4>4
        <3>3. CASE n \in DOMAIN past
            <4>1. a \in DOMAIN past
                BY <2>1, <2>3, <2>5, <3>3, <1>4
            <4>2. NoWrite(p, a, n)
                BY <1>14, <2>3, <2>5, <3>3, <4>1
            <4> QED
                BY <1>5, <2>2, <2>5, <3>3, <4>1, <4>2 DEF PastInv
        <3> QED
            BY <2>1, <3>1, <3>2, <3>3
    <2>6. ASSUME NEW n \in DOMAIN past', NEW p \in DOMAIN past'[n], NEW k \in 1 .. n,
                 log_frames'[k].page = p, NoWrite(p, k, n)'
          PROVE  past'[n][p] = log_frames'[k].data
        <3>1. CASE n = m /\ k \in Region
            BY <1>9, <1>15, <2>2, <2>6, <3>1
        <3>2. CASE n = m /\ k \in 1 .. committed
            <4>1. p \notin txn.pages
                <5> SUFFICES ASSUME p \in txn.pages
                             PROVE  FALSE
                    OBVIOUS
                <5>1. PICK j \in Region : log_frames[j].page = p
                    BY <1>1, <1>5 DEF TxnInv
                <5>2. j \in (k + 1) .. n /\ log_frames'[j].page = p
                    <6>1. j \in DOMAIN log_frames /\ log_frames'[j].page = p
                        BY <1>1, <1>2, <5>1
                    <6>2. j \in (k + 1) .. m
                        BY <1>1, <1>4, <3>2
                    <6> QED
                        BY <3>2, <6>1, <6>2
                <5> QED
                    BY <2>6, <5>2 DEF NoWrite
            <4>2. p \in DOMAIN Latest /\ new[p] = Latest[p]
                BY <1>15, <2>2, <2>6, <3>2, <4>1
            <4>3. NoWrite(p, k, committed)
                <5>1. \A j \in (k + 1) .. committed : j \in (k + 1) .. m /\ j \in 1 .. committed
                    BY <1>1, <1>4, <3>2
                <5>2. \A j \in (k + 1) .. m : log_frames'[j].page # p
                    BY <2>6, <3>2 DEF NoWrite
                <5> QED
                    BY <1>11, <5>1, <5>2 DEF NoWrite
            <4>4. log_frames[k].page = p /\ log_frames'[k].data = log_frames[k].data
                BY <1>11, <2>6, <3>2
            <4>5. Latest[p] = log_frames[k].data
                BY <1>5, <3>2, <4>2, <4>3, <4>4 DEF PastInv, Latest
            <4> QED
                BY <2>2, <3>2, <4>2, <4>4, <4>5
        <3>3. CASE n \in DOMAIN past
            <4>1. n \in 0 .. committed /\ k \in 1 .. committed /\ k \in Nat
                BY <1>1, <2>3, <2>6, <3>3
            <4>2. NoWrite(p, k, n) /\ log_frames'[k] = log_frames[k]
                BY <1>11, <1>14, <2>6, <4>1
            <4> QED
                BY <1>5, <2>2, <2>6, <3>3, <4>2 DEF PastInv
        <3> QED
            BY <1>10, <2>1, <2>6, <3>1, <3>2, <3>3
    <2>7. DOMAIN past' \subseteq 0 .. committed' /\ 0 \in DOMAIN past' /\ committed' \in DOMAIN past'
        BY <1>3, <1>4, <1>5, <2>1, <2>3
    <2> QED
        BY <2>4, <2>5, <2>6, <2>7 DEF PastInv
<1>17. MainInv'
    <2>1. m \notin DOMAIN past /\ DOMAIN past' = DOMAIN past \cup {m}
        BY <1>1, <1>3, <1>4, <1>5
    <2>2. \A n \in DOMAIN past : past'[n] = past[n] /\ n \in 0 .. committed /\ n \in Nat /\ n < m
        BY <1>1, <1>3, <1>4, <1>5, <2>1
    <2> PICK low : low = backfilled
        OBVIOUS
    <2> PICK high : high = reached
        OBVIOUS
    <2>3. low \in DOMAIN past /\ high \in DOMAIN past
        BY <1>5 DEF MainInv
    <2>4. ASSUME NEW p \in DOMAIN past[low], NoWrite(p, low, high)'
          PROVE  p \in DOMAIN main /\ main[p] = past[low][p]
        <3>1. NoWrite(p, low, high)
            BY <1>14, <2>2, <2>3, <2>4
        <3> QED
            BY <1>5, <3>1 DEF MainInv
    <2>5. (\A p \in DOMAIN past[backfilled] :
              NoWrite(p, backfilled, reached) => p \in DOMAIN main /\ main[p] = past[backfilled][p])'
        BY <1>3, <2>2, <2>3, <2>4 DEF NoWrite
    <2>6. backfilled # committed'
        BY <1>3, <1>4, <2>2, <2>3
    <2> QED
        BY <1>3, <1>5, <2>1, <2>2, <2>3, <2>5, <2>6 DEF MainInv
<1> QED
    BY <1>6, <1>7, <1>8, <1>13, <1>16, <1>17 DEF WalInv

LEMMA LandStep ==
    ASSUME WalAssumption, WalInv, NEW i, Land(i)
    PROVE  WalInv'
BY LandOnly, LandCommit

-----------------------------------------------------------------------------
(* The checkpointer, and the log started over *)

LEMMA MainMeans ==
    ASSUME WalAssumption, WalInv
    PROVE  /\ committed \in Nat /\ backfilled \in Nat /\ reached \in Nat /\ limit \in Nat
           /\ DOMAIN past \subseteq 0 .. committed /\ committed \in DOMAIN past
           /\ backfilled \in DOMAIN past /\ reached \in DOMAIN past /\ backfilled <= reached
           /\ reached <= committed
           /\ limit # 0 => limit \in DOMAIN past /\ backfilled < limit /\ limit <= reached
           /\ main \in Databases /\ \A n \in DOMAIN past : past[n] \in Databases
           /\ MaxPages \in Nat
BY DEF WalAssumption, WalInv, TypeInv, PastInv, MainInv

LEMMA StartCheckpointStep ==
    ASSUME WalAssumption, WalInv, StartCheckpoint
    PROVE  WalInv'
PROOF
<1>1. /\ limit' \in DOMAIN past /\ limit' > backfilled /\ copied' = {} /\ reached' = Max({reached, limit'})
      /\ UNCHANGED <<main, salt, log_frames, committed, txn, begun, backfilled, past>>
    BY DEF StartCheckpoint
<1>2. /\ committed \in Nat /\ backfilled \in Nat /\ reached \in Nat
      /\ DOMAIN past \subseteq 0 .. committed /\ reached \in DOMAIN past /\ backfilled <= reached
      /\ backfilled \in DOMAIN past
    BY MainMeans
<1>3. /\ reached' \in {reached, limit'} /\ reached <= reached' /\ limit' <= reached'
    <2> PICK new : new = limit'
        OBVIOUS
    <2>1. {reached, new} \in SUBSET (0 .. committed)
        BY <1>1, <1>2
    <2>2. Max({reached, new}) \in {reached, new} /\ \A n \in {reached, new} : n <= Max({reached, new})
        BY <1>2, <2>1, GreatestIs
    <2> QED
        BY <1>1, <2>2
<1>4. limit' \in Nat /\ reached' \in Nat /\ reached' \in DOMAIN past
    BY <1>1, <1>2, <1>3
<1>5. TypeInv' /\ FrameInv' /\ TxnInv'
    <2>1. FrameInv' /\ TxnInv'
        BY <1>1, KeepTxn DEF WalInv
    <2>2. Opened' <=> Opened
        BY <1>1 DEF Opened
    <2> QED
        BY <1>1, <1>4, <2>1, <2>2 DEF WalInv, TypeInv
<1>6. LogInv' /\ PastInv'
    BY <1>1, KeepLog DEF WalInv
<1>7. MainInv'
    <2> PICK low : low = backfilled
        OBVIOUS
    <2> PICK high : high = reached'
        OBVIOUS
    <2>1. ASSUME NEW p \in DOMAIN past[low], NoWrite(p, low, high)
          PROVE  p \in DOMAIN main /\ main[p] = past[low][p]
        <3>1. \A i \in (backfilled + 1) .. reached : i \in (low + 1) .. high
            BY <1>2, <1>3, <1>4
        <3>2. NoWrite(p, backfilled, reached)
            BY <2>1, <3>1 DEF NoWrite
        <3> QED
            BY <2>1, <3>2 DEF WalInv, MainInv
    <2>2. (\A p \in DOMAIN past[backfilled] :
              NoWrite(p, backfilled, reached) => p \in DOMAIN main /\ main[p] = past[backfilled][p])'
        BY <1>1, <2>1 DEF NoWrite
    <2>3. reached' = 0 => reached = 0
        BY <1>2, <1>3, <1>4
    <2>4. backfilled' \in DOMAIN past' /\ reached' \in DOMAIN past' /\ backfilled' <= reached'
        BY <1>1, <1>2, <1>3, <1>4
    <2>5. limit' # 0 => limit' \in DOMAIN past' /\ backfilled' < limit' /\ limit' <= reached'
        BY <1>1, <1>2, <1>3, <1>4
    <2>6. (backfilled = committed => main = Latest) /\ (reached = 0 => main = past[0])
        BY DEF WalInv, MainInv
    <2> QED
        BY <1>1, <2>2, <2>3, <2>4, <2>5, <2>6 DEF MainInv, Latest
<1> QED
    BY <1>5, <1>6, <1>7 DEF WalInv

LEMMA CopyPageStep ==
    ASSUME WalAssumption, WalInv, NEW p \in 1 .. MaxPages, CopyPage(p)
    PROVE  WalInv'
PROOF
<1>1. /\ limit # 0 /\ p \in InLog /\ copied' = copied \cup {p}
      /\ main' = [q \in 1 .. Max({Len(main), p}) |->
                      IF q = p THEN past[limit][p] ELSE IF q \in DOMAIN main THEN main[q] ELSE 0]
      /\ UNCHANGED <<salt, log_frames, committed, txn, begun, limit, backfilled, reached, past>>
    BY DEF CopyPage
<1>2. /\ committed \in Nat /\ backfilled \in Nat /\ reached \in Nat /\ limit \in Nat
      /\ reached <= committed /\ limit \in DOMAIN past /\ backfilled < limit /\ limit <= reached
      /\ main \in Databases /\ past[limit] \in Databases /\ MaxPages \in Nat
    BY <1>1, MainMeans
<1>3. /\ p \in DOMAIN past[limit]
      /\ \E i \in (backfilled + 1) .. limit : log_frames[i].page = p
    BY <1>1 DEF InLog
<1>4. /\ Len(main) \in 1 .. MaxPages /\ DOMAIN main = 1 .. Len(main)
      /\ \A q \in DOMAIN main : main[q] \in Data
    BY <1>2, DatabaseType
<1>5. past[limit][p] \in Data /\ 0 \in Data
    BY <1>2, <1>3, DatabaseType DEF WalAssumption, Data, Torn
<1> PICK n : n = Max({Len(main), p})
    OBVIOUS
<1>6. n \in {Len(main), p} /\ Len(main) <= n /\ p <= n
    <2> PICK k : k = Len(main)
        OBVIOUS
    <2>1. {k, p} \in SUBSET (0 .. MaxPages)
        BY <1>2, <1>4
    <2>2. Max({k, p}) \in {k, p} /\ \A i \in {k, p} : i <= Max({k, p})
        BY <1>2, <2>1, GreatestIs
    <2> QED
        BY <2>2
<1>7. n \in 1 .. MaxPages /\ p \in 1 .. n /\ \A q \in DOMAIN main : q \in 1 .. n
    <2> PICK k : k = Len(main)
        OBVIOUS
    <2>1. k \in 1 .. MaxPages /\ p \in 1 .. MaxPages /\ n \in {k, p} /\ k <= n /\ p <= n
        BY <1>4, <1>6
    <2>2. n \in 1 .. MaxPages /\ p \in 1 .. n /\ \A q \in 1 .. k : q \in 1 .. n
        BY ONLY <1>2, <2>1
    <2> QED
        BY <1>4, <2>2
<1>8. main' = [q \in 1 .. n |-> IF q = p THEN past[limit][p] ELSE IF q \in DOMAIN main THEN main[q] ELSE 0]
    BY <1>1
<1>9. main' \in Databases
    <2>1. main' \in [1 .. n -> Data]
        BY <1>4, <1>5, <1>8
    <2> QED
        BY <1>7, <2>1 DEF Databases
<1>10. /\ p \in DOMAIN main' /\ main'[p] = past[limit][p]
       /\ \A q \in DOMAIN main : q # p => q \in DOMAIN main' /\ main'[q] = main[q]
    BY <1>7, <1>8
<1>11. TypeInv' /\ FrameInv' /\ TxnInv'
    <2>1. FrameInv' /\ TxnInv'
        BY <1>1, KeepTxn DEF WalInv
    <2>2. Opened' <=> Opened
        BY <1>1 DEF Opened
    <2>3. copied' \in SUBSET (1 .. MaxPages)
        BY <1>1 DEF WalInv, TypeInv
    <2> QED
        BY <1>1, <1>9, <2>1, <2>2, <2>3 DEF WalInv, TypeInv
<1>12. LogInv' /\ PastInv'
    BY <1>1, KeepLog DEF WalInv
<1>13. MainInv'
    <2>1. ASSUME NEW q \in DOMAIN past[backfilled], NoWrite(q, backfilled, reached)
          PROVE  q \in DOMAIN main' /\ main'[q] = past[backfilled][q]
        <3>1. q # p
            <4>1. PICK i \in (backfilled + 1) .. limit : log_frames[i].page = p
                BY <1>3
            <4>2. i \in (backfilled + 1) .. reached
                BY <1>2
            <4> QED
                BY <2>1, <4>1, <4>2 DEF NoWrite
        <3>2. q \in DOMAIN main /\ main[q] = past[backfilled][q]
            BY <2>1 DEF WalInv, MainInv
        <3> QED
            BY <1>10, <3>1, <3>2
    <2>2. ASSUME NEW q \in copied'
          PROVE  q \in DOMAIN main' /\ q \in DOMAIN past[limit] /\ main'[q] = past[limit][q]
        <3>1. CASE q = p
            BY <1>3, <1>10, <3>1
        <3>2. CASE q # p
            <4>1. q \in DOMAIN main /\ q \in DOMAIN past[limit] /\ main[q] = past[limit][q]
                BY <1>1, <2>2, <3>2 DEF WalInv, MainInv
            <4> QED
                BY <1>10, <3>2, <4>1
        <3> QED
            BY <3>1, <3>2
    <2>3. backfilled # committed /\ reached # 0
        BY <1>2
    <2>4. (\A q \in DOMAIN past[backfilled] :
              NoWrite(q, backfilled, reached) => q \in DOMAIN main /\ main[q] = past[backfilled][q])'
        BY <1>1, <2>1 DEF NoWrite
    <2>5. /\ backfilled \in DOMAIN past /\ reached \in DOMAIN past /\ backfilled <= reached
        BY MainMeans
    <2> QED
        BY <1>1, <1>2, <2>2, <2>3, <2>4, <2>5 DEF MainInv
<1> QED
    BY <1>11, <1>12, <1>13 DEF WalInv

LEMMA EndCheckpointStep ==
    ASSUME WalAssumption, WalInv, EndCheckpoint
    PROVE  WalInv'
PROOF
<1>1. /\ limit # 0 /\ InLog \subseteq copied /\ backfilled' = limit /\ limit' = 0 /\ copied' = {}
      /\ main' = IF limit = committed THEN SubSeq(main, 1, Len(Latest)) ELSE main
      /\ UNCHANGED <<salt, log_frames, committed, txn, begun, reached, past>>
    BY DEF EndCheckpoint
<1>2. /\ committed \in Nat /\ backfilled \in Nat /\ reached \in Nat /\ limit \in Nat
      /\ reached <= committed /\ limit \in DOMAIN past /\ backfilled < limit /\ limit <= reached
      /\ backfilled \in DOMAIN past /\ reached \in DOMAIN past
      /\ main \in Databases /\ past[limit] \in Databases /\ MaxPages \in Nat
    BY <1>1, MainMeans
<1>3. ASSUME NEW p \in DOMAIN past[limit], NoWrite(p, limit, reached)
      PROVE  p \in DOMAIN main /\ main[p] = past[limit][p]
    <2>1. CASE p \in InLog
        BY <1>1, <2>1 DEF WalInv, MainInv
    <2>2. CASE p \notin InLog
        <3>1. NoWrite(p, backfilled, limit)
            BY <2>2 DEF InLog, NoWrite
        <3>2. NoWrite(p, backfilled, reached)
            <4>1. \A i \in (backfilled + 1) .. reached : i \in (backfilled + 1) .. limit \/ i \in (limit + 1) .. reached
                BY <1>2
            <4> QED
                BY <1>3, <3>1, <4>1 DEF NoWrite
        <3>3. p \in DOMAIN past[backfilled] /\ past[limit][p] = past[backfilled][p]
            BY <1>2, <3>1 DEF WalInv, PastInv
        <3> QED
            BY <3>2, <3>3 DEF WalInv, MainInv
    <2> QED
        BY <2>1, <2>2
<1>4. ASSUME limit = committed
      PROVE  main' = past[limit]
    <2>1. \A p \in DOMAIN past[limit] : p \in DOMAIN main /\ main[p] = past[limit][p]
        <3>1. \A p : NoWrite(p, limit, reached)
            BY <1>2, <1>4 DEF NoWrite
        <3> QED
            BY <1>3, <3>1
    <2> PICK s : s = main
        OBVIOUS
    <2> PICK d : d = past[limit]
        OBVIOUS
    <2>2. /\ d \in Databases /\ Len(d) \in 1 .. MaxPages /\ DOMAIN d = 1 .. Len(d)
          /\ d = [p \in 1 .. Len(d) |-> d[p]]
        BY <1>2, DatabaseType
    <2>3. s \in Seq(Data) /\ DOMAIN s = 1 .. Len(s) /\ \A p \in DOMAIN s : s[p] \in Data
        BY <1>2, DatabaseType
    <2> PICK n : n = Len(d)
        OBVIOUS
    <2>4. n \in Nat /\ n >= 1 /\ n \in DOMAIN s
        BY <1>2, <2>1, <2>2
    <2>5. \A i \in 1 .. n : s[i] = d[i] /\ s[i] \in Data
        BY <2>1, <2>2, <2>3
    <2>6. /\ SubSeq(s, 1, n) \in Seq(Data)
          /\ Len(SubSeq(s, 1, n)) = (IF 1 <= n THEN n - 1 + 1 ELSE 0)
          /\ \A i \in 1 .. n - 1 + 1 : SubSeq(s, 1, n)[i] = s[1 + i - 1]
        BY <2>3, <2>4, <2>5, SubSeqProperties
    <2>7. Len(SubSeq(s, 1, n)) = n /\ \A i \in 1 .. n : SubSeq(s, 1, n)[i] = d[i]
        BY <2>4, <2>5, <2>6
    <2> PICK r : r = SubSeq(s, 1, n)
        OBVIOUS
    <2>8. r = [i \in 1 .. n |-> r[i]]
        BY <2>6, <2>7
    <2>9. r = d
        BY <2>2, <2>7, <2>8
    <2> QED
        BY <1>1, <1>4, <2>9 DEF Latest
<1>5. \A p \in DOMAIN past[limit] :
          NoWrite(p, limit, reached) => p \in DOMAIN main' /\ main'[p] = past[limit][p]
    BY <1>1, <1>3, <1>4
<1>6. main' \in Databases
    BY <1>1, <1>2, <1>4
<1>7. TypeInv' /\ FrameInv' /\ TxnInv'
    <2>1. FrameInv' /\ TxnInv'
        BY <1>1, KeepTxn DEF WalInv
    <2>2. Opened' <=> Opened
        BY <1>1 DEF Opened
    <2> QED
        BY <1>1, <1>2, <1>6, <2>1, <2>2 DEF WalInv, TypeInv
<1>8. LogInv' /\ PastInv'
    BY <1>1, KeepLog DEF WalInv
<1>9. MainInv'
    <2> PICK low : low = limit
        OBVIOUS
    <2>1. \A p \in DOMAIN past[low] :
              NoWrite(p, low, reached) => p \in DOMAIN main' /\ main'[p] = past[low][p]
        BY <1>5
    <2>2. (\A p \in DOMAIN past[backfilled] :
              NoWrite(p, backfilled, reached) => p \in DOMAIN main /\ main[p] = past[backfilled][p])'
        BY <1>1, <2>1 DEF NoWrite
    <2>3. reached # 0
        BY <1>1, <1>2
    <2> QED
        BY <1>1, <1>2, <1>4, <2>2, <2>3 DEF MainInv, Latest
<1> QED
    BY <1>7, <1>8, <1>9 DEF WalInv

LEMMA RestartStep ==
    ASSUME WalAssumption, WalInv, Restart
    PROVE  WalInv'
PROOF
<1>1. /\ ~Opened /\ ~Opened' /\ limit = 0 /\ backfilled = committed /\ salt < MaxGenerations
      /\ salt' = salt + 1 /\ committed' = 0 /\ backfilled' = 0 /\ reached' = 0
      /\ past' = [n \in {0} |-> Latest]
      /\ UNCHANGED <<main, log_frames, txn, begun, limit, copied>>
    BY DEF Restart, Opened
<1>2. /\ salt \in Nat /\ MaxGenerations \in Nat /\ Len(log_frames) \in Nat /\ Latest \in Databases /\ main = Latest
      /\ log_frames \in Seq(Frame)
    BY <1>1 DEF WalAssumption, WalInv, TypeInv, PastInv, MainInv, Latest
<1>3. salt' \in 0 .. MaxGenerations /\ salt' # 0
    BY <1>1, <1>2
<1>4. \A k \in DOMAIN log_frames : log_frames[k].salt # salt' /\ log_frames[k].salt <= salt'
    <2> SUFFICES ASSUME NEW k \in DOMAIN log_frames
                 PROVE  log_frames[k].salt # salt' /\ log_frames[k].salt <= salt'
        OBVIOUS
    <2>1. log_frames[k].salt <= salt /\ log_frames[k] \in Frame
        BY <1>2 DEF WalInv, FrameInv
    <2>2. log_frames[k].salt \in Nat
        BY <1>2, <2>1 DEF Frame
    <2> QED
        BY <1>1, <1>2, <2>1, <2>2
<1>5. TypeInv'
    <2>1. 0 \in 0 .. Len(log_frames)
        BY <1>2
    <2> QED
        BY <1>1, <1>2, <1>3, <2>1 DEF WalInv, TypeInv
<1>6. FrameInv' /\ TxnInv'
    BY <1>1, <1>4 DEF WalInv, FrameInv, TxnInv, Tip, Base
<1>7. LogInv'
    <2>1. Valid(log, committed)'
        BY <1>1 DEF Valid
    <2>2. \A j \in 1 .. Len(log_frames) : ~Valid(log, j)'
        <3> SUFFICES ASSUME NEW j \in 1 .. Len(log_frames), Valid(log, j)'
                     PROVE  FALSE
            OBVIOUS
        <3>1. 1 \in 1 .. j /\ 1 \in DOMAIN log_frames
            BY <1>2
        <3>2. log_frames'[1].salt = salt'
            BY <3>1 DEF Valid, Verifies, log
        <3> QED
            BY <1>1, <1>4, <3>1, <3>2
    <2> QED
        BY <1>1, <2>1, <2>2 DEF LogInv
<1>8. PastInv'
    BY <1>1, <1>2 DEF PastInv
<1>9. MainInv'
    BY <1>1, <1>2 DEF WalInv, MainInv, Latest
<1> QED
    BY <1>5, <1>6, <1>7, <1>8, <1>9 DEF WalInv

LEMMA WalNext ==
    ASSUME WalAssumption, WalInv, [LogNext]_logVars
    PROVE  WalInv'
PROOF
<1>1. CASE UNCHANGED logVars
    <2>1. UNCHANGED <<main, salt, log_frames, committed, txn, begun, limit, copied, backfilled, reached, past>>
        BY <1>1 DEF logVars
    <2>2. FrameInv' /\ TxnInv'
        BY <2>1, KeepTxn DEF WalInv
    <2>3. LogInv' /\ PastInv'
        BY <2>1, KeepLog DEF WalInv
    <2>4. MainInv'
        BY <2>1, KeepMain DEF WalInv
    <2>5. TypeInv'
        BY <2>1 DEF WalInv, TypeInv, Opened
    <2> QED
        BY <2>2, <2>3, <2>4, <2>5 DEF WalInv
<1>2. CASE LogNext
    BY <1>2, BeginStep, WriteFrameStep, AbandonStep, LandStep, StartCheckpointStep,
       EndCheckpointStep, CopyPageStep, RestartStep DEF LogNext
<1> QED
    BY <1>1, <1>2

-----------------------------------------------------------------------------
(* The theorems *)

(* The inductive invariant of the log and of the main file. *)
THEOREM WalInvariant ==
    ASSUME WalAssumption
    PROVE  LogSpec => []WalInv
PROOF
<1>1. LogInit => WalInv
    BY WalInit
<1>2. WalInv /\ [LogNext]_logVars => WalInv'
    BY WalNext
<1> QED
    BY <1>1, <1>2, PTL DEF LogSpec

(* A capture that lost the end of its log is read as the database after the
   last commit that it holds (wal.rs:36). *)
THEOREM CutLogIsRead ==
    ASSUME WalAssumption
    PROVE  LogSpec => []CutLogIsAPast
PROOF
<1>1. WalInv => CutLogIsAPast
    BY CutReads DEF CutLogIsAPast
<1> QED
    BY <1>1, WalInvariant, PTL

LEMMA OutcomeType ==
    ASSUME WalAssumption, WalInv
    PROVE  IF Opened THEN txn.outcome \in Databases /\ txn.outcome # <<>> ELSE txn.outcome = <<>>
PROOF
<1>1. CASE Opened
    <2>1. /\ Latest \in Databases /\ txn.size \in 1 .. MaxPages /\ txn.pages \in SUBSET (1 .. txn.size)
          /\ begun \in 0 .. MaxTxns
          /\ (Len(Latest) + 1) .. txn.size \subseteq txn.pages
          /\ txn.outcome = Result(Latest, txn.size, txn.pages, begun)
        BY <1>1 DEF WalInv, TypeInv, TxnInv, PastInv, Latest
    <2> PICK old : old = Latest
        OBVIOUS
    <2> PICK size : size = txn.size
        OBVIOUS
    <2> PICK pages : pages = txn.pages
        OBVIOUS
    <2>2. /\ old \in Databases /\ size \in 1 .. MaxPages /\ pages \in SUBSET (1 .. size)
          /\ begun \in 0 .. MaxTxns /\ (Len(old) + 1) .. size \subseteq pages
        BY <2>1
    <2>3. Result(old, size, pages, begun) \in Databases
        BY ONLY <2>2, WalAssumption, DatabaseChanged
    <2>4. txn.outcome \in Databases
        BY <2>1, <2>3
    <2>5. Len(txn.outcome) >= 1
        BY <2>4, DatabaseType DEF WalAssumption
    <2> QED
        BY <1>1, <2>4, <2>5
<1>2. CASE ~Opened
    BY <1>2 DEF Opened, NoTxn
<1> QED
    BY <1>1, <1>2

LEMMA StoreStep ==
    ASSUME WalAssumption, WalInv, WalInv', [LogNext]_logVars,
           Readable(main, log) = Latest, Readable(main, log)' = Latest'
    PROVE  [Store!Next]_<<Readable(main, log), txn.outcome>>
PROOF
<1> DEFINE Same == Latest' = Latest /\ txn'.outcome = txn.outcome
<1>1. ASSUME Same
      PROVE  UNCHANGED <<Readable(main, log), txn.outcome>>
    BY <1>1
<1>2. CASE Begin
    <2>1. Latest' = Latest /\ ~Opened
        BY <1>2 DEF Begin, Latest, Opened
    <2>2. txn.outcome = <<>>
        BY <2>1, OutcomeType
    <2>3. txn'.outcome \in Databases
        <3> PICK size \in 1 .. MaxPages :
                  \E pages \in Changes(Latest, size) :
                      txn' = [size |-> size, pages |-> pages, left |-> pages,
                              outcome |-> Result(Latest, size, pages, begun + 1)]
            BY <1>2 DEF Begin
        <3>1. PICK pages \in Changes(Latest, size) :
                  txn' = [size |-> size, pages |-> pages, left |-> pages,
                          outcome |-> Result(Latest, size, pages, begun + 1)]
            OBVIOUS
        <3> PICK old : old = Latest
            OBVIOUS
        <3> PICK id : id = begun + 1
            OBVIOUS
        <3>2. /\ old \in Databases /\ pages \in SUBSET (1 .. size) /\ (Len(old) + 1) .. size \subseteq pages
              /\ txn'.outcome = Result(old, size, pages, id)
            BY <3>1 DEF WalInv, PastInv, Latest, Changes
        <3>3. id \in 0 .. MaxTxns
            BY <1>2 DEF Begin, WalInv, TypeInv, WalAssumption
        <3>4. Result(old, size, pages, id) \in Databases
            BY ONLY <3>2, <3>3, size \in 1 .. MaxPages, WalAssumption, DatabaseChanged
        <3> QED
            BY <3>2, <3>4
    <2>4. Store!Open
        BY <2>1, <2>2, <2>3 DEF Store!Open
    <2> QED
        BY <2>4 DEF Store!Next
<1>3. CASE WriteFrame
    <2>1. Opened
        BY <1>3 DEF WriteFrame, Opened
    <2>2. txn = [size |-> txn.size, pages |-> txn.pages, left |-> txn.left, outcome |-> txn.outcome]
        BY <2>1 DEF WalInv, TypeInv
    <2>3. Same
        BY <1>3, <2>2 DEF WriteFrame, Latest
    <2> QED
        BY <1>1, <2>3
<1>4. CASE Abandon
    <2>1. Opened /\ ~Opened' /\ Latest' = Latest /\ txn'.outcome = <<>>
        BY <1>4 DEF Abandon, Opened, Latest, NoTxn
    <2>2. txn.outcome # <<>>
        BY <2>1, OutcomeType
    <2>3. Store!Abandon
        BY <2>1, <2>2 DEF Store!Abandon
    <2> QED
        BY <2>3 DEF Store!Next
<1>5. ASSUME NEW i \in 1 .. Len(log_frames), Land(i)
      PROVE  [Store!Next]_<<Readable(main, log), txn.outcome>>
    <2>1. CASE txn.left = {} /\ Pending = {i}
        <3>1. /\ committed' = committed + InFlight /\ txn'.outcome = <<>>
              /\ past' = [n \in DOMAIN past \cup {committed'} |->
                             IF n = committed' THEN txn.outcome ELSE past[n]]
            BY <1>5, <2>1 DEF Land, NoTxn
        <3>2. Latest' = txn.outcome
            BY <3>1 DEF Latest
        <3>3. txn.outcome # <<>>
            BY <1>5, LandMeans, OutcomeType
        <3>4. Store!Commit
            BY <3>1, <3>2, <3>3 DEF Store!Commit
        <3> QED
            BY <3>4 DEF Store!Next
    <2>2. CASE ~(txn.left = {} /\ Pending = {i})
        <3>1. Same
            BY <1>5, <2>2 DEF Land, Latest
        <3> QED
            BY <1>1, <3>1
    <2> QED
        BY <2>1, <2>2
<1>6. CASE StartCheckpoint \/ EndCheckpoint \/ (\E p \in 1 .. MaxPages : CopyPage(p)) \/ UNCHANGED logVars
    <2>1. Same
        BY <1>6 DEF StartCheckpoint, EndCheckpoint, CopyPage, logVars, Latest
    <2> QED
        BY <1>1, <2>1
<1>7. CASE Restart
    <2>1. Same
        BY <1>7 DEF Restart, Latest
    <2> QED
        BY <1>1, <2>1
<1> QED
    BY <1>2, <1>3, <1>4, <1>5, <1>6, <1>7 DEF LogNext

(* Wherever the writer and its checkpointers stand, the reader has the last
   committed database: it changes by whole transactions (wal.rs:5). *)
THEOREM ReaderImplementsStore ==
    ASSUME WalAssumption
    PROVE  LogSpec => ImplementsStore
PROOF
<1>1. WalInv => Readable(main, log) = Latest
    BY ReadsLatest
<1>2. LogInit => Store!Init
    <2> SUFFICES ASSUME LogInit
                 PROVE  Store!Init
        OBVIOUS
    <2>1. WalInv
        BY WalInit
    <2>2. Readable(main, log) = Latest
        BY <2>1, ReadsLatest
    <2>3. Latest = Created /\ txn.outcome = <<>>
        BY DEF LogInit, Latest, NoTxn
    <2> QED
        BY <2>2, <2>3 DEF Store!Init
<1>3. /\ WalInv /\ WalInv' /\ [LogNext]_logVars
      /\ Readable(main, log) = Latest /\ (Readable(main, log) = Latest)'
      => [Store!Next]_<<Readable(main, log), txn.outcome>>
    BY StoreStep
<1> QED
    BY <1>1, <1>2, <1>3, WalInvariant, PTL DEF LogSpec, ImplementsStore, Store!Spec

=============================================================================
