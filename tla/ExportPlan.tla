----------------------------- MODULE ExportPlan -----------------------------
(***************************************************************************)
(* plan(), plan_tree() and disambiguate() of src/src/report/export.rs:     *)
(* from the matched files, in order, to one output path per file.          *)
(***************************************************************************)
EXTENDS OutputPaths

CONSTANTS
    Paths,      \* the internal paths that occur
    PathHash,   \* path_hash(): FNV-1a cut to 40 bits, so not injective
    Body,       \* what a file holds
    FileLists,  \* the lists of matched files to plan for
    RootLists   \* the lists of (prefix, label) pairs that plan_tree() is given

Entry == [path : Paths, start : Nat, size : Nat, body : Body]

(* A label without its dropped components still is a path: SelectSeq is
   recursive, so the provers cannot unfold it. *)
RootList ==
    {list \in Seq([prefix : Path \ {<<>>}, label : Path]) :
        \A k \in DOMAIN list : sanitise_label(list[k].label) \in Path}

ASSUME PlanAssumption ==
    /\ Paths \subseteq Path \ {<<>>}
    /\ PathHash \in [Paths -> Nat]
    /\ FileLists \subseteq Seq(Entry)
    /\ RootLists \subseteq RootList

VARIABLES
    files,    \* the matched files, in entry order
    roots,    \* the roots of the output tree
    layout,   \* "flat" for plan(), "tree" for plan_tree()
    phase,    \* "layout", "claim", "planned"
    wanted,   \* the destination each file would take by itself: [folder, name]
    items,    \* the destination of each file, disambiguated up to the cursor
    claimed,  \* the lower-cased destinations handed out so far
    cursor,   \* the item disambiguate() is at
    suffix,   \* 0, or the ~suffix it is trying
    renamed   \* the items that could not keep the destination they wanted

planVars == <<files, roots, layout, phase, wanted, items, claimed, cursor, suffix, renamed>>

-----------------------------------------------------------------------------

output_path(item) == Append(item.folder, item.name)

relative_under(prefix, path) == SubSeq(path, Len(prefix) + 1, Len(path))

(* The roots that contain `path`.  The longest prefix owns it, and max_by_key
   keeps the last of equals. *)
Owners(path) == {k \in DOMAIN roots : IsPrefix(roots[k].prefix, path)}

attribute(path) ==
    CHOOSE k \in Owners(path) : \A j \in Owners(path) :
        \/ Len(roots[j].prefix) < Len(roots[k].prefix)
        \/ Len(roots[j].prefix) = Len(roots[k].prefix) /\ j <= k

(* <basename>_<hash>/<basename> *)
HashedItem(path) ==
    LET name == sanitise_segment(Last(path))
    IN  [folder |-> <<Append(name, <<"_", PathHash[path]>>)>>, name |-> name]

(* label/<directories inside the root>/<basename>; the root itself has an
   empty basename. *)
TreeItem(path) ==
    LET root == roots[attribute(path)]
        rel  == relative_under(root.prefix, path)
    IN  IF rel = <<>>
        THEN [folder |-> sanitise_label(root.label), name |-> sanitise_segment(<<>>)]
        ELSE [folder |-> sanitise_label(root.label) \o sanitise_path(Front(rel)),
              name   |-> sanitise_segment(Last(rel))]

(* plan(): a folder shared by several files gets the archive offset too. *)
FlatLayout(list) ==
    LET item == [k \in DOMAIN list |-> HashedItem(list[k].path)]
        key  == [k \in DOMAIN list |-> LowerSegment(item[k].folder[1])]
    IN  [k \in DOMAIN list |->
            IF \E j \in DOMAIN list : j # k /\ key[j] = key[k]
            THEN [item[k] EXCEPT !.folder = <<Append(@[1], <<"_0x", list[k].start>>)>>]
            ELSE item[k]]

(* plan_tree(): a file under no root keeps the flat layout. *)
TreeLayout(list) ==
    [k \in DOMAIN list |-> IF Owners(list[k].path) = {}
                           THEN HashedItem(list[k].path)
                           ELSE TreeItem(list[k].path)]

Layout(list) == IF layout = "flat" THEN FlatLayout(list) ELSE TreeLayout(list)

-----------------------------------------------------------------------------

Init ==
    /\ files \in FileLists
    /\ roots \in RootLists
    /\ layout \in {"flat", "tree"}
    /\ phase = "layout"
    /\ wanted = <<>>
    /\ items = <<>>
    /\ claimed = {}
    /\ cursor = 1
    /\ suffix = 0
    /\ renamed = <<>>

(* The first pass over the files: each gets the folder and name it wants. *)
LayOut ==
    /\ phase = "layout"
    /\ wanted' = Layout(files)
    /\ items' = wanted'
    /\ phase' = "claim"
    /\ UNCHANGED <<files, roots, layout, claimed, cursor, suffix, renamed>>

Claiming == phase = "claim" /\ cursor <= Len(items)

(* claimed.insert(wanted) succeeds: the item keeps its name. *)
ClaimWanted ==
    LET key == LowerPath(output_path(items[cursor]))
    IN  /\ Claiming
        /\ suffix = 0
        /\ key \notin claimed
        /\ claimed' = claimed \cup {key}
        /\ cursor' = cursor + 1
        /\ UNCHANGED <<files, roots, layout, phase, wanted, items, suffix, renamed>>

(* Mutant of FindTaken: a rename nobody forced. *)
FindTakenAlways ==
    /\ Claiming
    /\ suffix = 0
    /\ suffix' = 1
    /\ UNCHANGED <<files, roots, layout, phase, wanted, items, claimed, cursor, renamed>>

(* claimed.insert(wanted) fails: enter the suffix loop. *)
FindTaken ==
    /\ Claiming
    /\ suffix = 0
    /\ LowerPath(output_path(items[cursor])) \in claimed
    /\ suffix' = 1
    /\ UNCHANGED <<files, roots, layout, phase, wanted, items, claimed, cursor, renamed>>

Suffixed(item, n) == [item EXCEPT !.name = Append(@, <<"~", n>>)]

(* Mutants of ClaimSuffixed: the new name is not claimed, or the counter is not
   reset. *)
ClaimSuffixedUnclaimed ==
    LET item == Suffixed(items[cursor], suffix)
        key  == LowerPath(output_path(item))
    IN  /\ Claiming
        /\ suffix > 0
        /\ key \notin claimed
        /\ claimed' = claimed
        /\ items' = [items EXCEPT ![cursor] = item]
        /\ renamed' = Append(renamed, [internal_path |-> files[cursor].path,
                                       wanted |-> output_path(items[cursor]),
                                       used |-> output_path(item)])
        /\ cursor' = cursor + 1
        /\ suffix' = 0
        /\ UNCHANGED <<files, roots, layout, phase, wanted>>

ClaimSuffixedKeepingSuffix ==
    LET item == Suffixed(items[cursor], suffix)
        key  == LowerPath(output_path(item))
    IN  /\ Claiming
        /\ suffix > 0
        /\ key \notin claimed
        /\ claimed' = claimed \cup {key}
        /\ items' = [items EXCEPT ![cursor] = item]
        /\ renamed' = Append(renamed, [internal_path |-> files[cursor].path,
                                       wanted |-> output_path(items[cursor]),
                                       used |-> output_path(item)])
        /\ cursor' = cursor + 1
        /\ suffix' = suffix
        /\ UNCHANGED <<files, roots, layout, phase, wanted>>

(* claimed.insert(name~suffix) succeeds: rename the item and record it. *)
ClaimSuffixed ==
    LET item == Suffixed(items[cursor], suffix)
        key  == LowerPath(output_path(item))
    IN  /\ Claiming
        /\ suffix > 0
        /\ key \notin claimed
        /\ claimed' = claimed \cup {key}
        /\ items' = [items EXCEPT ![cursor] = item]
        /\ renamed' = Append(renamed, [internal_path |-> files[cursor].path,
                                       wanted |-> output_path(items[cursor]),
                                       used |-> output_path(item)])
        /\ cursor' = cursor + 1
        /\ suffix' = 0
        /\ UNCHANGED <<files, roots, layout, phase, wanted>>

(* name~suffix is taken as well: try the next number. *)
TryNextSuffix ==
    /\ Claiming
    /\ suffix > 0
    /\ LowerPath(output_path(Suffixed(items[cursor], suffix))) \in claimed
    /\ suffix' = suffix + 1
    /\ UNCHANGED <<files, roots, layout, phase, wanted, items, claimed, cursor, renamed>>

FinishPlan ==
    /\ phase = "claim"
    /\ cursor > Len(items)
    /\ phase' = "planned"
    /\ UNCHANGED <<files, roots, layout, wanted, items, claimed, cursor, suffix, renamed>>

Next ==
    \/ LayOut
    \/ ClaimWanted
    \/ FindTaken
    \/ ClaimSuffixed
    \/ TryNextSuffix
    \/ FinishPlan

Spec == Init /\ [][Next]_planVars

-----------------------------------------------------------------------------
(* Properties *)

Item == [folder : Path, name : Segment]

(* Every variable has its type; the suffix loop runs only while claiming. *)
TypeOK ==
    /\ files \in Seq(Entry)
    /\ roots \in RootList
    /\ layout \in {"flat", "tree"}
    /\ phase \in {"layout", "claim", "planned"}
    /\ wanted \in Seq(Item)
    /\ items \in Seq(Item)
    /\ Len(wanted) = Len(items)
    /\ Len(items) = (IF phase = "layout" THEN 0 ELSE Len(files))
    /\ cursor \in 1 .. Len(items) + 1
    /\ suffix \in Nat
    /\ suffix > 0 => Claiming
    /\ renamed \in Seq([internal_path : Paths, wanted : Path, used : Path])

Settled == 1 .. cursor - 1

Key(item) == LowerPath(output_path(item))

(* No two files are given destinations that differ at most in ASCII case:
   disambiguate()'s "a destination no other item claims". *)
DistinctDestinations ==
    \A j, k \in Settled : j # k => Key(items[j]) # Key(items[k])

(* The plan implements the abstract naming: first come, first served. *)
WantedKeys == [k \in DOMAIN wanted |-> Key(wanted[k])]
PlacedKeys == [k \in Settled |-> Key(items[k])]

Naming == INSTANCE UniqueNaming WITH wanted <- WantedKeys, placed <- PlacedKeys

ImplementsNaming == Naming!Spec

=============================================================================
