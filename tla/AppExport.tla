----------------------------- MODULE AppExport ------------------------------
(***************************************************************************)
(* Every plan of the program: those of grep, export and rebuild, which     *)
(* bring their files and roots along, and `app export` (run_export() of    *)
(* cmd/run/app.rs), which takes both from the catalogue.                   *)
(***************************************************************************)
EXTENDS AppCatalog, ExportPlan

vars == <<catalogVars, planVars>>

NoAcquisition == [entries |-> <<>>, holds |-> <<>>, candid |-> TRUE]

(* A plan without a catalogue. *)
PlanInit ==
    /\ Init
    /\ stage = "none"
    /\ acquisition = NoAcquisition
    /\ id = <<>>
    /\ with_groups = FALSE
    /\ platform = "Unknown"
    /\ containers = <<>>
    /\ at = 1
    /\ tally = <<>>
    /\ records = <<>>
    /\ unread = {}
    /\ selection = <<>>

AppInit ==
    /\ CatalogInit
    /\ files = <<>>
    /\ roots = <<>>
    /\ layout = "tree"
    /\ phase = "layout"
    /\ wanted = <<>>
    /\ items = <<>>
    /\ claimed = {}
    /\ cursor = 1
    /\ suffix = 0
    /\ renamed = <<>>

(* entries_under(): every file below a selected container, once. *)
entries_under(prefixes) ==
    SelectSeq(entries, LAMBDA e : ~IsDirectory(e) /\ \E p \in prefixes : IsPrefix(p, e.path))

Gather ==
    /\ stage = "selected"
    /\ files' = entries_under({selection[k].prefix : k \in DOMAIN selection})
    /\ roots' = [k \in DOMAIN selection |-> [prefix |-> selection[k].prefix,
                                             label  |-> export_label(selection[k])]]
    /\ stage' = "gathered"
    /\ UNCHANGED <<acquisition, id, with_groups, platform, containers, at, tally, records, unread,
                   selection, layout, phase, wanted, items, claimed, cursor, suffix, renamed>>

Planning == stage \in {"none", "gathered"}
PlanStep == Planning /\ Next /\ UNCHANGED catalogVars

ExportNext ==
    \/ CatalogNext /\ UNCHANGED planVars
    \/ Gather
    \/ PlanStep

ExportSpec == (PlanInit \/ AppInit) /\ [][ExportNext]_vars

-----------------------------------------------------------------------------
(* Properties *)

Gathered == {files[k].path : k \in DOMAIN files}

(* What the device held of the application. *)
Held ==
    LET h == acquisition.holds[id] IN h.own \cup (IF with_groups THEN h.groups ELSE {})

(* "find every place an app's data lives" (README.md:42): if the acquisition
   names the owner of each container and everything was read, an export leaves
   none of the application's files behind, and is refused only when there are
   none.  Detection, the resolver, the log of the entitlements and the choice
   of containers must all be right for that. *)
EveryPlaceFound ==
    stage \in {"gathered", "refused"} /\ acquisition.candid /\ unread = {} => Held \subseteq Gathered

(* No file of another application is exported, provided that the entitlements
   could be read: a parent that is declared and a list of groups that is
   recorded are never overruled by the shape of a name (catalog.rs:158, 283). *)
NothingOfOthers ==
    stage = "gathered" /\ acquisition.candid /\ (\A k \in unread : IsMetadata(entries[k]))
        => Gathered \subseteq Held

(* The catalogue counts what the export writes: below each folder of the output
   lie as many files and bytes as were charged to the containers that the
   planner puts there, a container inside another included.  longest_container(),
   entries_under() and attribute() draw the line between nested containers each
   in its own way. *)
Under(label) == {k \in DOMAIN wanted : IsPrefix(label, wanted[k].folder)}
PutUnder(label) ==
    {c \in DOMAIN containers :
        /\ Owners(containers[c].prefix) # {}
        /\ sanitise_label(roots[attribute(containers[c].prefix)].label) = label}

FoldersMatchTally ==
    stage = "gathered" /\ phase # "layout" =>
        \A r \in DOMAIN roots :
            LET label == sanitise_label(roots[r].label)
            IN  /\ Cardinality(Under(label))
                     = MapThenSumSet(LAMBDA c : tally[c].file_count, PutUnder(label))
                /\ MapThenSumSet(LAMBDA k : files[k].size, Under(label))
                     = MapThenSumSet(LAMBDA c : tally[c].total_size, PutUnder(label))

=============================================================================
