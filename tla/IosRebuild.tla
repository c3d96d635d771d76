----------------------------- MODULE IosRebuild -----------------------------
(***************************************************************************)
(* The ios-backup commands over the logical view: ops/rebuild.rs and       *)
(* cmd/run/ios_backup.rs.  Planning of destinations and writing of files   *)
(* are ExportPlan and ExportRun in detail; here a file is written in one   *)
(* step to the first free variant of its path, unless that path is too     *)
(* long, and its sidecars beside it one by one.                            *)
(***************************************************************************)
EXTENDS IosBackup, Integers, FiniteSetsExt

CONSTANTS Kind,      \* what domains::parse makes of each domain
          FixedPath, \* the mount point of each fixed domain
          SidecarPaths, \* of a database's relative path: those of its sidecars
          OverLong   \* sets of places: what --max-path-len may rule out

ASSUME KindAssumption ==
    /\ Kind \in [DOMAIN Kind -> {"fixed", "container", "system_group", "unrecognised"}]
    /\ {d \in DOMAIN Kind : Kind[d] = "fixed"} \subseteq DOMAIN FixedPath

VARIABLES command,    \* info, rebuild or dry_run
          outcome,    \* running, ok, refused or failed
          printed,    \* the provenance line: Absent until it is out
          named,      \* names looked at by distinct_domains
          roots,      \* domain -> label
          unmapped, synthetic,  \* domains to be reported
          announced,  \* what report_plan() has named: Absent before
          too_long,   \* places that check_export_path refuses
          destinations, \* where the plan has the entries reached so far
          pending,    \* sidecars still to be written beside the last of them
          tree,       \* destination -> content, of the files written
          report,     \* what the export report says of each file
          skipped,    \* what it says was too long to be written
          made,       \* directories created
          reported    \* export-report.json is written

rebuildVars == <<command, outcome, printed, named, roots, unmapped, synthetic,
                 announced, too_long, destinations, pending, tree, report,
                 skipped, made, reported>>
exportVars == <<too_long, destinations, pending, tree, report, skipped>>
vars == <<openVars, rebuildVars>>

Init0 ==
    /\ Init
    /\ command \in {"info", "rebuild", "dry_run"}
    /\ outcome = "running" /\ printed = Absent /\ named = 0
    /\ roots = <<>> /\ unmapped = {} /\ synthetic = {} /\ announced = Absent
    /\ too_long \in OverLong /\ destinations = <<>> /\ pending = <<>>
    /\ tree = <<>> /\ report = <<>> /\ skipped = <<>> /\ made = {} /\ reported = FALSE

Building == outcome = "running" /\ Build /\ UNCHANGED rebuildVars

(* An error leaves through `?`, past the line that reports the provenance. *)
Fail ==
    /\ outcome' = "failed"
    /\ UNCHANGED <<openVars, command, printed, named, roots, unmapped, synthetic,
                   announced, exportVars, made, reported>>

NoBackup == outcome = "running" /\ stage \in {"raw", "failed"} /\ Fail

Finish(end) ==
    /\ outcome' = end
    /\ printed' = [password |-> provenance, files |-> Len(entries), missing |-> missing_files]

Ready == outcome = "running" /\ stage = "open"

Info ==
    /\ Ready /\ command = "info"
    /\ Finish("ok")
    /\ UNCHANGED <<openVars, command, named, roots, unmapped, synthetic,
                   announced, exportVars, made, reported>>

-----------------------------------------------------------------------------
(* The plan. *)

filesystem_path(d) ==
    CASE Kind[d] = "fixed"        -> <<"mount", FixedPath[d]>>
      [] Kind[d] = "container"    -> <<"container", d>>
      [] Kind[d] = "system_group" -> <<"system_group", d>>
      [] Kind[d] = "unrecognised" -> <<"UNMAPPED_ROOT", d>>

(* A backup records no container GUIDs; the identifier stands in for one. *)
Substituted(d) == Kind[d] = "container"

Directories ==
    InOrder(structure.directories, {p \in structure.directories \X structure.directories : Before(p[1], p[2])})

NamesOfFiles == entries
Names == entries \o Directories

(* Every domain of a file or of a directory record gets a root. *)
PlanDomain ==
    /\ Ready /\ command # "info" /\ named < Len(Names)
    /\ named' = named + 1
    /\ LET d == Names[named + 1][1]
       IN IF d \in DOMAIN roots THEN UNCHANGED <<roots, unmapped, synthetic>>
          ELSE /\ roots' = [x \in DOMAIN roots \cup {d} |->
                               IF x = d THEN filesystem_path(d) ELSE roots[x]]
               /\ unmapped' = IF Kind[d] = "unrecognised" THEN unmapped \cup {d} ELSE unmapped
               /\ synthetic' = IF Substituted(d) THEN synthetic \cup {d} ELSE synthetic
    /\ UNCHANGED <<openVars, command, outcome, printed, announced, exportVars,
                   made, reported>>

Planned == Ready /\ command # "info" /\ named = Len(Names)

NothingToRebuild == Planned /\ roots = <<>> /\ Fail

ReportPlan ==
    /\ Planned /\ roots # <<>> /\ announced = Absent
    /\ announced' = [synthetic |-> synthetic, unmapped |-> unmapped]
    /\ IF command = "dry_run" THEN Finish("ok") ELSE UNCHANGED <<outcome, printed>>
    /\ UNCHANGED <<openVars, command, named, roots, unmapped, synthetic,
                   exportVars, made, reported>>

-----------------------------------------------------------------------------
(* The rebuild. *)

Exporting == Planned /\ command = "rebuild" /\ announced # Absent

(* More than --max-size: nothing is written, and the command ends well. *)
Refuse ==
    /\ Exporting /\ destinations = <<>> /\ made = {} /\ ~reported
    /\ Finish("refused")
    /\ UNCHANGED <<openVars, command, named, roots, unmapped, synthetic,
                   announced, exportVars, made, reported>>

(* The destination: the mapped path, or its first variant nobody has claimed. *)
Place(name, n) == <<roots[name[1]], name[2], n>>
Destination(name) ==
    Place(name, Min({n \in 0 .. Len(destinations) : Place(name, n) \notin Range(destinations)}))

(* A sidecar takes the name its database got in the tree, and its suffix: that of
   a variant is another path than the same variant of the sidecar. *)
Beside(at, path) == <<at[1], path, -at[3]>>

Failing == SUBSET Range(Layout)

(* Writing the k-th entry's bytes over what may be there, and the record of it. *)
WriteEntry(k, at, got, failing) ==
    /\ got # Absent
    /\ tree' = [p \in DOMAIN tree \cup {at} |-> IF p = at THEN got ELSE tree[p]]
    /\ report' = Append(report, [name |-> entries[k], at |-> at,
                                 integrity |-> integrity_check(k, failing)])

(* A file's header tells the inspector what it is, and failing that its name:
   altered bytes may hide what it is. *)
Suffixed(name) == IF name[2] \in DOMAIN SidecarPaths THEN SidecarPaths[name[2]] ELSE <<>>
sidecars_for(name, got) ==
    {Suffixed(name)} \cup IF got.state = "intact" THEN {} ELSE {<<>>}
Served(name, paths) == SelectSeq(paths, LAMBDA p : <<name[1], p>> \in Range(entries))

Turn == Len(destinations) + 1
Writing == Exporting /\ pending = <<>> /\ Turn <= Len(entries)

(* A path that cannot exist is recorded; its file and sidecars are not read. *)
SkipTooLong ==
    /\ Writing
    /\ LET at == Destination(entries[Turn])
       IN /\ at \in too_long
          /\ destinations' = Append(destinations, at)
          /\ skipped' = Append(skipped, [name |-> entries[Turn], at |-> at])
    /\ UNCHANGED <<openVars, command, outcome, printed, named, roots, unmapped, synthetic,
                   announced, too_long, pending, tree, report, made, reported>>

ExportFile ==
    /\ Writing
    /\ LET at == Destination(entries[Turn])
       IN /\ at \notin too_long
          /\ destinations' = Append(destinations, at)
          /\ \E lost \in Failing, lostAgain \in Failing :
                LET got == content(Turn, lost)
                IN /\ WriteEntry(Turn, at, got, lostAgain)
                   /\ \E paths \in sidecars_for(entries[Turn], got) :
                         pending' = Served(entries[Turn], paths)
    /\ UNCHANGED <<openVars, command, outcome, printed, named, roots, unmapped, synthetic,
                   announced, too_long, skipped, made, reported>>

(* Beside the database, without a plan and without a look at the length. *)
ExportSidecar ==
    /\ Exporting /\ pending # <<>>
    /\ pending' = Tail(pending)
    /\ \E k \in DOMAIN entries, lost \in Failing, lostAgain \in Failing :
          /\ entries[k] = <<entries[Len(destinations)][1], Head(pending)>>
          /\ WriteEntry(k, Beside(destinations[Len(destinations)], Head(pending)),
                        content(k, lost), lostAgain)
    /\ UNCHANGED <<openVars, command, outcome, printed, named, roots, unmapped, synthetic,
                   announced, too_long, destinations, skipped, made, reported>>

(* A file that cannot be served, or a write that fails, ends the rebuild. *)
ExportFails ==
    /\ \/ Exporting /\ pending # <<>>
       \/ Writing /\ Destination(entries[Turn]) \notin too_long
    /\ Fail

FilesOut == Exporting /\ pending = <<>> /\ Len(destinations) = Len(entries)

(* Directory records land where the files of their domain do. *)
tree_dir(name) == Place(name, 0)
ToMake == {tree_dir(name) : name \in {n \in structure.directories : n[1] \in DOMAIN roots}}

CreateDirectory ==
    /\ FilesOut
    /\ \E d \in ToMake \ (made \cup DOMAIN tree) : made' = made \cup {d}
    /\ UNCHANGED <<openVars, command, outcome, printed, named, roots, unmapped,
                   synthetic, announced, exportVars, reported>>

(* create_dir_all fails, on a file in its way or by itself. *)
CreateDirectoryFails == FilesOut /\ ToMake \ made # {} /\ Fail

WriteReport ==
    /\ FilesOut /\ ToMake \subseteq made
    /\ reported' = TRUE
    /\ Finish("ok")
    /\ UNCHANGED <<openVars, command, named, roots, unmapped, synthetic,
                   announced, exportVars, made>>

WriteReportFails == FilesOut /\ ToMake \subseteq made /\ Fail

Next ==
    \/ Building \/ NoBackup \/ Info
    \/ PlanDomain \/ NothingToRebuild \/ ReportPlan \/ Refuse
    \/ SkipTooLong \/ ExportFile \/ ExportSidecar \/ ExportFails \/ CreateDirectory \/ CreateDirectoryFails
    \/ WriteReport \/ WriteReportFails

Spec == Init0 /\ [][Next]_vars

-----------------------------------------------------------------------------
(* Properties. *)

Listed == {r \in Range(backup.rows) :
              r.typed /\ r.flags = "file" /\ r.name[2] # 0 /\ r.mb # Absent}
RowOf(name) == CHOOSE r \in Listed : r.name = name

(* Every regular file Manifest.db lists is accounted for when a command ends
   well: it is served, or it is counted in the line that reports missing files,
   or (encrypted backups only) it carries no key.  Directory and symlink rows,
   which have no blob either, do not disturb that count
   (read_present_files, build_entries). *)
FilesAccounted ==
    printed # Absent =>
        LET keyless == {r \in Listed : backup.encrypted /\ r.mb.key = Absent /\ Stored(r.file_id) # {}}
        IN /\ Cardinality(Listed) = printed.files + printed.missing + Cardinality(keyless)
           /\ Range(entries) =
                  {r.name : r \in {x \in Listed \ keyless : Stored(x.file_id) # {}}}

(* A record speaks for its file until another is written over it, which only a
   sidecar can be: see RebuildComplete. *)
Standing(k) == \A j \in DOMAIN report : j > k => report[j].at # report[k].at

(* What is written under a file's path is that file, and what is written beside
   it as its sidecar is that sidecar: the metadata kept beside the sorted entries
   is the row's own although keyless rows are dropped and the table is in another
   order (build_entries, name_index, decrypt_file). *)
OwnContent ==
    \A k \in DOMAIN report :
        Standing(k) => tree[report[k].at].file_id = RowOf(report[k].name).file_id

(* A stored digest reported as verified vouches for the file that was written,
   although the blob is read a second time to check it: provided its two
   layouts, where both are there, hold the same bytes (attest, read_blob). *)
OneBlob(id) ==
    \A l, m \in Stored(id) : backup.stored[<<id, l>>] = backup.stored[<<id, m>>]
VerifiedIsOriginal ==
    \A k \in DOMAIN report :
        LET got == tree[report[k].at]
        IN Standing(k) /\ report[k].integrity = "verified" /\ OneBlob(got.file_id) => got.state = "intact"

(* A password the operator supplied is never replaced by a default; the default
   that is recorded is the first in order that unlocks; and a command that ends
   well over an encrypted backup says which it was (try_unlock, stderr_line). *)
UnlockIsHonest ==
    /\ provenance \in Range(DefaultPasswords) =>
           /\ supplied = Absent /\ provenance = backup.password
           /\ \A n \in 1 .. tried : DefaultPasswords[n] # backup.password
    /\ provenance = "supplied" => supplied = backup.password
    /\ outcome = "ok" /\ backup.encrypted => printed.password # Absent

(* When export-report.json is there, the tree is whole but for what that report
   lists.  Each file has a place under its domain's mount point that is no other
   file's.  Either the report records that it was written there, and there it is,
   unless a sidecar of another file went over it, which is recorded too; or the
   place is too long, and the report says that it was skipped.  Every directory record has been created,
   in a domain without files as well (plan, distinct_domains, write_one,
   create_directories). *)
RebuildComplete ==
    reported =>
        /\ Len(destinations) = Len(entries)
        /\ \A j, k \in DOMAIN entries : destinations[j] = destinations[k] => j = k
        /\ \A k \in DOMAIN entries :
              LET at == destinations[k]
                  record == [name |-> entries[k], at |-> at]
              IN /\ at[1] = filesystem_path(entries[k][1]) /\ at[2] = entries[k][2]
                 /\ IF at \in too_long THEN record \in Range(skipped)
                    ELSE /\ \E j \in DOMAIN report : report[j].name = entries[k] /\ report[j].at = at
                         /\ \/ tree[at].file_id = RowOf(entries[k]).file_id
                            \/ \E j \in DOMAIN report : report[j].at = at /\ report[j].name # entries[k]
        /\ \A s \in Range(skipped) :
              \E k \in DOMAIN entries :
                  s.name = entries[k] /\ s.at = destinations[k] /\ s.at \in too_long
        /\ \A r \in Range(backup.rows) :
              r.typed /\ r.flags = "dir" /\ r.name[2] # 0 =>
                  <<filesystem_path(r.name[1]), r.name[2], 0>> \in made

=============================================================================
