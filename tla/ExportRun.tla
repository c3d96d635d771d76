----------------------------- MODULE ExportRun -----------------------------
(***************************************************************************)
(* One export command from the matched files to export-report.json:        *)
(* the plan (ExportPlan), the size gate, write_one() for every file with   *)
(* its sidecars, the directories of a rebuild, the report; then, from the  *)
(* manifest, a re-ingestion into an empty directory.  The disk is folded   *)
(* by the file system, reads and writes may fail, the process may be       *)
(* killed and the command given again.                                     *)
(***************************************************************************)
EXTENDS ExportPlan, Ordering

CONSTANTS
    Sources,      \* the entry lists a source can have
    DbBody,       \* contents an inspector declares sidecars for (SQLite)
    Sidecar,      \* their suffixes, in order: "-wal", "-shm", "-journal"
    FsWidth,      \* how much of a name a character takes there (bytes)
    Caps,         \* the --max-size values
    DirLen,       \* the length of DIR, which Windows counts
    Hosts,        \* where the command may run, see HostType
    ReportName,   \* the segment "export-report.json"
    ReportBody,   \* what is in it
    MaxKills      \* bound: how often the command is killed and given again

(* A host: how its file system folds a character, cfg!(target_os = "windows"),
   the longest name for the guard and the file system (255), --max-path-len
   (0 switches the guard off), the directory records a rebuild recreates. *)
HostType == [fold : [Char -> Char], windows : BOOLEAN, max_component : Nat,
             max_path_len : Nat, directories : Seq(Path)]

ASSUME RunAssumption ==
    /\ Sources \subseteq Seq(Entry)
    /\ DbBody \subseteq Body
    /\ Sidecar \in Seq(Char)
    /\ FsWidth \in [Char -> Nat \ {0}]
    /\ Caps \subseteq Nat
    /\ DirLen \in Nat /\ MaxKills \in Nat
    /\ Hosts \subseteq HostType
    /\ ReportName \in Segment
    /\ ReportBody \notin Body

VARIABLES
    host,     \* where the command runs
    entries,  \* source.entries()
    cap,      \* --max-size
    mode,     \* "fresh" (plan and copy) or "replay" (--from-manifest)
    step,     \* where the command is
    jobs,     \* what is to be written: [path, entry, out]
    at,       \* the job being written
    side,     \* 0, or the sidecar suffix being looked at
    disk,     \* the files below DIR: from folded path to [body, whole]
    dirs,     \* the directories below DIR, folded
    report,   \* the ExportedFile records: [path, out, body, size, verified]
    skipped,  \* skipped_too_long: [path, out]
    warned,   \* portability_warnings: [path, out]
    missing,  \* manifest entries the source does not hold
    first,    \* once a replay has begun: the source of the fresh run and its report
    kills     \* how often the command was killed

runVars == <<host, entries, cap, mode, step, jobs, at, side, disk, dirs, report, skipped,
             warned, missing, first, kills>>
vars == <<planVars, runVars>>

-----------------------------------------------------------------------------
(* The destination file system *)

FsSegment(seg) == [k \in DOMAIN seg |-> IF seg[k] \in Char THEN host.fold[seg[k]] ELSE seg[k]]
FsKey(path) == [k \in DOMAIN path |-> FsSegment(path[k])]

(* The directories a path lies in; DIR itself is <<>>. *)
Parents(key) == {SubSeq(key, 1, n) : n \in 0 .. Len(key) - 1}

Width(seg) == FoldLeft(LAMBDA n, t : n + (IF t \in Char THEN FsWidth[t] ELSE 1), 0, seg)

(* create_dir_all fails on a file in the way, a write on a directory, on a
   name that is too long and in a directory that is not there. *)
CanCreate(keys) == keys \cap DOMAIN disk = {}
CanWrite(path) ==
    /\ FsKey(path) \notin dirs
    /\ \A k \in DOMAIN path : Width(path[k]) <= host.max_component

Stored(key, body, whole) ==
    [k \in DOMAIN disk \cup {key} |-> IF k = key THEN [body |-> body, whole |-> whole] ELSE disk[k]]

PathLen(path) == FoldLeft(LAMBDA n, seg : n + Len(seg), Len(path) - 1, path)

TooLong(out) ==
    \/ \E k \in DOMAIN out : Len(out[k]) > host.max_component
    \/ host.windows /\ DirLen + 1 + PathLen(out) > host.max_path_len

(* The path-length guard: "ok", "skip" or "not_portable". *)
check_export_path(out) ==
    IF host.max_path_len = 0 THEN "ok"
    ELSE IF TooLong(out) THEN "skip"
    ELSE IF ~host.windows /\ PathLen(out) > host.max_path_len THEN "not_portable"
    ELSE "ok"

(* tree_dir(): where a rebuild puts a directory record. *)
tree_dir(path) ==
    LET root == roots[attribute(path)]
    IN  sanitise_label(root.label) \o sanitise_path(relative_under(root.prefix, path))

(* Only a rebuild has directory records. *)
RebuiltDirs ==
    IF layout = "tree" /\ mode = "fresh"
    THEN {FsKey(tree_dir(host.directories[k])) :
             k \in {j \in DOMAIN host.directories : Owners(host.directories[j]) # {}}}
    ELSE {}

RebuiltKeys == UNION {Parents(key) \cup {key} : key \in RebuiltDirs}

-----------------------------------------------------------------------------
(* The command *)

(* by_path: of entries with one name, the last. *)
by_path(path) == SelectLastInSeq(entries, LAMBDA e : e.path = path)

TotalSize(list) == FoldLeft(LAMBDA n, e : n + e.size, 0, list)

(* The matched files: some of the source's entries, in their order. *)
Selects(list, source) == \E S \in SUBSET DOMAIN source : list = Picked(source, S)

Record(job) == [path |-> job.path, out |-> job.out]

RunInit ==
    /\ Init
    /\ host \in Hosts
    /\ entries \in Sources
    /\ Selects(files, entries)
    /\ cap \in Caps
    /\ mode = "fresh"
    /\ step = "plan"
    /\ jobs = <<>> /\ at = 1 /\ side = 0
    /\ disk = <<>> /\ dirs \in {{}, {<<>>}}
    /\ report = <<>> /\ skipped = <<>> /\ warned = <<>> /\ missing = 0
    /\ first = [entries |-> <<>>, report |-> <<>>]
    /\ kills = 0

Plan ==
    /\ step = "plan"
    /\ Next
    /\ UNCHANGED runVars

(* total_size > max_size: nothing is written. *)
Refuse ==
    /\ step = "plan" /\ phase = "planned"
    /\ TotalSize(files) > cap
    /\ step' = "refused"
    /\ UNCHANGED <<planVars, host, entries, cap, mode, jobs, at, side, disk, dirs, report,
                   skipped, warned, missing, first, kills>>

FreshJobs == [k \in DOMAIN items |->
                 [path |-> files[k].path, entry |-> files[k], out |-> output_path(items[k])]]

(* The manifest's files that the source holds. *)
Held == {k \in DOMAIN items : by_path(files[k].path) # 0}

(* Mutant of ManifestJobs: to the names the files wanted. *)
ManifestJobsWanted ==
    LET held == InOrder(Held, {p \in Held \X Held : p[1] < p[2]})
    IN  [n \in DOMAIN held |->
            [path |-> files[held[n]].path,
             entry |-> entries[by_path(files[held[n]].path)],
             out |-> output_path(wanted[held[n]])]]

(* They are located in the source by path. *)
ManifestJobs ==
    LET held == InOrder(Held, {p \in Held \X Held : p[1] < p[2]})
    IN  [n \in DOMAIN held |->
            [path |-> files[held[n]].path,
             entry |-> entries[by_path(files[held[n]].path)],
             out |-> output_path(items[held[n]])]]

Accept ==
    /\ step = "plan" /\ phase = "planned"
    /\ TotalSize(files) <= cap
    /\ jobs' = IF mode = "fresh" THEN FreshJobs ELSE ManifestJobs
    /\ missing' = Len(items) - Len(jobs')
    /\ step' = "check"
    /\ UNCHANGED <<planVars, host, entries, cap, mode, at, side, disk, dirs, report, skipped,
                   warned, first, kills>>

Job == jobs[at]
Writing == at <= Len(jobs)

(* Mutant of SkipTooLong: no record. *)
SkipTooLongSilently ==
    /\ step = "check" /\ Writing
    /\ check_export_path(Job.out) = "skip"
    /\ UNCHANGED skipped
    /\ at' = at + 1
    /\ UNCHANGED <<planVars, host, entries, cap, mode, step, jobs, side, disk, dirs, report,
                   warned, missing, first, kills>>

(* The guard runs before a byte is read; a file it skips is recorded. *)
SkipTooLong ==
    /\ step = "check" /\ Writing
    /\ check_export_path(Job.out) = "skip"
    /\ skipped' = Append(skipped, Record(Job))
    /\ at' = at + 1
    /\ UNCHANGED <<planVars, host, entries, cap, mode, step, jobs, side, disk, dirs, report,
                   warned, missing, first, kills>>

PassGuard ==
    /\ step = "check" /\ Writing
    /\ check_export_path(Job.out) # "skip"
    /\ warned' = IF check_export_path(Job.out) = "not_portable"
                 THEN Append(warned, Record(Job)) ELSE warned
    /\ step' = "write"
    /\ UNCHANGED <<planVars, host, entries, cap, mode, jobs, at, side, disk, dirs, report,
                   skipped, missing, first, kills>>

FileRecord(path, out, entry, whole) ==
    [path |-> path, out |-> out, body |-> entry.body, size |-> entry.size, verified |-> whole]

CanWriteMain == CanCreate(Parents(FsKey(Job.out))) /\ CanWrite(Job.out)

(* Mutant of WriteMain: attested from the source bytes, never read back. *)
WriteMainTrusting ==
    /\ step = "write"
    /\ CanWriteMain
    /\ dirs' = dirs \cup Parents(FsKey(Job.out))
    /\ report' = Append(report, FileRecord(Job.path, Job.out, Job.entry, TRUE))
    /\ \E whole \in BOOLEAN : disk' = Stored(FsKey(Job.out), Job.entry.body, whole)
    /\ side' = 1
    /\ step' = "sidecars"
    /\ UNCHANGED <<planVars, host, entries, cap, mode, jobs, at, skipped, warned, missing,
                   first, kills>>

(* Read, create the parents, write, read back, attest.  A bad write that the
   system reports as good is caught by the read-back: verified is FALSE. *)
WriteMain ==
    /\ step = "write"
    /\ CanWriteMain
    /\ dirs' = dirs \cup Parents(FsKey(Job.out))
    /\ \E whole \in BOOLEAN :
          /\ disk' = Stored(FsKey(Job.out), Job.entry.body, whole)
          /\ report' = Append(report, FileRecord(Job.path, Job.out, Job.entry, whole))
    /\ side' = 1
    /\ step' = "sidecars"
    /\ UNCHANGED <<planVars, host, entries, cap, mode, jobs, at, skipped, warned, missing,
                   first, kills>>

SidecarOf(path, tail) == [path EXCEPT ![Len(path)] = Append(@, tail)]

WantsSidecars == Job.entry.body \in DbBody

(* Mutant of SidePath: looked up under the output name. *)
SidePathOut == SidecarOf(Job.out, Sidecar[side])

SidePath == SidecarOf(Job.path, Sidecar[side])
SideOut == SidecarOf(Job.out, Sidecar[side])
HasSidecar == WantsSidecars /\ side <= Len(Sidecar) /\ by_path(SidePath) # 0
SideEntry == entries[by_path(SidePath)]

(* A sidecar goes beside the file, under the file's output name; neither the
   guard nor the plan is asked. *)
WriteSidecar ==
    /\ step = "sidecars"
    /\ HasSidecar
    /\ CanWrite(SideOut)
    /\ \E whole \in BOOLEAN :
          /\ disk' = Stored(FsKey(SideOut), SideEntry.body, whole)
          /\ report' = Append(report, FileRecord(SidePath, SideOut, SideEntry, whole))
    /\ side' = side + 1
    /\ UNCHANGED <<planVars, host, entries, cap, mode, step, jobs, at, dirs, skipped, warned,
                   missing, first, kills>>

PassSidecar ==
    /\ step = "sidecars"
    /\ WantsSidecars /\ side <= Len(Sidecar)
    /\ by_path(SidePath) = 0
    /\ side' = side + 1
    /\ UNCHANGED <<planVars, host, entries, cap, mode, step, jobs, at, disk, dirs, report,
                   skipped, warned, missing, first, kills>>

NextFile ==
    /\ step = "sidecars"
    /\ ~WantsSidecars \/ side > Len(Sidecar)
    /\ at' = at + 1
    /\ side' = 0
    /\ step' = "check"
    /\ UNCHANGED <<planVars, host, entries, cap, mode, jobs, disk, dirs, report, skipped,
                   warned, missing, first, kills>>

(* rebuild: the directory records, after the files. *)
CreateDirectories ==
    /\ step = "check" /\ ~Writing
    /\ CanCreate(RebuiltKeys)
    /\ dirs' = dirs \cup RebuiltKeys
    /\ step' = "report"
    /\ UNCHANGED <<planVars, host, entries, cap, mode, jobs, at, side, disk, report,
                   skipped, warned, missing, first, kills>>

ReportPath == <<ReportName>>

(* Nothing creates DIR for the report. *)
CanReport == <<>> \in dirs /\ CanWrite(ReportPath)

WriteReport ==
    /\ step = "report"
    /\ CanReport
    /\ disk' = Stored(FsKey(ReportPath), ReportBody, TRUE)
    /\ step' = "done"
    /\ UNCHANGED <<planVars, host, entries, cap, mode, jobs, at, side, dirs, report, skipped,
                   warned, missing, first, kills>>

(* `?`: the file system refuses the path, the export ends without a report. *)
AbortBlocked ==
    /\ \/ step = "write" /\ ~CanWriteMain
       \/ step = "sidecars" /\ HasSidecar /\ ~CanWrite(SideOut)
       \/ step = "check" /\ ~Writing /\ ~CanCreate(RebuiltKeys)
       \/ step = "report" /\ ~CanReport
    /\ step' = "failed"
    /\ UNCHANGED <<planVars, host, entries, cap, mode, jobs, at, side, disk, dirs, report,
                   skipped, warned, missing, first, kills>>

InWrite ==
    \/ step = "write" /\ CanWriteMain
    \/ step = "sidecars" /\ HasSidecar /\ CanWrite(SideOut)
    \/ step = "report" /\ CanReport

Target == CASE step = "write"    -> [out |-> Job.out, body |-> Job.entry.body]
            [] step = "sidecars" -> [out |-> SideOut, body |-> SideEntry.body]
            [] OTHER             -> [out |-> ReportPath, body |-> ReportBody]

(* What a write cut short leaves: nothing, directories, or part of the file. *)
CutShort ==
    \/ UNCHANGED <<disk, dirs>>
    \/ /\ InWrite
       /\ dirs' = dirs \cup Parents(FsKey(Target.out))
       /\ disk' \in {disk, Stored(FsKey(Target.out), Target.body, FALSE)}

(* `?`: an entry cannot be read, or the disk is full. *)
AbortIo ==
    /\ InWrite
    /\ CutShort
    /\ step' = "failed"
    /\ UNCHANGED <<planVars, host, entries, cap, mode, jobs, at, side, report, skipped, warned,
                   missing, first, kills>>

(* The process is killed and the same command given again. *)
Rerun ==
    /\ mode = "fresh"
    /\ step \notin {"done", "refused", "plan"}
    /\ kills < MaxKills
    /\ kills' = kills + 1
    /\ CutShort
    /\ phase' = "layout" /\ wanted' = <<>> /\ items' = <<>> /\ claimed' = {} /\ cursor' = 1
    /\ suffix' = 0 /\ renamed' = <<>>
    /\ step' = "plan" /\ jobs' = <<>> /\ at' = 1 /\ side' = 0
    /\ report' = <<>> /\ skipped' = <<>> /\ warned' = <<>> /\ missing' = 0
    /\ UNCHANGED <<files, roots, layout, host, entries, cap, mode, first>>

(* export --from-manifest into an empty DIR, from this or another source. *)
Reingest ==
    /\ mode = "fresh"
    /\ step \in {"done", "refused"}
    /\ mode' = "replay"
    /\ entries' \in Sources
    /\ cap' \in Caps
    /\ first' = [entries |-> entries, report |-> report]
    /\ step' = "plan" /\ jobs' = <<>> /\ at' = 1 /\ side' = 0
    /\ disk' = <<>> /\ dirs' \in {{}, {<<>>}}
    /\ report' = <<>> /\ skipped' = <<>> /\ warned' = <<>> /\ missing' = 0
    /\ UNCHANGED <<planVars, host, kills>>

Proceed ==
    \/ Plan
    \/ Refuse
    \/ Accept
    \/ SkipTooLong
    \/ PassGuard
    \/ WriteMain
    \/ WriteSidecar
    \/ PassSidecar
    \/ NextFile
    \/ CreateDirectories
    \/ WriteReport
    \/ AbortBlocked
    \/ AbortIo

RunNext == Proceed \/ Rerun \/ Reingest

RunSpec == RunInit /\ [][RunNext]_vars

-----------------------------------------------------------------------------
(* Properties *)

OnDisk(path, body) ==
    /\ FsKey(path) \in DOMAIN disk
    /\ disk[FsKey(path)] = [body |-> body, whole |-> TRUE]

(* A complete export-report.json is there only after a complete run, and that
   run wrote or recorded as skipped every single file it was to write: no
   crash, retry or early return leaves a report over a partial export. *)
ReportMeansComplete ==
    OnDisk(ReportPath, ReportBody) =>
        /\ step = "done"
        /\ \A k \in DOMAIN jobs :
              \/ \E r \in ToSet(report) : r.path = jobs[k].path /\ r.out = jobs[k].out
              \/ Record(jobs[k]) \in ToSet(skipped)

(* The record that speaks for a file: the last one with its path. *)
Speaks(n) == \A m \in n + 1 .. Len(report) : FsKey(report[m].out) # FsKey(report[n].out)

(* When the report is there, DIR holds the files it names and no others, and a
   record says "verified" exactly when the file has the bytes of ITS source
   entry: nothing written later, and nothing an earlier killed run left,
   disagrees with it (is_intact(), "the on-disk copy matches"). *)
ReportMatchesDisk ==
    step = "done" =>
        /\ DOMAIN disk = {FsKey(ReportPath)} \cup {FsKey(r.out) : r \in ToSet(report)}
        /\ \A n \in DOMAIN report :
              Speaks(n) => (report[n].verified <=> OnDisk(report[n].out, report[n].body))
        /\ \A n \in DOMAIN report : \E m \in DOMAIN report :
              Speaks(m) /\ report[m].out = report[n].out /\ report[m].body = report[n].body

(* No exported database goes without its sidecars: each one the source holds is
   recorded as written under the database's OUTPUT name, whether that was renamed
   or not, with the sidecar's own content ("so the database opens complete").
   That its bytes are still on disk there is what ReportMatchesDisk asks. *)
DatabaseComplete ==
    step = "done" =>
        \A j \in DOMAIN jobs : \A k \in DOMAIN Sidecar :
            LET from == SidecarOf(jobs[j].path, Sidecar[k])
            IN  /\ jobs[j].entry.body \in DbBody
                /\ Record(jobs[j]) \notin ToSet(skipped)
                /\ by_path(from) # 0
                => \E r \in ToSet(report) :
                      /\ r.path = from
                      /\ r.out = SidecarOf(jobs[j].out, Sidecar[k])
                      /\ r.body = entries[by_path(from)].body

NoDuplicates(list) == \A j, k \in DOMAIN list : j # k => list[j].path # list[k].path

Copied(list) == {[path |-> r.path, out |-> r.out, body |-> r.body] :
                    r \in {q \in ToSet(list) : \E k \in DOMAIN files : files[k].path = q.path}}

(* A manifest re-ingested from a source that still holds the files puts every
   one of them, with the same bytes, where the first export put it: neither
   source holding a name twice, and the first export having written anything. *)
ReplayFaithful ==
    /\ mode = "replay" /\ step = "done" /\ first.report # <<>>
    /\ NoDuplicates(first.entries) /\ NoDuplicates(entries)
    /\ Selects(files, entries)
    => Copied(report) = Copied(first.report)

=============================================================================
