-------------------------- MODULE IosRebuildProofs --------------------------
(***************************************************************************)
(* What a command says about how it opened a backup is true, every listed  *)
(* file is accounted for, and a finished rebuild is whole: for every       *)
(* backup, every list of default passwords and every password supplied.    *)
(***************************************************************************)
EXTENDS IosRebuild, OrderingProofs

(* The defaults passed over do not unlock; the password recorded does; and a
   backup is open only once a password is recorded. *)
Skipped == supplied = Absent => \A n \in 1 .. tried : ~Unlocks(DefaultPasswords[n])

Recorded ==
    \/ provenance = Absent
    \/ provenance = "supplied" /\ supplied # Absent /\ Unlocks(supplied)
    \/ /\ provenance \in Range(DefaultPasswords) \ {Absent, "supplied"}
       /\ supplied = Absent /\ Unlocks(provenance)

Opened ==
    /\ backup.encrypted \in BOOLEAN
    /\ stage \in {"database", "walk", "open"} /\ backup.encrypted => provenance # Absent
    /\ outcome = "ok" /\ backup.encrypted => printed.password # Absent

UnlockInv == tried \in Nat /\ Skipped /\ Recorded /\ Opened

-----------------------------------------------------------------------------

LEMMA InitUnlock == Init0 => UnlockInv
  BY BackupAssumption DEF Init0, Init, Fresh, UnlockInv, Skipped, Recorded, Opened

(* Steps of build(). *)
LEMMA BuildUnlock == UnlockInv /\ Building => UnlockInv'
<1> SUFFICES ASSUME UnlockInv, Building PROVE UnlockInv'
  OBVIOUS
<1> USE DEF UnlockInv, Building, rebuildVars
<1>1. CASE TryPassword
  <2> DEFINE candidate == Candidates[tried + 1]
  <2>1. CASE Unlocks(candidate)
    <3>1. UNCHANGED <<backup, supplied, tried>>
      BY <1>1, <2>1 DEF TryPassword
    <3>2. CASE supplied # Absent
      <4>1. tried = 0 /\ candidate = supplied
        BY <1>1, <3>2 DEF TryPassword, Candidates
      <4> QED
        BY <1>1, <2>1, <3>1, <3>2, <4>1, BackupAssumption
           DEF TryPassword, Skipped, Recorded, Opened, Unlocks
    <3>3. CASE supplied = Absent
      <4>1. candidate \in Range(DefaultPasswords)
        BY <1>1, <3>3 DEF TryPassword, Candidates, Range
      <4> QED
        BY <1>1, <2>1, <3>1, <3>3, <4>1, BackupAssumption
           DEF TryPassword, Skipped, Recorded, Opened, Unlocks
    <3> QED BY <3>2, <3>3
  <2>2. CASE ~Unlocks(candidate)
    <3>1. UNCHANGED <<backup, supplied, provenance, stage>> /\ tried' = tried + 1
      BY <1>1, <2>2 DEF TryPassword
    <3>2. Skipped'
      BY <1>1, <2>2, <3>1 DEF Skipped, Unlocks, Candidates
    <3> QED BY <3>1, <3>2 DEF Recorded, Opened, Unlocks
  <2> QED BY <2>1, <2>2
<1>2. CASE Detect
  BY <1>2 DEF Detect, Skipped, Recorded, Opened, Unlocks
<1>3. CASE NotABackup \/ GiveUp
  BY <1>3 DEF NotABackup, GiveUp, Skipped, Recorded, Opened, Unlocks
<1>4. CASE OpenDatabase
  BY <1>4 DEF OpenDatabase, Skipped, Recorded, Opened, Unlocks
<1>5. CASE WalkFile
  BY <1>5 DEF WalkFile, Skipped, Recorded, Opened, Unlocks
<1>6. CASE Index
  BY <1>6 DEF Index, Skipped, Recorded, Opened, Unlocks
<1> QED BY <1>1, <1>2, <1>3, <1>4, <1>5, <1>6 DEF Build

(* Steps of the command: only an end that is well sets `printed`. *)
LEMMA CommandUnlock ==
    ASSUME UnlockInv, UNCHANGED openVars,
           \/ outcome' \in {"running", "failed"}
           \/ outcome' = "refused"
           \/ stage = "open" /\ printed'.password = provenance
    PROVE  UnlockInv'
  BY DEF UnlockInv, openVars, Skipped, Recorded, Opened, Unlocks

LEMMA StepUnlock == UnlockInv /\ [Next]_vars => UnlockInv'
<1> SUFFICES ASSUME UnlockInv, [Next]_vars PROVE UnlockInv'
  OBVIOUS
<1>1. CASE Building
  BY <1>1, BuildUnlock
<1>2. CASE NoBackup \/ NothingToRebuild \/ ExportFails \/ CreateDirectoryFails \/ WriteReportFails
  BY <1>2, CommandUnlock
     DEF NoBackup, NothingToRebuild, ExportFails, CreateDirectoryFails, WriteReportFails, Fail
<1>3. CASE Info
  BY <1>3, CommandUnlock DEF Info, Ready, Finish
<1>4. CASE PlanDomain
  BY <1>4, CommandUnlock DEF PlanDomain, Ready
<1>5. CASE ReportPlan
  BY <1>5, CommandUnlock DEF ReportPlan, Planned, Ready, Finish
<1>6. CASE Refuse
  BY <1>6, CommandUnlock DEF Refuse, Finish
<1>7. CASE SkipTooLong \/ ExportFile \/ ExportSidecar
  BY <1>7, CommandUnlock DEF SkipTooLong, ExportFile, ExportSidecar, Writing, Exporting, Planned, Ready
<1>8. CASE CreateDirectory
  BY <1>8, CommandUnlock DEF CreateDirectory, FilesOut, Exporting, Planned, Ready
<1>9. CASE WriteReport
  BY <1>9, CommandUnlock DEF WriteReport, FilesOut, Exporting, Planned, Ready, Finish
<1>10. CASE UNCHANGED vars
  BY <1>10 DEF vars, openVars, rebuildVars, UnlockInv, Skipped, Recorded, Opened, Unlocks
<1> QED
  BY <1>1, <1>2, <1>3, <1>4, <1>5, <1>6, <1>7, <1>8, <1>9, <1>10 DEF Next

(* A password the operator supplied is never replaced by a default, the default
   recorded is the first that unlocks, and a command that ends well over an
   encrypted backup names its source (try_unlock, BackupRecord). *)
THEOREM UnlockHonest == Spec => []UnlockIsHonest
<1>1. UnlockInv => UnlockIsHonest
  BY BackupAssumption DEF UnlockInv, Skipped, Recorded, Opened, UnlockIsHonest, Unlocks
<1> QED BY <1>1, InitUnlock, StepUnlock, PTL DEF Spec

-----------------------------------------------------------------------------
(* The index *)

Walked(n) == {backup.rows[i] : i \in 1 .. n}

(* The rows that were read are told apart: served or missing. *)
WalkInv ==
    /\ backup \in Backups
    /\ row \in 0 .. Len(backup.rows)
    /\ records \in Seq(Range(records))
    /\ Range(records) = {r \in Walked(row) : Usable(r) /\ holds_blob(r.file_id)}
    /\ missing_files = Cardinality({r \in Walked(row) : Usable(r) /\ ~holds_blob(r.file_id)})
    /\ stage = "open" =>
           /\ row = Len(backup.rows)
           /\ structure.directories = Named("dir")
           /\ entries = EntriesOf(SortedByName(Kept))
           /\ meta = MetaOfAll(SortedByName(Kept))

LEMMA RowsOk ==
    ASSUME backup \in Backups
    PROVE  /\ backup.rows \in Seq(Range(backup.rows)) /\ Len(backup.rows) \in Nat
           /\ DOMAIN backup.rows = 1 .. Len(backup.rows)
           /\ \A r \in Range(backup.rows) : r.name \in Nat \X Nat
           /\ \A r, s \in Range(backup.rows) : r.typed /\ s.typed /\ r.name = s.name => r = s
PROOF
<1>1. backup.rows \in Seq(Range(backup.rows)) /\ \A r \in Range(backup.rows) : r.name \in Nat \X Nat
    BY BackupAssumption
<1>2. \A i, j \in DOMAIN backup.rows :
          backup.rows[i].typed /\ backup.rows[j].typed /\ backup.rows[i].name = backup.rows[j].name => i = j
    BY BackupAssumption
<1>3. \A r, s \in Range(backup.rows) : r.typed /\ s.typed /\ r.name = s.name => r = s
    BY <1>2, Zenon DEF Range
<1> QED
    BY <1>1, <1>3

(* Names are naturals, so they can be sorted. *)
LEMMA BeforeTotal ==
    /\ \A m \in Nat \X Nat : ~Before(m, m)
    /\ \A m, n, o \in Nat \X Nat : Before(m, n) /\ Before(n, o) => Before(m, o)
    /\ \A m, n \in Nat \X Nat : m # n => Before(m, n) \/ Before(n, m)
BY DEF Before

(* The records that are kept have distinct names, and the index is in their order. *)
LEMMA SortedOk ==
    ASSUME WalkInv
    PROVE  LET sorted == SortedByName(Kept)
           IN  /\ IsFiniteSet(Kept) /\ Cardinality(Kept) \in Nat
               /\ DOMAIN sorted = 1 .. Cardinality(Kept)
               /\ \A k \in 1 .. Cardinality(Kept) : sorted[k] \in Kept
               /\ \A j, k \in 1 .. Cardinality(Kept) : sorted[j] = sorted[k] => j = k
               /\ \A r \in Kept : \E k \in 1 .. Cardinality(Kept) : sorted[k] = r
               /\ \A r \in Kept : r \in Range(backup.rows) /\ Usable(r)
               /\ \A r, s \in Range(backup.rows) : Usable(r) /\ Usable(s) /\ r.name = s.name => r = s
PROOF
<1> DEFINE before == {p \in Kept \X Kept : Before(p[1].name, p[2].name)}
<1>1. backup \in Backups /\ row \in 0 .. Len(backup.rows)
    BY DEF WalkInv
<1>2. Kept \subseteq Range(records) /\ Range(records) \subseteq Walked(row)
    BY DEF Kept, WalkInv
<1>3. Walked(row) \subseteq Range(backup.rows)
    BY <1>1, RowsOk DEF Walked, Range
<1>4. \A r \in Kept : r \in Range(backup.rows) /\ Usable(r)
    BY <1>2, <1>3 DEF WalkInv
<1>5. IsFiniteSet(Kept)
    <2>1. IsFiniteSet(Range(backup.rows))
        BY <1>1, RowsOk, RangeFinite
    <2> QED
        BY <1>2, <1>3, <2>1, FS_Subset
<1>6. \A r, s \in Range(backup.rows) : Usable(r) /\ Usable(s) /\ r.name = s.name => r = s
    BY <1>1, RowsOk DEF Usable
<1>7. /\ \A r \in Kept : r.name \in Nat \X Nat
      /\ \A r, s \in Kept : r # s => r.name # s.name
    BY <1>1, <1>4, <1>6, RowsOk
<1>8. \A r, s \in Kept : <<r, s>> \in before <=> Before(r.name, s.name)
    OBVIOUS
<1> HIDE DEF before
<1>9. /\ \A r \in Kept : <<r, r>> \notin before
      /\ \A r, s, t \in Kept : <<r, s>> \in before /\ <<s, t>> \in before => <<r, t>> \in before
      /\ \A r, s \in Kept : r # s => <<r, s>> \in before \/ <<s, r>> \in before
    BY <1>7, <1>8, BeforeTotal
<1>10. SortedByName(Kept) = InOrder(Kept, before)
    BY DEF SortedByName, before
<1> DEFINE sorted == InOrder(Kept, before)
<1>11. /\ Cardinality(Kept) \in Nat
       /\ DOMAIN sorted = 1 .. Cardinality(Kept)
       /\ \A k \in 1 .. Cardinality(Kept) : sorted[k] \in Kept
       /\ \A j, k \in 1 .. Cardinality(Kept) : sorted[j] = sorted[k] => j = k
       /\ \A r \in Kept : \E k \in 1 .. Cardinality(Kept) : sorted[k] = r
    BY <1>5, <1>9, InOrderOk
<1> HIDE DEF sorted
<1> QED
    BY <1>4, <1>5, <1>6, <1>10, <1>11 DEF sorted

(* What is served, and the metadata beside it. *)
LEMMA ServedOk ==
    ASSUME WalkInv, stage = "open"
    PROVE  /\ Len(entries) = Cardinality(Kept) /\ Len(entries) \in Nat
           /\ entries \in Seq(Range(entries))
           /\ DOMAIN entries = 1 .. Len(entries) /\ DOMAIN meta = 1 .. Len(entries)
           /\ \A k \in 1 .. Len(entries) :
                 \E r \in Kept : entries[k] = r.name /\ meta[k] = MetaOf(r)
           /\ \A r \in Kept : \E k \in 1 .. Len(entries) : entries[k] = r.name
           /\ \A j, k \in 1 .. Len(entries) : entries[j] = entries[k] => j = k
PROOF
<1> DEFINE sorted == SortedByName(Kept)
<1> PICK n : n = Cardinality(Kept)
    OBVIOUS
<1>1. /\ n \in Nat /\ DOMAIN sorted = 1 .. n
      /\ \A k \in 1 .. n : sorted[k] \in Kept
      /\ \A j, k \in 1 .. n : sorted[j] = sorted[k] => j = k
      /\ \A r \in Kept : \E k \in 1 .. n : sorted[k] = r
      /\ \A r, s \in Kept : r.name = s.name => r = s
    BY SortedOk
<1>2. entries = [k \in DOMAIN sorted |-> sorted[k].name] /\ meta = [k \in DOMAIN sorted |-> MetaOf(sorted[k])]
    BY DEF WalkInv, EntriesOf, MetaOfAll
<1> HIDE DEF sorted
<1>3. entries = [k \in 1 .. n |-> sorted[k].name] /\ meta = [k \in 1 .. n |-> MetaOf(sorted[k])]
    BY <1>1, <1>2
<1>4. Len(entries) = n /\ entries \in Seq(Range(entries))
    BY <1>1, <1>3 DEF Range
<1>5. /\ DOMAIN entries = 1 .. n /\ DOMAIN meta = 1 .. n
      /\ \A k \in 1 .. n : entries[k] = sorted[k].name /\ meta[k] = MetaOf(sorted[k])
    BY <1>3
<1> QED
    BY <1>1, <1>4, <1>5

LEMMA WalkInit == Init0 => WalkInv
PROOF
<1> SUFFICES ASSUME Init0 PROVE WalkInv
    OBVIOUS
<1>1. backup \in Backups /\ row = 0 /\ records = <<>> /\ missing_files = 0 /\ stage = "detect"
    BY DEF Init0, Init, Fresh
<1>2. Walked(row) = {}
    BY <1>1 DEF Walked
<1>3. /\ {r \in Walked(row) : Usable(r) /\ ~holds_blob(r.file_id)} = {}
      /\ {r \in Walked(row) : Usable(r) /\ holds_blob(r.file_id)} = {}
    BY <1>2
<1>4. Range(records) = {} /\ records \in Seq(Range(records))
    BY <1>1 DEF Range
<1>5. Cardinality({}) = 0
    BY FS_EmptySet
<1>6. row \in 0 .. Len(backup.rows)
    BY <1>1, RowsOk
<1> QED
    BY <1>1, <1>3, <1>4, <1>5, <1>6 DEF WalkInv

(* As long as the source stands, so does all that is said of it. *)
LEMMA SameOpen ==
    ASSUME UNCHANGED openVars
    PROVE  /\ WalkInv' = WalkInv
           /\ Kept' = Kept /\ Directories' = Directories /\ Names' = Names
           /\ \A id : OneBlob(id)' = OneBlob(id)
PROOF
<1> USE DEF openVars
<1>1. /\ Kept' = Kept
      /\ \A n : Walked(n)' = Walked(n)
      /\ \A id : holds_blob(id)' = holds_blob(id) /\ Stored(id)' = Stored(id)
      /\ Named("dir")' = Named("dir")
    BY DEF Kept, Decryptable, Walked, holds_blob, Stored, Named
<1>2. SortedByName(Kept)' = SortedByName(Kept)
    BY <1>1 DEF SortedByName, InOrder, Before
<1>3. EntriesOf(SortedByName(Kept))' = EntriesOf(SortedByName(Kept))
      /\ MetaOfAll(SortedByName(Kept))' = MetaOfAll(SortedByName(Kept))
    BY <1>2 DEF EntriesOf, MetaOfAll, MetaOf
<1>4. Walked(row)' = Walked(row)
    BY DEF Walked
<1>5. WalkInv' = WalkInv
    <2>1. {r \in Walked(row) : Usable(r) /\ holds_blob(r.file_id)}' = {r \in Walked(row) : Usable(r) /\ holds_blob(r.file_id)}
        BY <1>4 DEF holds_blob, Stored, Usable
    <2>2. {r \in Walked(row) : Usable(r) /\ ~holds_blob(r.file_id)}' = {r \in Walked(row) : Usable(r) /\ ~holds_blob(r.file_id)}
        BY <1>4 DEF holds_blob, Stored, Usable
    <2> QED
        BY <1>1, <1>3, <2>1, <2>2 DEF WalkInv
<1>6. Directories' = Directories
    BY DEF Directories, InOrder, Before
<1>7. Names' = Names
    BY <1>6 DEF Names
<1>8. \A id : OneBlob(id)' = OneBlob(id)
    BY DEF OneBlob, Stored
<1> QED
    BY <1>1, <1>5, <1>6, <1>7, <1>8

(* One row more. *)
LEMMA WalkFileOk == WalkInv /\ WalkFile => WalkInv'
PROOF
<1> SUFFICES ASSUME WalkInv, WalkFile PROVE WalkInv'
    OBVIOUS
<1> DEFINE r == backup.rows[row + 1]
           held(n) == {s \in Walked(n) : Usable(s) /\ holds_blob(s.file_id)}
           gone(n) == {s \in Walked(n) : Usable(s) /\ ~holds_blob(s.file_id)}
<1>1. /\ row < Len(backup.rows) /\ row' = row + 1 /\ UNCHANGED <<backup, stage>> /\ stage = "walk"
      /\ IF ~Usable(r) THEN UNCHANGED <<records, missing_files>>
          ELSE IF ~holds_blob(r.file_id)
          THEN missing_files' = missing_files + 1 /\ UNCHANGED records
          ELSE records' = Append(records, r) /\ UNCHANGED missing_files
    BY DEF WalkFile
<1>2. /\ backup \in Backups /\ row \in Nat /\ row \in 0 .. Len(backup.rows) /\ row + 1 \in DOMAIN backup.rows
      /\ Len(backup.rows) \in Nat /\ DOMAIN backup.rows = 1 .. Len(backup.rows)
    BY <1>1, RowsOk DEF WalkInv
<1>3. Walked(row + 1) = Walked(row) \cup {r}
    <2>1. 1 .. row + 1 = (1 .. row) \cup {row + 1}
        BY <1>2
    <2> QED
        BY <2>1 DEF Walked
<1>4. Usable(r) => r \notin Walked(row)
    <2> SUFFICES ASSUME Usable(r), NEW i \in 1 .. row, backup.rows[i] = r PROVE FALSE
        BY DEF Walked
    <2>1. i \in DOMAIN backup.rows /\ i # row + 1
        BY <1>2
    <2> QED
        BY <1>2, <2>1, BackupAssumption DEF Usable
<1>5. IsFiniteSet(gone(row))
    <2>1. IsFiniteSet(Range(backup.rows))
        BY <1>2, RowsOk, RangeFinite
    <2>2. gone(row) \in SUBSET Range(backup.rows)
        BY <1>2 DEF Walked, Range
    <2> HIDE DEF gone
    <2> QED
        BY <2>1, <2>2, FS_Subset
<1>6. /\ ~Usable(r) => held(row + 1) = held(row) /\ gone(row + 1) = gone(row)
      /\ Usable(r) /\ holds_blob(r.file_id) => held(row + 1) = held(row) \cup {r} /\ gone(row + 1) = gone(row)
      /\ Usable(r) /\ ~holds_blob(r.file_id) =>
             held(row + 1) = held(row) /\ gone(row + 1) = gone(row) \cup {r} /\ r \notin gone(row)
    BY <1>3, <1>4
<1>7. /\ records \in Seq(Range(records)) /\ Range(records) = held(row)
      /\ missing_files = Cardinality(gone(row))
    BY DEF WalkInv
<1>8. held(row)' = held(row + 1) /\ gone(row)' = gone(row + 1)
    BY <1>1 DEF Walked, holds_blob, Stored, Usable
<1> HIDE DEF held, gone, r
<1>9. records' \in Seq(Range(records')) /\ Range(records') = held(row + 1)
    <2>1. CASE Usable(r) /\ holds_blob(r.file_id)
        <3>1. records' = Append(records, r) /\ records \in Seq(Range(records))
            BY <1>1, <1>7, <2>1
        <3>2. records' \in Seq(Range(records')) /\ Range(records') = Range(records) \cup {r}
            BY <3>1, AppendRange
        <3> QED
            BY <1>6, <1>7, <2>1, <3>2
    <2>2. CASE ~(Usable(r) /\ holds_blob(r.file_id))
        <3>1. records' = records /\ held(row + 1) = held(row)
            BY <1>1, <1>6, <2>2
        <3> QED
            BY <1>7, <3>1
    <2> QED
        BY <2>1, <2>2
<1>10. missing_files' = Cardinality(gone(row + 1))
    <2>1. CASE Usable(r) /\ ~holds_blob(r.file_id)
        <3>1. Cardinality(gone(row) \cup {r}) = Cardinality(gone(row)) + 1
            BY <1>5, <1>6, <2>1, FS_AddElement
        <3> QED
            BY <1>1, <1>6, <1>7, <2>1, <3>1
    <2>2. CASE ~(Usable(r) /\ ~holds_blob(r.file_id))
        BY <1>1, <1>6, <1>7, <2>2
    <2> QED
        BY <2>1, <2>2
<1>11. row' \in 0 .. Len(backup'.rows)
    BY <1>1, <1>2
<1> QED
    BY <1>1, <1>2, <1>8, <1>9, <1>10, <1>11 DEF WalkInv, held, gone

LEMMA WalkNext == WalkInv /\ [Next]_vars => WalkInv'
PROOF
<1> SUFFICES ASSUME WalkInv, [Next]_vars PROVE WalkInv'
    OBVIOUS
<1>1. CASE UNCHANGED openVars
    BY <1>1, SameOpen
<1>2. CASE WalkFile
    BY <1>2, WalkFileOk
<1>3. CASE Building /\ (NotABackup \/ Detect \/ TryPassword \/ GiveUp \/ OpenDatabase)
    <2>1. UNCHANGED <<backup, row, records, missing_files>> /\ stage' # "open"
        BY <1>3 DEF NotABackup, Detect, TryPassword, GiveUp, OpenDatabase, WalkInv
    <2>2. /\ {r \in Walked(row) : Usable(r) /\ holds_blob(r.file_id)}' = {r \in Walked(row) : Usable(r) /\ holds_blob(r.file_id)}
          /\ {r \in Walked(row) : Usable(r) /\ ~holds_blob(r.file_id)}' = {r \in Walked(row) : Usable(r) /\ ~holds_blob(r.file_id)}
        BY <2>1 DEF Walked, holds_blob, Stored, Usable
    <2> QED
        BY <2>1, <2>2 DEF WalkInv
<1>4. CASE Index
    <2>1. /\ UNCHANGED <<backup, row, records, missing_files>> /\ row = Len(backup.rows)
          /\ structure'.directories = Named("dir")
          /\ entries' = EntriesOf(SortedByName(Kept)) /\ meta' = MetaOfAll(SortedByName(Kept))
        BY <1>4 DEF Index
    <2>2. /\ {r \in Walked(row) : Usable(r) /\ holds_blob(r.file_id)}' = {r \in Walked(row) : Usable(r) /\ holds_blob(r.file_id)}
          /\ {r \in Walked(row) : Usable(r) /\ ~holds_blob(r.file_id)}' = {r \in Walked(row) : Usable(r) /\ ~holds_blob(r.file_id)}
        BY <2>1 DEF Walked, holds_blob, Stored, Usable
    <2>3. Kept' = Kept /\ Named("dir")' = Named("dir")
        BY <2>1 DEF Kept, Decryptable, Named
    <2>4. SortedByName(Kept)' = SortedByName(Kept)
        BY <2>3 DEF SortedByName, InOrder, Before
    <2>5. EntriesOf(SortedByName(Kept))' = EntriesOf(SortedByName(Kept))
          /\ MetaOfAll(SortedByName(Kept))' = MetaOfAll(SortedByName(Kept))
        BY <2>4 DEF EntriesOf, MetaOfAll, MetaOf
    <2> QED
        BY <2>1, <2>2, <2>3, <2>5 DEF WalkInv
<1>5. Next => \/ UNCHANGED openVars \/ WalkFile \/ Index
              \/ Building /\ (NotABackup \/ Detect \/ TryPassword \/ GiveUp \/ OpenDatabase)
    BY DEF Next, Building, Build, NoBackup, Info, PlanDomain, NothingToRebuild, ReportPlan, Refuse, SkipTooLong,
           ExportFile, ExportSidecar, ExportFails, CreateDirectory, CreateDirectoryFails, WriteReport, WriteReportFails, Fail
<1>6. UNCHANGED vars => UNCHANGED openVars
    BY DEF vars
<1> QED
    BY <1>1, <1>2, <1>3, <1>4, <1>5, <1>6

-----------------------------------------------------------------------------
(* The command *)

(* Nothing is planned, written or printed before the backup is open, and every
   name looked at has the root of its domain. *)
PlanInv ==
    /\ named \in Nat
    /\ \A i \in 1 .. named : Names[i][1] \in DOMAIN roots
    /\ \A d \in DOMAIN roots : roots[d] = filesystem_path(d)
    /\ stage # "open" =>
           /\ named = 0 /\ roots = <<>> /\ printed = Absent /\ ~reported
           /\ destinations = <<>> /\ tree = <<>> /\ report = <<>> /\ skipped = <<>>
    /\ printed # Absent => printed.files = Len(entries) /\ printed.missing = missing_files

(* What the report says of its k-th file: while its record stands, the tree holds
   that file there. *)
FileOk(k) ==
    LET got == tree[report[k].at]
    IN  /\ report[k].at \in DOMAIN tree
        /\ \E e \in DOMAIN entries :
              /\ report[k].name = entries[e]
              /\ Standing(k) =>
                    /\ got.file_id = meta[e].file_id
                    /\ report[k].integrity = "verified" /\ OneBlob(got.file_id) => got.state = "intact"

(* An entry that was reached is in the report, written or skipped. *)
Accounted(k) ==
    LET at == destinations[k]
    IN  /\ k \in DOMAIN entries
        /\ at[1] = filesystem_path(entries[k][1]) /\ at[2] = entries[k][2]
        /\ IF at \in too_long
           THEN [name |-> entries[k], at |-> at] \in Range(skipped)
           ELSE \E j \in DOMAIN report : report[j].name = entries[k] /\ report[j].at = at

SkipOk(s) ==
    \E k \in DOMAIN destinations :
        s.name = entries[k] /\ s.at = destinations[k] /\ s.at \in too_long

(* Every entry reached has a place of its own, and each place in the tree a record
   that stands. *)
TreeInv ==
    /\ report \in Seq(Range(report)) /\ destinations \in Seq(Range(destinations))
    /\ skipped \in Seq(Range(skipped))
    /\ \A j, k \in DOMAIN destinations : destinations[j] = destinations[k] => j = k
    /\ \A k \in DOMAIN destinations : Accounted(k)
    /\ \A s \in Range(skipped) : SkipOk(s)
    /\ \A k \in DOMAIN report : FileOk(k)
    /\ \A p \in DOMAIN tree : \E k \in DOMAIN report : report[k].at = p /\ Standing(k)
    /\ reported =>
           /\ Len(destinations) = Len(entries)
           /\ \A n \in structure.directories : <<filesystem_path(n[1]), n[2], 0>> \in made

RebuildInv == WalkInv /\ PlanInv /\ TreeInv

LEMMA DirectoriesOk ==
    ASSUME WalkInv, stage = "open"
    PROVE  /\ Directories \in Seq(structure.directories)
           /\ \A n \in structure.directories : \E k \in DOMAIN Directories : Directories[k] = n
PROOF
<1> DEFINE S == structure.directories
           rows == {x \in Range(backup.rows) : x.typed /\ x.name[2] # 0 /\ x.flags = "dir"}
           before == {p \in S \X S : Before(p[1], p[2])}
           name == [r \in rows |-> r.name]
<1>1. backup \in Backups /\ S = {r.name : r \in rows}
    BY DEF WalkInv, Named
<1>2. IsFiniteSet(rows)
    <2>1. IsFiniteSet(Range(backup.rows))
        BY <1>1, RowsOk, RangeFinite
    <2>2. rows \in SUBSET Range(backup.rows)
        OBVIOUS
    <2> HIDE DEF rows
    <2> QED
        BY <2>1, <2>2, FS_Subset
<1>3. \A n \in S : n \in Nat \X Nat
    BY <1>1, RowsOk
<1> HIDE DEF rows
<1>4. IsFiniteSet(S)
    <2>1. name \in Surjection(rows, S)
        BY <1>1 DEF Surjection
    <2> HIDE DEF name, S
    <2> QED
        BY <1>2, <2>1, FS_Surjection
<1>5. \A m, n \in S : <<m, n>> \in before <=> Before(m, n)
    OBVIOUS
<1>6. Directories = InOrder(S, before)
    BY DEF Directories
<1> HIDE DEF before, S
<1>7. /\ \A m \in S : <<m, m>> \notin before
      /\ \A m, n, o \in S : <<m, n>> \in before /\ <<n, o>> \in before => <<m, o>> \in before
      /\ \A m, n \in S : m # n => <<m, n>> \in before \/ <<n, m>> \in before
    BY <1>3, <1>5, BeforeTotal
<1>8. /\ InOrder(S, before) \in Seq(S)
      /\ DOMAIN InOrder(S, before) = 1 .. Cardinality(S)
      /\ \A n \in S : \E k \in 1 .. Cardinality(S) : InOrder(S, before)[k] = n
    BY <1>4, <1>7, InOrderOk
<1> QED
    BY <1>6, <1>8 DEF S

(* The names whose domains get a root: of all files, and of all directories. *)
LEMMA NamesOk ==
    ASSUME WalkInv, stage = "open"
    PROVE  /\ Len(Names) \in Nat
           /\ \A k \in DOMAIN entries : k \in 1 .. Len(Names) /\ Names[k] = entries[k]
           /\ \A n \in structure.directories : \E k \in 1 .. Len(Names) : Names[k] = n
PROOF
<1> DEFINE S == Range(entries) \cup structure.directories
<1> PICK files, dirs : files = entries /\ dirs = Directories
    OBVIOUS
<1>1. files \in Seq(S) /\ dirs \in Seq(S)
    BY ServedOk, DirectoriesOk
<1> HIDE DEF S
<1>2. Names = files \o dirs
    BY DEF Names
<1>3. /\ Len(files) \in Nat /\ Len(dirs) \in Nat /\ Len(files \o dirs) = Len(files) + Len(dirs)
      /\ DOMAIN files = 1 .. Len(files) /\ DOMAIN dirs = 1 .. Len(dirs)
      /\ \A k \in 1 .. Len(files) : (files \o dirs)[k] = files[k]
      /\ \A k \in 1 .. Len(dirs) : (files \o dirs)[Len(files) + k] = dirs[k]
    BY <1>1
<1>4. ASSUME NEW n \in structure.directories PROVE \E k \in 1 .. Len(Names) : Names[k] = n
    <2>1. PICK k \in 1 .. Len(dirs) : dirs[k] = n
        BY <1>3, DirectoriesOk
    <2>2. Len(files) + k \in 1 .. Len(Names) /\ Names[Len(files) + k] = n
        BY <1>2, <1>3, <2>1
    <2> QED
        BY <2>2
<1>5. ASSUME NEW k \in DOMAIN entries PROVE k \in 1 .. Len(Names) /\ Names[k] = entries[k]
    BY <1>2, <1>3
<1>6. Len(Names) \in Nat
    BY <1>2, <1>3
<1> QED
    BY <1>4, <1>5, <1>6

(* A read that succeeds returns a copy that is there. *)
LEMMA ReadOk ==
    ASSUME NEW id, NEW failing, read_blob(id, failing) # Absent
    PROVE  \E l \in Stored(id) : read_blob(id, failing) = backup.stored[<<id, l>>]
PROOF
<1> DEFINE found == {i \in 1 .. Len(Layout) : Layout[i] \in Stored(id) \ failing}
           at == SelectInSeq(Layout, LAMBDA l : l \in Stored(id) \ failing)
<1>1. at = IF found # {} THEN CHOOSE x \in found : \A y \in found : x <= y ELSE 0
    BY DEF SelectInSeq, Min
<1>2. read_blob(id, failing) = IF at = 0 THEN Absent ELSE backup.stored[<<id, Layout[at]>>]
    BY DEF read_blob
<1>3. found = {i \in {1, 2} : Layout[i] \in Stored(id) \ failing}
    BY DEF Layout
<1> HIDE DEF at
<1>4. found # {} => at \in found
    <2>1. found # {} => \E x \in found : \A y \in found : x <= y
        BY <1>3
    <2> HIDE DEF found
    <2> QED
        BY <1>1, <2>1
<1>5. at # 0 /\ found # {}
    <2> HIDE DEF found
    <2> QED
        BY <1>1, <1>2
<1>6. Layout[at] \in Stored(id)
    BY <1>4, <1>5
<1> QED
    BY <1>2, <1>5, <1>6

(* There is a free variant among as many as there are places taken, and one to spare. *)
LEMMA DestinationOk ==
    ASSUME TreeInv, NEW name
    PROVE  \E n \in Nat : Destination(name) = Place(name, n) /\ Place(name, n) \notin Range(destinations)
PROOF
<1> DEFINE free == {n \in 0 .. Len(destinations) : Place(name, n) \notin Range(destinations)}
<1>1. Len(destinations) \in Nat /\ DOMAIN destinations = 1 .. Len(destinations)
    BY DEF TreeInv
<1>2. free # {}
    <2> SUFFICES ASSUME \A n \in 0 .. Len(destinations) : Place(name, n) \in Range(destinations) PROVE FALSE
        OBVIOUS
    <2> DEFINE spots == Range(destinations)
               at == [k \in 1 .. Len(destinations) |-> destinations[k]]
               variant == [n \in 0 .. Len(destinations) |-> Place(name, n)]
    <2>1. at \in Surjection(1 .. Len(destinations), spots)
        BY <1>1 DEF Range, Surjection
    <2>2. IsFiniteSet(1 .. Len(destinations)) /\ IsFiniteSet(0 .. Len(destinations))
        BY <1>1, FS_Interval
    <2>3. Cardinality(1 .. Len(destinations)) = Len(destinations)
        <3>1. Cardinality(1 .. Len(destinations)) = IF 1 > Len(destinations) THEN 0 ELSE Len(destinations) - 1 + 1
            BY <1>1, FS_Interval
        <3> QED
            BY <1>1, <3>1
    <2>4. Cardinality(0 .. Len(destinations)) = Len(destinations) + 1
        <3>1. Cardinality(0 .. Len(destinations)) = IF 0 > Len(destinations) THEN 0 ELSE Len(destinations) - 0 + 1
            BY <1>1, FS_Interval
        <3> QED
            BY <1>1, <3>1
    <2>5. variant \in [0 .. Len(destinations) -> spots]
        OBVIOUS
    <2> HIDE DEF spots, at, variant
    <2>6. IsFiniteSet(spots) /\ Cardinality(spots) <= Cardinality(1 .. Len(destinations))
        BY <2>1, <2>2, FS_Surjection
    <2>7. Cardinality(spots) \in Nat
        BY <2>6, FS_CardinalityType
    <2>8. Cardinality(spots) < Cardinality(0 .. Len(destinations))
        BY <1>1, <2>3, <2>4, <2>6, <2>7
    <2>9. PICK m, n \in 0 .. Len(destinations) : m # n /\ variant[m] = variant[n]
        BY <2>2, <2>5, <2>6, <2>8, FS_PigeonHole
    <2> QED
        BY <2>9 DEF variant, Place
<1>3. free \in SUBSET Nat
    BY <1>1
<1> HIDE DEF free
<1>4. \E m \in free : \A n \in free : m <= n
    BY <1>2, <1>3, LeastNatural
<1>5. Min(free) \in free
    BY <1>4 DEF Min
<1>6. Destination(name) = Place(name, Min(free))
    BY DEF Destination, free
<1> QED
    BY <1>3, <1>5, <1>6 DEF free

LEMMA RebuildInit == Init0 => RebuildInv
PROOF
<1> SUFFICES ASSUME Init0 PROVE RebuildInv
    OBVIOUS
<1>1. /\ stage = "detect" /\ printed = Absent /\ named = 0 /\ roots = <<>>
      /\ destinations = <<>> /\ tree = <<>> /\ report = <<>> /\ skipped = <<>> /\ made = {} /\ reported = FALSE
    BY DEF Init0, Init
<1>2. PlanInv
    BY <1>1 DEF PlanInv
<1>3. TreeInv
    BY <1>1 DEF TreeInv, Range
<1> QED
    BY <1>2, <1>3, WalkInit DEF RebuildInv

LEMMA PlanNext == RebuildInv /\ [Next]_vars => PlanInv'
PROOF
<1> SUFFICES ASSUME RebuildInv, [Next]_vars PROVE PlanInv'
    OBVIOUS
<1>a. WalkInv /\ PlanInv
    BY DEF RebuildInv
<1> USE DEF rebuildVars, openVars
<1>1. CASE Building
    <2>1. stage # "open" /\ UNCHANGED rebuildVars
        BY <1>1 DEF Building, Build, NotABackup, Detect, TryPassword, GiveUp, OpenDatabase, WalkFile, Index
    <2>2. named' = 0 /\ roots' = <<>> /\ printed' = Absent /\ ~reported'
          /\ destinations' = <<>> /\ tree' = <<>> /\ report' = <<>> /\ skipped' = <<>>
        BY <1>a, <2>1 DEF PlanInv
    <2> QED
        BY <2>2 DEF PlanInv
<1>2. ASSUME UNCHANGED openVars, UNCHANGED <<named, roots>>,
             stage = "open" \/ UNCHANGED <<exportVars, reported>>,
             \/ UNCHANGED printed
             \/ stage = "open" /\ printed' = [password |-> provenance, files |-> Len(entries), missing |-> missing_files]
      PROVE  PlanInv'
    <2>1. Names' = Names
        BY <1>2, SameOpen
    <2>2. \A d : filesystem_path(d)' = filesystem_path(d)
        BY DEF filesystem_path
    <2> QED
        BY <1>2, <1>a, <2>1, <2>2 DEF PlanInv, exportVars
<1>3. CASE PlanDomain
    <2> DEFINE d == Names[named + 1][1]
    <2>1. /\ UNCHANGED <<openVars, printed, exportVars, reported>> /\ stage = "open" /\ named' = named + 1
          /\ IF d \in DOMAIN roots THEN UNCHANGED roots
             ELSE roots' = [x \in DOMAIN roots \cup {d} |-> IF x = d THEN filesystem_path(d) ELSE roots[x]]
        BY <1>3 DEF PlanDomain, Ready
    <2>2. Names' = Names
        BY <2>1, SameOpen
    <2>3. named \in Nat /\ (\A i \in 1 .. named : Names[i][1] \in DOMAIN roots) /\ (\A x \in DOMAIN roots : roots[x] = filesystem_path(x))
          /\ (printed # Absent => printed.files = Len(entries) /\ printed.missing = missing_files)
        BY <1>a DEF PlanInv
    <2> HIDE DEF d
    <2>4. DOMAIN roots' = DOMAIN roots \cup {d} /\ \A x \in DOMAIN roots' : roots'[x] = filesystem_path(x)
        BY <2>1, <2>3
    <2>5. \A i \in 1 .. named + 1 : Names[i][1] \in DOMAIN roots \cup {d}
        BY <2>3 DEF d
    <2>6. \A x : filesystem_path(x)' = filesystem_path(x)
        BY DEF filesystem_path
    <2> QED
        BY <2>1, <2>2, <2>3, <2>4, <2>5, <2>6 DEF PlanInv, exportVars
<1>4. CASE NoBackup \/ NothingToRebuild \/ ExportFails \/ CreateDirectoryFails \/ WriteReportFails
    <2>1. UNCHANGED openVars /\ UNCHANGED <<named, roots, exportVars, reported, printed>>
        BY <1>4 DEF NoBackup, NothingToRebuild, ExportFails, CreateDirectoryFails, WriteReportFails, Fail
    <2> QED
        BY <1>2, <2>1
<1>5. CASE Info \/ Refuse \/ ReportPlan
    <2>1. /\ UNCHANGED openVars /\ UNCHANGED <<named, roots, exportVars, reported>> /\ stage = "open"
          /\ \/ UNCHANGED printed
             \/ printed' = [password |-> provenance, files |-> Len(entries), missing |-> missing_files]
        BY <1>5 DEF Info, Refuse, ReportPlan, Exporting, Planned, Ready, Finish
    <2> QED
        BY <1>2, <2>1
<1>7. CASE SkipTooLong \/ ExportFile \/ ExportSidecar \/ CreateDirectory
    <2>1. UNCHANGED openVars /\ UNCHANGED <<named, roots, printed>> /\ stage = "open"
        BY <1>7 DEF SkipTooLong, ExportFile, ExportSidecar, Writing, CreateDirectory, FilesOut, Exporting, Planned, Ready
    <2> QED
        BY <1>2, <2>1
<1>8. CASE WriteReport
    <2>1. /\ UNCHANGED openVars /\ UNCHANGED <<named, roots>> /\ stage = "open"
          /\ printed' = [password |-> provenance, files |-> Len(entries), missing |-> missing_files]
        BY <1>8 DEF WriteReport, FilesOut, Exporting, Planned, Ready, Finish
    <2> QED
        BY <1>2, <2>1
<1>9. CASE UNCHANGED vars
    <2>1. UNCHANGED openVars /\ UNCHANGED <<named, roots, exportVars, reported, printed>>
        BY <1>9 DEF vars, exportVars
    <2> QED
        BY <1>2, <2>1
<1> QED
    BY <1>1, <1>3, <1>4, <1>5, <1>7, <1>8, <1>9 DEF Next

(* What an entry's bytes leave behind: a further record, which stands. *)
LEMMA WriteOk ==
    ASSUME TreeInv, UNCHANGED openVars, NEW k \in DOMAIN entries, NEW at, NEW lost, NEW failing,
           WriteEntry(k, at, content(k, lost), failing)
    PROVE  /\ report' \in Seq(Range(report'))
           /\ DOMAIN report' = DOMAIN report \cup {Len(report) + 1}
           /\ \A j \in DOMAIN report : report'[j] = report[j]
           /\ report'[Len(report) + 1].name = entries[k] /\ report'[Len(report) + 1].at = at
           /\ \A j \in DOMAIN report' : FileOk(j)'
           /\ \A p \in DOMAIN tree' : \E j \in DOMAIN report' : report'[j].at = p /\ Standing(j)'
PROOF
<1> PICK new : new = Len(report) + 1
    OBVIOUS
<1> DEFINE r == [name |-> entries[k], at |-> at, integrity |-> integrity_check(k, failing)]
<1> PICK got, m : got = content(k, lost) /\ m = meta[k]
    OBVIOUS
<1>1. /\ got # Absent
      /\ tree' = [p \in DOMAIN tree \cup {at} |-> IF p = at THEN got ELSE tree[p]]
      /\ report' = Append(report, r)
    BY DEF WriteEntry
<1>2. /\ report \in Seq(Range(report))
      /\ \A j \in DOMAIN report : FileOk(j)
      /\ \A p \in DOMAIN tree : \E j \in DOMAIN report : report[j].at = p /\ Standing(j)
    BY DEF TreeInv
<1>3. /\ got = [file_id |-> m.file_id, state |-> read_blob(m.file_id, lost)]
      /\ read_blob(m.file_id, lost) # Absent
    BY <1>1 DEF content
<1>4. integrity_check(k, failing) = "verified" /\ OneBlob(m.file_id) => read_blob(m.file_id, lost) = "intact"
    <2> SUFFICES ASSUME integrity_check(k, failing) = "verified", OneBlob(m.file_id)
                 PROVE  read_blob(m.file_id, lost) = "intact"
        OBVIOUS
    <2>1. read_blob(m.file_id, failing) # Absent /\ read_blob(m.file_id, failing) = "intact"
        BY DEF integrity_check, attest
    <2>2. PICK l \in Stored(m.file_id) : read_blob(m.file_id, lost) = backup.stored[<<m.file_id, l>>]
        BY <1>3, ReadOk
    <2>3. PICK l2 \in Stored(m.file_id) : read_blob(m.file_id, failing) = backup.stored[<<m.file_id, l2>>]
        BY <2>1, ReadOk
    <2> QED
        BY <2>1, <2>2, <2>3 DEF OneBlob
<1>5. /\ report' \in Seq(Range(report')) /\ DOMAIN report' = DOMAIN report \cup {new}
      /\ Len(report) \in Nat /\ DOMAIN report = 1 .. Len(report)
      /\ \A j \in DOMAIN report : report'[j] = report[j]
      /\ report'[new] = r
    <2> PICK q : q = r
        OBVIOUS
    <2>1. report' = Append(report, q)
        BY <1>1
    <2> HIDE DEF r
    <2>2. /\ Append(report, q) \in Seq(Range(Append(report, q)))
          /\ Len(report) \in Nat /\ DOMAIN report = 1 .. Len(report)
          /\ DOMAIN Append(report, q) = 1 .. Len(report) + 1
          /\ \A i \in 1 .. Len(report) : Append(report, q)[i] = report[i]
          /\ Append(report, q)[Len(report) + 1] = q
        BY <1>2, AppendRange
    <2>3. 1 .. Len(report) + 1 = (1 .. Len(report)) \cup {Len(report) + 1}
        BY <2>2
    <2> QED
        BY <2>1, <2>2, <2>3
<1>6. /\ DOMAIN tree' = DOMAIN tree \cup {at} /\ tree'[at] = got
      /\ \A p \in DOMAIN tree : p # at => tree'[p] = tree[p]
    BY <1>1
<1>7. r.name = entries[k] /\ r.at = at /\ r.integrity = integrity_check(k, failing)
    OBVIOUS
<1>8. got.file_id = m.file_id /\ got.state = read_blob(m.file_id, lost)
    BY <1>3
<1>9. /\ \A id : OneBlob(id)' = OneBlob(id)
      /\ UNCHANGED <<entries, meta>>
    BY SameOpen DEF openVars
<1> HIDE DEF r
<1>10. /\ new \notin DOMAIN report /\ Standing(new)'
       /\ \A j \in DOMAIN report : new > j
    <2>1. \A j \in DOMAIN report : new > j
        BY <1>5
    <2>2. \A j \in DOMAIN report' : ~(j > new)
        BY <1>5, <2>1
    <2> QED
        BY <2>1, <2>2 DEF Standing
<1>11. ASSUME NEW j \in DOMAIN report
       PROVE  /\ Standing(j)' => Standing(j) /\ report[j].at # at
              /\ Standing(j) /\ report[j].at # at => Standing(j)'
    <2>1. new > j /\ report'[new].at = at /\ new \in DOMAIN report'
        BY <1>5, <1>7, <1>10
    <2>2. Standing(j)' = \A i \in DOMAIN report' : i > j => report'[i].at # report'[j].at
        BY DEF Standing
    <2> QED
        BY <1>5, <2>1, <2>2 DEF Standing
<1>12. ASSUME NEW j \in DOMAIN report' PROVE FileOk(j)'
    <2>1. CASE j \in DOMAIN report
        <3>1. FileOk(j) /\ report'[j] = report[j]
            BY <1>2, <1>5, <2>1
        <3>2. PICK e \in DOMAIN entries :
                  /\ report[j].name = entries[e]
                  /\ Standing(j) =>
                        /\ tree[report[j].at].file_id = meta[e].file_id
                        /\ report[j].integrity = "verified" /\ OneBlob(tree[report[j].at].file_id)
                              => tree[report[j].at].state = "intact"
            BY <3>1 DEF FileOk
        <3>3. report[j].at \in DOMAIN tree
            BY <3>1 DEF FileOk
        <3>4. Standing(j)' => Standing(j) /\ tree'[report'[j].at] = tree[report[j].at]
            BY <1>6, <1>11, <2>1, <3>1, <3>3
        <3> QED
            BY <1>6, <1>9, <3>1, <3>2, <3>3, <3>4 DEF FileOk
    <2>2. CASE j = new
        <3>1. report'[j] = r /\ tree'[report'[j].at] = got /\ report'[j].at \in DOMAIN tree'
            BY <1>5, <1>6, <1>7, <2>2
        <3>2. /\ k \in DOMAIN entries' /\ report'[j].name = entries'[k] /\ tree'[report'[j].at].file_id = meta'[k].file_id
              /\ report'[j].integrity = "verified" /\ OneBlob(got.file_id)' => got.state = "intact"
            BY <1>4, <1>7, <1>8, <1>9, <3>1
        <3> QED
            BY <3>1, <3>2 DEF FileOk
    <2> QED
        BY <1>5, <2>1, <2>2
<1>13. ASSUME NEW p \in DOMAIN tree'
       PROVE  \E j \in DOMAIN report' : report'[j].at = p /\ Standing(j)'
    <2>1. CASE p = at
        <3>1. new \in DOMAIN report' /\ report'[new].at = p /\ Standing(new)'
            BY <1>5, <1>7, <1>10, <2>1
        <3> QED
            BY <3>1
    <2>2. CASE p # at
        <3>1. PICK j \in DOMAIN report : report[j].at = p /\ Standing(j)
            BY <1>2, <1>6, <2>2
        <3> QED
            BY <1>5, <1>11, <2>2, <3>1
    <2> QED
        BY <2>1, <2>2
<1> QED
    BY <1>5, <1>7, <1>12, <1>13

(* The next entry's place: under its domain's mount point, and taken by no other. *)
LEMMA NextPlace ==
    ASSUME RebuildInv, Writing, NEW at, at = Destination(entries[Turn]),
           destinations' = Append(destinations, at)
    PROVE  /\ Turn \in DOMAIN entries /\ Turn \notin DOMAIN destinations /\ ~reported
           /\ destinations' \in Seq(Range(destinations'))
           /\ DOMAIN destinations' = DOMAIN destinations \cup {Turn}
           /\ \A j \in DOMAIN destinations : destinations'[j] = destinations[j]
           /\ destinations'[Turn] = at
           /\ \A i, j \in DOMAIN destinations' : destinations'[i] = destinations'[j] => i = j
           /\ at[1] = filesystem_path(entries[Turn][1]) /\ at[2] = entries[Turn][2]
PROOF
<1>1. WalkInv /\ PlanInv /\ TreeInv /\ stage = "open" /\ named = Len(Names) /\ Turn <= Len(entries)
    BY DEF RebuildInv, Writing, Exporting, Planned, Ready
<1>2. /\ destinations' \in Seq(Range(destinations'))
      /\ Len(destinations) \in Nat /\ DOMAIN destinations = 1 .. Len(destinations)
      /\ DOMAIN destinations' = 1 .. Len(destinations) + 1
      /\ \A j \in 1 .. Len(destinations) : destinations'[j] = destinations[j]
      /\ destinations'[Len(destinations) + 1] = at
    <2>1. destinations \in Seq(Range(destinations))
        BY <1>1 DEF TreeInv
    <2> QED
        BY <2>1, AppendRange
<1>3. Len(entries) \in Nat /\ DOMAIN entries = 1 .. Len(entries)
    BY <1>1, ServedOk
<1>4. Turn \in DOMAIN entries /\ Turn \notin DOMAIN destinations /\ Len(destinations) # Len(entries)
      /\ DOMAIN destinations' = DOMAIN destinations \cup {Turn} /\ destinations'[Turn] = at
    <2> PICK n, d : n = Len(destinations) /\ d = Len(entries)
        OBVIOUS
    <2>1. n \in Nat /\ d \in Nat /\ Turn = n + 1 /\ Turn <= d
        BY <1>1, <1>2, <1>3 DEF Turn
    <2>2. Turn \in 1 .. d /\ Turn \notin 1 .. n /\ n # d /\ 1 .. n + 1 = (1 .. n) \cup {Turn}
        BY <2>1
    <2> QED
        BY <1>2, <1>3, <2>1, <2>2
<1>5. PICK n \in Nat : at = Place(entries[Turn], n) /\ at \notin Range(destinations)
    <2> PICK name : name = entries[Turn]
        OBVIOUS
    <2>1. \E n \in Nat : Destination(name) = Place(name, n) /\ Place(name, n) \notin Range(destinations)
        BY <1>1, DestinationOk
    <2> QED
        BY <2>1
<1>6. at[1] = filesystem_path(entries[Turn][1]) /\ at[2] = entries[Turn][2]
    <2>1. Turn \in 1 .. Len(Names) /\ Names[Turn] = entries[Turn]
        BY <1>1, <1>4, NamesOk
    <2>2. entries[Turn][1] \in DOMAIN roots
        BY <1>1, <2>1 DEF PlanInv
    <2> QED
        BY <1>1, <1>5, <2>2 DEF PlanInv, Place
<1>7. \A j \in DOMAIN destinations : destinations[j] # at
    BY <1>5 DEF Range
<1>8. \A i, j \in DOMAIN destinations' : destinations'[i] = destinations'[j] => i = j
    BY <1>1, <1>2, <1>4, <1>7 DEF TreeInv
<1>9. ~reported
    BY <1>1, <1>4 DEF TreeInv
<1> QED
    BY <1>2, <1>4, <1>6, <1>8, <1>9

(* Who was accounted for stays so: records are only added. *)
LEMMA StayAccounted ==
    ASSUME UNCHANGED <<openVars, too_long>>, NEW k \in DOMAIN destinations, Accounted(k),
           destinations'[k] = destinations[k],
           \A j \in DOMAIN report : j \in DOMAIN report' /\ report'[j] = report[j],
           Range(skipped) \subseteq Range(skipped')
    PROVE  Accounted(k)'
PROOF
<1>1. UNCHANGED entries /\ \A d : filesystem_path(d)' = filesystem_path(d)
    BY DEF openVars, filesystem_path
<1>2. /\ k \in DOMAIN entries' /\ destinations'[k][1] = filesystem_path(entries[k][1])
      /\ destinations'[k][2] = entries'[k][2]
    BY <1>1 DEF Accounted
<1>3. IF destinations'[k] \in too_long'
      THEN [name |-> entries'[k], at |-> destinations'[k]] \in Range(skipped')
      ELSE \E j \in DOMAIN report' : report'[j].name = entries'[k] /\ report'[j].at = destinations'[k]
    BY <1>1 DEF Accounted
<1> QED
    BY <1>1, <1>2, <1>3 DEF Accounted

LEMMA StaySkipped ==
    ASSUME UNCHANGED <<openVars, too_long>>, NEW s, SkipOk(s),
           \A k \in DOMAIN destinations : k \in DOMAIN destinations' /\ destinations'[k] = destinations[k]
    PROVE  SkipOk(s)'
  BY DEF SkipOk, openVars

(* A further file is written at a place of its own. *)
LEMMA ExportFileOk == RebuildInv /\ ExportFile => TreeInv'
PROOF
<1> SUFFICES ASSUME RebuildInv, ExportFile PROVE TreeInv'
    OBVIOUS
<1>a. TreeInv
    BY DEF RebuildInv
<1> PICK at : at = Destination(entries[Turn])
    OBVIOUS
<1>1. /\ Writing /\ at \notin too_long /\ destinations' = Append(destinations, at)
      /\ UNCHANGED <<openVars, too_long, skipped, made, reported>>
    BY DEF ExportFile
<1>2. PICK lost, lostAgain \in Failing : WriteEntry(Turn, at, content(Turn, lost), lostAgain)
    BY DEF ExportFile
<1>3. /\ Turn \in DOMAIN entries /\ Turn \notin DOMAIN destinations /\ ~reported
      /\ destinations' \in Seq(Range(destinations'))
      /\ DOMAIN destinations' = DOMAIN destinations \cup {Turn}
      /\ \A j \in DOMAIN destinations : destinations'[j] = destinations[j]
      /\ destinations'[Turn] = at
      /\ \A i, j \in DOMAIN destinations' : destinations'[i] = destinations'[j] => i = j
      /\ at[1] = filesystem_path(entries[Turn][1]) /\ at[2] = entries[Turn][2]
    BY <1>1, NextPlace
<1> PICK k \in DOMAIN entries : k = Turn
    BY <1>3
<1>4. WriteEntry(k, at, content(k, lost), lostAgain)
    BY <1>2
<1>5. /\ report' \in Seq(Range(report'))
      /\ DOMAIN report' = DOMAIN report \cup {Len(report) + 1}
      /\ \A j \in DOMAIN report : report'[j] = report[j]
      /\ report'[Len(report) + 1].name = entries[k] /\ report'[Len(report) + 1].at = at
      /\ \A j \in DOMAIN report' : FileOk(j)'
      /\ \A p \in DOMAIN tree' : \E j \in DOMAIN report' : report'[j].at = p /\ Standing(j)'
    BY <1>1, <1>4, <1>a, WriteOk
<1>6. UNCHANGED entries /\ \A d : filesystem_path(d)' = filesystem_path(d)
    BY <1>1 DEF openVars, filesystem_path
<1>7. ASSUME NEW j \in DOMAIN destinations' PROVE Accounted(j)'
    <2>1. CASE j \in DOMAIN destinations
        <3>1. Accounted(j)
            BY <1>a, <2>1 DEF TreeInv
        <3> QED
            BY <1>1, <1>3, <1>5, <2>1, <3>1, StayAccounted
    <2>2. CASE j = k
        <3>1. destinations'[j] = at /\ destinations'[j] \notin too_long' /\ j \in DOMAIN entries'
            BY <1>1, <1>3, <1>6, <2>2
        <3>2. \E i \in DOMAIN report' : report'[i].name = entries'[j] /\ report'[i].at = at
            BY <1>5, <1>6, <2>2
        <3> QED
            BY <1>3, <1>6, <2>2, <3>1, <3>2 DEF Accounted
    <2> QED
        BY <1>3, <2>1, <2>2
<1>8. ASSUME NEW s \in Range(skipped') PROVE SkipOk(s)'
    <2>1. SkipOk(s)
        BY <1>1, <1>a DEF TreeInv
    <2> QED
        BY <1>1, <1>3, <2>1, StaySkipped
<1>9. ~reported' /\ skipped' \in Seq(Range(skipped'))
    BY <1>1, <1>3, <1>a DEF TreeInv
<1> QED
    BY <1>3, <1>5, <1>7, <1>8, <1>9 DEF TreeInv

(* One whose path is too long is recorded instead. *)
LEMMA SkipTooLongOk == RebuildInv /\ SkipTooLong => TreeInv'
PROOF
<1> SUFFICES ASSUME RebuildInv, SkipTooLong PROVE TreeInv'
    OBVIOUS
<1>a. TreeInv
    BY DEF RebuildInv
<1> PICK at : at = Destination(entries[Turn])
    OBVIOUS
<1> PICK record : record = [name |-> entries[Turn], at |-> at]
    OBVIOUS
<1>1. /\ Writing /\ at \in too_long /\ destinations' = Append(destinations, at)
      /\ skipped' = Append(skipped, record)
      /\ UNCHANGED <<openVars, too_long, tree, report, made, reported>>
    BY DEF SkipTooLong
<1>2. /\ Turn \in DOMAIN entries /\ Turn \notin DOMAIN destinations /\ ~reported
      /\ destinations' \in Seq(Range(destinations'))
      /\ DOMAIN destinations' = DOMAIN destinations \cup {Turn}
      /\ \A j \in DOMAIN destinations : destinations'[j] = destinations[j]
      /\ destinations'[Turn] = at
      /\ \A i, j \in DOMAIN destinations' : destinations'[i] = destinations'[j] => i = j
      /\ at[1] = filesystem_path(entries[Turn][1]) /\ at[2] = entries[Turn][2]
    BY <1>1, NextPlace
<1>3. skipped' \in Seq(Range(skipped')) /\ Range(skipped') = Range(skipped) \cup {record}
    <2>1. skipped \in Seq(Range(skipped))
        BY <1>a DEF TreeInv
    <2> QED
        BY <1>1, <2>1, AppendRange
<1>4. UNCHANGED <<entries, meta>> /\ (\A d : filesystem_path(d)' = filesystem_path(d))
      /\ (\A id : OneBlob(id)' = OneBlob(id)) /\ \A j : Standing(j)' = Standing(j)
    BY <1>1, SameOpen DEF openVars, filesystem_path, Standing
<1>5. ASSUME NEW j \in DOMAIN destinations' PROVE Accounted(j)'
    <2>1. CASE j \in DOMAIN destinations
        <3>1. Accounted(j)
            BY <1>a, <2>1 DEF TreeInv
        <3> QED
            BY <1>1, <1>2, <1>3, <2>1, <3>1, StayAccounted
    <2>2. CASE j = Turn
        <3>1. /\ destinations'[j] = at /\ destinations'[j] \in too_long' /\ j \in DOMAIN entries'
              /\ [name |-> entries'[j], at |-> destinations'[j]] \in Range(skipped')
            BY <1>1, <1>2, <1>3, <1>4, <2>2
        <3> QED
            BY <1>2, <1>4, <2>2, <3>1 DEF Accounted
    <2> QED
        BY <1>2, <2>1, <2>2
<1>6. ASSUME NEW s \in Range(skipped') PROVE SkipOk(s)'
    <2>1. CASE s \in Range(skipped)
        <3>1. SkipOk(s)
            BY <1>a, <2>1 DEF TreeInv
        <3> QED
            BY <1>1, <1>2, <3>1, StaySkipped
    <2>2. CASE s = record
        <3>1. s.name = entries'[Turn] /\ s.at = destinations'[Turn] /\ s.at \in too_long' /\ Turn \in DOMAIN destinations'
            BY <1>1, <1>2, <1>4, <2>2
        <3> QED
            BY <3>1 DEF SkipOk
    <2> QED
        BY <1>3, <2>1, <2>2
<1>7. ASSUME NEW j \in DOMAIN report' PROVE FileOk(j)'
    BY <1>1, <1>4, <1>a DEF TreeInv, FileOk
<1>8. /\ report' \in Seq(Range(report')) /\ ~reported'
      /\ \A p \in DOMAIN tree' : \E j \in DOMAIN report' : report'[j].at = p /\ Standing(j)'
    BY <1>1, <1>2, <1>4, <1>a DEF TreeInv
<1> QED
    BY <1>2, <1>3, <1>5, <1>6, <1>7, <1>8 DEF TreeInv

(* A sidecar may go over what is there: that record stands no longer. *)
LEMMA ExportSidecarOk == RebuildInv /\ ExportSidecar => TreeInv'
PROOF
<1> SUFFICES ASSUME RebuildInv, ExportSidecar PROVE TreeInv'
    OBVIOUS
<1>a. TreeInv
    BY DEF RebuildInv
<1> PICK at : at = Beside(destinations[Len(destinations)], Head(pending))
    OBVIOUS
<1>1. UNCHANGED <<openVars, too_long, destinations, skipped, made, reported>>
    BY DEF ExportSidecar
<1>2. PICK k \in DOMAIN entries, lost \in Failing, lostAgain \in Failing :
          WriteEntry(k, at, content(k, lost), lostAgain)
    BY DEF ExportSidecar
<1>3. /\ report' \in Seq(Range(report'))
      /\ DOMAIN report' = DOMAIN report \cup {Len(report) + 1}
      /\ \A j \in DOMAIN report : report'[j] = report[j]
      /\ \A j \in DOMAIN report' : FileOk(j)'
      /\ \A p \in DOMAIN tree' : \E j \in DOMAIN report' : report'[j].at = p /\ Standing(j)'
    BY <1>1, <1>2, <1>a, WriteOk
<1>4. ASSUME NEW j \in DOMAIN destinations' PROVE Accounted(j)'
    <2>1. Accounted(j) /\ j \in DOMAIN destinations
        BY <1>1, <1>a DEF TreeInv
    <2> QED
        BY <1>1, <1>3, <2>1, StayAccounted
<1>5. ASSUME NEW s \in Range(skipped') PROVE SkipOk(s)'
    <2>1. SkipOk(s)
        BY <1>1, <1>a DEF TreeInv
    <2> QED
        BY <1>1, <2>1, StaySkipped
<1>6. (reported => /\ Len(destinations) = Len(entries)
                   /\ \A n \in structure.directories : <<filesystem_path(n[1]), n[2], 0>> \in made)'
    <2>1. reported => /\ Len(destinations) = Len(entries)
                      /\ \A n \in structure.directories : <<filesystem_path(n[1]), n[2], 0>> \in made
        BY <1>a DEF TreeInv
    <2>2. UNCHANGED <<reported, destinations, entries, structure, made>> /\ \A d : filesystem_path(d)' = filesystem_path(d)
        BY <1>1 DEF openVars, filesystem_path
    <2> QED
        BY <2>1, <2>2
<1> QED
    BY <1>1, <1>3, <1>4, <1>5, <1>6, <1>a DEF TreeInv

LEMMA TreeNext == RebuildInv /\ [Next]_vars => TreeInv'
PROOF
<1> SUFFICES ASSUME RebuildInv, [Next]_vars PROVE TreeInv'
    OBVIOUS
<1>a. WalkInv /\ PlanInv /\ TreeInv
    BY DEF RebuildInv
<1> USE DEF rebuildVars
<1>1. CASE Building
    <2>1. stage # "open" /\ UNCHANGED rebuildVars
        BY <1>1 DEF Building, Build, NotABackup, Detect, TryPassword, GiveUp, OpenDatabase, WalkFile, Index
    <2>2. destinations' = <<>> /\ report' = <<>> /\ tree' = <<>> /\ skipped' = <<>> /\ ~reported'
        BY <1>a, <2>1 DEF PlanInv
    <2> QED
        BY <2>2 DEF TreeInv, Range
<1>2. ASSUME UNCHANGED openVars, UNCHANGED exportVars, made \subseteq made',
             reported' # reported => Len(destinations) = Len(entries) /\ ToMake \subseteq made /\ Planned
      PROVE  TreeInv'
    <2>1. /\ \A d : filesystem_path(d)' = filesystem_path(d)
          /\ \A id : OneBlob(id)' = OneBlob(id)
          /\ \A j : Standing(j)' = Standing(j)
          /\ UNCHANGED <<entries, meta, structure>>
          /\ UNCHANGED <<too_long, destinations, tree, report, skipped>>
        BY <1>2, SameOpen DEF filesystem_path, openVars, exportVars, Standing
    <2>2. ASSUME NEW j \in DOMAIN report PROVE FileOk(j)'
        BY <1>2, <1>a, <2>1 DEF TreeInv, FileOk
    <2>4. ASSUME NEW j \in DOMAIN destinations PROVE Accounted(j)'
        BY <1>2, <1>a, <2>1 DEF TreeInv, Accounted
    <2>5. ASSUME NEW s \in Range(skipped) PROVE SkipOk(s)'
        BY <1>2, <1>a, <2>1 DEF TreeInv, SkipOk
    <2>3. reported' => /\ Len(destinations) = Len(entries)
                       /\ \A n \in structure.directories : <<filesystem_path(n[1]), n[2], 0>> \in made'
        <3>1. CASE reported' = reported
            BY <1>2, <1>a, <3>1 DEF TreeInv
        <3>2. CASE Len(destinations) = Len(entries) /\ ToMake \subseteq made /\ Planned
            <4>1. ASSUME NEW n \in structure.directories
                  PROVE  <<filesystem_path(n[1]), n[2], 0>> \in made
                <5>1. stage = "open" /\ named = Len(Names)
                    BY <3>2 DEF Planned, Ready
                <5>2. \E i \in 1 .. Len(Names) : Names[i] = n
                    BY <1>a, <5>1, NamesOk
                <5>3. n[1] \in DOMAIN roots
                    BY <1>a, <5>1, <5>2 DEF PlanInv
                <5>4. roots[n[1]] = filesystem_path(n[1])
                    BY <1>a, <5>3 DEF PlanInv
                <5>5. tree_dir(n) \in ToMake
                    BY <5>3 DEF ToMake
                <5> QED
                    BY <3>2, <5>4, <5>5 DEF tree_dir, Place
            <4> QED
                BY <1>2, <3>2, <4>1
        <3> QED
            BY <1>2, <3>1, <3>2
    <2> QED
        BY <1>2, <1>a, <2>1, <2>2, <2>3, <2>4, <2>5 DEF TreeInv
<1>3. CASE SkipTooLong \/ ExportFile \/ ExportSidecar
    BY <1>3, SkipTooLongOk, ExportFileOk, ExportSidecarOk
<1>4. CASE \/ NoBackup \/ NothingToRebuild \/ ExportFails \/ CreateDirectoryFails \/ WriteReportFails
           \/ Info \/ Refuse \/ ReportPlan \/ PlanDomain \/ CreateDirectory \/ UNCHANGED vars
    <2>1. UNCHANGED openVars /\ UNCHANGED exportVars /\ reported' = reported /\ made \subseteq made'
        BY <1>4 DEF NoBackup, NothingToRebuild, ExportFails, CreateDirectoryFails, WriteReportFails, Fail,
                    Info, Refuse, ReportPlan, PlanDomain, CreateDirectory, vars, exportVars
    <2> QED
        BY <1>2, <2>1
<1>5. CASE WriteReport
    <2>1. /\ UNCHANGED openVars /\ UNCHANGED exportVars /\ made \subseteq made'
          /\ Len(destinations) = Len(entries) /\ ToMake \subseteq made /\ Planned
        BY <1>5 DEF WriteReport, FilesOut, Exporting
    <2> QED
        BY <1>2, <2>1
<1> QED
    BY <1>1, <1>3, <1>4, <1>5 DEF Next

LEMMA RebuildAlways == Spec => []RebuildInv
PROOF
<1>1. RebuildInv /\ [Next]_vars => RebuildInv'
    BY WalkNext, PlanNext, TreeNext DEF RebuildInv
<1> QED
    BY <1>1, RebuildInit, PTL DEF Spec

-----------------------------------------------------------------------------
(* A digest reported as verified vouches for the file that was written, although
   the blob is read once to write it and once to check it (attest). *)
THEOREM VerifiedHonest == Spec => []VerifiedIsOriginal
PROOF
<1>1. RebuildInv => VerifiedIsOriginal
    <2> SUFFICES ASSUME RebuildInv, NEW k \in DOMAIN report, Standing(k), report[k].integrity = "verified",
                        OneBlob(tree[report[k].at].file_id)
                 PROVE  tree[report[k].at].state = "intact"
        BY DEF VerifiedIsOriginal
    <2>1. FileOk(k)
        BY DEF RebuildInv, TreeInv
    <2> QED
        BY <2>1 DEF FileOk
<1> QED
    BY <1>1, RebuildAlways, PTL

LEMMA RowOfEntry ==
    ASSUME WalkInv, stage = "open", NEW e \in DOMAIN entries
    PROVE  meta[e].file_id = RowOf(entries[e]).file_id
PROOF
<1>1. PICK r \in Kept : entries[e] = r.name /\ meta[e] = MetaOf(r)
    BY ServedOk
<1>2. r \in Listed /\ \A s \in Listed : s.name = r.name => s = r
    BY SortedOk DEF Listed, Usable
<1>3. RowOf(r.name) = r
    BY <1>2 DEF RowOf
<1> QED
    BY <1>1, <1>3 DEF MetaOf

(* What is written under a file's path, or beside it as a sidecar, was made from
   the blob of its own row (build_entries, name_index, export_sidecars). *)
THEOREM ContentIsOwn == Spec => []OwnContent
PROOF
<1>1. RebuildInv => OwnContent
    <2> SUFFICES ASSUME RebuildInv, NEW k \in DOMAIN report, Standing(k)
                 PROVE  tree[report[k].at].file_id = RowOf(report[k].name).file_id
        BY DEF OwnContent
    <2>1. WalkInv /\ PlanInv /\ FileOk(k)
        BY DEF RebuildInv, TreeInv
    <2>2. stage = "open"
        BY <2>1 DEF PlanInv
    <2>3. PICK e \in DOMAIN entries : report[k].name = entries[e] /\ tree[report[k].at].file_id = meta[e].file_id
        BY <2>1 DEF FileOk
    <2> QED
        BY <2>1, <2>2, <2>3, RowOfEntry
<1> QED
    BY <1>1, RebuildAlways, PTL

(* When the export report is there, every file served has a place of its own under
   the mount point of its domain, and is there, or gone under another's sidecar
   that the report records, or listed by the report as too long to be written; and
   every directory record has been created (plan, distinct_domains, write_one,
   create_directories). *)
THEOREM RebuildIsComplete == Spec => []RebuildComplete
PROOF
<1>1. RebuildInv => RebuildComplete
    <2> SUFFICES ASSUME RebuildInv, reported PROVE RebuildComplete
        BY DEF RebuildComplete
    <2>1. WalkInv /\ PlanInv /\ TreeInv
        BY DEF RebuildInv
    <2>2. stage = "open" /\ Len(destinations) = Len(entries)
        BY <2>1 DEF PlanInv, TreeInv
    <2>3. DOMAIN destinations = DOMAIN entries
        BY <2>1, <2>2, ServedOk DEF TreeInv
    <2>4. \A j, k \in DOMAIN entries : destinations[j] = destinations[k] => j = k
        BY <2>1, <2>3 DEF TreeInv
    <2>5. ASSUME NEW k \in DOMAIN entries PROVE Accounted(k)
        BY <2>1, <2>3 DEF TreeInv
    <2>6. ASSUME NEW k \in DOMAIN entries, destinations[k] \notin too_long
          PROVE  \/ tree[destinations[k]].file_id = RowOf(entries[k]).file_id
                 \/ \E j \in DOMAIN report : report[j].at = destinations[k] /\ report[j].name # entries[k]
        <3> PICK at : at = destinations[k]
            OBVIOUS
        <3>1. PICK j \in DOMAIN report : report[j].at = at
            BY <2>5, <2>6 DEF Accounted
        <3>2. at \in DOMAIN tree
            <4>1. FileOk(j)
                BY <2>1 DEF TreeInv
            <4> QED
                BY <3>1, <4>1 DEF FileOk
        <3>3. PICK i \in DOMAIN report : report[i].at = at /\ Standing(i)
            BY <2>1, <3>2 DEF TreeInv
        <3>4. PICK e \in DOMAIN entries : report[i].name = entries[e] /\ tree[at].file_id = meta[e].file_id
            <4>1. FileOk(i)
                BY <2>1 DEF TreeInv
            <4> QED
                BY <3>3, <4>1 DEF FileOk
        <3>5. meta[e].file_id = RowOf(entries[e]).file_id
            BY <2>1, <2>2, RowOfEntry
        <3> QED
            BY <3>3, <3>4, <3>5
    <2>7. ASSUME NEW s \in Range(skipped)
          PROVE  \E k \in DOMAIN entries : s.name = entries[k] /\ s.at = destinations[k] /\ s.at \in too_long
        BY <2>1, <2>3 DEF TreeInv, SkipOk
    <2>8. ASSUME NEW r \in Range(backup.rows), r.typed, r.flags = "dir", r.name[2] # 0
          PROVE  <<filesystem_path(r.name[1]), r.name[2], 0>> \in made
        <3>1. r.name \in structure.directories
            BY <2>1, <2>2, <2>8 DEF WalkInv, Named
        <3> QED
            BY <2>1, <3>1 DEF TreeInv
    <2>9. ASSUME NEW k \in DOMAIN entries
          PROVE  LET at == destinations[k]
                     record == [name |-> entries[k], at |-> at]
                 IN /\ at[1] = filesystem_path(entries[k][1]) /\ at[2] = entries[k][2]
                    /\ IF at \in too_long THEN record \in Range(skipped)
                       ELSE /\ \E j \in DOMAIN report : report[j].name = entries[k] /\ report[j].at = at
                            /\ \/ tree[at].file_id = RowOf(entries[k]).file_id
                               \/ \E j \in DOMAIN report : report[j].at = at /\ report[j].name # entries[k]
        BY <2>5, <2>6 DEF Accounted
    <2> QED
        BY <2>2, <2>4, <2>7, <2>8, <2>9 DEF RebuildComplete
<1> QED
    BY <1>1, RebuildAlways, PTL

(* Every regular file that the manifest lists is served, counted as missing, or
   carries no key (read_present_files, build_entries). *)
THEOREM FilesAreAccounted == Spec => []FilesAccounted
PROOF
<1>1. RebuildInv => FilesAccounted
    <2> SUFFICES ASSUME RebuildInv, printed # Absent PROVE FilesAccounted
        BY DEF FilesAccounted
    <2> DEFINE keyless == {r \in Listed : backup.encrypted /\ r.mb.key = Absent /\ Stored(r.file_id) # {}}
               gone == {r \in Listed : Stored(r.file_id) = {}}
    <2>1. WalkInv /\ PlanInv
        BY DEF RebuildInv
    <2>2. stage = "open" /\ printed.files = Len(entries) /\ printed.missing = missing_files
        BY <2>1 DEF PlanInv
    <2>3. Walked(row) = Range(backup.rows)
        <3>1. row = Len(backup.rows) /\ backup \in Backups
            BY <2>1, <2>2 DEF WalkInv
        <3> QED
            BY <3>1, RowsOk DEF Walked, Range
    <2>4. /\ Range(records) = {r \in Listed : Stored(r.file_id) # {}}
          /\ missing_files = Cardinality(gone)
        <3>1. \A r : r \in Listed <=> r \in Walked(row) /\ Usable(r)
            BY <2>3 DEF Listed, Usable
        <3>2. {r \in Walked(row) : Usable(r) /\ ~holds_blob(r.file_id)} = gone
            BY <3>1 DEF holds_blob
        <3>3. {r \in Walked(row) : Usable(r) /\ holds_blob(r.file_id)} = {r \in Listed : Stored(r.file_id) # {}}
            BY <3>1 DEF holds_blob
        <3> QED
            BY <2>1, <3>2, <3>3 DEF WalkInv
    <2>5. Kept = {x \in Listed \ keyless : Stored(x.file_id) # {}}
        BY <2>4 DEF Kept, Decryptable
    <2>6. Listed = (gone \cup keyless) \cup Kept /\ gone \cap keyless = {} /\ (gone \cup keyless) \cap Kept = {}
        BY <2>5
    <2>7. IsFiniteSet(Listed)
        <3>1. IsFiniteSet(Range(backup.rows))
            BY <2>1, RowsOk, RangeFinite DEF WalkInv
        <3>2. Listed \in SUBSET Range(backup.rows)
            BY DEF Listed
        <3> QED
            BY <3>1, <3>2, FS_Subset
    <2>8. keyless \in SUBSET Listed /\ gone \in SUBSET Listed /\ Kept \in SUBSET Listed
        BY <2>5
    <2> HIDE DEF keyless, gone
    <2>9. IsFiniteSet(keyless) /\ IsFiniteSet(gone) /\ IsFiniteSet(Kept)
        BY <2>7, <2>8, FS_Subset
    <2>10. Cardinality(keyless) \in Nat /\ Cardinality(gone) \in Nat /\ Cardinality(Kept) \in Nat
        BY <2>9, FS_CardinalityType
    <2>11. IsFiniteSet(gone \cup keyless)
           /\ Cardinality(gone \cup keyless) = Cardinality(gone) + Cardinality(keyless) - Cardinality(gone \cap keyless)
        BY <2>9, FS_Union
    <2>12. Cardinality((gone \cup keyless) \cup Kept)
           = Cardinality(gone \cup keyless) + Cardinality(Kept) - Cardinality((gone \cup keyless) \cap Kept)
        BY <2>9, <2>11, FS_Union
    <2>13. Cardinality({}) = 0
        BY FS_EmptySet
    <2>14. Cardinality(Listed) = printed.files + printed.missing + Cardinality(keyless)
        <3>1. printed.files = Cardinality(Kept) /\ printed.missing = Cardinality(gone)
            BY <2>1, <2>2, <2>4, ServedOk
        <3>2. Cardinality(gone \cup keyless) = Cardinality(gone) + Cardinality(keyless) - 0
            BY <2>6, <2>11, <2>13
        <3>3. Cardinality(Listed) = Cardinality(gone \cup keyless) + Cardinality(Kept) - 0
            BY <2>6, <2>12, <2>13
        <3> QED
            BY <2>10, <3>1, <3>2, <3>3
    <2>15. Range(entries) = {r.name : r \in Kept}
        <3>1. /\ DOMAIN entries = 1 .. Len(entries)
              /\ \A k \in 1 .. Len(entries) : \E r \in Kept : entries[k] = r.name
              /\ \A r \in Kept : \E k \in 1 .. Len(entries) : entries[k] = r.name
            BY <2>1, <2>2, ServedOk
        <3> QED
            BY <3>1 DEF Range
    <2> QED
        BY <2>5, <2>14, <2>15 DEF FilesAccounted, keyless
<1> QED
    BY <1>1, RebuildAlways, PTL

=============================================================================
