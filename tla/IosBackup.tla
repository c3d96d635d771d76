----------------------------- MODULE IosBackup ------------------------------
(***************************************************************************)
(* An iOS backup read as files under their logical names:                  *)
(* platform/ios/backup/{profile,password,common,manifest}.rs and           *)
(* source/{encrypted,plain}.rs.                                            *)
(*                                                                         *)
(* A name is <<domain, relative path>>, both naturals in the order of the  *)
(* names; relative path 0 is the empty one.  A backup is a record: what    *)
(* its files say, row by row, and which blobs are stored in which state.   *)
(* A row is typed if its domain, path and flags are; its mb is Absent      *)
(* unless its id is text and its file column holds a readable MBFile.      *)
(***************************************************************************)
EXTENDS Naturals, Sequences, FiniteSets, SequencesExt, Ordering

CONSTANTS Backups,          \* the sources the command may be given
          DefaultPasswords, \* tried in this order when none is supplied
          Passwords,        \* those an operator may supply
          Absent            \* no password, key, digest, record, ...

ASSUME BackupAssumption ==
    /\ DefaultPasswords \in Seq(Range(DefaultPasswords))
    /\ {Absent, "supplied"} \cap (Passwords \cup Range(DefaultPasswords)) = {}
    /\ Absent # "supplied"
    /\ \A b \in Backups :
          /\ b.encrypted \in BOOLEAN
          /\ b.rows \in Seq(Range(b.rows)) /\ \A r \in Range(b.rows) : r.name \in Nat \X Nat
          (* The table's key is a hash of the domain and the path. *)
          /\ \A i, j \in DOMAIN b.rows :
                b.rows[i].typed /\ b.rows[j].typed /\ b.rows[i].name = b.rows[j].name => i = j

VARIABLES backup,     \* the source
          supplied,   \* --backup-password or its environment variable
          stage,      \* what build() does next
          tried,      \* candidates that did not unlock the keybag
          class_keys, \* the classes whose key is recovered
          provenance, \* Absent, "supplied", or the default that worked
          row,        \* rows of Files walked
          records,    \* usable files whose blob is stored
          missing_files,
          structure,  \* names of the directory and symlink rows
          entries,    \* the logical names served, sorted
          meta        \* beside them, how to find and decrypt each

openVars == <<backup, supplied, stage, tried, class_keys, provenance, row, records,
              missing_files, structure, entries, meta>>

Before(m, n) == m[1] < n[1] \/ (m[1] = n[1] /\ m[2] < n[2])

-----------------------------------------------------------------------------
(* Blobs.  `stored` maps <<file id, layout>> to the state of that blob; a read
   is retried in the flat layout whether the sharded one is absent or fails. *)

BlobState == {"intact", "altered", "torn"}
Layout == <<"sharded", "flat">>

Stored(id) == {l \in Range(Layout) : <<id, l>> \in DOMAIN backup.stored}

holds_blob(id) == Stored(id) # {}

(* `failing` is the set of layouts in which this read fails. *)
read_blob(id, failing) ==
    LET at == SelectInSeq(Layout, LAMBDA l : l \in Stored(id) \ failing)
    IN IF at = 0 THEN Absent ELSE backup.stored[<<id, Layout[at]>>]

(* The recorded digest is that of the blob as it was stored. *)
AttestTrusting(m, failing) ==
    IF m.digest = Absent THEN "unrecorded"
    ELSE IF read_blob(m.file_id, failing) \in {"intact", Absent} THEN "verified" ELSE "mismatch"
attest(m, failing) ==
    LET state == read_blob(m.file_id, failing)
    IN IF m.digest = Absent \/ state = Absent THEN "unrecorded"
       ELSE IF state = "intact" THEN "verified" ELSE "mismatch"

-----------------------------------------------------------------------------
Fresh ==
    /\ tried = 0 /\ class_keys = {} /\ provenance = Absent
    /\ row = 0 /\ records = <<>> /\ missing_files = 0
    /\ structure = [directories |-> {}, symlinks |-> {}]
    /\ entries = <<>> /\ meta = <<>>

Init ==
    /\ backup \in Backups
    /\ supplied \in Passwords \cup {Absent}
    /\ stage = "detect"
    /\ Fresh

(* Not recognised: the command gets the plain files instead. *)
NotABackup ==
    /\ stage = "detect" /\ backup.manifest = "unreadable"
    /\ stage' = "raw"
    /\ UNCHANGED <<backup, supplied, tried, class_keys, provenance, row, records,
                   missing_files, structure, entries, meta>>

Detect ==
    /\ stage = "detect" /\ backup.manifest # "unreadable"
    /\ stage' = IF backup.encrypted THEN "unlock" ELSE "database"
    /\ UNCHANGED <<backup, supplied, tried, class_keys, provenance, row, records,
                   missing_files, structure, entries, meta>>

CandidatesWithFallback ==
    IF supplied = Absent THEN DefaultPasswords ELSE <<supplied>> \o DefaultPasswords
Candidates == IF supplied = Absent THEN DefaultPasswords ELSE <<supplied>>

(* The password is right when some class key unwraps; a keybag without
   passcode-wrapped classes yields no keys and counts as not unlocked. *)
Unlocks(password) == password = backup.password /\ backup.classes # {}

TryPassword ==
    /\ stage = "unlock" /\ tried < Len(Candidates)
    /\ LET candidate == Candidates[tried + 1]
       IN IF Unlocks(candidate)
          THEN /\ class_keys' = backup.classes
               /\ provenance' = IF supplied # Absent THEN "supplied" ELSE candidate
               /\ stage' = "database" /\ UNCHANGED tried
          ELSE tried' = tried + 1 /\ UNCHANGED <<class_keys, provenance, stage>>
    /\ UNCHANGED <<backup, supplied, row, records, missing_files, structure, entries, meta>>

GiveUp ==
    /\ stage = "unlock" /\ tried = Len(Candidates)
    /\ stage' = "failed"
    /\ UNCHANGED <<backup, supplied, tried, class_keys, provenance, row, records,
                   missing_files, structure, entries, meta>>

(* Manifest.db: its key belongs to a class that may not have been recovered. *)
OpenDatabase ==
    /\ stage = "database"
    /\ stage' = IF backup.encrypted /\ backup.manifest_class \notin class_keys
                THEN "failed" ELSE "walk"
    /\ UNCHANGED <<backup, supplied, tried, class_keys, provenance, row, records,
                   missing_files, structure, entries, meta>>

(* A regular file, with a path and a record that parse_mbfile can read. *)
UsableAnyFlag(r) == r.typed /\ r.name[2] # 0 /\ r.mb # Absent
Usable(r) == r.typed /\ r.flags = "file" /\ r.name[2] # 0 /\ r.mb # Absent

WalkFile ==
    /\ stage = "walk" /\ row < Len(backup.rows)
    /\ row' = row + 1
    /\ LET r == backup.rows[row + 1]
       IN IF ~Usable(r) THEN UNCHANGED <<records, missing_files>>
          ELSE IF ~holds_blob(r.file_id)
          THEN missing_files' = missing_files + 1 /\ UNCHANGED records
          ELSE records' = Append(records, r) /\ UNCHANGED missing_files
    /\ UNCHANGED <<backup, supplied, stage, tried, class_keys, provenance, structure,
                   entries, meta>>

Named(flags) ==
    {r.name : r \in {x \in Range(backup.rows) :
                        x.typed /\ x.name[2] # 0 /\ x.flags = flags}}

(* An encrypted backup cannot serve a file that carries no key. *)
Decryptable(r) == backup.encrypted => r.mb.key # Absent

MetaOf(r) == [file_id |-> r.file_id, class |-> r.mb.class, key |-> r.mb.key,
              digest |-> r.mb.digest]

Kept == {r \in Range(records) : Decryptable(r)}

SortedByName(rs) == InOrder(rs, {p \in rs \X rs : Before(p[1].name, p[2].name)})

EntriesOf(rs) == [k \in DOMAIN rs |-> rs[k].name]

(* Mutant of MetaOfAll: the metadata are collected before the records are sorted. *)
MetaInTableOrder(rs) ==
    LET kept == SelectSeq(records, Decryptable) IN [k \in DOMAIN kept |-> MetaOf(kept[k])]
MetaOfAll(rs) == [k \in DOMAIN rs |-> MetaOf(rs[k])]

Index ==
    /\ stage = "walk" /\ row = Len(backup.rows)
    /\ stage' = "open"
    /\ structure' = [directories |-> Named("dir"), symlinks |-> Named("link")]
    /\ entries' = EntriesOf(SortedByName(Kept))
    /\ meta' = MetaOfAll(SortedByName(Kept))
    /\ UNCHANGED <<backup, supplied, tried, class_keys, provenance, row, records,
                   missing_files>>

Build == NotABackup \/ Detect \/ TryPassword \/ GiveUp \/ OpenDatabase \/ WalkFile \/ Index

-----------------------------------------------------------------------------
(* Content of the k-th entry: the id and state of the blob it was made from, or
   Absent when it cannot be had.  An unwrapped key is checked, so a key of
   another class does not pass; CBC refuses what is not whole blocks. *)
content(k, failing) ==
    LET m == meta[k]
        state == read_blob(m.file_id, failing)
        refused == backup.encrypted /\ (\/ m.class \notin class_keys
                                        \/ m.key = "corrupt"
                                        \/ state = "torn")
    IN IF state = Absent \/ refused THEN Absent
       ELSE [file_id |-> m.file_id, state |-> state]

integrity_check(k, failing) == attest(meta[k], failing)

=============================================================================
