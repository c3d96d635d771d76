----------------------------- MODULE ZipReader ------------------------------
(***************************************************************************)
(* A ZIP archive opened and its entries attested: ZipSource over a map     *)
(* (core/source/zip.rs) and RangedZipSource over positioned reads          *)
(* (core/source/ranged.rs), which share the directory's decoding.          *)
(*                                                                         *)
(* An archive is described by its records: the end record and what it      *)
(* points to, the directory's headers with their 32-bit fields and ZIP64   *)
(* extra values, the local headers by offset, and the payloads by range.   *)
(* A record the program decodes wrongly leads it to a range that is none.  *)
(***************************************************************************)
EXTENDS Naturals, Sequences, FiniteSets, SequencesExt, FiniteSetsExt, Ordering

CONSTANTS TAIL_LEN,    \* bytes a ranged open reads from the end
          Saturated,   \* a 32-bit field of all ones
          None

VARIABLES zip, io_mode, zip_entries, crcs, attested, zip_pc

zipVars == <<zip, io_mode, zip_entries, crcs, attested, zip_pc>>

EOCD_MIN == 22
LOCATOR_LEN == 20
ZIP64_EOCD_LEN == 56
LFH_FIXED == 30

-----------------------------------------------------------------------------
(* The directory.  `base` is where the bytes at hand begin: 0 for a map. *)

base(mode) == IF mode = "mmap" THEN 0 ELSE zip.size - Min({TAIL_LEN, zip.size})

eocd == zip.size - EOCD_MIN - zip.comment
z64_abs == eocd - LOCATOR_LEN - ZIP64_EOCD_LEN - zip.sector

find_cd_location(mode) ==
    /\ zip.end # "absent"
    /\ eocd >= base(mode)
    /\ zip.end = "zip64" => /\ eocd - LOCATOR_LEN >= base(mode)
                            /\ zip.locator
                            /\ z64_abs >= base(mode)

(* The values of the extra field come in this order, saturated fields only. *)
Z64Order == [uncomp |-> 1, comp |-> 2, offset |-> 3]

Wanted(h) == {f \in DOMAIN Z64Order : h[f] = Saturated}
Place(h, f) == Cardinality({g \in Wanted(h) : Z64Order[g] <= Z64Order[f]})

Field(h, f) == IF h[f] = Saturated THEN h.extra[Place(h, f)] ELSE h[f]

decodes(h) == h.sound /\ (Wanted(h) = {} \/ h.extra # None)

parse_cd_headers == \A i \in DOMAIN zip.cd : decodes(zip.cd[i])

CdEntry(h) ==
    [name |-> h.name, method |-> h.method, crc32 |-> h.crc32, comp_size |-> Field(h, "comp"),
     uncomp_size |-> Field(h, "uncomp"), local_offset |-> Field(h, "offset")]

Searchable(h) == h.method \in {"stored", "deflate"}

CdEntries ==
    LET kept == Picked(zip.cd, {i \in DOMAIN zip.cd : Searchable(zip.cd[i])})
    IN  [i \in DOMAIN kept |-> CdEntry(kept[i])]

-----------------------------------------------------------------------------
(* An entry's bytes. *)

local_data_offset(off) ==
    IF off \in DOMAIN zip.local /\ zip.local[off].sound
    THEN off + LFH_FIXED + zip.local[off].lengths ELSE None

(* Mutant: the lengths of the local header are taken to be the directory's. *)
DataStartFromDirectory(off) ==
    IF off \in DOMAIN zip.local /\ zip.local[off].sound THEN off + LFH_FIXED ELSE None

(* Ranged: the same header, through a read of its own. *)
data_start(off) == local_data_offset(off)

Payload(start, len) ==
    IF <<start, len>> \in DOMAIN zip.payload THEN zip.payload[<<start, len>>]
    ELSE [crc32 |-> None, inflates |-> None]

read_range(e, start) ==
    IF start = None \/ start + e.comp_size > zip.size THEN None
    ELSE LET p == Payload(start, e.comp_size)
         IN IF e.method = "deflate" /\ p.inflates # e.uncomp_size THEN None
            ELSE [start |-> start, len |-> e.comp_size, crc32 |-> p.crc32]

archive_data_start(mode, e) == IF mode = "mmap" THEN e.data_offset ELSE data_start(e.local_offset)

content(mode, e) == read_range(e, archive_data_start(mode, e))

-----------------------------------------------------------------------------
(* Mapped, every local header is resolved at once, and one bad one is the end. *)

Resolved(e) ==
    [f \in DOMAIN e \cup {"data_offset"} |->
        IF f = "data_offset" THEN local_data_offset(e.local_offset) ELSE e[f]]

Opens(mode) ==
    /\ find_cd_location(mode)
    /\ parse_cd_headers
    /\ mode = "mmap" => \A i \in DOMAIN CdEntries : local_data_offset(CdEntries[i].local_offset) # None

Entries(mode) ==
    [i \in DOMAIN CdEntries |-> IF mode = "mmap" THEN Resolved(CdEntries[i]) ELSE CdEntries[i]]

(* Recorded digests: those of the entries, looked up by name from the first on;
   ranged, a map by name, in which the last one stays. *)
Expected(mode, name) ==
    LET same == {i \in DOMAIN zip_entries : zip_entries[i].name = name}
    IN crcs[IF mode = "mmap" THEN Min(same) ELSE Max(same)]

(* `reads` is whether the entry's bytes can be read this time. *)
integrity_check(e, reads) ==
    LET c == content(io_mode, e) IN
    IF Expected(io_mode, e.name) = 0 \/ c = None \/ ~reads THEN "unrecorded"
    ELSE IF c.crc32 = Expected(io_mode, e.name) THEN "verified" ELSE "mismatch"

-----------------------------------------------------------------------------
Begin(z, mode) ==
    /\ zip' = z /\ io_mode' = mode
    /\ zip_entries' = <<>> /\ crcs' = <<>> /\ attested' = <<>>
    /\ zip_pc' = "open"

(* Mutant: the digests are those of all the headers, the skipped ones too. *)
OpenZipShifted ==
    /\ zip_pc = "open" /\ Opens(io_mode)
    /\ zip_entries' = Entries(io_mode)
    /\ crcs' = [i \in DOMAIN CdEntries |-> zip.cd[i].crc32]
    /\ zip_pc' = "opened"
    /\ UNCHANGED <<zip, io_mode, attested>>

OpenZip ==
    /\ zip_pc = "open" /\ Opens(io_mode)
    /\ zip_entries' = Entries(io_mode)
    /\ crcs' = [i \in DOMAIN CdEntries |-> CdEntries[i].crc32]
    /\ zip_pc' = "opened"
    /\ UNCHANGED <<zip, io_mode, attested>>

OpenZipFails ==
    /\ zip_pc = "open" /\ ~Opens(io_mode)
    /\ zip_pc' = "failed"
    /\ UNCHANGED <<zip, io_mode, zip_entries, crcs, attested>>

(* An export asks for each entry in turn; a positioned read may fail. *)
Attest ==
    /\ zip_pc = "opened" /\ Len(attested) < Len(zip_entries)
    /\ \E reads \in IF io_mode = "mmap" THEN {TRUE} ELSE BOOLEAN :
           attested' = Append(attested, integrity_check(zip_entries[Len(attested) + 1], reads))
    /\ UNCHANGED <<zip, io_mode, zip_entries, crcs, zip_pc>>

ZipNext == OpenZip \/ OpenZipFails \/ Attest

=============================================================================
