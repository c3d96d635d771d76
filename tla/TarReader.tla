----------------------------- MODULE TarReader ------------------------------
(***************************************************************************)
(* TarSource (core/source/tar.rs): the walk over the header blocks of a    *)
(* tar stream, one header a step.                                          *)
(*                                                                         *)
(* A stream is a sequence of blocks of BLOCK bytes, of which the first     *)
(* `len` bytes exist.  A block is a header, a zero block, the text of a    *)
(* long name or of PAX records, or data; data may hold headers of its own, *)
(* as when the member is a tar file.  An archive records beside its        *)
(* stream what its writer put in: no action reads that.                    *)
(***************************************************************************)
EXTENDS Naturals, Sequences, FiniteSets, SequencesExt

CONSTANTS BLOCK,       \* bytes of a block
          ArenaBudget, \* NESTED_ARENA_BUDGET
          Bare,        \* Bare[n]: n without a leading "./"
          CutName,     \* a name of which the end is missing
          None

VARIABLES archive, pos, long_name, pax_path, pax_size, tar_entries, tar_pc

tarVars == <<archive, pos, long_name, pax_path, pax_size, tar_entries, tar_pc>>

Block(p) == archive.blocks[p \div BLOCK + 1]

checksum_ok(b) == b.kind = "header" /\ b.sound

(* What can be read of a long name or of PAX records in the n bytes at p. *)
NoText == [path |-> None, size |-> None]
Text(p, n) == IF n > 0 /\ Block(p).kind = "text" THEN Block(p).text ELSE NoText
Fits(p, n) == n > 0 /\ Block(p).kind = "text" /\ Block(p).length <= n

-----------------------------------------------------------------------------
Size == IF pax_size # None THEN pax_size ELSE Block(pos).size

data_start == pos + BLOCK
data_end == data_start + Size
Padded(n) == ((n + BLOCK - 1) \div BLOCK) * BLOCK

(* A sound header whose size is readable and whose data is all there. *)
Readable ==
    /\ pos + BLOCK <= archive.len
    /\ checksum_ok(Block(pos))
    /\ Size # None
    /\ data_end <= archive.len

Header(types) ==
    /\ tar_pc = "walk" /\ Readable /\ Block(pos).type \in types
    /\ pos' = data_start + Padded(Size)
    /\ UNCHANGED <<archive, tar_pc>>

TakenName ==
    Bare[CASE long_name # None -> long_name
           [] long_name = None /\ pax_path # None -> pax_path
           [] OTHER -> Block(pos).name]

(* take_name() consumes the override it used, and leaves the other. *)
TakeName ==
    /\ long_name' = None
    /\ pax_path' = IF long_name # None THEN pax_path ELSE None
    /\ pax_size' = None

-----------------------------------------------------------------------------
Begin(a) ==
    /\ archive' = a /\ tar_pc' = "open"
    /\ pos' = 0 /\ long_name' = None /\ pax_path' = None /\ pax_size' = None
    /\ tar_entries' = <<>>

(* A gzip stream is inflated whole, within the budget, or not opened at all. *)
Open ==
    /\ tar_pc = "open"
    /\ tar_pc' = IF archive.gz /\ (archive.gz_cut \/ archive.len > ArenaBudget)
                 THEN "failed" ELSE "walk"
    /\ UNCHANGED <<archive, pos, long_name, pax_path, pax_size, tar_entries>>

LongName ==
    /\ Header({"L"})
    /\ long_name' = IF Fits(data_start, Size) THEN Text(data_start, Size).path ELSE CutName
    /\ pax_size' = None
    /\ UNCHANGED <<pax_path, tar_entries>>

(* Records are read until one runs past the end of the header's data. *)
PaxHeader ==
    /\ Header({"x", "g"})
    /\ LET recs == IF Fits(data_start, Size) THEN Text(data_start, Size) ELSE NoText
       IN /\ pax_path' = IF recs.path # None THEN recs.path ELSE pax_path
          /\ pax_size' = recs.size
    /\ UNCHANGED <<long_name, tar_entries>>

Entry(type, len) ==
    [name |-> TakenName, type |-> type, data_offset |-> data_start, data_len |-> len]

RegularFile ==
    /\ Header({"0", "7"})
    /\ tar_entries' = Append(tar_entries, Entry("file", Size))
    /\ TakeName

Directory ==
    /\ Header({"5"})
    /\ tar_entries' = Append(tar_entries, Entry("dir", 0))
    /\ TakeName

(* Mutant: what was meant for a link is kept for the next file. *)
OtherTypeKeeps ==
    /\ tar_pc = "walk" /\ Readable /\ Block(pos).type \notin {"0", "7", "5", "L", "x", "g"}
    /\ Header({Block(pos).type}) /\ pax_size' = None
    /\ UNCHANGED <<long_name, pax_path, tar_entries>>

(* Links, devices, long link names: passed over, with what was meant for them. *)
OtherType ==
    /\ tar_pc = "walk" /\ Readable /\ Block(pos).type \notin {"0", "7", "5", "L", "x", "g"}
    /\ Header({Block(pos).type})
    /\ long_name' = None /\ pax_path' = None /\ pax_size' = None
    /\ UNCHANGED tar_entries

(* A zero block, the end, a bad checksum, an unreadable size, or data cut off. *)
StopWalk ==
    /\ tar_pc = "walk" /\ ~Readable
    /\ tar_pc' = "listed"
    /\ UNCHANGED <<archive, pos, long_name, pax_path, pax_size, tar_entries>>

TarNext ==
    \/ Open \/ LongName \/ PaxHeader \/ RegularFile \/ Directory \/ OtherType \/ StopWalk

-----------------------------------------------------------------------------
(* What an opened source answers. *)

(* content(): the bytes [start, end) of the stream, if they are there. *)
content(e) ==
    IF e.data_offset + e.data_len <= archive.len
    THEN <<e.data_offset, e.data_offset + e.data_len>> ELSE None

physical == ~archive.gz

archive_data_start(e) == IF physical THEN e.data_offset ELSE None

=============================================================================
