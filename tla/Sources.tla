------------------------------ MODULE Sources -------------------------------
(***************************************************************************)
(* From the operands to the sources they stand for, opened one after       *)
(* another: resolve_sources() and with_operand_source() of                 *)
(* cmd/support/sources.rs, over the readers of core/source.  A source that *)
(* does not open ends the command.                                         *)
(*                                                                         *)
(* A file shows one face to the tar reader and one to the ZIP reader; its  *)
(* name decides which of them reads it.  What is `inside` a source is told *)
(* of its entries in the order of the listing; of an encrypted backup,     *)
(* whose inside is the subject of IosBackup, whether it is unlocked and    *)
(* what it then shows.                                                     *)
(***************************************************************************)
EXTENDS Naturals, Sequences, FiniteSets, SequencesExt, FiniteSetsExt, Ordering

CONSTANTS BLOCK, ArenaBudget, Bare, CutName, TAIL_LEN, Saturated, None

ASSUME SourcesAssumption ==
    /\ BLOCK \in Nat \ {0}
    /\ \A n \in DOMAIN Bare : Bare[n] \in Nat
    /\ CutName \in DOMAIN Bare /\ None \notin DOMAIN Bare
    /\ TAIL_LEN \in Nat /\ TAIL_LEN >= 64 * 1024 + 128
    /\ None \notin Nat /\ None \notin Seq(Nat) /\ None \notin [source : Nat, default : BOOLEAN]
    /\ None \notin {"tar", "archive", "folder", "open", "walk", "listed", "opened", "expand", "done", "failed"}

VARIABLES operand,  \* the paths given, and the options that apply to them
          sources,  \* what they resolve to
          turn,     \* the source being opened
          reader,   \* which reader is at work, or None
          command,  \* how far the command has come
          facts,    \* BackupProvenance: the cell that a recognised backup fills
          archive, pos, long_name, pax_path, pax_size, tar_entries, tar_pc,
          zip, io_mode, zip_entries, crcs, attested, zip_pc,
          tree, todo, entries, blobs, budget, stack, call, scan_pc

ownVars == <<operand, sources, turn, reader, command, facts>>
tarVars == <<archive, pos, long_name, pax_path, pax_size, tar_entries, tar_pc>>
zipVars == <<zip, io_mode, zip_entries, crcs, attested, zip_pc>>
scanVars == <<tree, todo, entries, blobs, budget, stack, call, scan_pc>>
readerVars == <<tarVars, zipVars, scanVars>>

TarFile == INSTANCE TarReader
ZipFile == INSTANCE ZipReader
Folder == INSTANCE FolderScan

-----------------------------------------------------------------------------
(* What may be opened: files as they are written, cut off or damaged at any place. *)

Name == Seq(Nat) \ {<<>>}

(* Of a tar file: member k begins where the one before it ends. *)
Start(a, k) == IF k = 1 THEN 0 ELSE a.ends[k - 1]
At(a, p) == a.blocks[p \div BLOCK + 1]

FlagType(flag) == CASE flag \in {"0", "7"} -> "file" [] flag = "5" -> "dir" [] OTHER -> "other"

(* A sound header at p, and all of the data behind it. *)
Stands(a, p, size) ==
    /\ p + BLOCK <= a.len
    /\ At(a, p).kind = "header" /\ At(a, p).sound /\ size # None
    /\ p + BLOCK + size <= a.len

(* The header of member m. *)
Heads(a, p, name, size, m) ==
    /\ Stands(a, p, size) /\ size \in Nat /\ name \in DOMAIN Bare
    /\ At(a, p).type \notin {"L", "x", "g"} /\ m.type = FlagType(At(a, p).type)
    /\ m.type # "other" =>
           m = [name |-> Bare[name], type |-> m.type, data_offset |-> p + BLOCK,
                data_len |-> IF m.type = "dir" THEN 0 ELSE size]

(* A header of which the text tells the next one's name, or size, or nothing of it. *)
Tells(a, p) ==
    LET header == At(a, p)
        told == At(a, p + BLOCK)
    IN /\ Stands(a, p, header.size)
       /\ header.type \in {"L", "x", "g"} /\ header.size = BLOCK
       /\ told.kind = "text" /\ told.length <= BLOCK /\ (header.type = "L" => told.text.path # None)

Behind(p) == p + 2 * BLOCK
ToldName(a, p) ==
    LET told == At(a, p + BLOCK).text IN IF told.path # None THEN told.path ELSE At(a, Behind(p)).name
ToldSize(a, p) ==
    LET told == At(a, p + BLOCK).text
    IN IF At(a, p).type # "L" /\ told.size # None THEN told.size ELSE At(a, Behind(p)).size

WellWritten(a, k) ==
    LET p == Start(a, k)
        m == a.members[k]
    IN \/ /\ Heads(a, p, At(a, p).name, At(a, p).size, m)
          /\ a.ends[k] = p + BLOCK + TarFile!Padded(At(a, p).size)
       \/ /\ Tells(a, p) /\ Heads(a, Behind(p), ToldName(a, p), ToldSize(a, p), m)
          /\ a.ends[k] = Behind(p) + BLOCK + TarFile!Padded(ToldSize(a, p))

(* Behind the last whole member the stream ends, or a header does not stand. *)
Breaks(a) ==
    LET p == Start(a, a.whole + 1) IN
    \/ ~Stands(a, p, At(a, p).size)
    \/ /\ Tells(a, p) /\ ~Stands(a, Behind(p), ToldSize(a, p))
       /\ a.whole < Len(a.members) => Behind(p) < a.ends[a.whole + 1]

IsTar(a) ==
    /\ a.len \in Nat
    /\ a.members \in Seq(Range(a.members)) /\ a.whole \in 0 .. Len(a.members)
    /\ a.ends \in Seq(Nat) /\ Len(a.ends) = Len(a.members)
    /\ \A k \in DOMAIN a.ends : a.ends[k] > 0 /\ \A j \in 1 .. (k - 1) : a.ends[j] < a.ends[k]
    /\ \A k \in 1 .. a.whole : WellWritten(a, k)
    /\ Breaks(a)

(* Of a ZIP archive: the headers that are kept, each of a file. *)
Kept(z) == {i \in DOMAIN z.cd : z.cd[i].method \in {"stored", "deflate"}}

(* A value is in its own field, or that is saturated and the value among the
   extra ones, in their order; a digest that is recorded is of the bytes taken in. *)
ArchivedAs(z, h, f) ==
    LET fields == <<h.uncomp, h.comp, h.offset>>
        saturated == {j \in 1 .. 3 : fields[j] = Saturated}
    IN saturated = {} \/ h.extra # None =>
           \E uncomp \in {f.uncomp, f.uncomp + 1}, offset \in DOMAIN z.local :
               LET true == <<uncomp, f.comp, offset>> IN
               /\ \A j \in (1 .. 3) \ saturated : fields[j] = true[j]
               /\ saturated # {} => h.extra = Picked(true, saturated)
               /\ z.local[offset].sound /\ h.crc32 # 0 =>
                      LET data == offset + 30 + z.local[offset].lengths IN
                      \/ data + f.comp > z.size
                      \/ /\ <<data, f.comp>> \in DOMAIN z.payload
                         /\ z.payload[<<data, f.comp>>].crc32 = h.crc32 <=> ~f.altered

(* The end record and what belongs to it lie in the tail that is read. *)
IsZip(z) ==
    /\ z.size \in Nat /\ z.comment \in Nat /\ z.comment < 64 * 1024 /\ z.sector \in 0 .. 31
    /\ z.cd \in Seq(Range(z.cd))
    /\ \A i \in DOMAIN z.cd : z.cd[i].name \in Nat
    /\ z.files \in Seq(Range(z.files)) /\ Len(z.files) = Cardinality(Kept(z))
    /\ \A i \in DOMAIN z.files : ArchivedAs(z, Picked(z.cd, Kept(z))[i], z.files[i])

DistinctNames(z) == \A i, j \in Kept(z) : z.cd[i].name = z.cd[j].name => i = j

IsTree(t) ==
    /\ t.files \in Seq(Range(t.files)) /\ t.depth \in Nat
    /\ \A f \in Range(t.files) : f.path \in Name /\ f.zip \in DOMAIN t.zips \cup {None}
    /\ \A z \in DOMAIN t.zips :
          /\ t.zips[z].members \in Seq(Range(t.zips[z].members))
          /\ \A m \in Range(t.zips[z].members) : m.name \in Nat /\ m.zip \in DOMAIN t.zips \cup {None}

(* Containers lie apart, or one within the other. *)
Apart(c, d) == c.paths \cap d.paths = {}
LiesIn(c, d) == c.paths \subseteq d.paths /\ c.paths # d.paths

IsInside(x) ==
    /\ x.containers \in Seq([bundle : Nat, paths : SUBSET Name])
    /\ \A c, d \in Range(x.containers) :
          IsFiniteSet(c.paths) /\ (c = d \/ Apart(c, d) \/ LiesIn(c, d) \/ LiesIn(d, c))
    /\ x.backup # None => /\ x.backup.default \in BOOLEAN
                          /\ x.backup.view \in Seq(Range(x.backup.view))
                          /\ \A e \in Range(x.backup.view) : e.name \in Name

IsFile(f) == f.path \in Nat /\ IsTar(f.tar) /\ IsZip(f.zip) /\ IsInside(f.inside)

(* A file, or a directory whose files have paths of their own. *)
IsPath(p) ==
    /\ p.is_dir \in BOOLEAN
    /\ p.files \in Seq(Range(p.files)) /\ (~p.is_dir => p.files # <<>>)
    /\ \A f \in Range(p.files) : IsFile(f)
    /\ \A i, j \in DOMAIN p.files : p.files[i].path = p.files[j].path => i = j

IsOperand(o) ==
    /\ {"paths", "dir_mode", "recursive"} \subseteq DOMAIN o
    /\ o.paths \in Seq(Range(o.paths))
    /\ \A p \in Range(o.paths) :
          /\ IsPath(p)
          /\ p.is_dir /\ o.dir_mode => IsTree(p.tree) /\ IsInside(p.inside)

-----------------------------------------------------------------------------
is_tar_path(f) == f.named = "tar"

Kind(f) == IF is_tar_path(f) THEN "tar" ELSE "archive"

(* A file under path `n`; -r labels it by its path below the directory. *)
Resolved(n, f, label) ==
    [kind |-> Kind(f), what |-> f, remote |-> operand.paths[n].remote,
     full |-> <<n, f.path>>, label |-> label, inside |-> f.inside]

(* The files under the directory that -r takes, in the order of their paths. *)
collect_archives(files) ==
    LET found == {i \in DOMAIN files : is_tar_path(files[i]) \/ files[i].named = "zip"}
        sorted == InOrder(found, {p \in found \X found : files[p[1]].path < files[p[2]].path})
    IN [k \in DOMAIN sorted |-> files[sorted[k]]]

SourcesOf(n) ==
    LET p == operand.paths[n] IN
    CASE ~p.is_dir -> <<Resolved(n, p.files[1], <<n, p.files[1].path>>)>>
      [] p.is_dir /\ operand.dir_mode ->
           <<[kind |-> "folder", what |-> p.tree, remote |-> p.remote,
              full |-> <<n, 0>>, label |-> <<n, 0>>, inside |-> p.inside]>>
      [] p.is_dir /\ ~operand.dir_mode /\ operand.recursive ->
           LET found == collect_archives(p.files)
           IN [i \in DOMAIN found |-> Resolved(n, found[i], <<found[i].path>>)]

PartBefore(x, y) == x[1] < y[1] \/ (x[1] = y[1] /\ x[2] < y[2])

(* A directory needs --dir-mode or -r. *)
Unstated(n) == operand.paths[n].is_dir /\ ~operand.dir_mode /\ ~operand.recursive

(* One operand after the other, of each what it stands for in its order. *)
resolve_sources ==
    LET parts == UNION {{n} \X (DOMAIN SourcesOf(n)) : n \in DOMAIN operand.paths}
        sorted == InOrder(parts, {p \in parts \X parts : PartBefore(p[1], p[2])})
    IN [k \in DOMAIN sorted |-> SourcesOf(sorted[k][1])[sorted[k][2]]]

use_ranged(s) == operand.io = "ranged" \/ (operand.io = "auto" /\ s.remote)

SourcesInit ==
    /\ sources = <<>> /\ turn = 1 /\ reader = None /\ facts = None
    /\ archive = None /\ pos = None /\ long_name = None /\ pax_path = None /\ pax_size = None
    /\ tar_entries = None /\ tar_pc = None
    /\ zip = None /\ io_mode = None /\ zip_entries = None /\ crcs = None
    /\ attested = None /\ zip_pc = None
    /\ tree = None /\ todo = None /\ entries = None /\ blobs = None /\ budget = None
    /\ stack = None /\ call = None /\ scan_pc = None

(* A directory without --dir-mode and -r is refused, and so is no source. *)
Resolves == (\A n \in DOMAIN operand.paths : ~Unstated(n)) /\ resolve_sources # <<>>

Resolve(next) ==
    /\ Resolves
    /\ sources' = resolve_sources
    /\ command' = next
    /\ UNCHANGED <<operand, turn, reader, facts, readerVars>>

-----------------------------------------------------------------------------
Opening(kind) ==
    /\ command = "open" /\ reader = None /\ turn <= Len(sources)
    /\ sources[turn].kind = kind
    /\ reader' = kind
    /\ UNCHANGED <<operand, sources, turn, command, facts>>

OpenTar ==
    /\ Opening("tar")
    /\ TarFile!Begin(sources[turn].what.tar)
    /\ UNCHANGED <<zipVars, scanVars>>

OpenArchive ==
    /\ Opening("archive")
    /\ ZipFile!Begin(sources[turn].what.zip, IF use_ranged(sources[turn]) THEN "ranged" ELSE "mmap")
    /\ UNCHANGED <<tarVars, scanVars>>

OpenFolder ==
    /\ Opening("folder")
    /\ Folder!Begin(sources[turn].what)
    /\ UNCHANGED <<tarVars, zipVars>>

Reading == command = "open"

ReadTar == Reading /\ reader = "tar" /\ TarFile!TarNext /\ UNCHANGED <<ownVars, zipVars, scanVars>>

ReadZip == Reading /\ reader = "archive" /\ ZipFile!ZipNext /\ UNCHANGED <<ownVars, tarVars, scanVars>>

ScanFolder == Reading /\ reader = "folder" /\ Folder!ScanNext /\ UNCHANGED <<ownVars, tarVars, zipVars>>

Served ==
    \/ reader = "tar" /\ tar_pc = "listed"
    \/ reader = "archive" /\ zip_pc = "opened" /\ Len(attested) = Len(zip_entries)
    \/ reader = "folder" /\ scan_pc = "done"

Failed ==
    \/ reader = "tar" /\ tar_pc = "failed"
    \/ reader = "archive" /\ zip_pc = "failed"
    \/ reader = "folder" /\ scan_pc = "failed"

SourceFails ==
    /\ command = "open" /\ Failed
    /\ command' = "failed"
    /\ UNCHANGED <<operand, sources, turn, reader, facts, readerVars>>

-----------------------------------------------------------------------------
(* with_maybe_backup(): a backup is seen as the files it holds. *)

Inside == sources[turn].inside

Backup == Inside.backup

Recognise ==
    /\ command = "open" /\ Served
    /\ Backup # None => Backup.opens
    /\ facts' = IF Backup = None THEN facts ELSE [source |-> turn, default |-> Backup.default]
    /\ command' = "serve"
    /\ UNCHANGED <<operand, sources, turn, reader, readerVars>>

(* Encrypted, and no candidate password unlocks it. *)
UnlockFails ==
    /\ command = "open" /\ Served
    /\ Backup # None /\ ~Backup.opens
    /\ command' = "failed"
    /\ UNCHANGED <<operand, sources, turn, reader, facts, readerVars>>

OpenSource ==
    \/ OpenTar \/ OpenArchive \/ OpenFolder \/ ReadTar \/ ReadZip \/ ScanFolder
    \/ SourceFails \/ Recognise \/ UnlockFails

(* The names a source lists.  A name is a path, of one part where no archive lies
   within another; a directory's ends in a slash, behind which nothing stands. *)
Slash == 0

Listed ==
    CASE reader = "tar" -> [i \in DOMAIN tar_entries |->
                               IF tar_entries[i].type = "dir" THEN <<tar_entries[i].name, Slash>>
                               ELSE <<tar_entries[i].name>>]
      [] reader = "archive" -> [i \in DOMAIN zip_entries |-> <<zip_entries[i].name>>]
      [] reader = "folder" -> [i \in DOMAIN entries |-> entries[i].name]

(* What ends in a slash is a directory: Entry::is_dir(). *)
is_dir(name) == name[Len(name)] = Slash

(* An entry, with what is to be said of it. *)
Shown(name, x) ==
    [name |-> name, dir |-> is_dir(name), type |-> x.type, hits |-> x.hits, path_hit |-> x.path_hit,
     reads |-> x.reads, secret |-> x.secret, size |-> x.size, mtime |-> x.mtime, content |-> x.content,
     sidecars |-> x.sidecars]

View ==
    IF Backup # None THEN [i \in DOMAIN Backup.view |-> Shown(Backup.view[i].name, Backup.view[i])]
    ELSE [i \in DOMAIN Listed |-> Shown(Listed[i], Inside.about[i])]

(* There is a buffer to hash for a mapped archive and for a tar file. *)
RawBytes == reader = "tar" \/ (reader = "archive" /\ io_mode = "mmap")

(* The closure returns: the source is closed. *)
Close == reader' = None /\ turn' = turn + 1 /\ UNCHANGED <<operand, sources, facts, readerVars>>

-----------------------------------------------------------------------------
(* The tar walk lists what the writer put in, in order, each member under its
   own name and bytes, however long names and sizes are written, and stops at
   the first that is damaged: parse_entries() and take_name(). *)
Listing == INSTANCE MemberListing WITH
    members <- IF tar_pc = None THEN <<>> ELSE archive.members,
    whole <- IF tar_pc = None THEN 0 ELSE archive.whole,
    next <- IF tar_pc = None THEN 1
            ELSE Cardinality({k \in DOMAIN archive.ends : archive.ends[k] <= pos}) + 1,
    listed <- IF tar_pc = None THEN <<>> ELSE tar_entries,
    status <- CASE tar_pc = None -> "idle"
                [] tar_pc = "listed" -> "done"
                [] tar_pc = "failed" -> "refused"
                [] OTHER -> "listing"

ImplementsListing == Listing!Spec

-----------------------------------------------------------------------------
(* An archive that opens mapped opens ranged, with the same entries and for
   each of them the same bytes at the same place, whatever the end record, the
   comment, the ZIP64 fields and the local headers' own lengths:
   find_cd_location() with a tail, data_start(). *)
RangedAgrees ==
    zip_pc = "opened" /\ ZipFile!Opens("mmap") =>
        /\ ZipFile!Opens("ranged")
        /\ \A i \in DOMAIN ZipFile!CdEntries :
               LET m == ZipFile!Entries("mmap")[i]
                   r == ZipFile!Entries("ranged")[i]
               IN /\ m.name = r.name /\ m.method = r.method
                  /\ ZipFile!content("mmap", m) = ZipFile!content("ranged", r)
                  /\ ZipFile!archive_data_start("mmap", m) = ZipFile!archive_data_start("ranged", r)

(* What an entry is attested as is true of its own bytes: they are those its
   archiver took the digest of, or they are not: integrity_check(). *)
Own(i) == zip.files[i]

AttestedOwn ==
    zip_pc = "opened" =>
        \A i \in DOMAIN attested :
            /\ attested[i] = "verified" => ~Own(i).altered
            /\ attested[i] = "mismatch" => Own(i).altered

-----------------------------------------------------------------------------
(* What a scan should find, level by level: <<name, content, member>>, in which
   a content that is None is the file on disk. *)
Within[d \in 0..tree.depth] ==
    [z \in DOMAIN tree.zips |->
        UNION {LET m == tree.zips[z].members[k] IN
               CASE m.dir -> {}
                 [] ~m.dir /\ d >= 1 /\ m.zip # None /\ m.reads /\ tree.zips[m.zip].parses ->
                      {<<<<m.name>> \o x[1], x[2], x[3]>> : x \in Within[d - 1][m.zip]}
                 [] OTHER -> {<<<<m.name>>, z, k>>}
               : k \in DOMAIN tree.zips[z].members}]

IsOpened(f) ==
    /\ f.kind = "file" /\ tree.depth >= 1 /\ f.zip # None
    /\ f.reads /\ tree.zips[f.zip].parses

ToFind ==
    UNION {LET f == tree.files[i] IN
           CASE f.kind # "file" -> {}
             [] IsOpened(f) -> {<<f.path \o x[1], x[2], x[3]>> : x \in Within[tree.depth - 1][f.zip]}
             [] OTHER -> {<<f.path, None, 0>>}
           : i \in DOMAIN tree.files}

(* An entry's index leads to the archive it is a member of. *)
Found(e) ==
    IF e.location = "loose" THEN <<e.name, None, 0>> ELSE <<e.name, blobs[e.archive], e.member>>

(* The bytes the archives to open take, those within archives included. *)
Weight[d \in 0..tree.depth] ==
    [z \in DOMAIN tree.zips |->
        LET ms == tree.zips[z].members
            opened == {k \in DOMAIN ms : /\ d >= 1 /\ ~ms[k].dir /\ ms[k].zip # None
                                         /\ ms[k].reads /\ tree.zips[ms[k].zip].parses}
        IN tree.zips[z].size + MapThenSumSet(LAMBDA k : Weight[d - 1][ms[k].zip], opened)]

Needed ==
    MapThenSumSet(LAMBDA i : Weight[tree.depth - 1][tree.files[i].zip],
                  {i \in DOMAIN tree.files : IsOpened(tree.files[i])})

(* The largest archive of the folder that is looked at and not kept open. *)
Misfit ==
    Max({0} \cup {tree.zips[f.zip].size : f \in {g \in Range(tree.files) :
            g.kind = "file" /\ tree.depth >= 1 /\ g.zip # None /\ ~IsOpened(g)}})

(* A scan that ends well lists every file of the folder and of the archives it
   opened exactly once, the ones it could not open as files of their own; each
   leads to its own bytes in the arena, which holds what was opened and nothing
   else.  A scan is given up only over a directory that cannot be read, or where
   what it had to open, or an archive that turns out not to open, would not have
   fitted the budget: collect(), expand(). *)
EveryFileOnce ==
    /\ scan_pc = "done" =>
           /\ {Found(entries[i]) : i \in DOMAIN entries} = ToFind
           /\ Len(entries) = Cardinality(ToFind)
           /\ tree.arena - budget = Needed
    /\ scan_pc = "failed" =>
           \/ \E f \in Range(tree.files) : f.kind = "unreadable_dir"
           \/ Needed + Misfit > tree.arena

=============================================================================
