---------------------------- MODULE SmallSources ----------------------------
(***************************************************************************)
(* Small sources.  A tar file is written as the tools write it (USTAR,    *)
(* GNU long names, PAX paths and sizes, a global header) and then cut at   *)
(* any byte or damaged in one header; a ZIP archive as archivers write it, *)
(* with ZIP64 fields saturated or not; a folder holds archives within      *)
(* archives, some of them no archives.                                     *)
(***************************************************************************)
EXTENDS Commands

Names == 0..13
MCBare == [n \in Names |-> IF n > 10 THEN n - 10 ELSE n]
Placeholder == 9    \* what is left of a name that is written elsewhere
Stray == 8          \* the name in a header that is data of a member

-----------------------------------------------------------------------------
Hdr(type, name, size) ==
    [kind |-> "header", type |-> type, name |-> name, size |-> size, sound |-> TRUE]
TextBlock(path, size) == [kind |-> "text", length |-> BLOCK, text |-> [path |-> path, size |-> size]]
Data(n, inner) ==
    [i \in 1..((n + BLOCK - 1) \div BLOCK) |-> IF inner THEN Hdr("0", Stray, 0) ELSE [kind |-> "data"]]

(* One way of writing a member: what precedes its header, and its header. *)
Way(before, header, type, size, inner) ==
    [before |-> before, header |-> header, type |-> type, size |-> size, inner |-> inner]

Zero == [kind |-> "zero"]

Long(n, type) == <<Hdr(type, Placeholder, BLOCK), TextBlock(n, None)>>

Ways(n) ==
    {Way(<<>>, Hdr("0", n + 10, 3), "file", 3, TRUE),
     Way(Long(n, "L"), Hdr("0", Placeholder, 1), "file", 1, FALSE),
     Way(Long(n, "x"), Hdr("7", Placeholder, 0), "file", 0, FALSE),
     Way(<<Hdr("x", Placeholder, BLOCK), TextBlock(None, 4)>>, Hdr("0", n, 0), "file", 4, TRUE),
     Way(<<Hdr("x", Placeholder, BLOCK), TextBlock(n, 2)>>, Hdr("0", Placeholder, 0), "file", 2, TRUE),
     Way(Long(n, "x"), Hdr("5", Placeholder, 0), "dir", 0, FALSE),
     Way(Long(n, "L"), Hdr("2", Placeholder, 0), "other", 0, FALSE),
     Way(Long(n, "x"), Hdr("1", Placeholder, 0), "other", 0, FALSE),
     Way(<<Hdr("g", Placeholder, BLOCK), TextBlock(None, None)>>, Hdr("0", n, 2), "file", 2, FALSE)}

WrittenAs(w) == w.before \o <<w.header>> \o Data(w.size, w.inner)

Blocks(ws) == FlattenSeq([i \in DOMAIN ws |-> WrittenAs(ws[i])])

StartOf(ws, i) == BLOCK * (Len(Blocks(SubSeq(ws, 1, i - 1))) + Len(ws[i].before) + 1)
EndOf(ws, i) == BLOCK * Len(Blocks(SubSeq(ws, 1, i)))

MemberOf(ws, i) ==
    LET h == IF ws[i].before # <<>> /\ ws[i].before[2].text.path # None
             THEN ws[i].before[2].text.path ELSE ws[i].header.name
    IN [name |-> MCBare[h], type |-> ws[i].type, data_offset |-> StartOf(ws, i), data_len |-> ws[i].size]

(* The members that are there whole when only `len` bytes are. *)
WholeIn(ws, len) == Cardinality({i \in DOMAIN ws : StartOf(ws, i) + ws[i].size <= len})

TarOf(ws, blocks, len, whole) ==
    [blocks |-> blocks, len |-> len, members |-> [i \in DOMAIN ws |-> MemberOf(ws, i)],
     ends |-> [i \in DOMAIN ws |-> EndOf(ws, i)], whole |-> whole, gz |-> FALSE, gz_cut |-> FALSE]

Ended(ws) == LET b == Blocks(ws) \o <<Zero, Zero>> IN TarOf(ws, b, BLOCK * Len(b), Len(ws))

CutOff(ws) == {TarOf(ws, Blocks(ws), len, WholeIn(ws, len)) : len \in 0..(BLOCK * Len(Blocks(ws)))}

(* A header that fails its checksum, or whose size cannot be read. *)
MemberAt(ws, b) == Min({i \in DOMAIN ws : b * BLOCK <= EndOf(ws, i)})
IsHeader(ws, b) ==
    LET i == MemberAt(ws, b)
        first == Len(Blocks(SubSeq(ws, 1, i - 1)))
    IN b = first + Len(ws[i].before) + 1 \/ (b = first + 1 /\ ws[i].before # <<>>)
Damaged(ws) ==
    {[Ended(ws) EXCEPT !.blocks[b] = bad, !.whole = MemberAt(ws, b) - 1] :
        b \in {c \in DOMAIN Blocks(ws) : IsHeader(ws, c)}, bad \in {[kind |-> "data"]}}
    \cup
    {[Ended(ws) EXCEPT !.blocks[StartOf(ws, i) \div BLOCK].size = None, !.whole = i - 1] :
        i \in {j \in DOMAIN ws : ws[j].before = <<>> \/ ws[j].before[2].text.size = None}}

Lists == {<<v, w>> : v \in Ways(1), w \in Ways(2)}
Triples == {<<u, v, w>> : u \in Ways(1), v \in Ways(2), w \in Ways(3)}

Gzipped == {[Ended(ws) EXCEPT !.gz = TRUE, !.gz_cut = cut] : ws \in Lists, cut \in BOOLEAN}

-----------------------------------------------------------------------------
(* A file as archived: its digest is its name's, 0 where none was recorded. *)
Archived(name, method, comp, wide, lengths) ==
    [name |-> name, method |-> method, comp |-> comp, uncomp |-> comp + 1, wide |-> wide,
     lengths |-> lengths, crc |-> name, recorded |-> TRUE, altered |-> FALSE, local |-> TRUE,
     header |-> TRUE, extra |-> TRUE, lies |-> FALSE]

Fields == {"uncomp", "comp", "offset"}

OffsetOf(fs, i) ==
    MapThenSumSet(LAMBDA j : 30 + fs[j].lengths + fs[j].comp, 1..(i - 1))

CdHeader(fs, i) ==
    LET f == fs[i]
        true == [uncomp |-> f.uncomp + (IF f.lies THEN 1 ELSE 0), comp |-> f.comp,
                 offset |-> OffsetOf(fs, i)]
        inOrder == <<"uncomp", "comp", "offset">>
        held == SelectSeq(inOrder, LAMBDA x : x \in f.wide)
    IN [x \in Fields |-> IF x \in f.wide THEN Saturated ELSE true[x]] @@
       [name |-> f.name, method |-> f.method, crc32 |-> IF f.recorded THEN f.crc ELSE 0,
        sound |-> f.header, extra |-> IF f.extra THEN [i2 \in DOMAIN held |-> true[held[i2]]] ELSE None]

(* `end` is the end record's kind, `sector` what follows a ZIP64 one. *)
ZipOf(fs, end, locator, sector, comment) ==
    LET n == Len(fs)
        data(i) == OffsetOf(fs, i) + 30 + fs[i].lengths
    IN [size |-> OffsetOf(fs, n + 1) + 50 * n + (IF end = "zip64" THEN 76 + sector ELSE 0) + 22 + comment,
        end |-> end, locator |-> locator, sector |-> sector, comment |-> comment,
        cd |-> [i \in 1..n |-> CdHeader(fs, i)],
        local |-> [o \in {OffsetOf(fs, i) : i \in 1..n} |->
                      LET i == CHOOSE j \in 1..n : OffsetOf(fs, j) = o
                      IN [sound |-> fs[i].local, lengths |-> fs[i].lengths]],
        payload |-> [r \in {<<data(i), fs[i].comp>> : i \in 1..n} |->
                        LET i == CHOOSE j \in 1..n : data(j) = r[1]
                        IN [crc32 |-> fs[i].crc + (IF fs[i].altered THEN 50 ELSE 0),
                            inflates |-> fs[i].uncomp]],
        files |-> SelectSeq(fs, LAMBDA f : f.method # "other")]

A(wide) == Archived(1, "stored", 3, wide, 0)
B(wide) == Archived(2, "deflate", 100000, wide, 7)
C == Archived(3, "other", 2, {}, 1)

Variants(f) ==
    {f, [f EXCEPT !.recorded = FALSE], [f EXCEPT !.altered = TRUE], [f EXCEPT !.local = FALSE],
     [f EXCEPT !.header = FALSE], [f EXCEPT !.extra = FALSE], [f EXCEPT !.lies = TRUE]}

Wides == SUBSET Fields

ZipLists ==
    {<<A(w), C, B(v)>> : w \in Wides, v \in Wides} \cup
    {<<x, y>> : x \in Variants(B({"comp", "offset"})), y \in Variants(A({"uncomp", "comp"}))} \cup
    {<<>>, <<C>>}

MCZips ==
    {ZipOf(fs, "plain", TRUE, 0, 0) : fs \in ZipLists} \cup
    {ZipOf(<<A({}), B({"offset"})>>, end, locator, sector, comment) :
        end \in {"plain", "zip64", "absent"}, locator \in BOOLEAN,
        sector \in {0, 31}, comment \in {0, 5, 65535}}

NotZip == ZipOf(<<>>, "absent", FALSE, 0, 0)
NotTar == TarOf(<<>>, <<[kind |-> "data"], [kind |-> "data"]>>, 2 * BLOCK, 0)

-----------------------------------------------------------------------------
Member(name, at, z) == [name |-> name, at |-> at, zip |-> z, reads |-> TRUE, dir |-> FALSE]
Directory(name, at) == [Member(name, at, None) EXCEPT !.dir = TRUE]
Unreadable(name, at, z) == [Member(name, at, z) EXCEPT !.reads = FALSE]

Content(parses, size, members) == [parses |-> parses, size |-> size, members |-> members]

(* 3 does not parse; 2 and 4 hold archives; 5 holds one name twice. *)
MCContents ==
    <<Content(TRUE, 2, <<Member(1, 1, None)>>),
      Content(TRUE, 3, <<Directory(1, 1), Member(2, 2, 1), Member(3, 3, None)>>),
      Content(FALSE, 2, <<>>),
      Content(TRUE, 4, <<Member(1, 1, 3), Unreadable(2, 2, 1), Member(3, 3, 2), Member(4, 4, None)>>),
      Content(TRUE, 1, <<Member(1, 1, 1), Member(1, 2, None)>>)>>

Item(path, kind, z, reads) == [path |-> path, kind |-> kind, zip |-> z, reads |-> reads]

Firsts == {Item(<<1>>, "file", z, r) : z \in {2, 3, 4}, r \in BOOLEAN} \cup
          {Item(<<1>>, "file", None, TRUE), Item(<<1>>, "symlink", None, TRUE)}
Seconds == {Item(<<2, 1>>, "file", z, TRUE) : z \in {1, 3, 5}} \cup
           {Item(<<2>>, "unreadable_dir", None, FALSE), Item(<<2, 1>>, "file", None, TRUE)}

MCTrees ==
    {[files |-> <<f, g>>, zips |-> MCContents, depth |-> d, arena |-> a] :
        f \in Firsts, g \in Seconds, d \in 0..3, a \in {1, 4, 6, 9, 20}}

=============================================================================
