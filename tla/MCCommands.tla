----------------------------- MODULE MCCommands -----------------------------
(***************************************************************************)
(* Command lines.  Every small source is searched once in a plain way;     *)
(* the ways of searching and of comparing are tried on a few of them,      *)
(* alone and two at a time, with different facts inside.                   *)
(***************************************************************************)
EXTENDS SmallSources

Entry(type, hits, reads, secret) ==
    [type |-> type, hits |-> hits, path_hit |-> hits = 2, reads |-> reads, secret |-> secret,
     size |-> 3, mtime |-> 1, content |-> 1, sidecars |-> {}]

Sqlite == [name |-> "sqlite", category |-> "database"]
Jpeg == [name |-> "jpeg", category |-> "media"]
MCTypes == {Sqlite, Jpeg}
MCKnownTypes == {"sqlite", "database", "jpeg", "media"}
NoType == EntryFilter!Untyped

Plain == Entry(Sqlite, 1, TRUE, "none")

About(said_of) == [about |-> [i \in 1..8 |-> IF i \in DOMAIN said_of THEN said_of[i] ELSE Plain],
                   backup |-> None, containers |-> <<>>]

PlainInside == About(<<>>)

-----------------------------------------------------------------------------
FileOf(path, named, tar, z, inside) ==
    [path |-> path, named |-> named, tar |-> tar, zip |-> z, inside |-> inside]

NamedFile(f, remote) == [is_dir |-> FALSE, files |-> <<f>>, remote |-> remote, tree |-> None, inside |-> None]
CaseFolder(files, remote) == [is_dir |-> TRUE, files |-> files, remote |-> remote, tree |-> None, inside |-> None]
AsFolder(t, inside) == [is_dir |-> TRUE, files |-> <<>>, remote |-> FALSE, tree |-> t, inside |-> inside]

Operand(given, dir_mode, recursive, io) ==
    [paths |-> given, dir_mode |-> dir_mode, recursive |-> recursive, io |-> io]
Alone(p) == Operand(<<p>>, FALSE, FALSE, "auto")

TarFiles ==
    {FileOf(1, "tar", t, NotZip, PlainInside) :
        t \in UNION {{Ended(ws)} \cup CutOff(ws) \cup Damaged(ws) : ws \in Lists}
              \cup {Ended(ws) : ws \in Triples} \cup Gzipped}

(* A case folder: its archives under any names, one of them no archive. *)
SomeTar == Ended(<<CHOOSE w \in Ways(1) : w.type = "file" /\ w.size = 3,
                   CHOOSE w \in Ways(2) : w.type = "dir",
                   CHOOSE w \in Ways(3) : w.type = "file" /\ w.size = 1>>)
SomeZip == ZipOf(<<A({}), B({"offset"})>>, "plain", TRUE, 0, 0)
SomeTree ==
    [files |-> <<Item(<<1>>, "file", None, TRUE), Item(<<2, 1>>, "file", 1, TRUE)>>,
     zips |-> MCContents, depth |-> 2, arena |-> 20]

TheTar(path, inside) == FileOf(path, "tar", SomeTar, NotZip, inside)
TheZip(path, inside) == FileOf(path, "zip", NotTar, SomeZip, inside)

CaseFiles(path) ==
    {TheTar(path, PlainInside), TheZip(path, PlainInside), FileOf(path, "tar", NotTar, SomeZip, PlainInside),
     FileOf(path, "zip", SomeTar, NotZip, PlainInside), FileOf(path, "other", NotTar, NotZip, PlainInside)}

SmallOperands ==
    {Alone(NamedFile(f, FALSE)) : f \in TarFiles \cup CaseFiles(1)} \cup
    {Operand(<<NamedFile(FileOf(1, "zip", NotTar, z, PlainInside), remote)>>, FALSE, FALSE, io) :
        z \in MCZips, io \in {"auto", "mmap", "ranged"}, remote \in BOOLEAN} \cup
    {Operand(<<AsFolder(t, PlainInside)>>, TRUE, FALSE, "auto") : t \in MCTrees} \cup
    {Operand(<<CaseFolder(<<f, g>>, remote)>>, FALSE, r, "auto") :
        f \in CaseFiles(2), g \in CaseFiles(1), r \in BOOLEAN, remote \in BOOLEAN}

-----------------------------------------------------------------------------
(* Searches. *)

NoPreset == [loads |-> TRUE, literal |-> FALSE, match_path |-> FALSE, inspect |-> FALSE, count |-> FALSE,
             verify |-> FALSE, recursive |-> FALSE, exclude_media |-> FALSE,
             path |-> <<>>, not_path |-> <<>>, types |-> {}]

Search == [name |-> "grep", pattern |-> <<>>, literal |-> FALSE, base64 |-> FALSE, urlsafe |-> FALSE,
           match_path |-> FALSE, inspect |-> FALSE, count |-> FALSE, verify |-> FALSE, recursive |-> FALSE,
           exclude_media |-> FALSE, path |-> <<>>, not_path |-> <<>>, types |-> {}, preset |-> None,
           fast |-> None, keys |-> "none", format |-> "txt", sink |-> FALSE, max_size |-> 6, no_report |-> TRUE]

Line(o, args) == [operand |-> o, cli |-> args]

Glob(names, bundles) == [paths |-> names, bundles |-> bundles]
One == Glob({<<1>>}, {})
Rest == Glob({<<2>>, <<3>>, <<2, 1, 1>>}, {})
App(bundles) == Glob({}, bundles)
MCPaths == {<<1>>, <<2>>, <<3>>, <<2, 1, 1>>}

Container(bundle, names) == [bundle |-> bundle, paths |-> names]

(* An app within another's container; one app has a container in either source. *)
InFirst == [About(<<Entry(Sqlite, 2, TRUE, "opens"), Plain, Entry(Jpeg, 1, TRUE, "none")>>)
            EXCEPT !.containers = <<Container(7, {<<1>>, <<2>>}), Container(8, {<<1>>})>>]
InSecond == [About(<<Entry(Jpeg, 0, TRUE, "none"), Entry(NoType, 3, TRUE, "fails")>>)
             EXCEPT !.containers = <<Container(7, {<<2>>, <<3>>, <<2, 1, 1>>}), Container(9, {<<1>>})>>]
InThird == [About(<<Entry(Sqlite, 1, FALSE, "none"), Entry(Jpeg, 2, FALSE, "fails")>>)
            EXCEPT !.containers = <<Container(8, {<<1>>}), Container(8, {<<2>>})>>]

Pairs ==
    {Operand(<<NamedFile(TheTar(1, InFirst), FALSE), NamedFile(TheZip(2, InSecond), TRUE)>>, FALSE, FALSE, "auto"),
     Operand(<<NamedFile(TheZip(2, InSecond), FALSE), NamedFile(TheTar(1, InFirst), FALSE)>>, FALSE, FALSE, "auto"),
     Operand(<<CaseFolder(<<TheZip(3, InThird), TheTar(2, InFirst), TheZip(1, InSecond)>>, FALSE)>>, FALSE, TRUE, "ranged"),
     Operand(<<AsFolder(SomeTree, InSecond), NamedFile(TheTar(1, InThird), FALSE)>>, TRUE, FALSE, "auto")}
Singles ==
    {Alone(NamedFile(TheTar(1, inside), FALSE)) : inside \in {InFirst, InSecond, InThird}}

Globs == {<<>>, <<One>>, <<App({7})>>, <<Rest, App({8, 9})>>}

Searches ==
    {Search, [Search EXCEPT !.types = {"sqlite"}, !.format = "csv"], [Search EXCEPT !.types = {"media"}, !.inspect = TRUE],
     [Search EXCEPT !.exclude_media = TRUE, !.keys = "some", !.no_report = FALSE], [Search EXCEPT !.keys = "some", !.format = "json"],
     [Search EXCEPT !.match_path = TRUE, !.keys = "some"], [Search EXCEPT !.count = TRUE, !.no_report = FALSE],
     [Search EXCEPT !.verify = TRUE], [Search EXCEPT !.keys = "broken"]}

Scopes ==
    {Line(o, [args EXCEPT !.path = p, !.not_path = n]) :
        o \in Pairs \cup Singles, args \in Searches, p \in Globs, n \in Globs}

Fasts == {None, [NoPreset EXCEPT !.loads = FALSE], [NoPreset EXCEPT !.exclude_media = TRUE, !.not_path = <<Rest>>]}
Presets ==
    {None, [NoPreset EXCEPT !.loads = FALSE], [NoPreset EXCEPT !.count = TRUE, !.path = <<One>>],
     [NoPreset EXCEPT !.match_path = TRUE, !.types = {"jpeg"}], [NoPreset EXCEPT !.recursive = TRUE, !.verify = TRUE],
     [NoPreset EXCEPT !.types = {"unheard of"}]}

Flags ==
    {Line(o, [Search EXCEPT !.preset = preset, !.fast = fast, !.sink = sink, !.no_report = ~sink, !.path = path]) :
        o \in Singles \cup {Operand(<<CaseFolder(<<TheZip(2, InThird), TheTar(1, InFirst)>>, FALSE)>>, FALSE, FALSE, "auto"),
                            Operand(<<CaseFolder(<<>>, FALSE)>>, FALSE, TRUE, "auto")},
        preset \in Presets, fast \in Fasts, sink \in BOOLEAN, path \in {<<>>, <<One>>}}

InBackup == <<[name |-> <<1>>] @@ Plain, [name |-> <<2, Slash>>] @@ Plain>>
Unlocked(opens, default) ==
    [PlainInside EXCEPT !.backup = [opens |-> opens, default |-> default, view |-> InBackup]]
Insides == {PlainInside, Unlocked(TRUE, TRUE), Unlocked(TRUE, FALSE), Unlocked(FALSE, FALSE)}

Backups ==
    {Line(Operand(<<NamedFile(TheZip(1, x), FALSE), AsFolder(SomeTree, y), NamedFile(TheTar(1, z), FALSE)>>,
                  TRUE, FALSE, "auto"), Search) :
        x \in Insides, y \in Insides, z \in Insides}

-----------------------------------------------------------------------------
(* Patterns to encode. *)

MCBytes == {<<0, 0, 0, 0>>, <<1, 2, 3, 1>>, <<3, 3, 3, 2>>, <<3, 3, 3, 3>>}

Patterns == BoundedSeq(MCBytes, 2) \cup
            {<<a, b, a>> : a, b \in MCBytes} \cup {<<a, b, b, a>> : a, b \in MCBytes}

Encoded ==
    {Line(Alone(NamedFile(TheZip(1, PlainInside), FALSE)),
          [Search EXCEPT !.pattern = p, !.literal = literal, !.base64 = TRUE, !.urlsafe = urlsafe,
                         !.match_path = ~literal]) :
        p \in Patterns, literal \in {TRUE}, urlsafe \in BOOLEAN} \cup
    {Line(Alone(NamedFile(TheZip(1, PlainInside), FALSE)),
          [Search EXCEPT !.pattern = <<<<0, 0, 0, 1>>>>, !.base64 = TRUE, !.literal = l, !.match_path = m]) :
        l \in BOOLEAN, m \in BOOLEAN}

-----------------------------------------------------------------------------
(* Comparisons. *)

Compare == [Search EXCEPT !.name = "diff"] @@ [unsupported |-> FALSE, exact |-> FALSE, too_long |-> {}]

Version(size, mtime, content, reads) ==
    [Plain EXCEPT !.size = size, !.mtime = mtime, !.content = content, !.reads = reads]

(* As it was, touched, edited in place, grown, and not to be read. *)
Versions == {Version(1, 1, 1, TRUE), Version(1, 2, 1, TRUE), Version(1, 1, 2, TRUE), Version(9, 2, 3, TRUE),
             Version(1, 2, 2, FALSE)}
Before == About(<<Version(1, 1, 1, TRUE), Version(1, 1, 1, TRUE)>>)
Afters == {About(<<v, w>>) : v \in Versions, w \in {Version(1, 1, 1, TRUE), Version(1, 1, 2, TRUE)}}

(* The first a database, the second its log, which may be there and unchanged. *)
WithLog ==
    {About(<<[v EXCEPT !.sidecars = {<<2>>, <<5>>}], Version(1, 1, 1, r)>>) :
        v \in {Version(1, 1, 1, TRUE), Version(1, 1, 2, TRUE)}, r \in BOOLEAN}

(* One name twice, as after an update at the end of a tar file. *)
Appended == Ended(<<CHOOSE w \in Ways(1) : w.type = "file" /\ w.size = 3,
                    CHOOSE w \in Ways(1) : w.type = "file" /\ w.size = 1>>)

Sides(inside) ==
    {NamedFile(TheZip(1, inside), FALSE), NamedFile(TheTar(1, inside), FALSE), AsFolder(SomeTree, inside),
     NamedFile(FileOf(1, "tar", Appended, NotZip, inside), FALSE)}

Compares ==
    {Compare, [Compare EXCEPT !.sink = TRUE], [Compare EXCEPT !.exact = TRUE, !.sink = TRUE, !.format = "json"],
     [Compare EXCEPT !.exact = TRUE, !.inspect = TRUE, !.not_path = <<One>>, !.sink = TRUE],
     [Compare EXCEPT !.exact = TRUE, !.sink = TRUE, !.too_long = {<<1>>}],
     [Compare EXCEPT !.exact = TRUE, !.sink = TRUE, !.too_long = {<<2>>}, !.not_path = <<Rest>>],
     [Compare EXCEPT !.inspect = TRUE], [Compare EXCEPT !.unsupported = TRUE],
     [Compare EXCEPT !.path = <<One, Rest>>, !.exact = TRUE, !.format = "csv"]}

Comparisons ==
    {Line(Operand(<<a, b>>, dir_mode, FALSE, "auto"), args) :
        a \in Sides(Before), b \in UNION {Sides(after) : after \in Afters \cup WithLog},
        dir_mode \in BOOLEAN, args \in Compares}

-----------------------------------------------------------------------------
MCCommandLines ==
    {Line(o, Search) : o \in SmallOperands} \cup Scopes \cup Flags \cup Backups \cup Encoded \cup Comparisons

(* One name twice, as after an update in place. *)
Twice == ZipOf(<<A({}), [B({}) EXCEPT !.name = 1]>>, "plain", TRUE, 0, 0)

MCDuplicates ==
    {Line(Operand(<<NamedFile(FileOf(1, "zip", NotTar, Twice, PlainInside), FALSE)>>, FALSE, FALSE, io), Search) :
        io \in {"mmap", "ranged"}}

=============================================================================
