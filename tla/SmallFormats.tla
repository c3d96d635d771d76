---------------------------- MODULE SmallFormats -----------------------------
(***************************************************************************)
(* Small inputs for the readers of formats/: a database, property lists    *)
(* and texts, and what damage can make of them.                            *)
(***************************************************************************)
EXTENDS SqlitePlaces, ObjectPaths, DocumentPaths

CONSTANTS v1, v2, v3, v4, v5, v6, v7, v8, v9

-----------------------------------------------------------------------------
(* A database with two tables: a tree of an interior page and two leaves
   whose rows lie in the leaf, on one and on two overflow pages, and a table of
   one leaf.  One or two of its pages are damaged, or the file is cut. *)

Blank == [kind |-> "other", kids |-> <<>>, whole |-> TRUE, cells |-> <<>>, next |-> 9, piece |-> Junk]
Overflow(piece, link) == [Blank EXCEPT !.piece = piece, !.next = link]
Leaf(cells) == [Blank EXCEPT !.kind = "leaf", !.cells = cells]
Interior(kids) == [Blank EXCEPT !.kind = "interior", !.kids = kids]

RowCell(rowid, local, size, first) ==
    [readable |-> TRUE, info |-> Null, rowid |-> rowid, local |-> local, size |-> size, first |-> first]

Schema(type, name, at_page, parts, in_leaf) ==
    [RowCell(0, <<Null>>, 1, 0) EXCEPT !.info =
        [type |-> type, name |-> name, root |-> at_page, parts |-> parts, in_leaf |-> in_leaf]]

Column(name) == [token |-> name, column |-> TRUE]
Constraint(keyword) == [token |-> keyword, column |-> FALSE]

Messages == <<Column("ID"), Column("SENDER"), Column("BODY"), Constraint("UNIQUE")>>
Notes == <<Column("TITLE"), Column("TEXT")>>
Settings == <<Column("KEY"), Column("VALUE")>>

Database(in_leaf) ==
    << Leaf(<<Schema("index", "messages", 5, <<>>, 0), Schema("table", "messages", 2, Messages, in_leaf),
              Schema("table", "notes", 7, Notes, 2)>>),
       Interior(<<4, 3>>),
       Leaf(<<RowCell(1, <<Null>>, 3, 5), RowCell(2, <<Null, v1, v2>>, 3, 0)>>),
       Leaf(<<RowCell(3, <<Null, v3>>, 2, 0), RowCell(4, <<Null, v4>>, 3, 8)>>),
       Overflow(v5, 6),
       Overflow(v6, 0),
       Leaf(<<RowCell(1, <<v7, v8>>, 2, 0)>>),
       Overflow(v9, 0) >>

Homes == <<"sqlite_schema", "messages", "messages", "messages", Null, Null, "notes", Null, Null>>

SmallPageNumbers == 0 .. 9

(* What damage can make of a page: its pointers, its chain, its type, its end. *)
Damaged(p) ==
    CASE p.kind = "interior" ->
             {[p EXCEPT !.kids = kids] :
                 kids \in {<<>>, <<4>>, <<2, 3>>, <<3, 3, 4>>, <<9, 0, 3>>, <<4, 1>>, <<4, 7, 5>>}}
             \cup {[p EXCEPT !.whole = FALSE]}
      [] p.kind = "leaf" ->
             {[p EXCEPT !.cells[k].readable = FALSE] : k \in DOMAIN p.cells}
             \cup {[p EXCEPT !.cells[k].first = n] : k \in {k \in DOMAIN p.cells : p.cells[k].first # 0}, n \in {0, 3, 5, 9}}
             \cup {[p EXCEPT !.kind = "other"],
                   [p EXCEPT !.kind = "interior", !.kids = <<2, 4>>, !.cells = <<>>]}
             \cup {[p EXCEPT !.cells[k].info.root = n] :
                      k \in {k \in DOMAIN p.cells : p.cells[k].info # Null}, n \in {0, 1, 3, 6, 9}}
      [] OTHER -> {[p EXCEPT !.next = n] : n \in {0, 3, 5, 6, 9}}

Cut(pages, n) == [SubSeq(pages, 1, n) EXCEPT ![n].whole = FALSE,
                     ![n].cells = [k \in DOMAIN @ |-> [@[k] EXCEPT !.readable = k # 1]]]

Variants(pages) ==
    {pages} \cup {Cut(pages, n) : n \in 2 .. Len(pages)}
    \cup UNION {{[pages EXCEPT ![n] = p] : p \in Damaged(pages[n])} : n \in DOMAIN pages}
    \cup UNION {{[pages EXCEPT ![n] = p, ![2] = q] : p \in Damaged(pages[n]), q \in Damaged(pages[2])} :
                   n \in DOMAIN pages \ {2}}

File(original, home, pages, table, columns) ==
    [header |-> TRUE, original |-> original, home |-> home, pages |-> pages, table |-> table, columns |-> columns,
     cut |-> pages # <<>> /\ ~Last(pages).whole]

SmallFiles ==
    UNION {{File(Database(in_leaf), Homes, pages, "messages", {"SENDER", "BODY", "OTHER"}) :
               pages \in Variants(Database(in_leaf))} : in_leaf \in {2, 4}}
    \cup {File(Database(4), Homes, pages, "notes", {"TEXT"}) : pages \in {Database(4), Cut(Database(4), 7)}}
    \cup {File(Database(4), Homes, Database(4), "nowhere", {"TEXT"}),
          [File(Database(4), Homes, <<>>, "notes", {"TEXT"}) EXCEPT !.header = FALSE]}

(* A table with a column called "key". *)
KeyValue == <<Leaf(<<Schema("table", "settings", 2, Settings, 2)>>), Leaf(<<RowCell(1, <<v1, v2>>, 2, 0)>>)>>
KeyFiles == {File(KeyValue, <<"sqlite_schema", "settings">>, KeyValue, "settings", {"VALUE"})}

-----------------------------------------------------------------------------
(* Binary property lists: one with shared objects, chains deeper than the
   caps, archives with circles, shared objects, wrapped strings and two entries
   of $top; and what damage can make of them. *)

Object(kind) == [kind |-> kind, start |-> 0, text |-> Absent, uid |-> 0, keys |-> <<>>, kids |-> <<>>]
StringOf(chars) == [Object("string") EXCEPT !.text = chars]
UidOf(n) == [Object("uid") EXCEPT !.uid = n]
ArrayOf(kids) == [Object("array") EXCEPT !.kids = kids]
DictOf(keys, kids) == [Object("dict") EXCEPT !.keys = keys, !.kids = kids]

(* Objects lie in the order of their numbers, each on one byte behind the header,
   and the offset table follows. *)
List(objects) ==
    [count |-> Len(objects), fit |-> Len(objects), top |-> 1, table |-> Len(objects) + 1,
     objects |-> [n \in DOMAIN objects |-> [objects[n] EXCEPT !.start = n]]]

Shared ==
    List(<<DictOf(<<4, 5>>, <<2, 3>>), ArrayOf(<<6, 3, 7>>), DictOf(<<4, 7>>, <<6, 2>>),
           StringOf("a"), StringOf("b"), StringOf("x"), Object("scalar")>>)

Deep(depth) ==
    List([n \in 1 .. depth + 1 |-> IF n = depth + 1 THEN StringOf("x") ELSE ArrayOf(<<n + 1>>)])

(* The n archived objects are 11 .. 10 + n, behind each n numbers further on its
   UID, and the arrays of a collection, or the string of a wrapper, after those. *)
Encoded(thing, i, n) ==
    LET keys == 9 + 2 * n + 2 * i
        values == keys + 1
    IN  CASE thing.kind = "dictionary" -> DictOf(<<8, 9>>, <<keys, values>>)
          [] thing.kind = "list" -> DictOf(<<9>>, <<values>>)
          [] thing.kind = "wrapper" -> DictOf(<<10>>, <<keys>>)
          [] OTHER -> thing.object

Inside(thing, n, part) ==
    LET uids(seq) == ArrayOf([i \in DOMAIN seq |-> 10 + n + seq[i]])
    IN  CASE part = "keys" /\ thing.kind = "dictionary" -> uids(thing.keys)
          [] part = "keys" /\ thing.kind = "wrapper" -> StringOf("w")
          [] part = "values" /\ thing.kind \in {"dictionary", "list"} -> uids(thing.values)
          [] OTHER -> Object("scalar")

Dictionary(keys, values) == [kind |-> "dictionary", keys |-> keys, values |-> values]
Collection(values) == [kind |-> "list", values |-> values]
Wrapper == [kind |-> "wrapper"]
Direct(object) == [kind |-> "direct", object |-> object]

Archive(tops, things) ==
    LET n == Len(things)
        names == <<"root", "more">>
    IN  List(<<DictOf(<<2, 3, 4>>, <<5, 6, 7>>),
               StringOf("$archiver"), StringOf("$objects"), StringOf("$top"), StringOf("NSKeyedArchiver"),
               ArrayOf([i \in 1 .. n |-> 10 + i]),
               DictOf([j \in DOMAIN tops |-> 10 + 4 * n + j], [j \in DOMAIN tops |-> 10 + n + tops[j]]),
               StringOf("NS.keys"), StringOf("NS.objects"), StringOf("NS.string")>>
             \o [i \in 1 .. n |-> Encoded(things[i], i, n)]
             \o [i \in 1 .. n |-> UidOf(i)]
             \o FlattenSeq([i \in 1 .. n |-> <<Inside(things[i], n, "keys"), Inside(things[i], n, "values")>>])
             \o [j \in DOMAIN tops |-> StringOf(names[j])])

Chat == Archive(<<1, 8>>,
    <<Dictionary(<<2, 3>>, <<4, 5>>), Direct(StringOf("k")), Direct(StringOf("m")), Collection(<<6, 5, 1>>), Wrapper,
      Dictionary(<<2>>, <<7>>), Direct(Object("scalar")), Collection(<<7, 4, 9>>), Direct(Object("scalar"))>>)
Brief == Archive(<<1, 3>>,
    <<Dictionary(<<2>>, <<3>>), Direct(StringOf("k")), Collection(<<2, 1>>)>>)
DeepArchive == Archive(<<1>>,
    [i \in 1 .. 7 |-> IF i = 7 THEN Direct(StringOf("x")) ELSE Collection(<<i + 1>>)])

(* One object damaged, or the trailer. *)
Hurt(b) ==
    UNION {{[b EXCEPT !.objects[n].kind = "scalar"],
            [b EXCEPT !.objects[n].kids = SubSeq(@, 1, Len(@) - 1), !.objects[n].keys = SubSeq(@, 1, Len(@) - 1)],
            [b EXCEPT !.objects[n].kids = [i \in DOMAIN @ |-> 1]],
            [b EXCEPT !.objects[n].uid = IF @ = 0 THEN 0 ELSE b.count]} : n \in DOMAIN b.objects}
    \cup {[b EXCEPT !.objects[6].start = 5], [b EXCEPT !.top = 0], [b EXCEPT !.top = 7], [b EXCEPT !.count = @ + 1], [b EXCEPT !.count = @ - 1]}

SmallLists == {Shared, Deep(5), Deep(8), Chat, DeepArchive} \cup Hurt(Shared) \cup Hurt(Brief)

-----------------------------------------------------------------------------
(* Texts: documents written in JSON, as a property list and as other XML, nested
   and empty containers among them, some damaged; and CSV tables with quoted
   fields.  The writer notes the place of every token. *)

(* Documents *)
Str == [kind |-> "string"]
Lit == [kind |-> "literal"]
Items(kids) == [kind |-> "list", kids |-> kids]
Members(names, kids) == [kind |-> "dict", names |-> SubSeq(names, 1, Len(kids)), kids |-> kids]

Flat == {Str, Lit, Items(<<>>), Members(<<>>, <<>>)}
Pairs(kids) == {Items(kids), Members(<<"a", "b", "c">>, kids)}
Containers == UNION {Pairs(<<x, y>>) : x, y \in Flat}
Nested == Items(<<Items(<<Items(<<Members(<<"a">>, <<Items(<<Str>>)>>), Str>>)>>), Str>>)
Documents ==
    Containers \cup UNION {Pairs(<<x, Str>>) \cup Pairs(<<Str, x, Lit>>) : x \in {c \in Containers : c.kids[2] = Str}}
    \cup {Nested, Items(<<Str, Nested>>), Members(<<"a", "b">>, <<Members(<<"a">>, <<Nested>>), Str>>)}

(* A token with its place. *)
W(t, name, place) == <<[t |-> t, name |-> name, place |-> place]>>
Contentless(tree) == tree.kind = "literal" \/ (tree.kind \in {"list", "dict"} /\ tree.kids = <<>>)
Concat(parts) == FoldLeft(LAMBDA acc, part : acc \o part, <<>>, parts)

(* The bytes of a key in JSON; of two keys the scanner tells another text. *)
Spelling(name) ==
    CASE name = "p\nq" -> <<"p", "\\", "n", "q">>
      [] name = "'/" -> <<"\\", "'", "\\", "/">>
      [] name = "\\n" -> <<"\\", "\\", "n">>
      [] name = "by number" -> <<"\\", "u", "0", "0", "6", "1">>
      [] name = "accented" -> <<"C3", "A9">>
      [] OTHER -> <<name>>
ToldAs(name) == IF name \in {"by number", "accented"} THEN Nothing ELSE name

Spelled ==
    {Members(<<k, "b">>, <<Members(<<l, "c">>, <<Str, Lit>>), Str>>) :
        k, l \in {"p\nq", "'/", "\\n", "by number", "accented"}}

RECURSIVE Json(_, _), Plist(_, _), Xml(_, _, _)

Json(tree, here) ==
    LET comma(i) == IF i = 1 THEN <<>> ELSE W(",", "", Nothing) \o W("space", "", Nothing)
        item(i) == comma(i) \o Json(tree.kids[i], Append(here, At(i - 1)))
        below(i) == Append(here, ToldAs(tree.names[i]))
        member(i) == comma(i) \o W("string", tree.names[i], below(i)) \o W(":", "", Nothing) \o Json(tree.kids[i], below(i))
    IN  CASE tree.kind = "list" -> W("[", "", Nothing) \o Concat([i \in DOMAIN tree.kids |-> item(i)]) \o W("]", "", Nothing)
          [] tree.kind = "dict" -> W("{", "", Nothing) \o Concat([i \in DOMAIN tree.kids |-> member(i)]) \o W("}", "", Nothing)
          [] OTHER -> W(tree.kind, "", here)

Plist(tree, here) ==
    LET item(i) == Plist(tree.kids[i], Append(here, At(i - 1)))
        member(i) == W("start", "key", Nothing) \o W("text", tree.names[i], Append(here, tree.names[i])) \o W("end", "key", Nothing)
                     \o W("text", " ", Nothing) \o Plist(tree.kids[i], Append(here, tree.names[i]))
        name == IF tree.kind = "list" THEN "array" ELSE "dict"
    IN  CASE Contentless(tree) -> W("empty", "true", Nothing)
          [] tree.kind = "string" -> W("start", "string", Nothing) \o W("text", "x", here) \o W("end", "string", Nothing)
          [] OTHER -> W("start", name, Nothing)
                      \o Concat([i \in DOMAIN tree.kids |-> IF name = "dict" THEN member(i) ELSE item(i)])
                      \o W("end", name, Nothing)

Xml(tree, name, above) ==
    LET here == Append(above, name)
        kid(i) == Xml(tree.kids[i], IF tree.kind = "dict" THEN tree.names[i] ELSE "item", here)
    IN  CASE Contentless(tree) -> W("empty", name, here)
          [] tree.kind = "string" -> W("start", name, here) \o W("text", "x", here) \o W("end", name, here)
          [] OTHER -> W("start", name, here) \o Concat([i \in DOMAIN tree.kids |-> kid(i)]) \o W("end", name, here)

Text(syntax, written, sound) ==
    [syntax |-> syntax, tokens |-> [n \in DOMAIN written |-> [t |-> written[n].t, name |-> written[n].name]],
     place |-> [n \in DOMAIN written |-> written[n].place], sound |-> sound]

Whole(syntax, written) == Text(syntax, written, Len(written))

(* A token is lost, or another stands in its place. *)
Garbled(written) ==
    UNION {{Text("json", RemoveAt(written, n), n - 1)}
           \cup {Text("json", [written EXCEPT ![n] = [@ EXCEPT !.t = t]], n - 1) : t \in {"]", "string", ":"}}
           : n \in DOMAIN written}

JsonTexts ==
    {Whole("json", Json(tree, <<>>)) : tree \in Documents \cup Spelled}
    \cup UNION {Garbled(Json(tree, <<>>)) : tree \in {Nested, Items(<<Members(<<"a", "b">>, <<Str, Lit>>), Str>>)}}

Listed(tree) == W("start", "plist", Nothing) \o Plist(tree, <<>>) \o W("end", "plist", Nothing)

(* No element without content stands before another in an array. *)
RECURSIVE EmptiesLast(_)
EmptiesLast(tree) ==
    tree.kind \in {"list", "dict"} =>
        /\ \A i \in DOMAIN tree.kids : EmptiesLast(tree.kids[i])
        /\ tree.kind = "list" => \A i \in 1 .. Len(tree.kids) - 1 : ~Contentless(tree.kids[i])

PlistTexts == {Whole("plist", Listed(tree)) : tree \in {d \in Documents : EmptiesLast(d)}}
EmptyElementTexts == {Whole("plist", Listed(tree)) : tree \in Documents}
XmlTexts == {Whole("xml", Xml(tree, "r", <<>>)) : tree \in Documents}

(* CSV: the characters of a field, and its text, in which a pair of quotes stands
   for one; of a header, without the white space around it. *)
Char(t, name) == [t |-> t, name |-> name]
Quote == Char("quote", "'")
Filled(chars, value) == [chars |-> chars, value |-> value]

PlainFilled == Filled(<<Char("char", "x")>>, "x")
HeaderFields ==
    {Filled(<<>>, ""),
     Filled(<<Quote, Char("comma", ","), Quote>>, ","),
     Filled(<<Quote, Char("newline", " "), Char("char", "y"), Quote>>, "y"),
     Filled(<<Char("char", " "), Char("char", "u"), Char("char", " "), Char("char", "y"), Char("char", " ")>>, "u y"),
     Filled(<<Quote, Quote, Quote, Char("char", "z"), Quote>>, "'z")}
RowFields ==
    {Filled(<<Quote, Char("comma", ","), Quote, Char("char", "w")>>, ",w"),
     Filled(<<Quote, Quote, Quote, Char("newline", " "), Quote>>, "' ")}

(* A delimiter counts to the field before it. *)
Line(fields, row, headers, end) ==
    LET place(i) == [row |-> row, col |-> i, header |-> IF i \in DOMAIN headers THEN headers[i].value ELSE Nothing]
        chars(i) == fields[i].chars \o (IF i = Len(fields) THEN end ELSE <<Char("comma", ",")>>)
    IN  Concat([i \in DOMAIN fields |-> [n \in DOMAIN chars(i) |->
            [t |-> chars(i)[n].t, name |-> chars(i)[n].name, place |-> place(i)]]])

LineEnd == <<Char("return", ""), Char("newline", " ")>>

CsvTexts ==
    {Whole("csv", Line(<<h, g>>, 1, <<h, g>>, LineEnd) \o Line(<<v, w>>, 2, <<h, g>>, LineEnd) \o Line(<<w, v, v>>, 3, <<h, g>>, <<>>)) :
        h, g \in HeaderFields, w \in RowFields, v \in {PlainFilled}}

SmallTexts == JsonTexts \cup PlistTexts \cup XmlTexts \cup CsvTexts

=============================================================================
