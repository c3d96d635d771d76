---------------------------- MODULE SqliteReader ----------------------------
(***************************************************************************)
(* read_table(): the schema's b-tree and the table's b-tree walked page by *)
(* page, each row put together from its leaf cell and its overflow chain,  *)
(* and projected to the columns asked for.  The file may be cut short, and *)
(* any pointer in it may be wrong.                                         *)
(*                                                                         *)
(* A record is a sequence of values, one for each column, and an overflow  *)
(* page holds one of them.  A page can be read in every way: as a node of  *)
(* a tree and as a link of a chain.                                        *)
(***************************************************************************)
EXTENDS Naturals, Sequences, SequencesExt

CONSTANTS
    PageNumbers,  \* the page numbers that occur, absent pages included
    Files,        \* the files read, see FileType
    Null,         \* Value::Null, and what is not there
    Junk          \* a name made of bytes that are no part of the text

(* A part of a CREATE TABLE statement between two commas at depth 0: its first
   word, in capitals, and whether it defines a column. *)
Part == [token : STRING, column : BOOLEAN]

(* What a cell holds: of a schema row, `type` is its first column, `in_leaf` the
   number of parts of its text that stand in the leaf. *)
InfoType == [type : STRING, name : STRING, root : PageNumbers, parts : Seq(Part), in_leaf : Nat]

IsCell(c) ==
    /\ c.readable \in BOOLEAN             \* its bytes are in the file
    /\ c.info \in InfoType \cup {Null}
    /\ c.size \in Nat /\ Len(c.local) <= c.size
    /\ c.first \in PageNumbers            \* of the overflow chain

IsPage(p) ==
    /\ p.kind \in {"interior", "leaf", "other"}
    /\ p.kids \in Seq(PageNumbers)        \* the right pointer, then those of the cells
    /\ p.whole \in BOOLEAN                \* its pointers and its data are in the file
    /\ \A i \in DOMAIN p.cells : IsCell(p.cells[i])
    /\ p.next \in PageNumbers

ASSUME FileAssumption ==
    /\ 0 \in PageNumbers /\ 1 \in PageNumbers
    /\ PageNumbers \subseteq Nat
    /\ \A f \in Files :
          /\ f.header \in BOOLEAN         \* parse_header() accepts it
          /\ f.cut \in BOOLEAN            \* its last page is not all there
          /\ f.pages \in Seq(Range(f.pages))
          /\ \A n \in DOMAIN f.pages : IsPage(f.pages[n])
          /\ f.table \in STRING /\ f.columns \subseteq STRING

VARIABLES
    file,    \* the bytes, and the table and columns asked for
    phase,   \* "header", "walk", "cells", "chain", "done" or "none"
    goal,    \* whose tree is walked: "schema" or "table"
    root,    \* the root of that tree
    stack,   \* pages to visit
    seen,    \* pages visited
    tables,  \* the schema rows read: [name, rootpage, columns]
    page,    \* the leaf whose cells are visited
    at,      \* the cell visited
    buf,     \* the record so far
    next,    \* the next page of the chain
    links,   \* how many more links will be followed
    rows     \* the rows read: [rowid, values, from]

treeVars == <<goal, root, stack, seen>>
cellVars == <<page, at>>
chainVars == <<buf, next, links>>
vars == <<file, phase, treeVars, tables, cellVars, chainVars, rows>>

-----------------------------------------------------------------------------
(* Pages and definitions *)

Pages == file.pages

Is(pg, kind) == pg \in DOMAIN Pages /\ Pages[pg].kind = kind

(* interior_children(): one pointer that cannot be read, and there are none. *)
interior_children(pg) ==
    IF Is(pg, "interior") /\ Pages[pg].whole THEN Pages[pg].kids ELSE <<>>

Keywords == {"PRIMARY", "UNIQUE", "CHECK", "FOREIGN", "CONSTRAINT", "KEY"}

(* Parts that begin with a keyword are taken for constraints. *)
parse_columns(parts) ==
    LET kept == SelectSeq(parts, LAMBDA part : part.token \notin Keywords)
    IN  [i \in DOMAIN kept |-> kept[i].token]

(* The definitions read from a schema row.  parse_cell() does not follow the
   overflow chain: of a text that spills it takes the bytes behind the cell for
   the rest.  Where these hold no ")" the text ends at one in the leaf, and it is
   no text at all where they would lie behind the file's end. *)
Definitions(info) ==
    IF info.in_leaf >= Len(info.parts)
    THEN {<<parse_columns(info.parts)>>}
    ELSE {<<Append(parse_columns(SubSeq(info.parts, 1, info.in_leaf)), Junk)>>, <<>>}
         \cup {<<parse_columns(SubSeq(info.parts, 1, n))>> : n \in 0 .. info.in_leaf}

sqlite_schema ==
    [name |-> "sqlite_schema", rootpage |-> 1,
     columns |-> <<"type", "name", "tbl_name", "rootpage", "sql">>]

(* The first table of that name, or 0. *)
def == SelectInSeq(tables, LAMBDA t : t.name = file.table)

(* The value of a column: Null where the definition or the record lacks it. *)
col_value(record, name) ==
    LET i == SelectInSeq(tables[def].columns, LAMBDA c : c = name)
    IN  IF i \in DOMAIN record THEN record[i] ELSE Null

Cells == Pages[page].cells
Cell == Cells[at]

Row(record) ==
    [rowid |-> Cell.rowid, values |-> [name \in file.columns |-> col_value(record, name)],
     from |-> <<page, at>>]

-----------------------------------------------------------------------------
Init ==
    /\ file \in Files
    /\ phase = "header" /\ goal = "schema" /\ root = 1
    /\ stack = <<>> /\ seen = {} /\ tables = <<>>
    /\ page = 0 /\ at = 0
    /\ buf = <<>> /\ next = 0 /\ links = 0
    /\ rows = <<>>

(* parse_header(), and the schema table's own entry. *)
ParseHeader ==
    /\ phase = "header" /\ file.header
    /\ phase' = "walk"
    /\ stack' = <<1>>
    /\ tables' = <<sqlite_schema>>
    /\ UNCHANGED <<file, goal, root, seen, cellVars, chainVars, rows>>

NotADatabase ==
    /\ phase = "header" /\ ~file.header
    /\ phase' = "none"
    /\ UNCHANGED <<file, treeVars, tables, cellVars, chainVars, rows>>

Top == Last(stack)

(* A page number that leads nowhere new. *)
SkipPage ==
    /\ phase = "walk" /\ stack # <<>>
    /\ Top = 0 \/ Top \in seen
    /\ stack' = Front(stack)
    /\ UNCHANGED <<file, phase, goal, root, seen, tables, cellVars, chainVars, rows>>

Visit ==
    /\ phase = "walk" /\ stack # <<>>
    /\ Top # 0 /\ Top \notin seen
    /\ seen' = seen \cup {Top}

(* Mutant of VisitInterior: the right pointer is forgotten. *)
VisitInteriorLeftOnly ==
    /\ Visit
    /\ Is(Top, "interior")
    /\ stack' = Front(stack) \o SubSeq(interior_children(Top), 2, Len(interior_children(Top)))
    /\ UNCHANGED <<file, phase, goal, root, tables, cellVars, chainVars, rows>>

VisitInterior ==
    /\ Visit
    /\ Is(Top, "interior")
    /\ stack' = Front(stack) \o interior_children(Top)
    /\ UNCHANGED <<file, phase, goal, root, tables, cellVars, chainVars, rows>>

VisitLeaf ==
    /\ Visit
    /\ Is(Top, "leaf")
    /\ stack' = Front(stack)
    /\ page' = Top /\ at' = 1
    /\ phase' = "cells"
    /\ UNCHANGED <<file, goal, root, tables, chainVars, rows>>

(* Behind the end of the file, or not a page of a table. *)
VisitOther ==
    /\ Visit
    /\ ~Is(Top, "interior") /\ ~Is(Top, "leaf")
    /\ stack' = Front(stack)
    /\ UNCHANGED <<file, phase, goal, root, tables, cellVars, chainVars, rows>>

AtCell == phase = "cells" /\ at <= Len(Cells)

IsDefinition == Cell.info # Null /\ Cell.info.type = "table"

(* A cell that cannot be read, or a schema row that is no table's. *)
SkipCell ==
    /\ AtCell
    /\ ~(Cell.readable /\ (goal = "schema" => IsDefinition))
    /\ at' = at + 1
    /\ UNCHANGED <<file, phase, treeVars, tables, page, chainVars, rows>>

ReadDefinition ==
    /\ AtCell /\ Cell.readable
    /\ goal = "schema" /\ IsDefinition
    /\ \E d \in Definitions(Cell.info) :
          tables' = tables \o [i \in DOMAIN d |->
              [name |-> Cell.info.name, rootpage |-> Cell.info.root, columns |-> d[i]]]
    /\ at' = at + 1
    /\ UNCHANGED <<file, phase, treeVars, page, chainVars, rows>>

(* cell_record() of a record that ends in its leaf. *)
ReadRow ==
    /\ AtCell /\ Cell.readable /\ goal = "table"
    /\ Len(Cell.local) = Cell.size
    /\ rows' = Append(rows, Row(Cell.local))
    /\ at' = at + 1
    /\ UNCHANGED <<file, phase, treeVars, tables, page, chainVars>>

(* The chain may have one link more than the file has whole pages. *)
StartChain ==
    /\ AtCell /\ Cell.readable /\ goal = "table"
    /\ Len(Cell.local) < Cell.size
    /\ buf' = Cell.local /\ next' = Cell.first
    /\ links' = IF file.cut THEN Len(Pages) ELSE Len(Pages) + 1
    /\ phase' = "chain"
    /\ UNCHANGED <<file, treeVars, tables, cellVars, rows>>

MoreToRead == phase = "chain" /\ links > 0 /\ next # 0 /\ Len(buf) < Cell.size

Linked == next \in DOMAIN Pages /\ Pages[next].whole

FollowChain ==
    /\ MoreToRead /\ Linked
    /\ buf' = Append(buf, Pages[next].piece)
    /\ next' = Pages[next].next
    /\ links' = links - 1
    /\ UNCHANGED <<file, phase, treeVars, tables, cellVars, rows>>

(* A page behind the end of the file: the record is given up. *)
AbortChain ==
    /\ MoreToRead /\ ~Linked
    /\ at' = at + 1
    /\ phase' = "cells"
    /\ UNCHANGED <<file, treeVars, tables, page, chainVars, rows>>

(* Mutant of EndChain: the values are decoded from the leaf's bytes. *)
EndChainLocal ==
    /\ phase = "chain" /\ ~MoreToRead
    /\ rows' = IF Len(buf) = Cell.size THEN Append(rows, Row(Cell.local)) ELSE rows
    /\ at' = at + 1
    /\ phase' = "cells"
    /\ UNCHANGED <<file, treeVars, tables, page, chainVars>>

(* Mutant of EndChain: a short record is handed back. *)
EndChainShort ==
    /\ phase = "chain" /\ ~MoreToRead
    /\ rows' = Append(rows, Row(buf))
    /\ at' = at + 1
    /\ phase' = "cells"
    /\ UNCHANGED <<file, treeVars, tables, page, chainVars>>

(* Only a complete record counts. *)
EndChain ==
    /\ phase = "chain" /\ ~MoreToRead
    /\ rows' = IF Len(buf) = Cell.size THEN Append(rows, Row(buf)) ELSE rows
    /\ at' = at + 1
    /\ phase' = "cells"
    /\ UNCHANGED <<file, treeVars, tables, page, chainVars>>

EndPage ==
    /\ phase = "cells" /\ at > Len(Cells)
    /\ phase' = "walk"
    /\ UNCHANGED <<file, treeVars, tables, cellVars, chainVars, rows>>

Walked == phase = "walk" /\ stack = <<>>

(* The schema has been read: on to the table, if there is one. *)
FindTable ==
    /\ Walked /\ goal = "schema" /\ def # 0
    /\ goal' = "table"
    /\ root' = tables[def].rootpage
    /\ stack' = <<tables[def].rootpage>>
    /\ seen' = {}
    /\ UNCHANGED <<file, phase, tables, cellVars, chainVars, rows>>

UnknownTable ==
    /\ Walked /\ goal = "schema" /\ def = 0
    /\ phase' = "none"
    /\ UNCHANGED <<file, treeVars, tables, cellVars, chainVars, rows>>

Finish ==
    /\ Walked /\ goal = "table"
    /\ phase' = "done"
    /\ UNCHANGED <<file, treeVars, tables, cellVars, chainVars, rows>>

Next ==
    \/ ParseHeader \/ NotADatabase
    \/ SkipPage \/ VisitInterior \/ VisitLeaf \/ VisitOther
    \/ SkipCell \/ ReadDefinition \/ ReadRow \/ StartChain
    \/ FollowChain \/ AbortChain \/ EndChain \/ EndPage
    \/ FindTable \/ UnknownTable \/ Finish

Spec == Init /\ [][Next]_vars

(* One thread, no waits. *)
FairSpec == Spec /\ WF_vars(Next)

-----------------------------------------------------------------------------
(* Properties *)

(* A set of pages that holds the root and with each page its children. *)
IsClosed(C) ==
    /\ root \in C \cup {0}
    /\ \A pg \in C : Range(interior_children(pg)) \subseteq C \cup {0}

(* Whatever the pointers of a damaged tree lead to, a walk visits exactly the
   pages under its root: for_each_leaf_cell(), pages_of().  None is left out
   behind a cycle or a shared child, none is visited that is not under it. *)
WholeTreeWalked ==
    Walked =>
        /\ 0 \notin seen /\ IsClosed(seen)
        /\ \A C \in SUBSET PageNumbers : IsClosed(C) => seen \subseteq C

(* The file before it was damaged is a history field of `file`. *)
Intact(pg) == pg \in DOMAIN Pages /\ pg \in DOMAIN file.original /\ Pages[pg] = file.original[pg]

(* The pages of a cell's chain as it was written. *)
Chain(c) ==
    LET link[n \in 1 .. Len(file.original)] ==
            IF n = 1 THEN c.first ELSE file.original[link[n - 1]].next
    IN  [n \in 1 .. c.size - Len(c.local) |-> link[n]]

IntactRow(pg, k) ==
    LET c == file.original[pg].cells[k]
    IN  /\ Intact(pg) /\ c.readable
        /\ \A n \in DOMAIN Chain(c) : Intact(Chain(c)[n])

Written(c) == c.local \o [n \in DOMAIN Chain(c) |-> file.original[Chain(c)[n]].piece]

(* The CREATE TABLE statements of the table asked for. *)
Statements ==
    {c.info : c \in {c \in Range(file.original[1].cells) :
                        c.info # Null /\ c.info.type = "table" /\ c.info.name = file.table}}

Spills(info) == info.in_leaf < Len(info.parts)

(* A column's place among the columns, counted as SQLite counts them, or 0. *)
Ordinal(info, name) ==
    LET columns == SelectSeq(info.parts, LAMBDA part : part.column)
    IN  SelectInSeq(columns, LAMBDA part : part.token = name)

(* The value that was written for the column of that name, or Null. *)
Own(from, info, name) ==
    LET record == Written(file.original[from[1]].cells[from[2]])
        o == Ordinal(info, name)
    IN  IF o \in DOMAIN record THEN record[o] ELSE Null

(* Every undamaged row on a page that the tree still reaches is read, once, and
   no row is read of a page it does not reach.  A row of which the chain is
   damaged may hold a wrong value, but it is not read in part, the rest Null:
   read_table_with_rowid(), cell_record(). *)
IntactRowsRead ==
    phase = "done" =>
        /\ \A i, j \in DOMAIN rows : i # j => rows[i].from # rows[j].from
        /\ \A i \in DOMAIN rows : rows[i].from[1] \in seen
        /\ \A pg \in seen \cap DOMAIN file.original :
              Is(pg, "leaf") => \A k \in DOMAIN file.original[pg].cells :
                  IntactRow(pg, k) => \E i \in DOMAIN rows :
                      rows[i].from = <<pg, k>> /\ rows[i].rowid = file.original[pg].cells[k].rowid
        /\ \A i \in DOMAIN rows, info \in Statements, name \in file.columns :
              Intact(1) /\ Intact(rows[i].from[1]) /\ ~Spills(info) /\ rows[i].values[name] = Null
                  => Own(rows[i].from, info, name) = Null

(* The value of a column is the one the row holds for THAT column, or Null
   where the row or the text read has none ("so a row's positional record slots
   line up with what the caller asked for"), also in a table whose statement
   spilled and in a record that was put together from a chain. *)
ColumnsAligned ==
    phase = "done" /\ Intact(1) =>
        \A i \in DOMAIN rows, info \in Statements, name \in file.columns :
            IntactRow(rows[i].from[1], rows[i].from[2]) =>
                rows[i].values[name] \in
                    {Own(rows[i].from, info, name)} \cup (IF Spills(info) THEN {Null} ELSE {})

=============================================================================
