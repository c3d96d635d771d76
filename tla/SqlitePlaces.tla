---------------------------- MODULE SqlitePlaces ----------------------------
(***************************************************************************)
(* Where a byte of a SQLite file stands: table, row and column of the cell *)
(* that holds it, or only its page.  The schema is read as SqliteReader    *)
(* reads it; then the pages of every table are collected, and the cells of *)
(* the byte's page are searched.                                           *)
(*                                                                         *)
(* A byte is one of page `byte.page`; it lies in cell `byte.cell`, or in   *)
(* none (0), there in the value `byte.part`, or before the values (0).     *)
(***************************************************************************)
EXTENDS SqliteReader, FiniteSets

VARIABLES
    byte,     \* of the match
    placed    \* the answer

placeVars == <<byte, placed>>

(* The tables have been read: the inspector asks for none by name. *)
SchemaRead == Walked /\ goal = "schema"

(* The pages of a tree: a page number is followed once, and 0 is none. *)
pages_of(start) ==
    LET known[n \in 0 .. Cardinality(PageNumbers)] ==
            IF n = 0 THEN {start}
            ELSE LET above == known[n - 1]
                 IN  above \cup UNION {Range(interior_children(pg)) : pg \in above \ {0}}
    IN  known[Cardinality(PageNumbers)] \ {0}

(* The first table whose tree reaches the page, or 0. *)
owner(pg) == SelectInSeq(tables, LAMBDA t : pg \in pages_of(t.rootpage))

(* A leaf of a table, and a cell of it that can be parsed. *)
InCell(pg, k) == Is(pg, "leaf") /\ owner(pg) # 0 /\ k \in DOMAIN Pages[pg].cells /\ Pages[pg].cells[k].readable

ColumnName(t, i) == IF i \in DOMAIN t.columns THEN t.columns[i] ELSE Null

CellsOf(pg) == IF pg \in DOMAIN Pages THEN Len(Pages[pg].cells) ELSE 0
ValuesOf(pg, k) == IF k = 0 THEN 0 ELSE Len(Pages[pg].cells[k].local)

PageOnly(pg) == [what |-> "page", page |-> pg]

(* resolve() takes a column's span from the lengths in the record's header. *)
Resolve(pg, k, part) ==
    LET t == tables[owner(pg)]
        c == Pages[pg].cells[k]
        row == [what |-> "row", page |-> pg, table |-> t.name, rowid |-> c.rowid]
    IN  IF ~InCell(pg, k) THEN PageOnly(pg)
        ELSE IF part = 0 THEN row
        ELSE [what |-> "value", page |-> pg, table |-> t.name, rowid |-> c.rowid,
              index |-> part, column |-> ColumnName(t, part), value |-> c.local[part]]

(* locate_with(), of any byte: nothing before depends on it. *)
Locate ==
    /\ SchemaRead
    /\ \E pg \in PageNumbers : \E k \in 0 .. CellsOf(pg) : \E part \in 0 .. ValuesOf(pg, k) :
          /\ byte' = [page |-> pg, cell |-> k, part |-> part]
          /\ placed' = IF pg \in DOMAIN Pages THEN Resolve(pg, k, part) ELSE Null
    /\ phase' = "placed"
    /\ UNCHANGED <<file, treeVars, tables, cellVars, chainVars, rows>>

(* The schema is read in the same way for a reader and for the inspector. *)
PlaceNext ==
    \/ Next /\ UNCHANGED placeVars
    \/ Locate

-----------------------------------------------------------------------------
(* Properties *)

(* The table whose tree the page was written into: a history field of `file`. *)
Home(pg) == file.home[pg]

Plain == \A info \in {c.info : c \in Range(file.original[1].cells)} \ {Null} : ~Spills(info)

(* A byte is told the table its row was written to, and its column under that
   column's own name: pages_of(), owner(), resolve().  In a damaged tree the table
   told is at least one whose tree still reaches the page. *)
ValueIsThere ==
    phase = "placed" /\ placed # Null /\ placed.what # "page" =>
        /\ \E i \in DOMAIN tables : tables[i].name = placed.table /\ byte.page \in pages_of(tables[i].rootpage)
        /\ Pages = file.original => placed.table = Home(byte.page)
        /\ placed.what = "value" /\ Intact(1) /\ Plain =>
               \A info \in {c.info : c \in Range(file.original[1].cells)} \ {Null} :
                   info.type = "table" /\ info.name = placed.table =>
                       LET columns == SelectSeq(info.parts, LAMBDA part : part.column)
                       IN  placed.column = (IF byte.part \in DOMAIN columns THEN columns[byte.part].token ELSE Null)

(* On an undamaged file every byte of a row of a table is told its row. *)
EveryRowTold ==
    phase = "placed" /\ Pages = file.original /\ Plain /\ byte.cell # 0 /\ Home(byte.page) # Null =>
        placed.what # "page"

=============================================================================
