------------------------------ MODULE MCFormats ------------------------------
(***************************************************************************)
(* The readers of formats/ on small inputs.  An execution is one job: a    *)
(* database is read or a byte of it placed, a byte of a property list or   *)
(* of a text is placed, or a database is read beside its log.              *)
(***************************************************************************)
EXTENDS SmallFormats, WalReplay

VARIABLE job  \* "database", "list", "text" or "log"

databaseVars == <<vars, placeVars>>

(* render() *)
Bracketed(i) == "[" \o ToString(i) \o "]"
Hashed(oid) == "#" \o ToString(oid)

ASSUME LogAssumption == WalAssumption

NoInputs == {}

NoDatabase ==
    /\ file = Null /\ phase = "idle" /\ goal = "schema" /\ root = 1
    /\ stack = <<>> /\ seen = {} /\ tables = <<>> /\ page = 0 /\ at = 0
    /\ buf = <<>> /\ next = 0 /\ links = 0 /\ rows = <<>>
NoList ==
    /\ list = Absent /\ offset = 0 /\ stage = "idle" /\ target = Absent /\ entry = 1
    /\ frames = <<>> /\ path = <<>> /\ visited = {} /\ told = Unplaced
NoText ==
    /\ text = Nothing /\ mark = 1 /\ pos = 1 /\ scan = "idle" /\ nest = <<>> /\ trace = <<>>
    /\ word = Nothing /\ found = Nothing

MCInit ==
    /\ byte = Null /\ placed = Null /\ LogInit
    /\ \/ job = "database" /\ Init /\ NoList /\ NoText
       \/ job = "list" /\ NoDatabase /\ NoText /\ \E b \in Bplists : \E o \in 0 .. b.table : ListInit(b, o)
       \/ job = "text" /\ NoDatabase /\ NoList /\ \E x \in Texts : \E m \in DOMAIN x.tokens : TextInit(x, m)
       \/ job = "log" /\ NoDatabase /\ NoList /\ NoText

Inspect ==
    \/ job = "database" /\ PlaceNext /\ UNCHANGED <<pathVars, scanVars>>
    \/ job = "list" /\ WalkNext /\ UNCHANGED <<databaseVars, scanVars>>
    \/ job = "text" /\ ScanNext /\ UNCHANGED <<databaseVars, pathVars>>

Read == Inspect /\ UNCHANGED <<job, logVars>>

Write == job = "log" /\ LogNext /\ UNCHANGED <<job, databaseVars, pathVars, scanVars>>

MCNext == Read \/ Write

allVars == <<job, logVars, databaseVars, pathVars, scanVars>>

(* A reader is one thread and waits for nothing. *)
MCSpec == MCInit /\ [][MCNext]_allVars /\ WF_allVars(Read)

(* The readers alone, and no claim that they come to an end. *)
ReaderSpec == MCInit /\ [][Read]_allVars

-----------------------------------------------------------------------------
(* A place that is told is the place of the byte: the table and column of a
   database, the value, element or field of a text. *)
PlaceIsRight == ValueIsThere /\ PlaceAsWritten

(* A byte that has a place in an undamaged input, or before the damage, is told
   it: a row, an object, a value, a name. *)
EveryPlaceTold == EveryRowTold /\ EveryObjectFound /\ EveryTokenTold

(* Whatever the pointers of a damaged database or list lead to, however a text is
   nested or garbled, a reader comes to its end: the loops of page.rs, record.rs,
   nskeyed.rs, plist.rs and json.rs. *)
InspectionEnds ==
    job # "log" => <>(phase \in {"done", "none", "placed"} \/ stage = "told" \/ scan = "told")

=============================================================================
