--------------------------- MODULE CommittedStore ---------------------------
(***************************************************************************)
(* What a reader of a SQLite database may see: the last committed state.   *)
(* A transaction replaces the database by its outcome in one step or not   *)
(* at all.                                                                 *)
(***************************************************************************)
CONSTANTS Databases,   \* what a transaction may turn the database into
          NoTxn,       \* no transaction is open
          Created      \* the database at first

VARIABLES db,      \* the committed database: the sequence of its pages
          outcome  \* what the open transaction will turn it into

Init == db = Created /\ outcome = NoTxn

Open == outcome = NoTxn /\ outcome' \in Databases /\ UNCHANGED db

Commit == outcome # NoTxn /\ db' = outcome /\ outcome' = NoTxn

Abandon == outcome # NoTxn /\ outcome' = NoTxn /\ UNCHANGED db

Next == Open \/ Commit \/ Abandon

Spec == Init /\ [][Next]_<<db, outcome>>

=============================================================================
