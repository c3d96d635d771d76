---------------------------- MODULE UniqueNaming ----------------------------
(***************************************************************************)
(* What an export plan promises (header and disambiguate() of              *)
(* src/src/report/export.rs): files are placed one after another, each on  *)
(* a destination nobody holds; a file gets the destination it wanted       *)
(* whenever that is still free; a destination once given is final.         *)
(* Destinations are compared through their case-folded keys.               *)
(***************************************************************************)
EXTENDS Naturals, Sequences, SequencesExt

VARIABLES
    wanted,   \* the key each file asks for, in order
    placed    \* the keys given so far

Init == wanted = <<>> /\ placed = <<>>

(* The wishes arrive once, all together. *)
Ask ==
    /\ wanted = <<>>
    /\ placed = <<>>
    /\ wanted' # <<>>
    /\ UNCHANGED placed

(* The next file takes the key it wants if free, else some other free key. *)
Place ==
    LET n == Len(placed) + 1
    IN  /\ n <= Len(wanted)
        /\ Len(placed') = n
        /\ Front(placed') = placed
        /\ Last(placed') \notin ToSet(placed)
        /\ wanted[n] \notin ToSet(placed) => Last(placed') = wanted[n]
        /\ UNCHANGED wanted

Next == Ask \/ Place

Spec == Init /\ [][Next]_<<wanted, placed>>

=============================================================================
