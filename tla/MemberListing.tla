--------------------------- MODULE MemberListing ----------------------------
(***************************************************************************)
(* What listing archives promises: of each, the files and directories its  *)
(* writer put in, in order, each once, under its own name and with its own *)
(* bytes, up to the first member that is not whole any more; or a refusal. *)
(***************************************************************************)
EXTENDS Naturals, Sequences

VARIABLES members,  \* what the writer put in
          whole,    \* how many of them precede the damage
          next,     \* the member to come to next
          listed,   \* the members listed
          status    \* "idle", "listing", "done" or "refused"

vars == <<members, whole, next, listed, status>>

Listable(m) == m.type \in {"file", "dir"}

Init == listed = <<>> /\ status = "idle"

Begin ==
    /\ status # "listing" /\ status' = "listing"
    /\ whole' \in 0..Len(members')
    /\ next' = 1 /\ listed' = <<>>

(* A refusal is of the whole archive. *)
Refuse ==
    /\ status = "listing" /\ listed = <<>> /\ status' = "refused"
    /\ UNCHANGED <<members, whole, next, listed>>

Take ==
    /\ status = "listing" /\ next <= whole /\ next' = next + 1
    /\ listed' = IF Listable(members[next]) THEN Append(listed, members[next]) ELSE listed
    /\ UNCHANGED <<members, whole, status>>

Stop ==
    /\ status = "listing" /\ next = whole + 1 /\ status' = "done"
    /\ UNCHANGED <<members, whole, next, listed>>

Next == Begin \/ Refuse \/ Take \/ Stop

Spec == Init /\ [][Next]_vars

=============================================================================
