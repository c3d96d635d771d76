----------------------------- MODULE ScanReport -----------------------------
(***************************************************************************)
(* What a search promises, whatever order its threads read the files in:   *)
(* the files are accounted for one after the other, in entry order, and    *)
(* each either shows ALL it holds, or is left out because a filter says    *)
(* so, or is counted as a file nobody could look into.                     *)
(***************************************************************************)
EXTENDS Naturals, Sequences

VARIABLES
    evidence,  \* what each entry holds, a sequence per entry
    filtered,  \* whether the operator's filters leave the entry out
    report,    \* what has been reported
    shown, withheld, failed  \* the entries accounted for, by fate

scanVars == <<evidence, filtered, report, shown, withheld, failed>>

Position == shown + withheld + failed
Unaccounted == Position < Len(evidence)
Entry == Position + 1

Init ==
    /\ report = <<>>
    /\ shown = 0 /\ withheld = 0 /\ failed = 0

Show ==
    /\ Unaccounted
    /\ ~filtered[Entry]
    /\ report' = report \o evidence[Entry]
    /\ shown' = shown + 1
    /\ UNCHANGED <<evidence, filtered, withheld, failed>>

Withhold ==
    /\ Unaccounted
    /\ filtered[Entry]
    /\ withheld' = withheld + 1
    /\ UNCHANGED <<evidence, filtered, report, shown, failed>>

Fail ==
    /\ Unaccounted
    /\ failed' = failed + 1
    /\ UNCHANGED <<evidence, filtered, report, shown, withheld>>

Next == Show \/ Withhold \/ Fail

Spec == Init /\ [][Next]_scanVars

=============================================================================
