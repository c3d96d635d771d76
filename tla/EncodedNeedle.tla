--------------------------- MODULE EncodedNeedle ----------------------------
(***************************************************************************)
(* What --base64 looks for: src/src/ops/search/base64.rs.  A byte is four  *)
(* base-4 digits and a base64 character three of them, so that characters  *)
(* and bytes are cut out of one row of digits; of the two alphabets only   *)
(* the last two characters differ.                                         *)
(***************************************************************************)
EXTENDS Naturals, Sequences, FiniteSets, SequencesExt

Byte == [1..4 -> 0..3]
ZeroByte == <<0, 0, 0, 0>>

Special == {<<3, 3, 2>>, <<3, 3, 3>>}
Character(urlsafe, digits) ==
    <<digits, CASE digits \notin Special -> "either" [] urlsafe -> "url" [] OTHER -> "standard">>

(* The k-th digit in the row; zero bits complete the last character. *)
Digit(data, k) == IF k <= 4 * Len(data) THEN data[(k - 1) \div 4 + 1][((k - 1) % 4) + 1] ELSE 0

encode_no_pad(data, urlsafe) ==
    [i \in 1..((4 * Len(data) + 2) \div 3) |->
        Character(urlsafe, <<Digit(data, 3 * i - 2), Digit(data, 3 * i - 1), Digit(data, 3 * i)>>)]

lead(phase) == <<0, 2, 3>>[phase + 1]

(* Mutant: the last character of a cut group is kept. *)
TrailKept(phase, needle) == 0

trail(phase, needle) == IF (phase + Len(needle)) % 3 = 0 THEN 0 ELSE 1

(* One fragment for each phase that leaves one. *)
fragments(needle, urlsafe) ==
    LET encoded(phase) == encode_no_pad([i \in 1..phase |-> ZeroByte] \o needle, urlsafe)
        left(phase) == Len(encoded(phase)) > lead(phase) + trail(phase, needle)
    IN IF needle = <<>> THEN {}
       ELSE {SubSeq(encoded(phase), lead(phase) + 1, Len(encoded(phase)) - trail(phase, needle)) :
                phase \in {p \in 0..2 : left(p)}}

Occurs(fragment, text) ==
    \E i \in 0..(Len(text) - Len(fragment)) : SubSeq(text, i + 1, i + Len(fragment)) = fragment

=============================================================================
