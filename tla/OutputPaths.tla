---------------------------- MODULE OutputPaths ----------------------------
(***************************************************************************)
(* The output names of src/src/report/export.rs.                           *)
(*                                                                         *)
(* A path component (a SEGMENT) is a sequence of tokens: the characters    *)
(* (or fixed pieces of text) of the source name, and the marks the planner *)
(* appends to it.  A PATH is a sequence of segments; joining with '/' is   *)
(* injective because a sanitised segment holds no '/'.                     *)
(***************************************************************************)
EXTENDS Naturals, Sequences, SequencesExt

CONSTANTS
    Char,        \* characters and fixed pieces of text, such as "-wal"
    Lower,       \* to_ascii_lowercase, character by character
    Illegal,     \* control characters and < > : " / \ | ? *
    Dot,         \* '.'
    Trailing,    \* ' ' and '.', trimmed from the end of a segment
    Underscore,  \* what an illegal character becomes
    Unnamed      \* the placeholder "unnamed"

ASSUME CharAssumption ==
    /\ Lower \in [Char -> Char]
    /\ Illegal \subseteq Char
    /\ Trailing \subseteq Char
    /\ Dot \in Trailing
    /\ Underscore \in Char \ Illegal
    /\ Unnamed \in Char

(* "~k" is a rename, "_0xk" an archive offset, "_k" a path hash. *)
Mark == {"~", "_0x", "_"}
Token == Char \cup (Mark \X Nat)
Segment == Seq(Token)
Path == Seq(Segment)

LowerSegment(seg) ==
    [k \in DOMAIN seg |-> IF seg[k] \in Char THEN Lower[seg[k]] ELSE seg[k]]

(* The key under which the planner compares destinations. *)
LowerPath(path) == [k \in DOMAIN path |-> LowerSegment(path[k])]

(* Illegal characters become '_', then trailing dots and spaces go; a name
   with nothing left is called "unnamed". *)
sanitise_segment(seg) ==
    LET clean == [k \in DOMAIN seg |-> IF seg[k] \in Illegal THEN Underscore ELSE seg[k]]
        keep  == SelectLastInSeq(clean, LAMBDA t : t \notin Trailing)
    IN  IF keep = 0 THEN <<Unnamed>> ELSE SubSeq(clean, 1, keep)

(* A label names a subtree: its '.', '..' and empty components are dropped. *)
sanitise_label(label) ==
    LET kept == SelectSeq(label, LAMBDA seg : seg \notin {<<>>, <<Dot>>, <<Dot, Dot>>})
    IN  [k \in DOMAIN kept |-> sanitise_segment(kept[k])]

sanitise_path(path) == [k \in DOMAIN path |-> sanitise_segment(path[k])]

=============================================================================
