--------------------------- MODULE DocumentPaths ----------------------------
(***************************************************************************)
(* Where a byte of a text stands: the scanners that read a JSON text, an   *)
(* XML property list, other XML or a CSV table from its beginning and      *)
(* name the value, the element or the field that covers the byte.          *)
(*                                                                         *)
(* A text is a sequence of tokens, as far as the scanner tells bytes       *)
(* apart: a string or a literal of JSON, a delimiter, an event of the XML  *)
(* reader, a character of CSV.  The byte is one of the token `mark`.       *)
(***************************************************************************)
EXTENDS Naturals, Sequences, SequencesExt, FiniteSets

CONSTANTS
    Texts,     \* see TextAssumption
    Nothing,   \* None
    At(_),     \* the segment "[i]"
    Bytes(_),  \* how a key of JSON is written
    MAX_DEPTH  \* how deep the JSON scanner descends

JsonTokens == {"{", "}", "[", "]", ",", ":", "string", "literal", "space"}
XmlTokens == {"start", "end", "empty", "text", "other"}
CsvTokens == {"quote", "comma", "newline", "return", "char"}

ASSUME TextAssumption ==
    /\ MAX_DEPTH \in Nat
    /\ \A x \in Texts :
          /\ x.syntax \in {"json", "plist", "xml", "csv"}
          /\ x.tokens \in Seq(Range(x.tokens))
          /\ \A n \in DOMAIN x.tokens :
                x.tokens[n].t \in (CASE x.syntax = "json" -> JsonTokens
                                     [] x.syntax = "csv" -> CsvTokens
                                     [] OTHER -> XmlTokens)

VARIABLES
    text,   \* what is read
    mark,   \* the token with the byte
    pos,    \* the token read next
    scan,   \* "idle", what is read next, or "told"
    nest,   \* the open containers or elements
    trace,  \* the segments of the value read
    word,   \* what else the scanner remembers
    found   \* the answer

textVars == <<text, mark>>
scanVars == <<textVars, pos, scan, nest, trace, word, found>>

Tok == IF pos \in DOMAIN text.tokens THEN text.tokens[pos].t ELSE "eof"
TokName == text.tokens[pos].name
Covered == mark = pos

(* maybe_hit(): the first one counts. *)
Hit(covered, segments) == found' = IF found = Nothing /\ covered THEN segments ELSE found

-----------------------------------------------------------------------------
(* JSON *)

JsonBegin ==
    /\ scan = "begin" /\ text.syntax = "json"
    /\ scan' = "value"
    /\ UNCHANGED <<textVars, pos, nest, trace, word, found>>

SkipSpace ==
    /\ scan \in {"value", "member", "colon", "next"} /\ Tok = "space"
    /\ pos' = pos + 1
    /\ UNCHANGED <<textVars, scan, nest, trace, word, found>>

(* Past the cap the call returns, and the cursor stays. *)
AbandonValue ==
    /\ scan = "value" /\ Tok # "space"
    /\ Len(nest) > MAX_DEPTH \/ Tok = "eof"
    /\ scan' = "after"
    /\ UNCHANGED <<textVars, pos, nest, trace, word, found>>

AtValue == scan = "value" /\ Len(nest) <= MAX_DEPTH

OpenContainer ==
    /\ AtValue /\ Tok \in {"{", "["}
    /\ nest' = Append(nest, [kind |-> Tok, at |-> 0])
    /\ pos' = pos + 1
    /\ scan' = "member"
    /\ UNCHANGED <<textVars, trace, word, found>>

ReadString ==
    /\ AtValue /\ Tok = "string"
    /\ Hit(Covered, trace)
    /\ pos' = pos + 1
    /\ scan' = "after"
    /\ UNCHANGED <<textVars, nest, trace, word>>

(* A literal goes on until a delimiter, whatever it runs over. *)
RunEnd ==
    CHOOSE n \in pos .. Len(text.tokens) + 1 :
        /\ n \in DOMAIN text.tokens => text.tokens[n].t \in {",", "}", "]", "space"}
        /\ \A i \in pos .. n - 1 : text.tokens[i].t \notin {",", "}", "]", "space"}

ReadLiteral ==
    /\ AtValue /\ Tok \notin {"{", "[", "string", "space", "eof"}
    /\ Hit(mark \in pos .. RunEnd - 1, trace)
    /\ pos' = RunEnd
    /\ scan' = "after"
    /\ UNCHANGED <<textVars, nest, trace, word>>

Inner == Last(nest)
Closing == IF Inner.kind = "{" THEN "}" ELSE "]"

decode_escape(e) ==
    CASE e = "n" -> "\n"
      [] e = "t" -> "\t"
      [] e = "r" -> "\r"
      [] OTHER -> e

(* read_key(): each byte is a character, and so is the one behind a backslash. *)
Decoded(bytes) ==
    FoldLeft(LAMBDA acc, b :
                 IF acc.escaped THEN [escaped |-> FALSE, key |-> acc.key \o decode_escape(b)]
                 ELSE IF b = "\\" THEN [acc EXCEPT !.escaped = TRUE]
                 ELSE [acc EXCEPT !.key = @ \o b],
             [escaped |-> FALSE, key |-> ""], bytes).key

(* A member of an object, read up to its key, or of an array. *)
ReadKey ==
    /\ scan = "member" /\ Inner.kind = "{" /\ Tok = "string"
    /\ Hit(Covered, Append(trace, Decoded(Bytes(TokName))))
    /\ trace' = Append(trace, Decoded(Bytes(TokName)))
    /\ pos' = pos + 1
    /\ scan' = "colon"
    /\ UNCHANGED <<textVars, nest, word>>

ReadColon ==
    /\ scan = "colon" /\ Tok # "space"
    /\ pos' = IF Tok = ":" THEN pos + 1 ELSE pos
    /\ scan' = "value"
    /\ UNCHANGED <<textVars, nest, trace, word, found>>

(* Mutant of ReadElement: the index is that of the next element. *)
ReadElementNext ==
    /\ scan = "member" /\ Inner.kind = "[" /\ Tok \notin {"]", "space", "eof"}
    /\ trace' = Append(trace, At(Inner.at + 1))
    /\ scan' = "value"
    /\ UNCHANGED <<textVars, pos, nest, word, found>>

ReadElement ==
    /\ scan = "member" /\ Inner.kind = "[" /\ Tok \notin {"]", "space", "eof"}
    /\ trace' = Append(trace, At(Inner.at))
    /\ scan' = "value"
    /\ UNCHANGED <<textVars, pos, nest, word, found>>

(* Mutant of SkipStray: the byte is looked at again. *)
SkipStrayStuck ==
    /\ scan = "member" /\ Inner.kind = "{" /\ Tok \notin {"}", "string", "space", "eof"}
    /\ pos' = pos
    /\ UNCHANGED <<textVars, scan, nest, trace, word, found>>

(* "Tolerate stray bytes" between the members of an object. *)
SkipStray ==
    /\ scan = "member" /\ Inner.kind = "{" /\ Tok \notin {"}", "string", "space", "eof"}
    /\ pos' = pos + 1
    /\ UNCHANGED <<textVars, scan, nest, trace, word, found>>

(* value() has returned to the container around it. *)
LeaveValue ==
    /\ scan = "after" /\ nest # <<>>
    /\ trace' = Front(trace)
    /\ nest' = [nest EXCEPT ![Len(nest)].at = @ + 1]
    /\ scan' = "next"
    /\ UNCHANGED <<textVars, pos, word, found>>

NextMember ==
    /\ scan = "next" /\ Tok = ","
    /\ pos' = pos + 1
    /\ scan' = "member"
    /\ UNCHANGED <<textVars, nest, trace, word, found>>

(* Closed, or given up where something else stands. *)
LeaveContainer ==
    /\ \/ scan = "member" /\ Tok \in {Closing, "eof"}
       \/ scan = "next" /\ Tok \notin {",", "space"}
    /\ pos' = IF Tok = Closing THEN pos + 1 ELSE pos
    /\ nest' = Front(nest)
    /\ scan' = "after"
    /\ UNCHANGED <<textVars, trace, word, found>>

JsonEnd ==
    /\ scan = "after" /\ nest = <<>>
    /\ scan' = "told"
    /\ UNCHANGED <<textVars, pos, nest, trace, word, found>>

-----------------------------------------------------------------------------
(* XML property lists: an event of the reader at each step, until one is hit.
   Of the empty elements only their bytes are passed over. *)

Event == scan = "begin" /\ text.syntax \in {"plist", "xml"} /\ found = Nothing

Pass == pos' = pos + 1

(* take_segment(): the parent's pending key is used up, or its index counts up. *)
Segment == IF Inner.kind = "array" THEN At(Inner.at)
           ELSE IF Inner.pending = Nothing THEN "?" ELSE Inner.pending
Taken == IF nest = <<>> THEN nest ELSE [nest EXCEPT ![Len(nest)].pending = Nothing, ![Len(nest)].at = @ + 1]

PlistContainer ==
    /\ Event /\ text.syntax = "plist" /\ Tok = "start" /\ TokName \in {"dict", "array"}
    /\ trace' = IF nest = <<>> THEN trace ELSE Append(trace, Segment)
    /\ nest' = Append(Taken, [kind |-> TokName, at |-> 0, pending |-> Nothing, pushed |-> nest # <<>>])
    /\ Pass /\ UNCHANGED <<textVars, scan, word, found>>

PlistKey ==
    /\ Event /\ text.syntax = "plist" /\ Tok = "start" /\ TokName = "key"
    /\ word' = [word EXCEPT !.in_key = TRUE, !.key = ""]
    /\ Pass /\ UNCHANGED <<textVars, scan, nest, trace, found>>

PlistScalar ==
    /\ Event /\ text.syntax = "plist" /\ Tok = "start" /\ TokName \notin {"dict", "array", "key", "plist"}
    /\ word' = [word EXCEPT !.value = IF nest = <<>> THEN "" ELSE Segment]
    /\ nest' = Taken
    /\ Pass /\ UNCHANGED <<textVars, scan, trace, found>>

(* The text of a key counts before the byte is looked for in it. *)
PlistText ==
    /\ Event /\ text.syntax = "plist" /\ Tok = "text"
    /\ LET key == IF word.in_key THEN word.key \o TokName ELSE word.key
           segment == IF word.in_key THEN key ELSE word.value
       IN  /\ word' = [word EXCEPT !.key = key]
           /\ Hit(Covered /\ segment # Nothing, Append(trace, segment))
    /\ Pass /\ UNCHANGED <<textVars, scan, nest, trace>>

PlistEndKey ==
    /\ Event /\ text.syntax = "plist" /\ Tok = "end" /\ TokName = "key"
    /\ word' = [word EXCEPT !.in_key = FALSE]
    /\ nest' = IF nest = <<>> THEN nest ELSE [nest EXCEPT ![Len(nest)].pending = word.key]
    /\ Pass /\ UNCHANGED <<textVars, scan, trace, found>>

PlistEndContainer ==
    /\ Event /\ text.syntax = "plist" /\ Tok = "end" /\ TokName \in {"dict", "array"}
    /\ nest' = IF nest = <<>> THEN nest ELSE Front(nest)
    /\ trace' = IF nest # <<>> /\ Inner.pushed THEN Front(trace) ELSE trace
    /\ Pass /\ UNCHANGED <<textVars, scan, word, found>>

PlistEndScalar ==
    /\ Event /\ text.syntax = "plist" /\ Tok = "end" /\ TokName \notin {"dict", "array", "key", "plist"}
    /\ word' = [word EXCEPT !.value = Nothing]
    /\ Pass /\ UNCHANGED <<textVars, scan, nest, trace, found>>

PlistIgnored ==
    /\ Event /\ text.syntax = "plist"
    /\ Tok \in {"empty", "other"} \/ (Tok \in {"start", "end"} /\ TokName = "plist")
    /\ Pass /\ UNCHANGED <<textVars, scan, nest, trace, word, found>>

-----------------------------------------------------------------------------
(* Other XML: the path of the element whose tag or content covers the byte. *)

XmlStart ==
    /\ Event /\ text.syntax = "xml" /\ Tok = "start"
    /\ Hit(Covered, Append(nest, TokName))
    /\ nest' = Append(nest, TokName)
    /\ Pass /\ UNCHANGED <<textVars, scan, trace, word>>

XmlEnd ==
    /\ Event /\ text.syntax = "xml" /\ Tok = "end"
    /\ Hit(Covered, nest)
    /\ nest' = IF nest = <<>> THEN nest ELSE Front(nest)
    /\ Pass /\ UNCHANGED <<textVars, scan, trace, word>>

XmlOther ==
    /\ Event /\ text.syntax = "xml" /\ Tok \in {"empty", "text", "other"}
    /\ Hit(Covered, IF Tok = "empty" THEN Append(nest, TokName) ELSE nest)
    /\ Pass /\ UNCHANGED <<textVars, scan, nest, trace, word>>

(* A hit, or the end of the file. *)
EventsEnd ==
    /\ scan = "begin" /\ text.syntax \in {"plist", "xml"}
    /\ found # Nothing \/ Tok = "eof"
    /\ scan' = "told"
    /\ UNCHANGED <<textVars, pos, nest, trace, word, found>>

-----------------------------------------------------------------------------
(* CSV *)

IsPair(n) == n + 1 \in DOMAIN text.tokens /\ text.tokens[n].t = "quote" /\ text.tokens[n + 1].t = "quote"

(* The second scan, for the header: its flag is set behind an odd number of
   quotes, which a pair does not change. *)
Quoted(n) == Cardinality({i \in 1 .. n - 1 : text.tokens[i].t = "quote"}) % 2 = 1

InFirstRow(n) == \A i \in 1 .. n : text.tokens[i].t = "newline" => Quoted(i)
ColumnOf(n) == 1 + Cardinality({i \in 1 .. n - 1 : text.tokens[i].t = "comma" /\ ~Quoted(i)})

FieldText(n) ==
    IF text.tokens[n].t = "quote" THEN (IF Quoted(n) /\ IsPair(n) THEN "'" ELSE "")
    ELSE IF Quoted(n) \/ text.tokens[n].t = "char" THEN text.tokens[n].name ELSE ""

(* take_field(): white space at either end is dropped, within quotes or not. *)
White == {"", " "}

take_field(pieces) ==
    LET black == {i \in DOMAIN pieces : pieces[i] \notin White}
        kept == IF black = {} THEN <<>> ELSE SubSeq(pieces, Min(black), Max(black))
    IN  FoldLeft(LAMBDA acc, piece : acc \o piece, "", kept)

(* header_field(): the field of that column in the first row. *)
header_field(col) ==
    LET chars == SelectSeq([n \in DOMAIN text.tokens |-> n], LAMBDA n : InFirstRow(n) /\ ColumnOf(n) = col)
    IN  take_field([i \in DOMAIN chars |-> FieldText(chars[i])])

HasHeader(col) == col = 1 \/ \E n \in DOMAIN text.tokens : InFirstRow(n) /\ ColumnOf(n) = col - 1 /\ text.tokens[n].t = "comma" /\ ~Quoted(n)

AtChar == scan = "begin" /\ text.syntax = "csv" /\ pos # mark

(* An escaped quote belongs to its field, both bytes of it. *)
CsvPair ==
    /\ AtChar /\ word.quoted /\ IsPair(pos)
    /\ pos' = IF pos + 1 = mark THEN mark ELSE pos + 2
    /\ UNCHANGED <<textVars, scan, nest, trace, word, found>>

CsvQuote ==
    /\ AtChar /\ Tok = "quote" /\ ~(word.quoted /\ IsPair(pos))
    /\ word' = [word EXCEPT !.quoted = ~@]
    /\ Pass /\ UNCHANGED <<textVars, scan, nest, trace, found>>

CsvChar ==
    /\ AtChar /\ Tok \notin {"quote", "eof"}
    /\ word' = IF word.quoted THEN word
               ELSE CASE Tok = "comma" -> [word EXCEPT !.col = @ + 1]
                      [] Tok = "newline" -> [word EXCEPT !.row = @ + 1, !.col = 1]
                      [] OTHER -> word
    /\ Pass /\ UNCHANGED <<textVars, scan, nest, trace, found>>

CsvEnd ==
    /\ scan = "begin" /\ text.syntax = "csv" /\ pos = mark
    /\ found' = [row |-> word.row, col |-> word.col,
                 header |-> IF HasHeader(word.col) THEN header_field(word.col) ELSE Nothing]
    /\ scan' = "told"
    /\ UNCHANGED <<textVars, pos, nest, trace, word>>

ScanNext ==
    \/ JsonBegin \/ SkipSpace \/ AbandonValue \/ OpenContainer \/ ReadString \/ ReadLiteral
    \/ ReadKey \/ ReadColon \/ ReadElement \/ SkipStray
    \/ LeaveValue \/ NextMember \/ LeaveContainer \/ JsonEnd
    \/ PlistContainer \/ PlistKey \/ PlistScalar \/ PlistText \/ PlistEndKey
    \/ PlistEndContainer \/ PlistEndScalar \/ PlistIgnored
    \/ XmlStart \/ XmlEnd \/ XmlOther \/ EventsEnd
    \/ CsvPair \/ CsvQuote \/ CsvChar \/ CsvEnd

TextInit(x, m) ==
    /\ text = x /\ mark = m
    /\ pos = 1 /\ scan = "begin" /\ nest = <<>> /\ trace = <<>> /\ found = Nothing
    /\ word = [in_key |-> FALSE, key |-> "", value |-> Nothing, quoted |-> FALSE, row |-> 1, col |-> 1]

-----------------------------------------------------------------------------
(* Properties.  What each token was written for is a history field of `text`, its
   place, and up to where the text is as it was written. *)

Sound == scan = "told" /\ mark <= text.sound

(* A segment that is Nothing stands for a key with a \u escape or beyond ASCII,
   which is told as other text than the writer meant. *)
Agrees(segments, place) ==
    /\ DOMAIN segments = DOMAIN place
    /\ \A i \in DOMAIN place : place[i] # Nothing => segments[i] = place[i]

(* A key path, an element path or a row, column and header that is told is the
   one the byte was written at, in a text that is damaged further on too. *)
PlaceAsWritten ==
    Sound /\ found # Nothing =>
        /\ text.place[mark] # Nothing
        /\ IF text.syntax = "json" THEN Agrees(found, text.place[mark]) ELSE found = text.place[mark]

Depth(n) ==
    LET before(kinds) == Cardinality({i \in 1 .. n - 1 : text.tokens[i].t \in kinds})
    IN  before({"{", "["}) - before({"}", "]"})

(* Every byte of a value or a name is told its place, unless the nesting cap of
   the JSON scanner lies before it. *)
EveryTokenTold ==
    Sound /\ text.place[mark] # Nothing /\ (text.syntax = "json" => \A n \in 1 .. mark : Depth(n) <= MAX_DEPTH)
        => found # Nothing

=============================================================================
