-------------------------- MODULE DecryptionProofs --------------------------
(***************************************************************************)
(* For all command lines, key dumps and files, of any number of pages,     *)
(* under any keys: what is called verified is what was written, and a      *)
(* secret that fits is found, whatever else was given.                     *)
(***************************************************************************)
EXTENDS Decryption, OrderingProofs

(* The text is the beginning of what was written. *)
Begins(text, written) ==
    \A n \in DOMAIN text : n \in DOMAIN written /\ text[n] = written[n]

RecordOk(r) ==
    r.verified => /\ r.status = "decrypted" /\ r.plaintext # <<>>
                  /\ Begins(r.plaintext, case.entries[r.entry].written)

(* As long as no page failed to verify, the pages so far are the first ones. *)
OpeningInv ==
    /\ case \in Cases
    /\ at \in Nat \ {0}
    /\ phase \in {"key", "page", "offset"} => at \in DOMAIN case.entries
    /\ out \in Seq(Range(out))
    /\ phase = "page" =>
           /\ entry.pages # <<>>
           /\ verified => Begins(out, entry.written)
    /\ audit \in Seq(Range(audit))
    /\ \A i \in DOMAIN audit : RecordOk(audit[i])

LEMMA AppendSeq ==
    ASSUME NEW s, s \in Seq(Range(s)), NEW x
    PROVE  /\ Append(s, x) \in Seq(Range(Append(s, x)))
           /\ DOMAIN Append(s, x) = DOMAIN s \cup {Len(s) + 1}
           /\ \A i \in DOMAIN s : Append(s, x)[i] = s[i]
           /\ Append(s, x)[Len(s) + 1] = x
           /\ Append(s, x) # <<>>
<1> DEFINE S == Range(s) \cup {x}
<1>1. s \in Seq(S) /\ x \in S
  OBVIOUS
<1>2. Append(s, x) \in Seq(S) /\ Len(Append(s, x)) = Len(s) + 1
  BY <1>1
<1>3. /\ DOMAIN Append(s, x) = 1 .. Len(s) + 1
      /\ \A i \in 1 .. Len(s) : Append(s, x)[i] = s[i]
      /\ Append(s, x)[Len(s) + 1] = x
  BY <1>1, <1>2
<1>4. DOMAIN s = 1 .. Len(s) /\ Len(s) \in Nat
  BY <1>1
<1>5. \A y \in S : y \in Range(Append(s, x))
  BY <1>3, <1>4 DEF Range
<1>6. Append(s, x) \in Seq(Range(Append(s, x)))
  BY <1>2, <1>5
<1>7. Append(s, x) # <<>>
  <2>1. Len(Append(s, x)) # 0
    BY <1>2, <1>4
  <2>2. Len(<<>>) = 0
    OBVIOUS
  <2> QED BY <2>1, <2>2, Zenon
<1>8. DOMAIN Append(s, x) = DOMAIN s \cup {Len(s) + 1}
  BY <1>3, <1>4
<1> QED BY <1>3, <1>4, <1>6, <1>7, <1>8

(* The entry at hand has the shape that is assumed of it. *)
LEMMA EntryOk ==
    ASSUME case \in Cases, at \in DOMAIN case.entries
    PROVE  /\ entry.pages \in Seq(Range(entry.pages))
           /\ entry.written \in Seq(Range(entry.written)) \ {<<>>}
           /\ \A n \in DOMAIN entry.pages : IsGenuine(entry.pages[n], entry.written)
BY CaseAssumption DEF entry

(* A record that is honest about the entry joins the others. *)
LEMMA ConcludeOk ==
    ASSUME OpeningInv, phase \in {"key", "page", "offset"}, NEW status, NEW text, NEW ok,
           Conclude(status, text, ok),
           ok => status = "decrypted" /\ text # <<>> /\ Begins(text, entry.written)
    PROVE  OpeningInv'
<1> DEFINE r == [entry |-> at, profile |-> profile, status |-> status, plaintext |-> text,
                 verified |-> ok, secret |-> IF turn = 0 THEN None ELSE secrets[turn]]
<1>1. /\ audit' = Append(audit, r) /\ at' = at + 1 /\ phase' = "entry"
      /\ case' = case /\ out' = out
  BY DEF Conclude, cipherVars
<1>2. RecordOk(r)
  BY DEF RecordOk, entry
<1> HIDE DEF r
<1>3. /\ audit' \in Seq(Range(audit'))
      /\ \A i \in DOMAIN audit' : RecordOk(audit'[i])
  BY <1>1, <1>2, AppendSeq DEF OpeningInv
<1>4. \A i \in DOMAIN audit' : RecordOk(audit[i])'
  BY <1>1, <1>3 DEF RecordOk
<1> QED BY <1>1, <1>3, <1>4 DEF OpeningInv

(* A step that opens nothing. *)
LEMMA OtherStep ==
    ASSUME OpeningInv, UNCHANGED <<case, out, audit>>, at' \in Nat \ {0},
           phase' # "page", phase' \in {"key", "offset"} => at' \in DOMAIN case.entries
    PROVE  OpeningInv'
BY DEF OpeningInv, RecordOk

LEMMA OpeningInit == Init => OpeningInv
BY DEF Init, OpeningInv, Range

LEMMA OpeningNext == OpeningInv /\ [Next]_vars => OpeningInv'
<1> SUFFICES ASSUME OpeningInv, [Next]_vars PROVE OpeningInv'
  OBVIOUS
<1> USE DEF setupVars, keyVars, cipherVars
<1>1. CASE \/ SwitchedOff \/ LoadProfile \/ RefuseProfile \/ EndProfiles
           \/ RefuseKeyfile \/ LoadKeyfile \/ EndKeyfiles
           \/ LookBeside \/ NextDirectory \/ EndSetup \/ NotATarget \/ Finish
  <2>1. /\ UNCHANGED <<case, out, audit>> /\ at' \in {at, at + 1, 1}
        /\ phase' \notin {"key", "page", "offset"}
    BY <1>1 DEF SwitchedOff, LoadProfile, RefuseProfile, EndProfiles, LoadingProfiles, AtKeyfile,
                RefuseKeyfile, LoadKeyfile, EndKeyfiles, LookBeside, NextDirectory, EndSetup,
                NotATarget, AtEntry, Finish
  <2>2. at' \in Nat \ {0}
    BY <2>1 DEF OpeningInv
  <2> QED BY <2>1, <2>2, OtherStep
<1>2. CASE Target
  <2>1. /\ UNCHANGED <<case, out, audit, at>> /\ phase' = "key" /\ at <= Len(case.entries)
    BY <1>2 DEF Target, AtEntry
  <2>2. at \in DOMAIN case.entries
    BY <2>1, CaseAssumption DEF OpeningInv
  <2> QED BY <2>1, <2>2, OtherStep DEF OpeningInv
<1>3. CASE \/ SkipSecret \/ RefuseSqlcipher \/ WrongKey \/ BeginWhatsapp
           \/ WrongOffset \/ InflateError \/ NoOffset
  <2>1. /\ UNCHANGED <<case, out, audit, at>> /\ phase \in {"key", "page", "offset"}
        /\ phase' \in {"key", "offset"}
    BY <1>3 DEF SkipSecret, RefuseSqlcipher, WrongKey, BeginWhatsapp, WrongOffset, InflateError,
                NoOffset, NextCandidate, Trying, AtPage, AtOffset
  <2> QED BY <2>1, OtherStep DEF OpeningInv
<1>4. CASE GiveUp
  <2>1. phase = "key" /\ Conclude("failed", <<>>, FALSE)
    BY <1>4 DEF GiveUp
  <2> QED BY <2>1, ConcludeOk
<1>5. CASE BeginSqlcipher
  <2>1. /\ UNCHANGED <<case, audit, at>> /\ phase = "key" /\ phase' = "page"
        /\ out' = <<>> /\ entry.pages # <<>>
    BY <1>5 DEF BeginSqlcipher, Trying, InPages
  <2>2. entry' = entry
    BY <2>1 DEF entry
  <2>3. out' \in Seq(Range(out')) /\ \A w : Begins(out', w)
    BY <2>1 DEF Begins, Range
  <2> QED BY <2>1, <2>2, <2>3 DEF OpeningInv, RecordOk, Begins
<1>6. CASE DecryptPage
  <2>1. /\ UNCHANGED <<case, audit, at>> /\ phase = "page" /\ phase' = "page"
        /\ Number <= Len(entry.pages)
        /\ out' = Append(out, Text(Page))
        /\ verified' = (verified /\ hmac_ok(Page, Number))
    BY <1>6 DEF DecryptPage, AtPage
  <2>2. entry' = entry
    BY <2>1 DEF entry
  <2>3. at \in DOMAIN case.entries /\ Number \in DOMAIN entry.pages
    BY <2>1, EntryOk DEF OpeningInv, Number
  <2>4. ASSUME hmac_ok(Page, Number)
        PROVE  Number \in DOMAIN entry.written /\ Text(Page) = entry.written[Number]
    <3>1. IsGenuine(Page, entry.written)
      BY <2>3, EntryOk DEF Page, OpeningInv
    <3> QED BY <2>4, <3>1 DEF hmac_ok, IsGenuine, Text
  <2>5. verified' => Begins(out', entry.written)
    <3> SUFFICES ASSUME verified, hmac_ok(Page, Number), NEW n \in DOMAIN out'
                 PROVE  n \in DOMAIN entry.written /\ out'[n] = entry.written[n]
      BY <2>1 DEF Begins
    <3>1. /\ DOMAIN out' = DOMAIN out \cup {Number}
          /\ \A i \in DOMAIN out : out'[i] = out[i]
          /\ out'[Number] = Text(Page)
      BY <2>1, AppendSeq DEF OpeningInv, Number
    <3>2. CASE n \in DOMAIN out
      BY <2>1, <3>1, <3>2 DEF OpeningInv, Begins
    <3>3. CASE n = Number
      BY <2>4, <3>1, <3>3
    <3> QED BY <3>1, <3>2, <3>3
  <2>6. out' \in Seq(Range(out'))
    BY <2>1, AppendSeq DEF OpeningInv
  <2> QED BY <2>1, <2>2, <2>3, <2>5, <2>6 DEF OpeningInv, RecordOk, Begins
<1>7. CASE EndPages
  <2>1. phase = "page" /\ Number > Len(entry.pages) /\ Conclude("decrypted", out, verified)
    BY <1>7 DEF EndPages
  <2>2. out # <<>>
    BY <2>1, EntryOk DEF OpeningInv, Number
  <2>3. verified => Begins(out, entry.written)
    BY <2>1 DEF OpeningInv
  <2> QED BY <2>1, <2>2, <2>3, ConcludeOk
<1>8. CASE Inflate
  <2>1. phase = "offset" /\ Conclude("decrypted", entry.written, TRUE)
    BY <1>8 DEF Inflate, AtOffset
  <2>2. entry.written # <<>> /\ Begins(entry.written, entry.written)
    BY <2>1, EntryOk DEF OpeningInv, Begins
  <2> QED BY <2>1, <2>2, ConcludeOk
<1>9. CASE UNCHANGED vars
  BY <1>9 DEF vars, OpeningInv, RecordOk, Begins, entry
<1> QED BY <1>1, <1>2, <1>3, <1>4, <1>5, <1>6, <1>7, <1>8, <1>9 DEF Next

(* try_decrypt(): the mark "verified" of an audit record is never wrong. *)
THEOREM VerifiedHonest == Spec => []VerifiedIsWritten
<1>1. OpeningInv => VerifiedIsWritten
  BY DEF OpeningInv, RecordOk, Begins, VerifiedIsWritten
<1>2. Spec => []OpeningInv
  BY OpeningInit, OpeningNext, PTL DEF Spec
<1> QED BY <1>1, <1>2, PTL

-----------------------------------------------------------------------------
(* The store of secrets *)

KeysTo(n) == UNION {Range(case.keyfiles[i].secrets) : i \in {i \in DOMAIN case.keyfiles : i < n}}
AllKeys == UNION {Range(case.keyfiles[i].secrets) : i \in DOMAIN case.keyfiles}
BesideTo(n) == UNION {FoundIn(case.beside[i]) : i \in {i \in DOMAIN case.beside : i < n}}

(* Up to where the dumps were read, every secret of them is in the store. *)
StoreInv ==
    /\ secrets \in Seq(Range(secrets))
    /\ registry \in Seq(case.profiles)
    /\ phase = "profiles" => secrets = <<>> /\ at = 1 /\ unread \subseteq case.profiles
    /\ phase = "keyfiles" => Range(secrets) = KeysTo(at)
    /\ phase = "beside" => /\ unread \subseteq FilesOf(at)
                           /\ Range(secrets) = AllKeys \cup BesideTo(at) \cup FoundIn(FilesOf(at) \ unread)
    /\ phase \in {"entry", "key", "page", "offset", "done"} => Range(secrets) = Offered

LEMMA Joined ==
    ASSUME NEW s, NEW t, s \in Seq(Range(s)), t \in Seq(Range(t))
    PROVE  s \o t \in Seq(Range(s \o t)) /\ Range(s \o t) = Range(s) \cup Range(t)
PROOF
<1> DEFINE S == Range(s) \cup Range(t)
           both == s \o t
<1>1. s \in Seq(S) /\ t \in Seq(S)
    OBVIOUS
<1>2. both \in Seq(S) /\ Len(both) = Len(s) + Len(t) /\ Len(s) \in Nat /\ Len(t) \in Nat
    BY <1>1
<1>3. /\ \A i \in 1 .. Len(s) : both[i] = s[i]
      /\ \A i \in 1 .. Len(t) : both[Len(s) + i] = t[i]
      /\ DOMAIN s = 1 .. Len(s) /\ DOMAIN t = 1 .. Len(t) /\ DOMAIN both = 1 .. Len(s) + Len(t)
    BY <1>1, <1>2
<1>4. \A i \in 1 .. Len(s) : i \in DOMAIN both
    BY <1>2, <1>3
<1>5. \A i \in 1 .. Len(t) : Len(s) + i \in DOMAIN both
    BY <1>2, <1>3
<1>6. S \subseteq Range(both)
    BY <1>3, <1>4, <1>5 DEF Range
<1>7. Range(both) \subseteq S
    BY <1>2 DEF Range
<1>8. both \in Seq(Range(both)) /\ Range(both) = S
    BY <1>2, <1>6, <1>7
<1> QED
    BY <1>8

LEMMA StoreInit == Init => StoreInv
PROOF
<1> SUFFICES ASSUME Init PROVE StoreInv
    OBVIOUS
<1>1. secrets = <<>> /\ registry = <<>> /\ phase = "profiles" /\ at = 1 /\ unread = case.profiles
    BY DEF Init
<1> QED
    BY <1>1 DEF StoreInv, Range

(* The dumps do not change under way. *)
LEMMA SameDumps ==
    ASSUME UNCHANGED case
    PROVE  /\ \A n : KeysTo(n)' = KeysTo(n) /\ BesideTo(n)' = BesideTo(n) /\ FilesOf(n)' = FilesOf(n)
           /\ AllKeys' = AllKeys /\ Offered' = Offered
           /\ \A files : FoundIn(files)' = FoundIn(files)
BY DEF KeysTo, BesideTo, FilesOf, AllKeys, Offered, FoundIn

LEMMA StoreNext == OpeningInv /\ StoreInv /\ [Next]_vars => StoreInv'
PROOF
<1> SUFFICES ASSUME OpeningInv, StoreInv, [Next]_vars PROVE StoreInv'
    OBVIOUS
<1>a. /\ at \in Nat \ {0} /\ case \in Cases
      /\ case.keyfiles \in Seq(Range(case.keyfiles)) /\ case.beside \in Seq(Range(case.beside))
    BY CaseAssumption DEF OpeningInv
<1>b. /\ \A i \in DOMAIN case.keyfiles : case.keyfiles[i].secrets \in Seq(Range(case.keyfiles[i].secrets))
      /\ \A i \in DOMAIN case.beside : \A d \in case.beside[i] : d.secrets \in Seq(Range(d.secrets))
    BY <1>a, CaseAssumption DEF IsDump
<1>c. case' = case
    BY DEF Next, vars, SwitchedOff, LoadProfile, RefuseProfile, EndProfiles, LoadKeyfile, RefuseKeyfile,
           EndKeyfiles, LookBeside, NextDirectory, EndSetup, NotATarget, Target, SkipSecret, GiveUp,
           RefuseSqlcipher, BeginSqlcipher, WrongKey, DecryptPage, EndPages, BeginWhatsapp, WrongOffset,
           Inflate, InflateError, NoOffset, Finish, NextCandidate, Conclude
<1>d. /\ \A n : KeysTo(n)' = KeysTo(n) /\ BesideTo(n)' = BesideTo(n) /\ FilesOf(n)' = FilesOf(n)
      /\ AllKeys' = AllKeys /\ Offered' = Offered
      /\ \A files : FoundIn(files)' = FoundIn(files)
    BY <1>c, SameDumps
<1>e. DOMAIN case.keyfiles = 1 .. Len(case.keyfiles) /\ DOMAIN case.beside = 1 .. Len(case.beside)
      /\ Len(case.keyfiles) \in Nat /\ Len(case.beside) \in Nat
    BY <1>a
<1> USE DEF setupVars
<1>1. CASE SwitchedOff \/ RefuseProfile \/ RefuseKeyfile
    BY <1>1, <1>c DEF SwitchedOff, RefuseProfile, RefuseKeyfile, StoreInv
<1>2. CASE LoadProfile
    <2>1. PICK p \in unread : unread' = unread \ {p} /\ registry' = Append(registry, p)
        BY <1>2 DEF LoadProfile
    <2>2. phase = "profiles" /\ UNCHANGED <<phase, secrets, at>>
        BY <1>2 DEF LoadProfile, LoadingProfiles
    <2> QED
        BY <1>c, <2>1, <2>2 DEF StoreInv
<1>3. CASE EndProfiles
    <2>1. phase = "profiles" /\ phase' \in {"off", "keyfiles"} /\ UNCHANGED <<secrets, registry, at>>
        BY <1>3 DEF EndProfiles, LoadingProfiles
    <2>2. Range(secrets) = {} /\ at = 1
        BY <2>1 DEF StoreInv, Range
    <2>3. KeysTo(at)' = {}
        BY <1>c, <1>e, <2>1, <2>2 DEF KeysTo
    <2> QED
        BY <1>c, <2>1, <2>2, <2>3 DEF StoreInv
<1>4. CASE LoadKeyfile
    <2> DEFINE dump == case.keyfiles[at].secrets
    <2>1. /\ phase = "keyfiles" /\ phase' = phase /\ at \in DOMAIN case.keyfiles
          /\ secrets' = secrets \o dump /\ at' = at + 1 /\ registry' = registry
        BY <1>4, <1>a, <1>e DEF LoadKeyfile, AtKeyfile
    <2>2. secrets' \in Seq(Range(secrets')) /\ Range(secrets') = Range(secrets) \cup Range(dump)
        <3>1. secrets \in Seq(Range(secrets)) /\ dump \in Seq(Range(dump))
            BY <1>b, <2>1 DEF StoreInv
        <3> HIDE DEF dump
        <3> QED
            BY <2>1, <3>1, Joined
    <2>3. KeysTo(at + 1) = KeysTo(at) \cup Range(dump)
        <3>1. {i \in DOMAIN case.keyfiles : i < at + 1} = {i \in DOMAIN case.keyfiles : i < at} \cup {at}
            BY <1>a, <1>e, <2>1
        <3> QED
            BY <3>1 DEF KeysTo
    <2>4. KeysTo(at)' = KeysTo(at + 1)
        BY <1>d, <2>1
    <2> QED
        BY <1>c, <2>1, <2>2, <2>3, <2>4 DEF StoreInv
<1>5. CASE EndKeyfiles
    <2>1. /\ phase = "keyfiles" /\ phase' = "beside" /\ at > Len(case.keyfiles) /\ at' = 1
          /\ unread' = FilesOf(1) /\ UNCHANGED <<registry, secrets>>
        BY <1>5 DEF EndKeyfiles
    <2>2. KeysTo(at) = AllKeys
        <3>1. {i \in DOMAIN case.keyfiles : i < at} = DOMAIN case.keyfiles
            BY <1>a, <1>e, <2>1
        <3> QED
            BY <3>1 DEF KeysTo, AllKeys
    <2>3. BesideTo(1) = {} /\ FoundIn(FilesOf(1) \ FilesOf(1)) = {}
        BY <1>e DEF BesideTo, FoundIn
    <2>4. unread' \subseteq FilesOf(at)' /\ BesideTo(at)' = {} /\ FoundIn(FilesOf(at) \ unread)' = {} /\ AllKeys' = AllKeys
        <3>1. FilesOf(at)' = FilesOf(1) /\ BesideTo(at)' = BesideTo(1)
            BY <1>d, <2>1
        <3>2. (FilesOf(at) \ unread)' = {}
            BY <2>1, <3>1
        <3> QED
            BY <1>d, <2>1, <2>3, <3>1, <3>2 DEF FoundIn
    <2> QED
        BY <1>c, <2>1, <2>2, <2>4 DEF StoreInv
<1>6. CASE LookBeside
    <2>1. phase = "beside" /\ UNCHANGED <<phase, registry, at>>
        BY <1>6 DEF LookBeside
    <2>2. PICK file \in unread :
              /\ unread' = unread \ {file}
              /\ secrets' = IF file.named /\ file.readable /\ file.parses THEN secrets \o file.secrets ELSE secrets
        BY <1>6 DEF LookBeside
    <2>3. file \in FilesOf(at) /\ file.secrets \in Seq(Range(file.secrets))
        BY <1>b, <2>1, <2>2 DEF StoreInv, FilesOf
    <2>4. FilesOf(at) \ unread' = (FilesOf(at) \ unread) \cup {file}
        BY <2>2, <2>3
    <2>5. FoundIn(FilesOf(at) \ unread') = FoundIn(FilesOf(at) \ unread) \cup FoundIn({file})
        BY <2>4 DEF FoundIn
    <2>6. secrets' \in Seq(Range(secrets')) /\ Range(secrets') = Range(secrets) \cup FoundIn({file})
        <3>1. CASE file.named /\ file.readable /\ file.parses
            <4>1. secrets' = secrets \o file.secrets /\ FoundIn({file}) = Range(file.secrets)
                BY <2>2, <3>1 DEF FoundIn
            <4>2. secrets \in Seq(Range(secrets))
                BY DEF StoreInv
            <4> QED
                BY <2>3, <4>1, <4>2, Joined
        <3>2. CASE ~(file.named /\ file.readable /\ file.parses)
            BY <2>2, <3>2 DEF FoundIn, StoreInv
        <3> QED
            BY <3>1, <3>2
    <2>7. FilesOf(at)' = FilesOf(at) /\ BesideTo(at)' = BesideTo(at)
          /\ FoundIn(FilesOf(at) \ unread)' = FoundIn(FilesOf(at) \ unread')
        BY <1>d, <2>1
    <2> QED
        BY <1>c, <1>d, <2>1, <2>2, <2>5, <2>6, <2>7 DEF StoreInv
<1>7. CASE NextDirectory
    <2>1. /\ phase = "beside" /\ at <= Len(case.beside) /\ unread = {} /\ at' = at + 1
          /\ unread' = FilesOf(at + 1) /\ UNCHANGED <<phase, registry, secrets>>
        BY <1>7 DEF NextDirectory
    <2>2. BesideTo(at + 1) = BesideTo(at) \cup FoundIn(FilesOf(at) \ unread)
        <3>1. {i \in DOMAIN case.beside : i < at + 1} = {i \in DOMAIN case.beside : i < at} \cup {at}
            BY <1>a, <1>e, <2>1
        <3>2. FilesOf(at) \ unread = case.beside[at]
            BY <1>a, <1>e, <2>1 DEF FilesOf
        <3> QED
            BY <3>1, <3>2 DEF BesideTo
    <2>3. FilesOf(at)' = FilesOf(at + 1) /\ BesideTo(at)' = BesideTo(at + 1)
        BY <1>d, <2>1
    <2>4. FoundIn(FilesOf(at) \ unread)' = {}
        <3>1. (FilesOf(at) \ unread)' = {}
            BY <2>1, <2>3
        <3> QED
            BY <1>d, <3>1 DEF FoundIn
    <2> QED
        BY <1>c, <1>d, <2>1, <2>2, <2>3, <2>4 DEF StoreInv
<1>8. CASE EndSetup
    <2>1. /\ phase = "beside" /\ at > Len(case.beside) /\ phase' \in {"off", "entry"} /\ UNCHANGED <<registry, secrets>>
        BY <1>8 DEF EndSetup
    <2>2. FilesOf(at) = {}
        BY <1>a, <1>e, <2>1 DEF FilesOf
    <2>3. BesideTo(at) = UNION {FoundIn(case.beside[i]) : i \in DOMAIN case.beside}
        <3>1. {i \in DOMAIN case.beside : i < at} = DOMAIN case.beside
            BY <1>a, <1>e, <2>1
        <3> QED
            BY <3>1 DEF BesideTo
    <2>4. Offered = AllKeys \cup BesideTo(at)
        <3>1. Offered = AllKeys \cup UNION {FoundIn(case.beside[i]) : i \in DOMAIN case.beside}
            BY Zenon DEF Offered, AllKeys
        <3> QED
            BY <2>3, <3>1
    <2>5. FoundIn(FilesOf(at) \ unread) = {}
        BY <2>2 DEF FoundIn
    <2> QED
        BY <1>c, <1>d, <2>1, <2>4, <2>5 DEF StoreInv
<1>9. CASE \/ NotATarget \/ Target \/ SkipSecret \/ GiveUp \/ RefuseSqlcipher \/ BeginSqlcipher \/ WrongKey
           \/ DecryptPage \/ EndPages \/ BeginWhatsapp \/ WrongOffset \/ Inflate \/ InflateError \/ NoOffset \/ Finish
    <2>1. /\ phase \in {"entry", "key", "page", "offset"} /\ phase' \in {"entry", "key", "page", "offset", "done"}
          /\ UNCHANGED <<secrets, registry>>
        BY <1>9 DEF NotATarget, Target, AtEntry, SkipSecret, GiveUp, RefuseSqlcipher, BeginSqlcipher, WrongKey,
                    Trying, AtPage, AtOffset, DecryptPage, EndPages, BeginWhatsapp, WrongOffset, Inflate,
                    InflateError, NoOffset, Finish, NextCandidate, Conclude
    <2> QED
        BY <1>c, <1>d, <2>1 DEF StoreInv
<1>10. CASE UNCHANGED vars
    <2>1. UNCHANGED <<phase, secrets, registry, unread, at>>
        BY <1>10 DEF vars
    <2>2. /\ KeysTo(at)' = KeysTo(at) /\ FilesOf(at)' = FilesOf(at) /\ BesideTo(at)' = BesideTo(at)
          /\ FoundIn(FilesOf(at) \ unread)' = FoundIn(FilesOf(at) \ unread)
        BY <1>d, <2>1
    <2> QED
        BY <1>c, <1>d, <2>1, <2>2 DEF StoreInv
<1> QED
    BY <1>1, <1>2, <1>3, <1>4, <1>5, <1>6, <1>7, <1>8, <1>9, <1>10 DEF Next

-----------------------------------------------------------------------------
(* The candidates, one after the other *)

(* The next secret that matches, and none between. *)
LEMMA NextMatch ==
    ASSUME NEW p, NEW from \in Nat \ {0}, secrets \in Seq(Range(secrets))
    PROVE  LET n == candidates(p, from)
           IN  /\ n \in {0} \cup (DOMAIN secrets \cap {i \in Nat : from <= i})
               /\ n # 0 => secret_matches(secrets[n], p)
               /\ \A i \in DOMAIN secrets :
                     from <= i /\ (n = 0 \/ i < n) => ~secret_matches(secrets[i], p)
PROOF
<1> DEFINE match == {i \in from .. Len(secrets) : secret_matches(secrets[i], p)}
<1>1. candidates(p, from) = IF match # {} THEN CHOOSE x \in match : \A y \in match : x <= y ELSE 0
    BY DEF candidates, SelectInSubSeq, Min
<1>2. Len(secrets) \in Nat /\ DOMAIN secrets = 1 .. Len(secrets) /\ match \in SUBSET Nat
    OBVIOUS
<1>3. match # {} => /\ candidates(p, from) \in match
                    /\ \A y \in match : candidates(p, from) <= y
    <2> SUFFICES ASSUME match # {} PROVE /\ candidates(p, from) \in match
                                         /\ \A y \in match : candidates(p, from) <= y
        OBVIOUS
    <2>1. \E x \in match : \A y \in match : x <= y
        BY <1>2, LeastNatural
    <2> HIDE DEF match
    <2> QED
        BY <1>1, <2>1
<1>4. match = {} => candidates(p, from) = 0
    <2> HIDE DEF match
    <2> QED
        BY <1>1
<1>5. \A i \in DOMAIN secrets : from <= i /\ secret_matches(secrets[i], p) => i \in match
    BY <1>2
<1>6. \A i \in match : i \in DOMAIN secrets /\ i \in Nat /\ from <= i /\ i # 0 /\ secret_matches(secrets[i], p)
    BY <1>2
<1> PICK n : n = candidates(p, from)
    OBVIOUS
<1> HIDE DEF match
<1>7. CASE match = {}
    BY <1>4, <1>5, <1>7
<1>8. CASE match # {}
    <2>1. n \in match /\ \A y \in match : n <= y
        BY <1>3, <1>8
    <2>2. n \in DOMAIN secrets /\ n \in Nat /\ from <= n /\ n # 0 /\ secret_matches(secrets[n], p)
        BY <1>6, <2>1
    <2>3. ASSUME NEW i \in DOMAIN secrets, from <= i, n = 0 \/ i < n, secret_matches(secrets[i], p)
          PROVE  FALSE
        <3>1. n <= i
            BY <1>5, <2>1, <2>3
        <3> QED
            BY <1>2, <2>2, <2>3, <3>1
    <2> QED
        BY <2>2, <2>3
<1> QED
    BY <1>7, <1>8

Authenticates(p) == p.scheme = "whatsapp" \/ p.use_hmac

(* The secrets that had their turn did not open the entry. *)
Refused(n) ==
    Authenticates(profile) =>
        \A i \in DOMAIN secrets : n = 0 \/ i < n => ~Opens(secrets[i], profile, entry)

(* The key in use is derived from the candidate, and its first page verified;
   no offset tried so far was the right one. *)
TurnInv ==
    /\ phase \in {"key", "page", "offset"} =>
           /\ profile \in case.profiles
           /\ turn \in 0 .. Len(secrets)
           /\ turn # 0 => secret_matches(secrets[turn], profile)
           /\ Refused(turn)
    /\ phase = "page" =>
           /\ turn # 0 /\ material # Undecodable
           /\ profile.scheme = "sqlcipher" /\ profile.usable /\ InPages /\ HasLength(material)
           /\ opening = derive_key(material, entry.salt)
           /\ out # <<>> /\ profile.use_hmac => hmac_ok(entry.pages[1], 1)
    /\ phase = "offset" =>
           /\ turn # 0 /\ material # Undecodable /\ profile.scheme = "whatsapp"
           /\ offset \in Nat \ {0}
           /\ \A j \in DOMAIN profile.iv_offsets :
                 j < offset => ~(entry.intact /\ profile.iv_offsets[j] = entry.iv_at /\ material = entry.sealed)

RightRecord(r) ==
    LET right == {s \in Offered : Opens(s, r.profile, case.entries[r.entry])}
    IN  Authenticates(r.profile) =>
            /\ r.status = "decrypted" <=> right # {}
            /\ right # {} => r.secret \in right

RightInv == TurnInv /\ \A i \in DOMAIN audit : RightRecord(audit[i])

LEMMA SameRecords ==
    ASSUME UNCHANGED case
    PROVE  /\ \A r : RightRecord(r)' = RightRecord(r)
           /\ UNCHANGED at => entry' = entry
BY SameDumps DEF RightRecord, entry

LEMMA RefusedSame ==
    ASSUME UNCHANGED <<case, at, secrets, profile>>
    PROVE  \A n : Refused(n)' = Refused(n)
BY DEF Refused, entry

(* A candidate that did not open the entry makes way for the next one. *)
LEMMA OnToTheNext ==
    ASSUME StoreInv, TurnInv, phase \in {"key", "page", "offset"}, turn # 0,
           case' = case, secrets' = secrets, NextCandidate,
           Authenticates(profile) => ~Opens(secrets[turn], profile, entry),
           \A i \in DOMAIN audit : RightRecord(audit[i])
    PROVE  RightInv'
PROOF
<1>1. /\ secrets \in Seq(Range(secrets)) /\ turn \in Nat /\ turn + 1 \in Nat \ {0}
      /\ DOMAIN secrets = 1 .. Len(secrets) /\ Len(secrets) \in Nat
    BY DEF StoreInv, TurnInv
<1>2. /\ turn' = candidates(profile, turn + 1) /\ phase' = "key"
      /\ UNCHANGED <<case, at, secrets, profile, audit>>
    BY DEF NextCandidate
<1> PICK n : n = candidates(profile, turn + 1)
    OBVIOUS
<1>3. /\ n \in {0} \cup (DOMAIN secrets \cap {i \in Nat : turn + 1 <= i})
      /\ n # 0 => secret_matches(secrets[n], profile)
      /\ \A i \in DOMAIN secrets : turn + 1 <= i /\ (n = 0 \/ i < n) => ~secret_matches(secrets[i], profile)
    BY <1>1, NextMatch
<1>4. Refused(n)
    <2> SUFFICES ASSUME Authenticates(profile), NEW i \in DOMAIN secrets, n = 0 \/ i < n
                 PROVE  ~Opens(secrets[i], profile, entry)
        BY DEF Refused
    <2>1. i < turn \/ i = turn \/ turn + 1 <= i
        BY <1>1
    <2>2. CASE i < turn
        BY <2>2 DEF TurnInv, Refused
    <2>3. CASE i = turn
        BY <2>3
    <2>4. CASE turn + 1 <= i
        BY <1>3, <2>4 DEF Opens
    <2> QED
        BY <2>1, <2>2, <2>3, <2>4
<1>5. Refused(n)'
    BY <1>2, <1>4, RefusedSame
<1>6. turn' = n /\ n \in 0 .. Len(secrets) /\ profile \in case.profiles
    BY <1>1, <1>2, <1>3 DEF TurnInv
<1>7. (turn # 0 => secret_matches(secrets[turn], profile))'
    <2>1. \A s, p : secret_matches(s, p)' = secret_matches(s, p)
        BY DEF secret_matches
    <2> QED
        BY <1>2, <1>3, <1>6
<1>8. Refused(turn)'
    BY <1>5, <1>6 DEF Refused
<1>9. TurnInv'
    BY <1>2, <1>6, <1>7, <1>8 DEF TurnInv
<1> QED
    BY <1>2, <1>9, SameRecords DEF RightInv

(* The record of an entry names the secret that opens it, if one does. *)
LEMMA ConcludeRight ==
    ASSUME OpeningInv, StoreInv, TurnInv, phase \in {"key", "page", "offset"}, case' = case,
           \A i \in DOMAIN audit : RightRecord(audit[i]),
           NEW status, NEW text, NEW ok, Conclude(status, text, ok),
           \/ status # "decrypted" /\ turn = 0
           \/ status = "decrypted" /\ turn # 0
              /\ (Authenticates(profile) => Opens(secrets[turn], profile, entry))
    PROVE  RightInv'
PROOF
<1> DEFINE r == [entry |-> at, profile |-> profile, status |-> status, plaintext |-> text,
                 verified |-> ok, secret |-> IF turn = 0 THEN None ELSE secrets[turn]]
<1>1. audit' = Append(audit, r) /\ phase' = "entry"
    BY DEF Conclude
<1>2. /\ r.entry = at /\ r.profile = profile /\ r.status = status
      /\ turn # 0 => r.secret = secrets[turn]
    OBVIOUS
<1>3. Range(secrets) = Offered /\ secrets \in Seq(Range(secrets))
    BY DEF StoreInv
<1>4. RightRecord(r)
    <2> HIDE DEF r
    <2> SUFFICES ASSUME Authenticates(profile)
                 PROVE  LET right == {s \in Offered : Opens(s, profile, entry)}
                        IN  /\ r.status = "decrypted" <=> right # {}
                            /\ right # {} => r.secret \in right
        BY <1>2 DEF RightRecord, entry
    <2> DEFINE right == {s \in Offered : Opens(s, profile, entry)}
    <2>1. CASE status # "decrypted" /\ turn = 0
        <3>1. \A s \in Offered : ~Opens(s, profile, entry)
            BY <1>3, <2>1 DEF TurnInv, Refused, Range
        <3> QED
            BY <1>2, <2>1, <3>1
    <2>2. CASE status = "decrypted" /\ turn # 0
        <3>1. turn \in DOMAIN secrets
            BY <1>3, <2>2 DEF TurnInv
        <3>2. secrets[turn] \in right
            BY <1>3, <2>2, <3>1 DEF Range
        <3> QED
            BY <1>2, <2>2, <3>2
    <2> QED
        BY <2>1, <2>2
<1> HIDE DEF r
<1>5. \A i \in DOMAIN audit' : RightRecord(audit'[i])
    BY <1>1, <1>4, AppendSeq DEF OpeningInv
<1>6. \A i \in DOMAIN audit' : RightRecord(audit[i])'
    <2>1. \A q : RightRecord(q)' = RightRecord(q)
        BY SameRecords
    <2> QED
        BY <1>5, <2>1 DEF RightRecord
<1>7. TurnInv'
    BY <1>1 DEF TurnInv
<1> QED
    BY <1>6, <1>7 DEF RightInv

LEMMA RightNext == OpeningInv /\ StoreInv /\ RightInv /\ [Next]_vars => RightInv'
PROOF
<1> SUFFICES ASSUME OpeningInv, StoreInv, RightInv, [Next]_vars PROVE RightInv'
    OBVIOUS
<1>a. TurnInv /\ \A i \in DOMAIN audit : RightRecord(audit[i])
    BY DEF RightInv
<1>b. /\ case \in Cases /\ at \in Nat \ {0} /\ secrets \in Seq(Range(secrets)) /\ registry \in Seq(case.profiles)
      /\ \A p \in case.profiles : IsProfile(p)
    BY CaseAssumption DEF OpeningInv, StoreInv
<1> USE DEF setupVars, keyVars, cipherVars
<1>1. CASE \/ SwitchedOff \/ LoadProfile \/ RefuseProfile \/ EndProfiles
           \/ RefuseKeyfile \/ LoadKeyfile \/ EndKeyfiles
           \/ LookBeside \/ NextDirectory \/ EndSetup \/ NotATarget \/ Finish
    <2>1. UNCHANGED <<case, audit>> /\ phase' \notin {"key", "page", "offset"}
        BY <1>1 DEF SwitchedOff, LoadProfile, RefuseProfile, EndProfiles, LoadingProfiles, AtKeyfile,
                    RefuseKeyfile, LoadKeyfile, EndKeyfiles, LookBeside, NextDirectory, EndSetup,
                    NotATarget, AtEntry, Finish
    <2> QED
        BY <1>a, <2>1, SameRecords DEF RightInv, TurnInv
<1>2. CASE Target
    <2> PICK k : k = profile_for(entry.path)
        OBVIOUS
    <2>1. /\ k # 0 /\ profile' = registry[k] /\ turn' = candidates(profile', 1) /\ phase' = "key"
          /\ UNCHANGED <<case, at, secrets, audit>>
        BY <1>2 DEF Target
    <2>2. k \in DOMAIN registry
        <3> DEFINE match == {i \in 1 .. Len(registry) : InScope(registry[i]) /\ entry.path \in registry[i].db}
        <3>1. k = IF match # {} THEN CHOOSE x \in match : \A y \in match : x <= y ELSE 0
            BY DEF profile_for, SelectInSeq, Min
        <3>2. Len(registry) \in Nat /\ DOMAIN registry = 1 .. Len(registry) /\ match \in SUBSET Nat
            BY <1>b
        <3>3. match \subseteq DOMAIN registry
            BY <3>2
        <3> HIDE DEF match
        <3>4. match # {}
            BY <2>1, <3>1
        <3>5. \E x \in match : \A y \in match : x <= y
            BY <3>2, <3>4, LeastNatural
        <3> QED
            BY <3>1, <3>3, <3>4, <3>5
    <2>3. registry[k] \in case.profiles
        BY <1>b, <2>2
    <2> PICK n : n = candidates(registry[k], 1)
        OBVIOUS
    <2>4. /\ n \in {0} \cup (DOMAIN secrets \cap {i \in Nat : 1 <= i})
          /\ n # 0 => secret_matches(secrets[n], registry[k])
          /\ \A i \in DOMAIN secrets : 1 <= i /\ (n = 0 \/ i < n) => ~secret_matches(secrets[i], registry[k])
        BY <1>b, NextMatch
    <2>5. turn' = n
        <3>1. candidates(profile', 1) = candidates(registry[k], 1)
            BY <2>1
        <3> QED
            BY <2>1, <3>1
    <2>6. Refused(turn)'
        <3>1. \A i \in DOMAIN secrets : 1 <= i
            BY <1>b, SMTT(40)
        <3>2. \A i \in DOMAIN secrets : n = 0 \/ i < n => ~Opens(secrets[i], registry[k], entry)
            BY <2>4, <3>1 DEF Opens
        <3>3. (\A i \in DOMAIN secrets : turn = 0 \/ i < turn => ~Opens(secrets[i], profile, entry))'
            <4>1. entry' = entry /\ secrets' = secrets /\ turn' = n /\ profile' = registry[k]
                BY <2>1, <2>5 DEF entry
            <4>2. \A i \in DOMAIN secrets' : turn' = 0 \/ i < turn' => ~Opens(secrets'[i], profile', entry')
                BY <3>2, <4>1
            <4> QED
                BY <4>2
        <3> QED
            BY <3>3 DEF Refused
    <2>7. (turn # 0 => secret_matches(secrets[turn], profile))'
        <3>1. \A s, p : secret_matches(s, p)' = secret_matches(s, p)
            BY DEF secret_matches
        <3> QED
            BY <2>1, <2>4, <2>5
    <2>8. turn' \in 0 .. Len(secrets) /\ profile' \in case.profiles
        BY <1>b, <2>1, <2>3, <2>4, <2>5
    <2>9. TurnInv'
        BY <2>1, <2>6, <2>7, <2>8 DEF TurnInv
    <2> QED
        BY <1>a, <2>1, <2>9, SameRecords DEF RightInv
<1>3. CASE SkipSecret
    <2>1. phase = "key" /\ turn # 0 /\ NextCandidate /\ UNCHANGED <<case, secrets>>
        BY <1>3 DEF SkipSecret, NextCandidate
    <2>2. ~Opens(secrets[turn], profile, entry)
        BY <1>3 DEF SkipSecret, Opens, material
    <2> QED
        BY <1>a, <2>1, <2>2, OnToTheNext
<1>4. CASE GiveUp
    <2>1. phase = "key" /\ turn = 0 /\ Conclude("failed", <<>>, FALSE) /\ case' = case
        BY <1>4 DEF GiveUp, Conclude
    <2> QED
        BY <1>a, <2>1, ConcludeRight
<1>5. CASE RefuseSqlcipher
    <2>1. phase = "key" /\ turn # 0 /\ NextCandidate /\ UNCHANGED <<case, secrets>>
        BY <1>5 DEF RefuseSqlcipher, Trying, NextCandidate
    <2>2. ~Opens(secrets[turn], profile, entry)
        <3>1. profile.scheme = "sqlcipher" /\ ~(profile.usable /\ InPages /\ HasLength(material))
            BY <1>5 DEF RefuseSqlcipher, Trying
        <3>2. Opens(secrets[turn], profile, entry) => profile.usable /\ InPages
            BY <3>1 DEF Opens, InPages
        <3>3. Opens(secrets[turn], profile, entry) => HasLength(material)
            BY <3>1 DEF Opens, HasLength, material
        <3> QED
            BY <3>1, <3>2, <3>3
    <2> QED
        BY <1>a, <2>1, <2>2, OnToTheNext
<1>6. CASE BeginSqlcipher
    <2>1. /\ phase = "key" /\ turn # 0 /\ material # Undecodable /\ profile.scheme = "sqlcipher"
          /\ profile.usable /\ InPages /\ HasLength(material)
          /\ opening' = derive_key(material, entry.salt) /\ out' = <<>> /\ phase' = "page"
          /\ UNCHANGED <<case, at, secrets, profile, turn, audit>>
        BY <1>6 DEF BeginSqlcipher, Trying
    <2>2. entry' = entry /\ material' = material
        BY <2>1 DEF entry, material
    <2>3. InPages' /\ HasLength(material)' /\ opening' = derive_key(material, entry.salt)'
        <3>1. \A b, s : HasLength(b)' = HasLength(b) /\ derive_key(b, s)' = derive_key(b, s)
            BY <2>1 DEF HasLength, derive_key
        <3>2. HasLength(material)' = HasLength(material)
            BY <2>1, <2>2 DEF HasLength
        <3>3. derive_key(material, entry.salt)' = derive_key(material, entry.salt)
            BY <2>1, <2>2 DEF derive_key
        <3> QED
            BY <2>1, <2>2, <3>2, <3>3 DEF InPages
    <2>4. (turn # 0 => secret_matches(secrets[turn], profile))'
        BY <1>a, <2>1 DEF TurnInv, secret_matches
    <2>5. Refused(turn)'
        BY <1>a, <2>1, <2>2 DEF TurnInv, Refused
    <2>6. TurnInv'
        BY <1>a, <2>1, <2>2, <2>3, <2>4, <2>5 DEF TurnInv
    <2> QED
        BY <1>a, <2>1, <2>6, SameRecords DEF RightInv
<1>7. CASE WrongKey
    <2>1. phase = "page" /\ turn # 0 /\ NextCandidate /\ UNCHANGED <<case, secrets>>
        BY <1>7, <1>a DEF WrongKey, AtPage, NextCandidate, TurnInv
    <2>2. ~Opens(secrets[turn], profile, entry)
        <3>1. profile.scheme = "sqlcipher" /\ opening = derive_key(material, entry.salt) /\ HasLength(material)
            BY <1>a, <2>1 DEF TurnInv
        <3>2. ~hmac_ok(entry.pages[1], 1)
            BY <1>7 DEF WrongKey, Page
        <3>3. ASSUME Opens(secrets[turn], profile, entry) PROVE hmac_ok(entry.pages[1], 1)
            <4>1. /\ entry.pages[1].damage = "none" /\ entry.pages[1].number = 1
                  /\ entry.pages[1].params = profile.params
                  /\ entry.pages[1].sealed \in
                        IF profile.encoding = "passphrase" THEN {[key |-> <<material, entry.salt>>, salt |-> entry.salt]}
                        ELSE {[key |-> material[n], salt |-> entry.salt] : n \in {1} \cap {Len(material)}}
                             \cup {[key |-> material[1], salt |-> material[n]] : n \in {2} \cap {Len(material)}}
                BY <3>1, <3>3 DEF Opens, material
            <4>2. entry.pages[1].sealed = opening
                <5>1. CASE profile.encoding = "passphrase"
                    BY <3>1, <4>1, <5>1 DEF derive_key
                <5>2. CASE profile.encoding # "passphrase" /\ Len(material) = 1
                    <6>1. opening = [key |-> material[1], salt |-> entry.salt]
                        BY <3>1, <5>2 DEF derive_key
                    <6> QED
                        BY <4>1, <5>2, <6>1
                <5>3. CASE profile.encoding # "passphrase" /\ Len(material) = 2
                    <6>1. opening = [key |-> material[1], salt |-> material[2]]
                        BY <3>1, <5>3 DEF derive_key
                    <6> QED
                        BY <4>1, <5>3, <6>1
                <5> QED
                    BY <3>1, <5>1, <5>2, <5>3 DEF HasLength
            <4> QED
                BY <4>1, <4>2 DEF hmac_ok
        <3> QED
            BY <3>2, <3>3
    <2> QED
        BY <1>a, <2>1, <2>2, OnToTheNext
<1>8. CASE DecryptPage
    <2>1. /\ phase = "page" /\ phase' = "page"
          /\ (Number = 1 /\ profile.use_hmac => hmac_ok(Page, 1))
          /\ out' = Append(out, Text(Page))
          /\ UNCHANGED <<case, at, secrets, registry, profile, turn, opening, audit>>
        BY <1>8 DEF DecryptPage, AtPage
    <2>2. out \in Seq(Range(out)) /\ out' # <<>>
        BY <2>1, AppendSeq DEF OpeningInv
    <2>3. profile.use_hmac => hmac_ok(entry.pages[1], 1)
        <3>1. CASE out = <<>>
            BY <2>1, <3>1 DEF Page, Number
        <3>2. CASE out # <<>>
            BY <1>a, <2>1, <3>2 DEF TurnInv
        <3> QED
            BY <3>1, <3>2
    <2>4. entry' = entry /\ material' = material
        BY <2>1 DEF entry, material
    <2>5. /\ InPages' = InPages /\ HasLength(material)' = HasLength(material)
          /\ derive_key(material, entry.salt)' = derive_key(material, entry.salt)
          /\ hmac_ok(entry.pages[1], 1)' = hmac_ok(entry.pages[1], 1)
        <3>1. InPages' = InPages
            BY <2>4 DEF InPages
        <3>2. HasLength(material)' = HasLength(material)
            BY <2>1, <2>4 DEF HasLength
        <3>3. derive_key(material, entry.salt)' = derive_key(material, entry.salt)
            BY <2>1, <2>4 DEF derive_key
        <3>4. hmac_ok(entry.pages[1], 1)' = hmac_ok(entry.pages[1], 1)
            BY <2>1, <2>4 DEF hmac_ok
        <3> QED
            BY <3>1, <3>2, <3>3, <3>4
    <2>6. (turn # 0 => secret_matches(secrets[turn], profile))'
        BY <1>a, <2>1 DEF TurnInv, secret_matches
    <2>7. Refused(turn)'
        BY <1>a, <2>1, <2>4 DEF TurnInv, Refused
    <2>8. TurnInv'
        BY <1>a, <2>1, <2>2, <2>3, <2>4, <2>5, <2>6, <2>7 DEF TurnInv
    <2> QED
        BY <1>a, <2>1, <2>8, SameRecords DEF RightInv
<1>9. CASE EndPages
    <2>1. phase = "page" /\ Number > Len(entry.pages) /\ Conclude("decrypted", out, verified) /\ case' = case
        BY <1>9 DEF EndPages, Conclude
    <2>2. out # <<>>
        BY <2>1, EntryOk DEF OpeningInv, Number
    <2>3. /\ turn # 0 /\ material # Undecodable /\ secret_matches(secrets[turn], profile)
          /\ profile.scheme = "sqlcipher" /\ profile.usable /\ InPages /\ HasLength(material)
          /\ opening = derive_key(material, entry.salt)
          /\ profile.use_hmac => hmac_ok(entry.pages[1], 1)
        BY <1>a, <2>1, <2>2 DEF TurnInv
    <2>4. ASSUME Authenticates(profile) PROVE Opens(secrets[turn], profile, entry)
        <3>1. hmac_ok(entry.pages[1], 1)
            BY <2>3, <2>4 DEF Authenticates
        <3>2. opening \in
                IF profile.encoding = "passphrase" THEN {[key |-> <<material, entry.salt>>, salt |-> entry.salt]}
                ELSE {[key |-> material[n], salt |-> entry.salt] : n \in {1} \cap {Len(material)}}
                     \cup {[key |-> material[1], salt |-> material[n]] : n \in {2} \cap {Len(material)}}
            <4>1. CASE profile.encoding = "passphrase"
                BY <2>3, <4>1 DEF derive_key
            <4>2. CASE profile.encoding # "passphrase" /\ Len(material) = 1
                <5>1. opening = [key |-> material[1], salt |-> entry.salt]
                    BY <2>3, <4>2 DEF derive_key
                <5> QED
                    BY <4>2, <5>1
            <4>3. CASE profile.encoding # "passphrase" /\ Len(material) = 2
                <5>1. opening = [key |-> material[1], salt |-> material[2]]
                    BY <2>3, <4>3 DEF derive_key
                <5> QED
                    BY <4>3, <5>1
            <4> QED
                BY <2>3, <4>1, <4>2, <4>3 DEF HasLength
        <3> QED
            BY <2>3, <3>1, <3>2 DEF Opens, material, InPages, hmac_ok
    <2> QED
        BY <1>a, <2>1, <2>3, <2>4, ConcludeRight
<1>10. CASE BeginWhatsapp
    <2>1. /\ phase = "key" /\ turn # 0 /\ material # Undecodable /\ profile.scheme = "whatsapp"
          /\ offset' = 1 /\ phase' = "offset"
          /\ UNCHANGED <<case, at, secrets, profile, turn, audit>>
        BY <1>10 DEF BeginWhatsapp, Trying
    <2>2. entry' = entry /\ material' = material
        BY <2>1 DEF entry, material
    <2>3. \A j \in DOMAIN profile.iv_offsets : ~(j < 1)
        BY <1>a, <1>b, <2>1 DEF TurnInv, IsProfile
    <2>4. (turn # 0 => secret_matches(secrets[turn], profile))'
        BY <1>a, <2>1 DEF TurnInv, secret_matches
    <2>5. Refused(turn)'
        BY <1>a, <2>1, <2>2 DEF TurnInv, Refused
    <2>6. TurnInv'
        BY <1>a, <2>1, <2>2, <2>3, <2>4, <2>5 DEF TurnInv
    <2> QED
        BY <1>a, <2>1, <2>6, SameRecords DEF RightInv
<1>11. CASE WrongOffset
    <2>1. /\ phase = "offset" /\ offset' = offset + 1 /\ ~Authentic
          /\ UNCHANGED <<case, phase, at, secrets, profile, turn, audit>>
        BY <1>11 DEF WrongOffset, AtOffset
    <2>2. entry' = entry /\ material' = material
        BY <2>1 DEF entry, material
    <2>3. /\ turn # 0 /\ material # Undecodable /\ profile.scheme = "whatsapp" /\ offset \in Nat \ {0}
          /\ \A j \in DOMAIN profile.iv_offsets :
                j < offset => ~(entry.intact /\ profile.iv_offsets[j] = entry.iv_at /\ material = entry.sealed)
          /\ profile.iv_offsets \in Seq(Nat)
        BY <1>a, <1>b, <2>1 DEF TurnInv, IsProfile
    <2>4. \A j \in DOMAIN profile.iv_offsets :
              j < offset + 1 => ~(entry.intact /\ profile.iv_offsets[j] = entry.iv_at /\ material = entry.sealed)
        <3> SUFFICES ASSUME NEW j \in DOMAIN profile.iv_offsets, j < offset + 1
                     PROVE  ~(entry.intact /\ profile.iv_offsets[j] = entry.iv_at /\ material = entry.sealed)
            OBVIOUS
        <3>1. j < offset \/ j = offset
            BY <2>3
        <3> QED
            BY <2>1, <2>3, <3>1 DEF Authentic, iv_off
    <2>5. (turn # 0 => secret_matches(secrets[turn], profile))'
        BY <1>a, <2>1 DEF TurnInv, secret_matches
    <2>6. Refused(turn)'
        BY <1>a, <2>1, <2>2 DEF TurnInv, Refused
    <2>7. offset' \in Nat \ {0}
        BY <2>1, <2>3
    <2>8. (\A j \in DOMAIN profile.iv_offsets :
              j < offset => ~(entry.intact /\ profile.iv_offsets[j] = entry.iv_at /\ material = entry.sealed))'
        BY <2>1, <2>2, <2>4
    <2>9. TurnInv'
        BY <1>a, <2>1, <2>2, <2>3, <2>5, <2>6, <2>7, <2>8 DEF TurnInv
    <2> QED
        BY <1>a, <2>1, <2>9, SameRecords DEF RightInv
<1>12. CASE Inflate
    <2>1. /\ phase = "offset" /\ Authentic /\ entry.inflates /\ offset <= Len(profile.iv_offsets)
          /\ Conclude("decrypted", entry.written, TRUE) /\ case' = case
        BY <1>12 DEF Inflate, AtOffset, Conclude
    <2>2. /\ turn # 0 /\ material # Undecodable /\ profile.scheme = "whatsapp" /\ offset \in Nat \ {0}
          /\ secret_matches(secrets[turn], profile) /\ profile.iv_offsets \in Seq(Nat)
        BY <1>a, <1>b, <2>1 DEF TurnInv, IsProfile
    <2>3. entry.iv_at \in Range(profile.iv_offsets)
        <3>1. offset \in DOMAIN profile.iv_offsets
            BY <2>1, <2>2
        <3> QED
            BY <2>1, <3>1 DEF Range, Authentic, iv_off
    <2>4. Opens(secrets[turn], profile, entry)
        BY <2>1, <2>2, <2>3 DEF Opens, Authentic, material
    <2> QED
        BY <1>a, <2>1, <2>2, <2>4, ConcludeRight
<1>13. CASE InflateError
    <2>1. phase = "offset" /\ ~entry.inflates /\ NextCandidate /\ UNCHANGED <<case, secrets>>
        BY <1>13 DEF InflateError, AtOffset, NextCandidate
    <2>2. turn # 0 /\ profile.scheme = "whatsapp"
        BY <1>a, <2>1 DEF TurnInv
    <2>3. ~Opens(secrets[turn], profile, entry)
        BY <2>1, <2>2 DEF Opens
    <2> QED
        BY <1>a, <2>1, <2>2, <2>3, OnToTheNext
<1>14. CASE NoOffset
    <2>1. phase = "offset" /\ offset > Len(profile.iv_offsets) /\ NextCandidate /\ UNCHANGED <<case, secrets>>
        BY <1>14 DEF NoOffset, NextCandidate
    <2>2. /\ turn # 0 /\ profile.scheme = "whatsapp" /\ offset \in Nat \ {0}
          /\ \A j \in DOMAIN profile.iv_offsets :
                j < offset => ~(entry.intact /\ profile.iv_offsets[j] = entry.iv_at /\ material = entry.sealed)
          /\ profile.iv_offsets \in Seq(Nat)
        BY <1>a, <1>b, <2>1 DEF TurnInv, IsProfile
    <2>3. \A j \in DOMAIN profile.iv_offsets : j < offset
        BY <2>1, <2>2
    <2>4. ~Opens(secrets[turn], profile, entry)
        BY <2>2, <2>3 DEF Opens, Range, material
    <2> QED
        BY <1>a, <2>1, <2>2, <2>4, OnToTheNext
<1>15. CASE UNCHANGED vars
    <2>1. UNCHANGED <<case, phase, at, secrets, profile, turn, opening, out, offset, audit>>
        BY <1>15 DEF vars
    <2>2. entry' = entry /\ material' = material
        BY <2>1 DEF entry, material
    <2>3. /\ InPages' = InPages /\ HasLength(material)' = HasLength(material)
          /\ derive_key(material, entry.salt)' = derive_key(material, entry.salt)
          /\ hmac_ok(entry.pages[1], 1)' = hmac_ok(entry.pages[1], 1)
        <3>1. InPages' = InPages
            BY <2>2 DEF InPages
        <3>2. HasLength(material)' = HasLength(material)
            BY <2>1, <2>2 DEF HasLength
        <3>3. derive_key(material, entry.salt)' = derive_key(material, entry.salt)
            BY <2>1, <2>2 DEF derive_key
        <3>4. hmac_ok(entry.pages[1], 1)' = hmac_ok(entry.pages[1], 1)
            BY <2>1, <2>2 DEF hmac_ok
        <3> QED
            BY <3>1, <3>2, <3>3, <3>4
    <2>4. (turn # 0 => secret_matches(secrets[turn], profile))' = (turn # 0 => secret_matches(secrets[turn], profile))
        BY <2>1 DEF secret_matches
    <2>5. Refused(turn)' = Refused(turn)
        BY <2>1, <2>2 DEF Refused
    <2>6. TurnInv'
        BY <1>a, <2>1, <2>2, <2>3, <2>4, <2>5 DEF TurnInv
    <2> QED
        BY <1>a, <2>1, <2>6, SameRecords DEF RightInv
<1> QED
    BY <1>1, <1>2, <1>3, <1>4, <1>5, <1>6, <1>7, <1>8, <1>9, <1>10, <1>11, <1>12, <1>13, <1>14, <1>15 DEF Next

(* try_decrypt() and the context before it: where the cipher authenticates, the
   right key of all the dumps given is found, and no other opens the file. *)
THEOREM RightKeyFound == Spec => []RightKeyWins
PROOF
<1>1. Init => RightInv
    BY DEF Init, RightInv, TurnInv
<1>2. RightInv => RightKeyWins
    BY DEF RightInv, RightRecord, RightKeyWins, Authenticates
<1>3. Spec => [](OpeningInv /\ StoreInv /\ RightInv)
    <2>1. Init => OpeningInv /\ StoreInv /\ RightInv
        BY <1>1, OpeningInit, StoreInit
    <2>2. OpeningInv /\ StoreInv /\ RightInv /\ [Next]_vars => (OpeningInv /\ StoreInv /\ RightInv)'
        BY OpeningNext, StoreNext, RightNext
    <2> QED
        BY <2>1, <2>2, PTL DEF Spec
<1> QED
    BY <1>2, <1>3, PTL

=============================================================================
