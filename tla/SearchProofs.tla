----------------------------- MODULE SearchProofs -----------------------------
(***************************************************************************)
(* For every source, every setting, any number of threads and whatever     *)
(* reads fail: the progress counters are exact, the line drawn from them   *)
(* by another thread, through relaxed loads, is honest, when the search    *)
(* ends every entry has been accounted for, and what it reports is what a  *)
(* search of the entries one after the other would (ScanReport).           *)
(***************************************************************************)
EXTENDS Search, OrderingProofs, SequenceTheorems

Counted == {e \in Selected : slots[e] # Pending}

(* The pool: a thread is busy with one entry that nobody else has, that was
   taken once and has no result yet; only selected entries get past the path. *)
PoolInv ==
    /\ entries \in Seq(Entry)
    /\ stage \in {"start", "map", "fold", "stop", "join", "over"}
    /\ taken \subseteq DOMAIN entries
    /\ job \in [Workers -> Nat]
    /\ at \in [Workers -> {"idle", "path", "prefix", "content", "decrypt", "type"}]
    /\ slots = [e \in DOMAIN entries |-> slots[e]]
    /\ \A w \in Workers : at[w] # "idle" => job[w] \in taken /\ slots[job[w]] = Pending
    /\ \A v, w \in Workers : at[v] # "idle" /\ at[w] # "idle" /\ v # w => job[v] # job[w]
    /\ \A e \in DOMAIN entries \ taken : slots[e] = Pending
    /\ \A w \in Workers : at[w] \notin {"idle", "path"} => is_selected(E(w))
    /\ stage = "start" => taken = {}
    /\ stage \notin {"start", "map"} => \A e \in DOMAIN entries : slots[e] # Pending

(* The counters are cardinalities. *)
CountInv ==
    /\ total = IF stage = "start" THEN 0 ELSE Cardinality(Selected)
    /\ done = Cardinality(Counted)
    /\ stage = "start" => Counted = {}

(* What the reporter saw is something the counters once were. *)
LineInv ==
    /\ seen \in [total : Nat, done : Nat]
    /\ seen.done <= done
    /\ seen.total \in {0, total}
    /\ reporter \in {"off", "total", "done", "check", "ended"}
    /\ reporter = "done" => stage # "start" /\ seen.total = total
    /\ \/ line = NoLine
       \/ line \in [total : Nat, done : Nat] /\ stage # "start" /\ line.total = total /\ line.done <= done
    /\ stage = "over" => line = NoLine /\ reporter \in {"off", "ended"}

IInv == PoolInv /\ CountInv

LEMMA SelectedFinite ==
    ASSUME entries \in Seq(Entry)
    PROVE  /\ IsFiniteSet(Selected) /\ IsFiniteSet(Counted)
           /\ Cardinality(Selected) \in Nat /\ Cardinality(Counted) \in Nat
           /\ Cardinality(Counted) <= Cardinality(Selected)
PROOF
<1>1. DOMAIN entries = 1 .. Len(entries) /\ Len(entries) \in Nat
    OBVIOUS
<1>2. IsFiniteSet(DOMAIN entries)
    BY <1>1, FS_Interval
<1>3. Selected \subseteq DOMAIN entries /\ Counted \subseteq Selected
    BY DEF Selected, Counted
<1>4. IsFiniteSet(Selected)
    BY <1>2, <1>3, FS_Subset
<1> QED
    BY <1>3, <1>4, FS_Subset, FS_CardinalityType

LEMMA InitHolds == Init => IInv
PROOF
<1> SUFFICES ASSUME Init PROVE IInv
    OBVIOUS
<1>1. entries \in Seq(Entry)
    BY SearchAssumption DEF Init
<1>2. slots = [e \in DOMAIN entries |-> Pending]
    BY DEF Init
<1>3. PoolInv
    BY <1>1, <1>2 DEF Init, PoolInv
<1>4. Counted = {}
    BY <1>2 DEF Counted, Selected
<1> QED
    BY <1>3, <1>4, FS_EmptySet DEF Init, IInv, CountInv

(* A step of another thread leaves the pool and the counters alone. *)
PoolUnchanged == UNCHANGED <<entries, flags, workVars>>

LEMMA PoolStutter ==
    ASSUME PoolInv, PoolUnchanged, stage' = stage
    PROVE  PoolInv'
BY DEF PoolInv, PoolUnchanged, workVars, E, is_selected

LEMMA SelectedStutter ==
    ASSUME UNCHANGED <<entries, flags>>
    PROVE  Selected' = Selected /\ \A e \in DOMAIN entries : is_selected(entries[e])' <=> is_selected(entries[e])
BY DEF Selected, is_selected

(* A thread at work: the search is on, its entry has no result. *)
LEMMA Working ==
    ASSUME PoolInv, NEW w \in Workers, at[w] # "idle"
    PROVE  /\ stage = "map"
           /\ job[w] \in DOMAIN entries
           /\ job[w] \in taken
           /\ slots[job[w]] = Pending
BY DEF PoolInv

(* A step inside classify_entry() past the path filter. *)
LEMMA MoveHolds ==
    ASSUME IInv, NEW w \in Workers, at[w] # "idle", is_selected(E(w)),
           NEW place \in {"prefix", "content", "decrypt", "type"}, Goto(w, place),
           UNCHANGED <<entries, flags, stage, total>>
    PROVE  IInv'
PROOF
<1>1. PoolInv'
    BY DEF IInv, PoolInv, Goto, E, is_selected
<1>2. CountInv'
    BY SelectedStutter DEF IInv, CountInv, Counted, Goto
<1> QED
    BY <1>1, <1>2 DEF IInv

LEMMA ReleaseHolds ==
    ASSUME PoolInv, NEW w \in Workers, at[w] # "idle", NEW result, result # Pending,
           slots' = [slots EXCEPT ![job[w]] = result], Release(w), taken' = taken,
           UNCHANGED <<entries, flags, stage>>
    PROVE  PoolInv'
PROOF
<1>1. stage = "map" /\ job[w] \in DOMAIN entries /\ job[w] \in taken
    BY Working
<1>2. \A v \in Workers : at'[v] # "idle" => v # w /\ at[v] # "idle" /\ at'[v] = at[v] /\ job'[v] = job[v]
    BY DEF PoolInv, Release
<1>3. \A v \in Workers : at'[v] # "idle" => job'[v] # job[w]
    BY <1>2 DEF PoolInv
<1>4. DOMAIN slots = DOMAIN entries
    BY DEF PoolInv
<1>5. slots' = [e \in DOMAIN entries' |-> slots'[e]]
    BY <1>4
<1>6. \A e \in DOMAIN entries : e # job[w] => slots'[e] = slots[e]
    BY <1>4
<1>7. \A v \in Workers : at'[v] # "idle" => job'[v] \in taken' /\ slots'[job'[v]] = Pending
    BY <1>2, <1>3, <1>6, Working DEF PoolInv
<1>8. \A e \in DOMAIN entries' \ taken' : slots'[e] = Pending
    BY <1>1, <1>6 DEF PoolInv
<1>9. \A v \in Workers : at'[v] \notin {"idle", "path"} => is_selected(E(v))'
    BY <1>2 DEF PoolInv, E, is_selected
<1> QED
    BY <1>1, <1>2, <1>5, <1>7, <1>8, <1>9 DEF PoolInv, Release

LEMMA ReturnHolds ==
    ASSUME IInv, NEW w \in Workers, at[w] # "idle", ~is_selected(E(w)),
           NEW result, result # Pending, Return(w, result),
           UNCHANGED <<entries, flags, stage, total>>
    PROVE  IInv'
PROOF
<1>1. PoolInv'
    BY ReleaseHolds DEF IInv, Return
<1>2. DOMAIN slots = DOMAIN entries
    BY DEF IInv, PoolInv
<1>3. job[w] \notin Selected
    BY DEF Selected, E
<1>4. Selected' = Selected
    BY SelectedStutter
<1>5. \A e \in Selected : slots'[e] = slots[e]
    BY <1>2, <1>3 DEF Return, Selected
<1>6. Counted' = Counted
    BY <1>4, <1>5 DEF Counted
<1> QED
    BY <1>1, <1>4, <1>6 DEF IInv, CountInv, Return

LEMMA CountAndReturnHolds ==
    ASSUME IInv, NEW w \in Workers, at[w] # "idle", is_selected(E(w)),
           NEW result, result # Pending, CountAndReturn(w, result),
           UNCHANGED <<entries, flags, stage, total>>
    PROVE  IInv'
PROOF
<1>1. PoolInv'
    BY ReleaseHolds DEF IInv, CountAndReturn
<1>2. DOMAIN slots = DOMAIN entries /\ entries \in Seq(Entry)
    BY DEF IInv, PoolInv
<1>3. stage = "map" /\ job[w] \in DOMAIN entries /\ slots[job[w]] = Pending
    BY Working DEF IInv
<1>4. job[w] \in Selected /\ job[w] \notin Counted
    BY <1>3 DEF Selected, E, Counted
<1>5. Selected' = Selected
    BY SelectedStutter
<1>6. slots'[job[w]] = result /\ \A e \in Selected : e # job[w] => slots'[e] = slots[e]
    BY <1>2, <1>3 DEF CountAndReturn, Selected
<1>7. Counted' = Counted \cup {job[w]}
    BY <1>4, <1>5, <1>6 DEF Counted
<1>8. Cardinality(Counted') = Cardinality(Counted) + 1
    BY <1>2, <1>4, <1>7, SelectedFinite, FS_AddElement
<1> QED
    BY <1>1, <1>3, <1>5, <1>8 DEF IInv, CountInv, CountAndReturn

(* What can become of a decryption. *)
Outcome == {"none", "decrypted", "failed"}

LEMMA WorkHolds ==
    ASSUME IInv, NEW w \in Workers, Work(w)
    PROVE  IInv'
PROOF
<1> USE DEF Elsewhere
<1>a. \A class \in Kinds, outcome \in Outcome : Result(class, outcome) # Pending
    BY DEF Result, Pending, Kinds
<1>b. at[w] \notin {"idle", "path"} => is_selected(E(w))
    BY DEF IInv, PoolInv
<1>1. CASE Take(w)
    <2>1. stage = "map" /\ at[w] = "idle"
        BY <1>1 DEF Take
    <2>2. PICK e \in DOMAIN entries \ taken : taken' = taken \cup {e} /\ job' = [job EXCEPT ![w] = e]
        BY <1>1 DEF Take
    <2>3. e \in Nat /\ slots[e] = Pending
        BY <2>2 DEF IInv, PoolInv
    <2>4. \A v \in Workers : at[v] # "idle" => job[v] # e
        BY <2>2 DEF IInv, PoolInv
    <2>5. UNCHANGED <<entries, flags, stage, total, done, slots>> /\ at' = [at EXCEPT ![w] = "path"]
        BY <1>1 DEF Take
    <2>6. PoolInv'
        BY <2>1, <2>2, <2>3, <2>4, <2>5 DEF IInv, PoolInv, E, is_selected
    <2> QED
        BY <2>1, <2>5, <2>6, SelectedStutter DEF IInv, CountInv, Counted
<1>2. CASE SkipByPath(w)
    <2>1. select(flags.filter, E(w).path) \in {"not_included", "not_path", "search"}
        BY DEF select
    <2>2. ~E(w).dir => select(flags.filter, E(w).path) \in Kinds
        BY <1>2, <2>1 DEF SkipByPath, is_selected, Kinds
    <2> DEFINE class == IF E(w).dir THEN "directory" ELSE select(flags.filter, E(w).path)
    <2>3. class \in Kinds
        BY <2>2 DEF Kinds
    <2>4. at[w] # "idle" /\ ~is_selected(E(w)) /\ Return(w, Result(class, "none"))
        BY <1>2 DEF SkipByPath
    <2>5. UNCHANGED <<entries, flags, stage, total>>
        BY <1>2 DEF SkipByPath
    <2>6. Result(class, "none") # Pending
        BY <1>a, <2>3 DEF Outcome
    <2> HIDE DEF class
    <2> QED
        BY <2>4, <2>5, <2>6, ReturnHolds
<1>3. CASE MatchPath(w)
    <2>1. PathResult(E(w)) # Pending
        BY DEF PathResult, Result, Pending
    <2> QED
        BY <1>3, <2>1, CountAndReturnHolds DEF MatchPath
<1>4. CASE Open(w)
    BY <1>4, MoveHolds DEF Open
<1>5. CASE SkipByHeader(w)
    <2> DEFINE decision == accept_type(flags.filter, detect_type(E(w).path, E(w).body))
    <2>1. decision \in {"search", "media", "type"}
        BY DEF accept_type
    <2>2. CountAndReturn(w, Result(decision, "none")) /\ at[w] = "prefix" /\ decision # "search"
        BY <1>5 DEF SkipByHeader
    <2>3. UNCHANGED <<entries, flags, stage, total>>
        BY <1>5 DEF SkipByHeader
    <2> HIDE DEF decision
    <2>4. Result(decision, "none") # Pending
        BY <1>a, <2>1, <2>2 DEF Outcome, Kinds
    <2> QED
        BY <1>b, <2>2, <2>3, <2>4, CountAndReturnHolds
<1>6. CASE PassHeader(w)
    BY <1>6, <1>b, MoveHolds DEF PassHeader
<1>7. CASE ReadContent(w)
    BY <1>7, <1>b, MoveHolds DEF ReadContent
<1>8. CASE Unreadable(w)
    <2>1. Result("unreadable", "none") # Pending
        BY <1>a DEF Outcome, Kinds
    <2> QED
        BY <1>8, <1>b, <2>1, CountAndReturnHolds DEF Unreadable
<1>9. CASE LeaveAsIs(w)
    BY <1>9, <1>b, MoveHolds DEF LeaveAsIs
<1>10. CASE Decrypt(w)
    BY <1>10, <1>b, MoveHolds DEF Decrypt
<1>11. CASE DecryptFails(w)
    <2>1. Result("decrypt_failed", "failed") # Pending
        BY <1>a DEF Outcome, Kinds
    <2> QED
        BY <1>11, <1>b, <2>1, CountAndReturnHolds DEF DecryptFails
<1>12. CASE SkipByType(w)
    <2> DEFINE outcome == IF opened[w] THEN "decrypted" ELSE "none"
    <2>1. Accepted(w) \in {"search", "media", "type"}
        BY DEF Accepted, accept_type
    <2>2. CountAndReturn(w, Result(Accepted(w), outcome)) /\ at[w] = "type" /\ Accepted(w) # "search"
        BY <1>12 DEF SkipByType
    <2>3. UNCHANGED <<entries, flags, stage, total>>
        BY <1>12 DEF SkipByType
    <2>4. outcome \in Outcome
        BY DEF Outcome
    <2> HIDE DEF outcome
    <2>5. Result(Accepted(w), outcome) # Pending
        BY <1>a, <2>1, <2>2, <2>4 DEF Kinds
    <2> QED
        BY <1>b, <2>2, <2>3, <2>5, CountAndReturnHolds
<1>13. CASE Scan(w)
    <2>1. PICK start \in SourceStarts(E(w)) :
              CountAndReturn(w, ScanResult(E(w), content[w], start, opened[w]))
        BY <1>13 DEF Scan
    <2>2. ScanResult(E(w), content[w], start, opened[w]).class = "scanned"
        BY DEF ScanResult
    <2>3. ScanResult(E(w), content[w], start, opened[w]) # Pending
        BY <2>2 DEF Pending, Result
    <2>4. at[w] = "type" /\ UNCHANGED <<entries, flags, stage, total>>
        BY <1>13 DEF Scan
    <2> QED
        BY <1>b, <2>1, <2>3, <2>4, CountAndReturnHolds
<1> QED
    BY <1>1, <1>2, <1>3, <1>4, <1>5, <1>6, <1>7, <1>8, <1>9, <1>10, <1>11, <1>12, <1>13 DEF Work


(* Outside set_total() the main thread and the reporter count nothing. *)
LEMMA OthersHold ==
    ASSUME IInv, MainThread \/ Reporter
    PROVE  IInv'
PROOF
<1>1. CASE SetTotal
    <2>1. PoolUnchanged /\ stage = "start" /\ stage' = "map" /\ total' = Cardinality(Selected) /\ done' = done
        BY <1>1 DEF SetTotal, PoolUnchanged, ToRead
    <2>2. PoolInv'
        BY <2>1 DEF IInv, PoolInv, PoolUnchanged, workVars, E, is_selected
    <2> QED
        BY <2>1, <2>2, SelectedStutter DEF IInv, CountInv, Counted, PoolUnchanged, workVars
<1>2. CASE Collect
    <2>1. PoolUnchanged /\ stage = "map" /\ stage' = "fold" /\ UNCHANGED <<total, done>>
        BY <1>2 DEF Collect, PoolUnchanged
    <2>2. PoolInv'
        BY <1>2, <2>1 DEF Collect, IInv, PoolInv, PoolUnchanged, workVars, E, is_selected
    <2> QED
        BY <2>1, <2>2, SelectedStutter DEF IInv, CountInv, Counted, PoolUnchanged, workVars
<1>3. CASE Folded \/ StopReporter \/ Join
    <2>1. /\ PoolUnchanged /\ UNCHANGED <<total, done>>
          /\ stage \in {"fold", "stop", "join"} /\ stage' \in {"stop", "join", "over"}
        BY <1>3 DEF Folded, StopReporter, Join, PoolUnchanged
    <2>2. PoolInv'
        BY <2>1 DEF IInv, PoolInv, PoolUnchanged, workVars, E, is_selected
    <2> QED
        BY <2>1, <2>2, SelectedStutter DEF IInv, CountInv, Counted, PoolUnchanged, workVars
<1>4. CASE Fold \/ Reporter
    <2>1. PoolUnchanged /\ UNCHANGED <<stage, total, done>>
        BY <1>4 DEF Fold, Reporter, LoadTotal, Redraw, SleepOn, SeeStop, NotReporter, PoolUnchanged
    <2>2. PoolInv'
        BY <2>1, PoolStutter DEF IInv
    <2> QED
        BY <2>1, <2>2, SelectedStutter DEF IInv, CountInv, Counted, PoolUnchanged, workVars
<1> QED
    BY <1>1, <1>2, <1>3, <1>4 DEF MainThread

LEMMA StepHolds == IInv /\ [Next]_vars => IInv'
PROOF
<1> SUFFICES ASSUME IInv, [Next]_vars PROVE IInv'
    OBVIOUS
<1>1. CASE UNCHANGED vars
    <2>1. PoolUnchanged /\ UNCHANGED <<stage, total, done>>
        BY <1>1 DEF vars, PoolUnchanged
    <2>2. PoolInv'
        BY <2>1, PoolStutter DEF IInv
    <2> QED
        BY <2>1, <2>2, SelectedStutter DEF IInv, CountInv, Counted, PoolUnchanged, workVars
<1>2. CASE \E w \in Workers : Work(w)
    BY <1>2, WorkHolds
<1>3. CASE MainThread \/ Reporter
    BY <1>3, OthersHold
<1> QED
    BY <1>1, <1>2, <1>3 DEF Next

LEMMA Exact == IInv => ProgressExact
PROOF
<1> SUFFICES ASSUME IInv PROVE ProgressExact
    OBVIOUS
<1>1. Cardinality(Counted) <= Cardinality(Selected)
    BY SelectedFinite DEF IInv, PoolInv
<1>2. ASSUME stage \notin {"start", "map"} PROVE Counted = Selected
    BY <1>2 DEF IInv, PoolInv, Counted, Selected
<1> QED
    BY <1>1, <1>2 DEF IInv, CountInv, ProgressExact

(* Each file a search reads is counted once, however the threads interleave
   and whichever way it leaves classify_entry(): the bar never passes its total
   and ends at it. *)
THEOREM ProgressIsExact == Spec => []ProgressExact
PROOF
<1>1. Spec => []IInv
    BY InitHolds, StepHolds, PTL DEF Spec
<1> QED
    BY <1>1, Exact, PTL

-----------------------------------------------------------------------------
(* The reporter *)

LEMMA LineInit == Init => LineInv
BY DEF Init, LineInv, NoLine

(* Only SetTotal writes the total, and nobody lowers the count. *)
LEMMA CountersGrow ==
    ASSUME IInv, [Next]_vars
    PROVE  /\ done \in Nat /\ total \in Nat
           /\ done' = done \/ done' = done + 1
           /\ (total' = total) \/ SetTotal
           /\ SetTotal => stage = "start" /\ total = 0 /\ total' \in Nat
PROOF
<1>1. done \in Nat /\ total \in Nat /\ Cardinality(Selected) \in Nat
    BY SelectedFinite DEF IInv, CountInv, PoolInv
<1>2. SetTotal => stage = "start" /\ total = 0 /\ total' \in Nat
    BY <1>1 DEF SetTotal, ToRead, IInv, CountInv
<1>3. CASE \E w \in Workers : Work(w)
    <2>1. PICK w \in Workers : Work(w)
        BY <1>3
    <2>2. total' = total
        BY <2>1 DEF Work, Elsewhere, Take, SkipByPath, MatchPath, Open, SkipByHeader, PassHeader,
                    ReadContent, Unreadable, LeaveAsIs, Decrypt, DecryptFails, SkipByType, Scan
    <2>3. done' = done \/ done' = done + 1
        BY <2>1 DEF Work, Take, SkipByPath, MatchPath, Open, SkipByHeader, PassHeader,
                    ReadContent, Unreadable, LeaveAsIs, Decrypt, DecryptFails, SkipByType, Scan,
                    Goto, Return, CountAndReturn
    <2> QED
        BY <1>1, <1>2, <2>2, <2>3
<1>4. CASE MainThread \/ Reporter \/ UNCHANGED vars
    <2>1. done' = done /\ ((total' = total) \/ SetTotal)
        BY <1>4 DEF MainThread, Reporter, SetTotal, Collect, Fold, Folded, StopReporter, Join,
                    LoadTotal, Redraw, SleepOn, SeeStop, NotReporter, vars
    <2> QED
        BY <1>1, <1>2, <2>1
<1> QED
    BY <1>3, <1>4 DEF Next

LEMMA LineStep == IInv /\ LineInv /\ [Next]_vars => LineInv'
PROOF
<1> SUFFICES ASSUME IInv, LineInv, [Next]_vars PROVE LineInv'
    OBVIOUS
<1>a. /\ done \in Nat /\ total \in Nat
      /\ done' = done \/ done' = done + 1
      /\ (total' = total) \/ SetTotal
      /\ SetTotal => stage = "start" /\ total = 0 /\ total' \in Nat
    BY CountersGrow
<1> USE DEF NoLine
<1>1. CASE \E w \in Workers : Work(w)
    <2>1. UNCHANGED <<stage, total, seen, reporter, line>>
        BY <1>1 DEF Work, Elsewhere, Take, SkipByPath, MatchPath, Open, SkipByHeader, PassHeader,
                    ReadContent, Unreadable, LeaveAsIs, Decrypt, DecryptFails, SkipByType, Scan,
                    reporterVars
    <2> QED
        BY <1>a, <2>1 DEF LineInv
<1>2. CASE MainThread
    <2>1. CASE SetTotal
        <3>1. seen' = seen /\ reporter' = reporter /\ line' = line /\ stage' = "map" /\ done' = done
            BY <2>1 DEF SetTotal, reporterVars
        <3> QED
            BY <1>a, <2>1, <3>1 DEF LineInv
    <2>2. CASE Join
        <3>1. /\ line' = NoLine /\ stage' = "over" /\ stage = "join" /\ reporter \in {"off", "ended"}
              /\ seen' = seen /\ reporter' = reporter /\ done' = done /\ total' = total
            BY <2>2 DEF Join, reporterVars
        <3> QED
            BY <1>a, <3>1 DEF LineInv
    <2>3. CASE Collect \/ Fold \/ Folded \/ StopReporter
        <3>1. /\ line' = line /\ stage # "start" /\ stage' \notin {"start", "over"}
              /\ seen' = seen /\ reporter' = reporter /\ done' = done /\ total' = total
            BY <2>3 DEF Collect, Fold, Folded, StopReporter, reporterVars
        <3> QED
            BY <1>a, <3>1 DEF LineInv
    <2> QED
        BY <1>2, <2>1, <2>2, <2>3 DEF MainThread
<1>3. CASE Reporter
    <2>a. UNCHANGED <<stage, total, done>>
        BY <1>3 DEF Reporter, LoadTotal, Redraw, SleepOn, SeeStop, NotReporter
    <2>b. reporter \in {"total", "done", "check"} => stage # "over"
        BY DEF LineInv
    <2>c. stage = "start" => total = 0
        BY DEF IInv, CountInv
    <2>1. CASE LoadTotal
        <3>1. PICK t \in {seen.total, total} :
                  seen' = [seen EXCEPT !.total = t] /\ reporter' = IF t > 0 THEN "done" ELSE "check"
            BY <2>1 DEF LoadTotal
        <3>2. line' = line /\ reporter = "total"
            BY <2>1 DEF LoadTotal
        <3> QED
            BY <1>a, <2>a, <2>b, <2>c, <3>1, <3>2 DEF LineInv
    <2>2. CASE Redraw
        <3>1. PICK d \in seen.done .. done : seen' = [seen EXCEPT !.done = d] /\ line' = seen'
            BY <2>2 DEF Redraw
        <3>2. reporter = "done" /\ reporter' = "check"
            BY <2>2 DEF Redraw
        <3>3. d \in Nat /\ d <= done
            BY <1>a, <3>1 DEF LineInv
        <3>4. seen'.total = total /\ seen'.done = d /\ seen' \in [total : Nat, done : Nat]
            BY <3>1, <3>2, <3>3 DEF LineInv
        <3> QED
            BY <1>a, <2>a, <2>b, <3>1, <3>2, <3>3, <3>4 DEF LineInv
    <2>3. CASE SleepOn \/ SeeStop
        <3>1. UNCHANGED <<seen, line>> /\ reporter = "check" /\ reporter' \in {"total", "ended"}
            BY <2>3 DEF SleepOn, SeeStop
        <3> QED
            BY <1>a, <2>a, <2>b, <3>1 DEF LineInv
    <2> QED
        BY <1>3, <2>1, <2>2, <2>3 DEF Reporter
<1>4. CASE UNCHANGED vars
    BY <1>4 DEF vars, reporterVars, LineInv
<1> QED
    BY <1>1, <1>2, <1>3, <1>4 DEF Next

LEMMA Honest == IInv /\ LineInv => LineHonest
PROOF
<1> SUFFICES ASSUME IInv, LineInv PROVE LineHonest
    OBVIOUS
<1>1. ProgressExact
    BY Exact
<1>2. done \in Nat /\ total \in Nat
    BY SelectedFinite DEF IInv, CountInv, PoolInv
<1>3. CASE line = NoLine
    BY <1>3 DEF LineInv, LineHonest, NoLine
<1>4. CASE line \in [total : Nat, done : Nat] /\ stage # "start" /\ line.total = total /\ line.done <= done
    <2>1. done <= total
        BY <1>1, <1>4 DEF ProgressExact
    <2>2. line.done \in Nat
        BY <1>4
    <2> QED
        BY <1>2, <1>4, <2>1, <2>2 DEF LineInv, LineHonest
<1> QED
    BY <1>3, <1>4 DEF LineInv

(* The line on the terminal never claims more files than there are, and none
   is drawn after the reporter was joined: stale loads cannot break either. *)
THEOREM LineIsHonest == Spec => []LineHonest
PROOF
<1>1. Spec => []IInv
    BY InitHolds, StepHolds, PTL DEF Spec
<1>2. Spec => [](IInv /\ LineInv)
    BY <1>1, LineInit, LineStep, PTL DEF Spec
<1> QED
    BY <1>2, Honest, PTL

-----------------------------------------------------------------------------
(* What the threads leave in the slots *)

(* try_decrypt() was asked about every file that was read, and once. *)
Outcomes(entry, class) ==
    IF /\ flags.secrets /\ entry.secret # "none"
       /\ is_selected(entry) /\ ~flags.match_path /\ class # "unreadable"
    THEN IF Opens(entry) THEN "decrypted" ELSE "failed"
    ELSE "none"

Settles(entry, result) ==
    /\ result.class \in Kinds
    /\ result.class = "directory" <=> entry.dir
    /\ result.class = "not_path" => select(flags.filter, entry.path) = "not_path"
    /\ result.decryption = Outcomes(entry, result.class)

(* What a thread has learnt of the entry it is at. *)
HandInv ==
    /\ flags \in Setting
    /\ opened \in [Workers -> BOOLEAN]
    /\ \A w \in Workers :
          /\ at[w] \notin {"idle", "path"} => ~flags.match_path
          /\ at[w] = "prefix" => ~flags.secrets
          /\ at[w] # "type" => ~opened[w]
          /\ at[w] = "type" => /\ opened[w] <=> Opens(E(w))
                               /\ flags.secrets => E(w).secret # "fails"

SlotInv == \A e \in DOMAIN entries : slots[e] # Pending => Settles(entries[e], slots[e])

LEMMA SettlesStutter ==
    ASSUME UNCHANGED flags
    PROVE  \A entry, result : Settles(entry, result)' <=> Settles(entry, result)
BY DEF Settles, Outcomes, is_selected, Opens

(* A step within classify_entry(). *)
LEMMA MoveInHand ==
    ASSUME IInv, HandInv, SlotInv, NEW w \in Workers, at[w] # "idle", ~flags.match_path,
           NEW place \in {"prefix", "content", "decrypt", "type"}, Goto(w, place),
           UNCHANGED <<entries, flags>>,
           place = "prefix" => ~flags.secrets,
           NEW open \in BOOLEAN, opened' = [opened EXCEPT ![w] = open],
           place # "type" => ~open,
           place = "type" => /\ open <=> Opens(E(w))
                             /\ flags.secrets => E(w).secret # "fails"
    PROVE  HandInv' /\ SlotInv'
PROOF
<1>1. /\ at' = [at EXCEPT ![w] = place] /\ UNCHANGED <<job, slots>>
      /\ at \in [Workers -> {"idle", "path", "prefix", "content", "decrypt", "type"}]
    BY DEF Goto, IInv, PoolInv
<1>2. HandInv'
    <2>1. \A v \in Workers : v # w => at'[v] = at[v] /\ opened'[v] = opened[v]
        BY <1>1 DEF HandInv
    <2>2. at'[w] = place /\ opened'[w] = open
        BY <1>1 DEF HandInv
    <2>3. \A v \in Workers : E(v)' = E(v) /\ (Opens(E(v))' <=> Opens(E(v)))
        BY <1>1 DEF E, Opens
    <2> QED
        BY <2>1, <2>2, <2>3 DEF HandInv
<1>3. SlotInv'
    BY <1>1, SettlesStutter DEF SlotInv
<1> QED
    BY <1>2, <1>3

(* A return from it. *)
LEMMA ReturnSettles ==
    ASSUME IInv, HandInv, SlotInv, NEW w \in Workers, at[w] # "idle", NEW result, Settles(E(w), result),
           slots' = [slots EXCEPT ![job[w]] = result], Release(w), UNCHANGED <<entries, flags>>
    PROVE  HandInv' /\ SlotInv'
PROOF
<1>1. /\ job[w] \in DOMAIN entries /\ DOMAIN slots = DOMAIN entries
      /\ at \in [Workers -> {"idle", "path", "prefix", "content", "decrypt", "type"}]
      /\ job \in [Workers -> Nat]
    BY Working DEF IInv, PoolInv
<1>2. HandInv'
    <2>1. \A v \in Workers : v # w => at'[v] = at[v] /\ opened'[v] = opened[v] /\ job'[v] = job[v]
        BY <1>1 DEF HandInv, Release
    <2>2. at'[w] = "idle" /\ opened'[w] = FALSE
        BY <1>1 DEF HandInv, Release
    <2>3. \A v \in Workers : v # w => E(v)' = E(v) /\ (Opens(E(v))' <=> Opens(E(v)))
        BY <2>1 DEF E, Opens
    <2>4. opened' \in [Workers -> BOOLEAN]
        BY DEF HandInv, Release
    <2> QED
        BY <2>1, <2>2, <2>3, <2>4 DEF HandInv
<1>3. ASSUME NEW e \in DOMAIN entries, slots'[e] # Pending
      PROVE  Settles(entries[e], slots'[e])
    BY <1>1, <1>3 DEF SlotInv, E
<1> QED
    BY <1>2, <1>3, SettlesStutter DEF SlotInv

LEMMA WorkSettles ==
    ASSUME IInv, HandInv, SlotInv, NEW w \in Workers, Work(w)
    PROVE  HandInv' /\ SlotInv'
PROOF
<1> USE DEF Elsewhere
<1>a. at[w] # "idle" => job[w] \in DOMAIN entries
    BY Working DEF IInv
<1>b. at[w] \notin {"idle", "path"} => is_selected(E(w)) /\ ~E(w).dir /\ ~flags.match_path
    BY DEF IInv, PoolInv, HandInv, is_selected
<1>c. /\ entries \in Seq(Entry)
      /\ at \in [Workers -> {"idle", "path", "prefix", "content", "decrypt", "type"}]
    BY DEF IInv, PoolInv
<1>d. at[w] # "idle" => E(w).secret \in {"none", "opens", "fails"} /\ E(w).dir \in BOOLEAN
    <2> SUFFICES ASSUME at[w] # "idle" PROVE E(w) \in Entry
        BY DEF Entry
    <2> QED
        BY <1>a, <1>c DEF E
<1>e. flags.secrets \in BOOLEAN /\ flags.match_path \in BOOLEAN
    BY DEF HandInv, Setting
<1>1. CASE Take(w)
    <2>1. at[w] = "idle" /\ UNCHANGED <<entries, flags, slots, opened>> /\ at' = [at EXCEPT ![w] = "path"]
        BY <1>1 DEF Take
    <2>2. \A v \in Workers : v # w => job'[v] = job[v] /\ at'[v] = at[v]
        BY <1>1, <1>c DEF Take, IInv, PoolInv
    <2>3. \A v \in Workers : v # w => E(v)' = E(v) /\ (Opens(E(v))' <=> Opens(E(v)))
        BY <2>1, <2>2 DEF E, Opens
    <2>4. HandInv'
        BY <1>c, <2>1, <2>2, <2>3 DEF HandInv
    <2> QED
        BY <2>1, <2>4, SettlesStutter DEF SlotInv
<1>2. CASE SkipByPath(w)
    <2> DEFINE class == IF E(w).dir THEN "directory" ELSE select(flags.filter, E(w).path)
    <2>1. at[w] # "idle" /\ ~is_selected(E(w)) /\ Return(w, Result(class, "none")) /\ UNCHANGED <<entries, flags>>
        BY <1>2 DEF SkipByPath
    <2>2. select(flags.filter, E(w).path) \in {"not_included", "not_path", "search"}
        BY DEF select
    <2>3. Settles(E(w), Result(class, "none"))
        BY <1>d, <2>1, <2>2 DEF Settles, Outcomes, Result, Kinds, is_selected
    <2> HIDE DEF class
    <2> QED
        BY <2>1, <2>3, ReturnSettles DEF Return
<1>3. CASE MatchPath(w)
    <2>1. at[w] # "idle" /\ is_selected(E(w)) /\ flags.match_path /\ CountAndReturn(w, PathResult(E(w)))
          /\ UNCHANGED <<entries, flags>>
        BY <1>3 DEF MatchPath
    <2>2. PathResult(E(w)).class = "scanned" /\ PathResult(E(w)).decryption = "none"
        BY DEF PathResult, Result
    <2>3. Settles(E(w), PathResult(E(w)))
        BY <1>d, <2>1, <2>2 DEF Settles, Outcomes, Kinds, is_selected
    <2> QED
        BY <2>1, <2>3, ReturnSettles DEF CountAndReturn
<1>4. CASE Open(w)
    <2> DEFINE place == IF HeaderFirst THEN "prefix" ELSE "content"
    <2>1. /\ at[w] = "path" /\ ~flags.match_path /\ Goto(w, place) /\ UNCHANGED <<entries, flags, opened>>
          /\ place \in {"prefix", "content"}
        BY <1>4 DEF Open
    <2>2. place = "prefix" => ~flags.secrets
        BY DEF HeaderFirst
    <2>3. opened' = [opened EXCEPT ![w] = FALSE]
        BY <2>1 DEF HandInv
    <2> HIDE DEF place
    <2> QED
        BY <2>1, <2>2, <2>3, MoveInHand
<1>5. CASE SkipByHeader(w)
    <2> DEFINE decision == accept_type(flags.filter, detect_type(E(w).path, E(w).body))
    <2>1. decision \in {"search", "media", "type"}
        BY DEF accept_type
    <2>2. CountAndReturn(w, Result(decision, "none")) /\ at[w] = "prefix" /\ decision # "search"
          /\ UNCHANGED <<entries, flags>>
        BY <1>5 DEF SkipByHeader
    <2>3. ~flags.secrets
        BY <2>2 DEF HandInv
    <2> HIDE DEF decision
    <2>4. Settles(E(w), Result(decision, "none"))
        BY <1>b, <1>d, <2>1, <2>2, <2>3 DEF Settles, Outcomes, Result, Kinds
    <2> QED
        BY <2>2, <2>4, ReturnSettles DEF CountAndReturn
<1>6. CASE PassHeader(w)
    <2>1. at[w] = "prefix" /\ Goto(w, "content") /\ UNCHANGED <<entries, flags, opened>>
        BY <1>6 DEF PassHeader
    <2>2. opened' = [opened EXCEPT ![w] = FALSE]
        BY <2>1 DEF HandInv
    <2> QED
        BY <1>b, <2>1, <2>2, MoveInHand
<1>7. CASE ReadContent(w)
    <2>1. at[w] = "content" /\ Goto(w, "decrypt") /\ UNCHANGED <<entries, flags, opened>>
        BY <1>7 DEF ReadContent
    <2>2. opened' = [opened EXCEPT ![w] = FALSE]
        BY <2>1 DEF HandInv
    <2> QED
        BY <1>b, <2>1, <2>2, MoveInHand
<1>8. CASE Unreadable(w)
    <2>1. at[w] = "content" /\ CountAndReturn(w, Result("unreadable", "none")) /\ UNCHANGED <<entries, flags>>
        BY <1>8 DEF Unreadable
    <2>2. Settles(E(w), Result("unreadable", "none"))
        BY <1>b, <2>1 DEF Settles, Outcomes, Result, Kinds
    <2> QED
        BY <2>1, <2>2, ReturnSettles DEF CountAndReturn
<1>9. CASE LeaveAsIs(w)
    <2>1. /\ at[w] = "decrypt" /\ (~flags.secrets \/ E(w).secret = "none") /\ Goto(w, "type")
          /\ UNCHANGED <<entries, flags, opened>>
        BY <1>9 DEF LeaveAsIs
    <2>2. opened' = [opened EXCEPT ![w] = FALSE]
        BY <2>1 DEF HandInv
    <2>3. ~Opens(E(w)) /\ (flags.secrets => E(w).secret # "fails")
        BY <2>1 DEF Opens
    <2> QED
        BY <1>b, <2>1, <2>2, <2>3, MoveInHand
<1>10. CASE Decrypt(w)
    <2>1. /\ at[w] = "decrypt" /\ flags.secrets /\ E(w).secret = "opens" /\ Goto(w, "type")
          /\ UNCHANGED <<entries, flags>> /\ opened' = [opened EXCEPT ![w] = TRUE]
        BY <1>10 DEF Decrypt
    <2>2. Opens(E(w)) /\ E(w).secret # "fails"
        BY <2>1 DEF Opens
    <2> QED
        BY <1>b, <2>1, <2>2, MoveInHand
<1>11. CASE DecryptFails(w)
    <2>1. /\ at[w] = "decrypt" /\ flags.secrets /\ E(w).secret = "fails"
          /\ CountAndReturn(w, Result("decrypt_failed", "failed")) /\ UNCHANGED <<entries, flags>>
        BY <1>11 DEF DecryptFails
    <2>2. Settles(E(w), Result("decrypt_failed", "failed"))
        BY <1>b, <2>1 DEF Settles, Outcomes, Opens, Result, Kinds
    <2> QED
        BY <2>1, <2>2, ReturnSettles DEF CountAndReturn
<1>12. CASE SkipByType(w)
    <2> DEFINE outcome == IF opened[w] THEN "decrypted" ELSE "none"
    <2>1. Accepted(w) \in {"search", "media", "type"}
        BY DEF Accepted, accept_type
    <2>2. /\ CountAndReturn(w, Result(Accepted(w), outcome)) /\ at[w] = "type" /\ Accepted(w) # "search"
          /\ UNCHANGED <<entries, flags>>
        BY <1>12 DEF SkipByType
    <2>3. (opened[w] <=> Opens(E(w))) /\ (flags.secrets => E(w).secret # "fails")
        BY <2>2 DEF HandInv
    <2>4. Settles(E(w), Result(Accepted(w), outcome))
        BY <1>b, <1>d, <2>1, <2>2, <2>3 DEF Settles, Outcomes, Opens, Result, Kinds
    <2> HIDE DEF outcome
    <2> QED
        BY <2>2, <2>4, ReturnSettles DEF CountAndReturn
<1>13. CASE Scan(w)
    <2>1. PICK start \in SourceStarts(E(w)) :
              CountAndReturn(w, ScanResult(E(w), content[w], start, opened[w]))
        BY <1>13 DEF Scan
    <2> DEFINE result == ScanResult(E(w), content[w], start, opened[w])
    <2>2. at[w] = "type" /\ UNCHANGED <<entries, flags>> /\ CountAndReturn(w, result)
        BY <1>13, <2>1 DEF Scan
    <2>3. (opened[w] <=> Opens(E(w))) /\ (flags.secrets => E(w).secret # "fails")
        BY <2>2 DEF HandInv
    <2>4. result.class = "scanned" /\ result.decryption = IF opened[w] THEN "decrypted" ELSE "none"
        BY DEF ScanResult
    <2> HIDE DEF result
    <2>5. Settles(E(w), result)
        BY <1>b, <1>d, <2>2, <2>3, <2>4 DEF Settles, Outcomes, Opens, Kinds
    <2> QED
        BY <2>2, <2>5, ReturnSettles DEF CountAndReturn
<1> QED
    BY <1>1, <1>2, <1>3, <1>4, <1>5, <1>6, <1>7, <1>8, <1>9, <1>10, <1>11, <1>12, <1>13 DEF Work

LEMMA SettledInit == Init => HandInv /\ SlotInv
PROOF
<1> SUFFICES ASSUME Init PROVE HandInv /\ SlotInv
    OBVIOUS
<1>1. flags \in Setting
    BY SearchAssumption DEF Init
<1>2. \A e \in DOMAIN entries : slots[e] = Pending
    BY DEF Init
<1> QED
    BY <1>1, <1>2 DEF Init, HandInv, SlotInv

LEMMA SettledStep == IInv /\ HandInv /\ SlotInv /\ [Next]_vars => HandInv' /\ SlotInv'
PROOF
<1> SUFFICES ASSUME IInv, HandInv, SlotInv, [Next]_vars PROVE HandInv' /\ SlotInv'
    OBVIOUS
<1>1. CASE \E w \in Workers : Work(w)
    BY <1>1, WorkSettles
<1>2. CASE MainThread \/ Reporter \/ UNCHANGED vars
    <2>1. UNCHANGED <<entries, flags, job, at, opened, slots>>
        BY <1>2 DEF MainThread, Reporter, SetTotal, Collect, Fold, Folded, StopReporter, Join,
                    LoadTotal, Redraw, SleepOn, SeeStop, NotReporter, vars, workVars
    <2>2. \A w \in Workers : E(w)' = E(w) /\ (Opens(E(w))' <=> Opens(E(w)))
        BY <2>1 DEF E, Opens
    <2> QED
        BY <2>1, <2>2, SettlesStutter DEF HandInv, SlotInv
<1> QED
    BY <1>1, <1>2 DEF Next

-----------------------------------------------------------------------------
(* The fold: the statistics and the audit trail of the first entries *)

ClassedTo(kinds, n) == {e \in 1 .. n : slots[e].class \in kinds}
FilesTo(n) == {e \in 1 .. n : ~entries[e].dir}
ChargedTo(g, n) ==
    {e \in ClassedTo({"not_path"}, n) : /\ entries[e].path \in flags.filter.exclude[g]
                                        /\ \A h \in 1 .. g - 1 : entries[e].path \notin flags.filter.exclude[h]}

FoldInv ==
    /\ folded \in 0 .. Len(entries)
    /\ stage \in {"start", "map"} => folded = 0
    /\ stage \in {"stop", "join", "over"} => folded = Len(entries)

Line(e) == [path |-> entries[e].path, outcome |-> IF Opens(entries[e]) THEN "decrypted" ELSE "failed"]

AuditInv ==
    /\ audit \in Seq([path : Paths, outcome : {"decrypted", "failed"}])
    /\ Len(audit) = Cardinality(AttemptedTo(folded))
    /\ \A e \in AttemptedTo(folded) : audit[Cardinality(AttemptedTo(e))] = Line(e)

StatsInv ==
    /\ stats.tally \in [Kinds -> [count : Nat, bytes : Nat]]
    /\ stats.globs \in [DOMAIN flags.filter.exclude -> Nat]
    /\ IsFiniteSet(BytesOf(1 .. folded))
    /\ \A k \in Kinds :
          /\ stats.tally[k].count = Cardinality(ClassedTo({k}, folded))
          /\ stats.tally[k].bytes = IF k = "directory" THEN 0 ELSE Cardinality(BytesOf(ClassedTo({k}, folded)))
    /\ stats.bytes_total = Cardinality(BytesOf(FilesTo(folded)))
    /\ stats.files_skipped = Cardinality(ClassedTo(Skips, folded))
    /\ \A g \in DOMAIN flags.filter.exclude : stats.globs[g] = Cardinality(ChargedTo(g, folded))

(* The next number joins a set of numbers, or does not. *)
LEMMA CountNext ==
    ASSUME NEW n \in Nat, NEW some \in SUBSET (1 .. n), NEW more \in SUBSET (1 .. n + 1),
           more \ {n + 1} = some
    PROVE  /\ IsFiniteSet(some) /\ Cardinality(some) \in 0 .. n
           /\ Cardinality(more) = IF n + 1 \in more THEN Cardinality(some) + 1 ELSE Cardinality(some)
PROOF
<1>1. IsFiniteSet(1 .. n) /\ Cardinality(1 .. n) = n
    BY FS_Interval
<1>2. IsFiniteSet(some) /\ Cardinality(some) \in Nat /\ Cardinality(some) <= n
    BY <1>1, FS_Subset, FS_CardinalityType, ZenonT(60)
<1>3. n + 1 \notin some
    OBVIOUS
<1>4. CASE n + 1 \in more
    <2>1. more = some \cup {n + 1}
        BY <1>4
    <2> QED
        BY <1>2, <1>3, <1>4, <2>1, FS_AddElement
<1>5. CASE n + 1 \notin more
    BY <1>2, <1>5
<1> QED
    BY <1>2, <1>4, <1>5

LEMMA OwnBytes ==
    ASSUME NEW x, NEW size \in Nat
    PROVE  IsFiniteSet({x} \X (1 .. size)) /\ Cardinality({x} \X (1 .. size)) = size
PROOF
<1>1. IsFiniteSet(1 .. size) /\ Cardinality(1 .. size) = size
    BY FS_Interval
<1>2. IsFiniteSet({x}) /\ Cardinality({x}) = 1
    BY FS_Singleton
<1>3. Cardinality({x} \X (1 .. size)) = 1 * size
    BY <1>1, <1>2, FS_Product
<1>4. IsFiniteSet({x} \X (1 .. size))
    BY <1>1, <1>2, FS_Product
<1>5. 1 * size = size
    OBVIOUS
<1> QED
    BY <1>3, <1>4, <1>5

LEMMA Apart ==
    ASSUME NEW A, NEW B, IsFiniteSet(A), IsFiniteSet(B), A \cap B = {}
    PROVE  /\ IsFiniteSet(A \cup B) /\ Cardinality(A) \in Nat /\ Cardinality(B) \in Nat
           /\ Cardinality(A \cup B) = Cardinality(A) + Cardinality(B)
PROOF
<1>1. Cardinality(A \cap B) = 0 /\ Cardinality(A) \in Nat /\ Cardinality(B) \in Nat
    BY FS_EmptySet, FS_CardinalityType
<1>2. IsFiniteSet(A \cup B) /\ Cardinality(A \cup B) = Cardinality(A) + Cardinality(B) - Cardinality(A \cap B)
    BY FS_Union
<1> QED
    BY <1>1, <1>2

(* Its bytes are none that were counted. *)
LEMMA BytesNext ==
    ASSUME NEW n \in Nat, n + 1 \in DOMAIN entries, entries \in Seq(Entry), IsFiniteSet(BytesOf(1 .. n)),
           NEW some \in SUBSET (1 .. n), NEW more \in SUBSET (1 .. n + 1), more \ {n + 1} = some
    PROVE  /\ IsFiniteSet(BytesOf(more)) /\ Cardinality(BytesOf(some)) \in Nat
           /\ entries[n + 1].size \in Nat
           /\ Cardinality(BytesOf(more)) =
                 IF n + 1 \in more THEN Cardinality(BytesOf(some)) + entries[n + 1].size
                 ELSE Cardinality(BytesOf(some))
PROOF
<1>1. PICK size \in Nat : entries[n + 1].size = size
    <2>1. entries[n + 1] \in Entry
        OBVIOUS
    <2> QED
        BY <2>1 DEF Entry
<1> DEFINE own == {n + 1} \X (1 .. size)
<1>2. BytesOf(some) \subseteq BytesOf(1 .. n)
    BY DEF BytesOf
<1>3. IsFiniteSet(BytesOf(some)) /\ Cardinality(BytesOf(some)) \in Nat
    BY <1>2, FS_Subset, FS_CardinalityType
<1>4. IsFiniteSet(own) /\ Cardinality(own) = size
    BY OwnBytes
<1>5. CASE n + 1 \in more
    <2>1. BytesOf(more) = BytesOf(some) \cup own
        BY <1>1, <1>5 DEF BytesOf
    <2>2. BytesOf(some) \cap own = {}
        BY DEF BytesOf
    <2> HIDE DEF own
    <2> QED
        BY <1>1, <1>3, <1>4, <1>5, <2>1, <2>2, Apart, ZenonT(60)
<1>6. CASE n + 1 \notin more
    <2>1. more = some
        BY <1>6
    <2> QED
        BY <1>1, <1>3, <1>6, <2>1
<1> QED
    BY <1>5, <1>6

LEMMA PrefixStutter ==
    ASSUME UNCHANGED <<entries, flags, slots>>
    PROVE  /\ \A n : AttemptedTo(n)' = AttemptedTo(n) /\ FilesTo(n)' = FilesTo(n)
           /\ \A kinds, n : ClassedTo(kinds, n)' = ClassedTo(kinds, n)
           /\ \A some : BytesOf(some)' = BytesOf(some)
           /\ \A g, n : ChargedTo(g, n)' = ChargedTo(g, n)
           /\ \A e : Line(e)' = Line(e)
PROOF
<1>1. \A kinds, n : ClassedTo(kinds, n)' = ClassedTo(kinds, n)
    BY DEF ClassedTo
<1>2. \A e : Attempted(e)' <=> Attempted(e)
    BY DEF Attempted, is_selected
<1>3. \A n : AttemptedTo(n)' = AttemptedTo(n)
    BY <1>2 DEF AttemptedTo
<1>4. \A g, n : ChargedTo(g, n)' = ChargedTo(g, n)
    BY <1>1 DEF ChargedTo
<1>5. \A e : Line(e)' = Line(e)
    BY DEF Line, Opens
<1> QED
    BY <1>1, <1>3, <1>4, <1>5 DEF FilesTo, BytesOf

LEMMA Nothing ==
    ASSUME NEW n, n = 0
    PROVE  /\ AttemptedTo(n) = {} /\ FilesTo(n) = {} /\ 1 .. n = {}
           /\ \A kinds : ClassedTo(kinds, n) = {}
           /\ \A g : ChargedTo(g, n) = {}
           /\ BytesOf({}) = {}
BY DEF AttemptedTo, FilesTo, ClassedTo, ChargedTo, BytesOf

LEMMA FoldInit == Init => FoldInv /\ AuditInv /\ StatsInv
PROOF
<1> SUFFICES ASSUME Init PROVE FoldInv /\ AuditInv /\ StatsInv
    OBVIOUS
<1>1. folded = 0 /\ audit = <<>> /\ stats = NoStats /\ stage = "start" /\ entries \in Seq(Entry)
    BY SearchAssumption DEF Init
<1>2. FoldInv
    BY <1>1 DEF FoldInv
<1>3. AuditInv
    <2>1. AttemptedTo(folded) = {} /\ Cardinality(AttemptedTo(folded)) = 0
        BY <1>1, Nothing, FS_EmptySet
    <2> QED
        BY <1>1, <2>1 DEF AuditInv
<1>4. /\ stats.tally = [k \in Kinds |-> [count |-> 0, bytes |-> 0]]
      /\ stats.globs = [g \in DOMAIN flags.filter.exclude |-> 0]
      /\ stats.bytes_total = 0 /\ stats.files_skipped = 0
    BY <1>1 DEF NoStats
<1>5. StatsInv
    <2>1. /\ Cardinality({}) = 0 /\ IsFiniteSet({}) /\ BytesOf({}) = {} /\ 1 .. folded = {} /\ FilesTo(folded) = {}
          /\ \A kinds : ClassedTo(kinds, folded) = {}
          /\ \A g : ChargedTo(g, folded) = {}
        BY <1>1, Nothing, FS_EmptySet
    <2>2. stats.tally \in [Kinds -> [count : Nat, bytes : Nat]] /\ stats.globs \in [DOMAIN flags.filter.exclude -> Nat]
        BY <1>4
    <2>3. \A k \in Kinds : stats.tally[k].count = 0 /\ stats.tally[k].bytes = 0
        BY <1>4
    <2>4. \A g \in DOMAIN flags.filter.exclude : stats.globs[g] = 0
        BY <1>4
    <2> QED
        BY <1>4, <2>1, <2>2, <2>3, <2>4 DEF StatsInv
<1> QED
    BY <1>2, <1>3, <1>5

(* While the pool works nothing is folded. *)
LEMMA FoldWaits ==
    ASSUME IInv, FoldInv, AuditInv, StatsInv, NEW w \in Workers, Work(w)
    PROVE  FoldInv' /\ AuditInv' /\ StatsInv'
PROOF
<1>1. UNCHANGED <<entries, flags, stage, folded, audit, stats>>
    BY DEF Work, Elsewhere, Take, SkipByPath, MatchPath, Open, SkipByHeader, PassHeader,
           ReadContent, Unreadable, LeaveAsIs, Decrypt, DecryptFails, SkipByType, Scan, findingVars
<1>2. stage = "map"
    <2>1. at[w] = "idle" => stage = "map"
        BY DEF Work, Take, SkipByPath, MatchPath, Open, SkipByHeader, PassHeader,
               ReadContent, Unreadable, LeaveAsIs, Decrypt, DecryptFails, SkipByType, Scan
    <2> QED
        BY <2>1, Working DEF IInv
<1>3. folded = 0 /\ folded' = 0
    BY <1>1, <1>2 DEF FoldInv
<1>4. /\ AttemptedTo(folded) = {} /\ FilesTo(folded) = {} /\ 1 .. folded = {} /\ BytesOf({}) = {}
      /\ \A kinds : ClassedTo(kinds, folded) = {}
      /\ \A g : ChargedTo(g, folded) = {}
    BY <1>3, Nothing
<1>5. /\ AttemptedTo(folded)' = {} /\ FilesTo(folded)' = {} /\ (1 .. folded)' = {} /\ BytesOf({})' = {}
      /\ \A kinds : ClassedTo(kinds, folded)' = {}
      /\ \A g : ChargedTo(g, folded)' = {}
    BY <1>3 DEF AttemptedTo, FilesTo, ClassedTo, ChargedTo, BytesOf
<1>6. FoldInv'
    BY <1>1 DEF FoldInv
<1>7. AuditInv'
    BY <1>1, <1>4, <1>5 DEF AuditInv
<1>8. StatsInv'
    BY <1>1, <1>4, <1>5, ZenonT(60) DEF StatsInv
<1> QED
    BY <1>6, <1>7, <1>8

LEMMA FoldStutter ==
    ASSUME FoldInv, AuditInv, StatsInv, UNCHANGED <<entries, flags, slots, folded, audit, stats>>, FoldInv'
    PROVE  AuditInv' /\ StatsInv'
BY PrefixStutter, ZenonT(60) DEF AuditInv, StatsInv

LEMMA FoldAudits ==
    ASSUME IInv, SlotInv, FoldInv, AuditInv, Fold
    PROVE  AuditInv'
PROOF
<1> DEFINE n == folded
           e == folded + 1
<1>1. /\ stage = "fold" /\ n \in Nat /\ e \in DOMAIN entries /\ n < Len(entries) /\ entries \in Seq(Entry)
      /\ folded' = e /\ UNCHANGED <<entries, flags, slots>>
    BY DEF Fold, FoldInv, IInv, PoolInv, workVars
<1>2. audit' = IF slots[e].decryption = "none" THEN audit
               ELSE Append(audit, [path |-> entries[e].path, outcome |-> slots[e].decryption])
    BY DEF Fold
<1>3. Settles(entries[e], slots[e])
    BY <1>1 DEF IInv, PoolInv, SlotInv
<1>4. /\ Attempted(e) => slots[e].decryption = IF Opens(entries[e]) THEN "decrypted" ELSE "failed"
      /\ ~Attempted(e) => slots[e].decryption = "none"
    BY <1>3 DEF Settles, Outcomes, Attempted
<1>5. /\ \A m \in Nat : AttemptedTo(m) \in SUBSET (1 .. m) /\ AttemptedTo(m + 1) \in SUBSET (1 .. m + 1)
                        /\ AttemptedTo(m + 1) \ {m + 1} = AttemptedTo(m)
      /\ e \in AttemptedTo(e) <=> Attempted(e)
    BY <1>1 DEF AttemptedTo
<1>6. /\ IsFiniteSet(AttemptedTo(n)) /\ Cardinality(AttemptedTo(n)) \in Nat
      /\ Cardinality(AttemptedTo(e)) = IF Attempted(e) THEN Cardinality(AttemptedTo(n)) + 1
                                       ELSE Cardinality(AttemptedTo(n))
    <2>1. /\ AttemptedTo(n) \in SUBSET (1 .. n) /\ AttemptedTo(n + 1) \in SUBSET (1 .. n + 1)
          /\ AttemptedTo(n + 1) \ {n + 1} = AttemptedTo(n)
        BY <1>1, <1>5
    <2>2. /\ IsFiniteSet(AttemptedTo(n)) /\ Cardinality(AttemptedTo(n)) \in 0 .. n
          /\ Cardinality(AttemptedTo(n + 1)) = IF n + 1 \in AttemptedTo(n + 1) THEN Cardinality(AttemptedTo(n)) + 1
                                               ELSE Cardinality(AttemptedTo(n))
        BY <1>1, <2>1, CountNext
    <2> QED
        BY <1>1, <1>5, <2>2
<1>7. \A d \in AttemptedTo(n) : Cardinality(AttemptedTo(d)) \in 1 .. Len(audit)
    <2> TAKE d \in AttemptedTo(n)
    <2>1. d \in 1 .. n /\ AttemptedTo(d) \subseteq AttemptedTo(n) /\ d \in AttemptedTo(d)
        BY <1>1 DEF AttemptedTo
    <2>2. IsFiniteSet(AttemptedTo(d)) /\ Cardinality(AttemptedTo(d)) <= Cardinality(AttemptedTo(n))
          /\ Cardinality(AttemptedTo(d)) \in Nat
        BY <1>6, <2>1, FS_Subset, FS_CardinalityType
    <2>3. Cardinality(AttemptedTo(d)) # 0
        BY <2>1, <2>2, FS_EmptySet
    <2> QED
        BY <1>6, <2>2, <2>3 DEF AuditInv
<1>8. /\ \A m : AttemptedTo(m)' = AttemptedTo(m)
      /\ \A d : Line(d)' = Line(d)
    BY <1>1, PrefixStutter
<1> HIDE DEF n, e
<1>9. CASE Attempted(e)
    <2>1. AttemptedTo(e) = AttemptedTo(n) \cup {e}
        BY <1>1, <1>5, <1>9 DEF AttemptedTo, n, e
    <2>2. audit' = Append(audit, Line(e)) /\ Line(e) \in [path : Paths, outcome : {"decrypted", "failed"}]
        <3>1. entries[e] \in Entry
            BY <1>1 DEF e
        <3>2. entries[e].path \in Paths
            BY <3>1 DEF Entry
        <3> QED
            BY <1>2, <1>4, <1>9, <3>2 DEF Line
    <2>3. /\ audit' \in Seq([path : Paths, outcome : {"decrypted", "failed"}]) /\ Len(audit') = Len(audit) + 1
          /\ audit'[Len(audit) + 1] = Line(e)
          /\ \A k \in 1 .. Len(audit) : audit'[k] = audit[k]
        BY <2>2 DEF AuditInv
    <2>4. Len(audit') = Cardinality(AttemptedTo(e))
        BY <1>6, <1>9, <2>3 DEF AuditInv, n
    <2>5. \A d \in AttemptedTo(e) : audit'[Cardinality(AttemptedTo(d))] = Line(d)
        <3> TAKE d \in AttemptedTo(e)
        <3>1. CASE d = e
            BY <1>6, <1>9, <2>3, <3>1 DEF AuditInv, n
        <3>2. CASE d \in AttemptedTo(n)
            BY <1>7, <2>3, <3>2 DEF AuditInv, n
        <3> QED
            BY <2>1, <3>1, <3>2
    <2> QED
        BY <1>1, <1>8, <2>3, <2>4, <2>5 DEF AuditInv
<1>10. CASE ~Attempted(e)
    <2>1. AttemptedTo(e) = AttemptedTo(n) /\ audit' = audit
        BY <1>1, <1>2, <1>4, <1>5, <1>10 DEF AttemptedTo, n, e
    <2> QED
        BY <1>1, <1>8, <2>1 DEF AuditInv, n
<1> QED
    BY <1>9, <1>10

(* A skip by a glob has a glob it is charged to. *)
LEMMA GlobIsFound ==
    ASSUME NEW filter \in Filter, NEW path, select(filter, path) = "not_path"
    PROVE  /\ SkippingGlob(filter, path) \in DOMAIN filter.exclude
           /\ \A g \in DOMAIN filter.exclude :
                 g = SkippingGlob(filter, path) <=>
                    /\ path \in filter.exclude[g]
                    /\ \A h \in 1 .. g - 1 : path \notin filter.exclude[h]
PROOF
<1> DEFINE matching == Matching(filter.exclude, path)
<1>1. filter.exclude \in Seq(SUBSET Paths)
    BY DEF Filter
<1>2. matching \in SUBSET Nat /\ matching # {} /\ matching \subseteq DOMAIN filter.exclude
    BY <1>1 DEF select, Matching
<1>3. \E k \in matching : \A j \in matching : k <= j
    BY <1>2, LeastNatural
<1>4. SkippingGlob(filter, path) \in matching /\ \A j \in matching : SkippingGlob(filter, path) <= j
    BY <1>3 DEF SkippingGlob
<1>5. DOMAIN filter.exclude = 1 .. Len(filter.exclude) /\ Len(filter.exclude) \in Nat
    BY <1>1
<1>6. ASSUME NEW g \in DOMAIN filter.exclude
      PROVE  g = SkippingGlob(filter, path) <=>
                    /\ path \in filter.exclude[g]
                    /\ \A h \in 1 .. g - 1 : path \notin filter.exclude[h]
    <2> PICK s \in matching : s = SkippingGlob(filter, path) /\ \A j \in matching : s <= j
        BY <1>4
    <2>1. s \in 1 .. Len(filter.exclude) /\ path \in filter.exclude[s]
        BY <1>2, <1>5 DEF Matching
    <2>2. \A h \in 1 .. s - 1 : path \notin filter.exclude[h]
        BY <1>5, <2>1 DEF Matching
    <2>3. ASSUME path \in filter.exclude[g], \A h \in 1 .. g - 1 : path \notin filter.exclude[h]
          PROVE  g = s
        <3>1. g \in matching /\ s <= g
            BY <2>3 DEF Matching
        <3>2. ~(s < g)
            BY <1>5, <2>1, <2>3, SMTT(40)
        <3> QED
            BY <1>5, <2>1, <3>1, <3>2
    <2> QED
        BY <2>1, <2>2, <2>3
<1> QED
    BY <1>2, <1>4, <1>6

LEMMA FoldTallies ==
    ASSUME IInv, HandInv, SlotInv, FoldInv, StatsInv, Fold
    PROVE  StatsInv'
PROOF
<1> DEFINE n == folded
           e == folded + 1
<1>1. /\ stage = "fold" /\ n \in Nat /\ e \in DOMAIN entries /\ n < Len(entries) /\ entries \in Seq(Entry)
      /\ folded' = e /\ UNCHANGED <<entries, flags, slots>> /\ stats' = Tallied(entries[e], slots[e])
    BY DEF Fold, FoldInv, IInv, PoolInv, workVars
<1>2. PICK entry, result : entry = entries[e] /\ result = slots[e]
    OBVIOUS
<1>3. Settles(entry, result)
    BY <1>1, <1>2 DEF IInv, PoolInv, SlotInv
<1>4. PICK class \in Kinds : class = result.class /\ (class = "directory" <=> entry.dir)
                             /\ (class = "not_path" => select(flags.filter, entry.path) = "not_path")
    BY <1>3 DEF Settles
<1>5. PICK bytes : bytes = IF class = "directory" THEN 0 ELSE entry.size
    OBVIOUS
<1>6. /\ stats'.tally = [stats.tally EXCEPT ![class] = Plus(@, bytes)]
      /\ stats'.globs = IF class = "not_path"
                        THEN [stats.globs EXCEPT ![SkippingGlob(flags.filter, entry.path)] = @ + 1]
                        ELSE stats.globs
      /\ stats'.bytes_total = stats.bytes_total + bytes
      /\ stats'.files_skipped = stats.files_skipped + One(class \in Skips)
    BY <1>1, <1>2, <1>4, <1>5 DEF Tallied
<1>7. entry \in Entry /\ entry.size \in Nat /\ bytes \in Nat
    <2>1. entry \in Entry
        BY <1>1, <1>2
    <2> QED
        BY <2>1, <1>5 DEF Entry
<1>8. IsFiniteSet(BytesOf(1 .. n))
    BY DEF StatsInv
<1> HIDE DEF e
<1>e. e = n + 1
    BY DEF e
<1> HIDE DEF n
<1>9. ASSUME NEW k \in Kinds
      PROVE  /\ stats'.tally[k].count = Cardinality(ClassedTo({k}, e))
             /\ stats'.tally[k].bytes = IF k = "directory" THEN 0 ELSE Cardinality(BytesOf(ClassedTo({k}, e)))
    <2> DEFINE some == ClassedTo({k}, n)
               more == ClassedTo({k}, e)
    <2>1. some \in SUBSET (1 .. n) /\ more \in SUBSET (1 .. n + 1) /\ more \ {n + 1} = some
          /\ (n + 1 \in more <=> class = k)
        BY <1>1, <1>2, <1>4, <1>e DEF ClassedTo
    <2>2. /\ stats.tally[k].count = Cardinality(some)
          /\ stats.tally[k].bytes = IF k = "directory" THEN 0 ELSE Cardinality(BytesOf(some))
          /\ stats.tally \in [Kinds -> [count : Nat, bytes : Nat]]
        BY DEF StatsInv, n
    <2> HIDE DEF some, more
    <2>3. Cardinality(more) = IF class = k THEN Cardinality(some) + 1 ELSE Cardinality(some)
        BY <1>1, <2>1, CountNext
    <2>4. Cardinality(BytesOf(more)) = IF class = k THEN Cardinality(BytesOf(some)) + entry.size
                                       ELSE Cardinality(BytesOf(some))
        <3>1. /\ n + 1 \in DOMAIN entries /\ entries[n + 1] = entry
              /\ n + 1 \in more <=> class = k
            BY <1>1, <1>2, <1>e, <2>1
        <3>2. Cardinality(BytesOf(more)) = IF n + 1 \in more THEN Cardinality(BytesOf(some)) + entries[n + 1].size
                                           ELSE Cardinality(BytesOf(some))
            BY <1>1, <1>8, <2>1, <3>1, BytesNext, SMTT(40)
        <3> QED
            BY <3>1, <3>2
    <2>5. stats'.tally[k] = IF class = k THEN Plus(stats.tally[k], bytes) ELSE stats.tally[k]
        BY <1>6, <2>2
    <2>6. stats.tally[k] = [count |-> stats.tally[k].count, bytes |-> stats.tally[k].bytes]
        BY <2>2
    <2>7. CASE class = k
        BY <1>5, <1>7, <2>2, <2>3, <2>4, <2>5, <2>7 DEF Plus, some, more
    <2>8. CASE class # k
        BY <2>2, <2>3, <2>4, <2>5, <2>6, <2>8 DEF some, more
    <2> QED
        BY <2>7, <2>8
<1>10. stats'.tally \in [Kinds -> [count : Nat, bytes : Nat]]
    <2>1. Plus(stats.tally[class], bytes) \in [count : Nat, bytes : Nat]
        BY <1>7 DEF Plus, StatsInv
    <2> QED
        BY <1>6, <2>1 DEF StatsInv
<1>11. stats'.bytes_total = Cardinality(BytesOf(FilesTo(e)))
    <2>1. FilesTo(n) \in SUBSET (1 .. n) /\ FilesTo(e) \in SUBSET (1 .. n + 1) /\ FilesTo(e) \ {n + 1} = FilesTo(n)
          /\ (n + 1 \in FilesTo(e) <=> ~entry.dir)
        BY <1>1, <1>2, <1>e DEF FilesTo
    <2>2. Cardinality(BytesOf(FilesTo(e))) = (IF n + 1 \in FilesTo(e) THEN Cardinality(BytesOf(FilesTo(n))) + entry.size
                                              ELSE Cardinality(BytesOf(FilesTo(n))))
          /\ Cardinality(BytesOf(FilesTo(n))) \in Nat
        BY <1>1, <1>2, <1>8, <1>e, <2>1, BytesNext, ZenonT(60)
    <2>3. stats.bytes_total = Cardinality(BytesOf(FilesTo(n)))
        BY DEF StatsInv, n
    <2> QED
        BY <1>4, <1>5, <1>6, <2>1, <2>2, <2>3
<1>12. stats'.files_skipped = Cardinality(ClassedTo(Skips, e))
    <2>1. ClassedTo(Skips, n) \in SUBSET (1 .. n) /\ ClassedTo(Skips, e) \in SUBSET (1 .. n + 1)
          /\ ClassedTo(Skips, e) \ {n + 1} = ClassedTo(Skips, n) /\ (n + 1 \in ClassedTo(Skips, e) <=> class \in Skips)
        BY <1>1, <1>2, <1>4, <1>e DEF ClassedTo
    <2>2. Cardinality(ClassedTo(Skips, e)) = (IF n + 1 \in ClassedTo(Skips, e) THEN Cardinality(ClassedTo(Skips, n)) + 1
                                             ELSE Cardinality(ClassedTo(Skips, n)))
          /\ Cardinality(ClassedTo(Skips, n)) \in 0 .. n
        BY <1>1, <2>1, CountNext
    <2>3. stats.files_skipped = Cardinality(ClassedTo(Skips, n))
        BY DEF StatsInv, n
    <2> QED
        BY <1>1, <1>6, <2>1, <2>2, <2>3 DEF One
<1>13. flags.filter \in Filter
    BY DEF HandInv, Setting
<1>14. ASSUME NEW g \in DOMAIN flags.filter.exclude
       PROVE  stats'.globs[g] = Cardinality(ChargedTo(g, e))
    <2> DEFINE first == /\ entry.path \in flags.filter.exclude[g]
                        /\ \A h \in 1 .. g - 1 : entry.path \notin flags.filter.exclude[h]
    <2>1. ChargedTo(g, n) \in SUBSET (1 .. n) /\ ChargedTo(g, e) \in SUBSET (1 .. n + 1)
          /\ ChargedTo(g, e) \ {n + 1} = ChargedTo(g, n) /\ (n + 1 \in ChargedTo(g, e) <=> class = "not_path" /\ first)
        BY <1>1, <1>2, <1>4, <1>e DEF ChargedTo, ClassedTo
    <2>2. Cardinality(ChargedTo(g, e)) = (IF n + 1 \in ChargedTo(g, e) THEN Cardinality(ChargedTo(g, n)) + 1
                                         ELSE Cardinality(ChargedTo(g, n)))
        BY <1>1, <2>1, CountNext
    <2>3. stats.globs[g] = Cardinality(ChargedTo(g, n)) /\ stats.globs \in [DOMAIN flags.filter.exclude -> Nat]
        BY DEF StatsInv, n
    <2>4. class = "not_path" => (g = SkippingGlob(flags.filter, entry.path) <=> first)
        BY <1>4, <1>13, GlobIsFound
    <2> HIDE DEF first
    <2>5. CASE class = "not_path"
        <3>1. stats'.globs[g] = IF g = SkippingGlob(flags.filter, entry.path) THEN stats.globs[g] + 1 ELSE stats.globs[g]
            BY <1>6, <2>3, <2>5
        <3> QED
            BY <2>1, <2>2, <2>3, <2>4, <2>5, <3>1
    <2>6. CASE class # "not_path"
        BY <1>6, <2>1, <2>2, <2>3, <2>6
    <2> QED
        BY <2>5, <2>6
<1>15. stats'.globs \in [DOMAIN flags.filter.exclude -> Nat]
    <2>1. stats.globs \in [DOMAIN flags.filter.exclude -> Nat]
        BY DEF StatsInv
    <2>2. CASE class = "not_path"
        <3>1. SkippingGlob(flags.filter, entry.path) \in DOMAIN flags.filter.exclude
            BY <1>4, <1>13, <2>2, GlobIsFound
        <3> QED
            BY <1>6, <2>1, <2>2, <3>1
    <2>3. CASE class # "not_path"
        BY <1>6, <2>1, <2>3
    <2> QED
        BY <2>2, <2>3
<1>16. IsFiniteSet(BytesOf(1 .. e))
    <2>1. 1 .. n \in SUBSET (1 .. n) /\ 1 .. n + 1 \in SUBSET (1 .. n + 1) /\ (1 .. n + 1) \ {n + 1} = 1 .. n
        BY <1>1
    <2> QED
        BY <1>1, <1>8, <1>e, <2>1, BytesNext
<1>17. /\ \A m : FilesTo(m)' = FilesTo(m)
       /\ \A kinds, m : ClassedTo(kinds, m)' = ClassedTo(kinds, m)
       /\ \A some : BytesOf(some)' = BytesOf(some)
       /\ \A g, m : ChargedTo(g, m)' = ChargedTo(g, m)
    BY <1>1, PrefixStutter
<1>18. folded' = e
    BY <1>1, <1>e DEF n
<1>19. /\ \A k : ClassedTo({k}, folded)' = ClassedTo({k}, e)
       /\ ClassedTo(Skips, folded)' = ClassedTo(Skips, e)
       /\ FilesTo(folded)' = FilesTo(e)
       /\ \A g : ChargedTo(g, folded)' = ChargedTo(g, e)
       /\ (1 .. folded)' = 1 .. e
    BY <1>17, <1>18 DEF Skips
<1>20. \A k \in Kinds : /\ stats'.tally[k].count = Cardinality(ClassedTo({k}, folded)')
                        /\ stats'.tally[k].bytes = IF k = "directory" THEN 0
                                                   ELSE Cardinality(BytesOf(ClassedTo({k}, folded))')
    <2> TAKE k \in Kinds
    <2>1. BytesOf(ClassedTo({k}, folded))' = BytesOf(ClassedTo({k}, e))
        BY <1>17, <1>19
    <2> QED
        BY <1>9, <1>19, <2>1
<1>21. stats'.bytes_total = Cardinality(BytesOf(FilesTo(folded))')
    BY <1>11, <1>17, <1>19
<1>22. IsFiniteSet(BytesOf(1 .. folded)')
    BY <1>16, <1>17, <1>19
<1>23. \A g \in DOMAIN flags'.filter.exclude : stats'.globs[g] = Cardinality(ChargedTo(g, folded)')
    BY <1>1, <1>14, <1>19
<1> QED
    BY <1>1, <1>10, <1>12, <1>15, <1>19, <1>20, <1>21, <1>22, <1>23 DEF StatsInv, Kinds

FindingsInv == HandInv /\ SlotInv /\ FoldInv /\ AuditInv /\ StatsInv

LEMMA FindingsStep == IInv /\ FindingsInv /\ [Next]_vars => FindingsInv'
PROOF
<1> SUFFICES ASSUME IInv, FindingsInv, [Next]_vars PROVE FindingsInv'
    OBVIOUS
<1> USE DEF FindingsInv
<1>1. HandInv' /\ SlotInv'
    BY SettledStep
<1>2. FoldInv' /\ AuditInv' /\ StatsInv'
    <2>1. CASE \E w \in Workers : Work(w)
        BY <2>1, FoldWaits
    <2>2. CASE Fold
        <3>1. folded < Len(entries) /\ folded' = folded + 1 /\ stage = "fold" /\ UNCHANGED <<entries, stage>>
            BY <2>2 DEF Fold
        <3>2. entries \in Seq(Entry)
            BY DEF IInv, PoolInv
        <3>3. FoldInv'
            BY <3>1, <3>2 DEF FoldInv
        <3> QED
            BY <2>2, <3>3, FoldAudits, FoldTallies
    <2>3. CASE SetTotal \/ Collect \/ Folded \/ StopReporter \/ Join \/ Reporter \/ UNCHANGED vars
        <3>1. UNCHANGED <<entries, flags, slots, folded, audit, stats>>
            BY <2>3 DEF Reporter, SetTotal, Collect, Folded, StopReporter, Join, LoadTotal, Redraw,
                        SleepOn, SeeStop, NotReporter, vars, workVars, findingVars
        <3>2. FoldInv'
            BY <2>3, <3>1 DEF FoldInv, Reporter, SetTotal, Collect, Folded, StopReporter, Join, LoadTotal, Redraw,
                        SleepOn, SeeStop, NotReporter, vars
        <3> QED
            BY <3>1, <3>2, FoldStutter
    <2> QED
        BY <2>1, <2>2, <2>3 DEF Next, MainThread
<1> QED
    BY <1>1, <1>2

LEMMA FindingsInvariant == Spec => [](IInv /\ FindingsInv)
PROOF
<1>1. Spec => []IInv
    BY InitHolds, StepHolds, PTL DEF Spec
<1>2. Init => FindingsInv
    BY SettledInit, FoldInit DEF FindingsInv
<1> QED
    BY <1>1, <1>2, FindingsStep, PTL DEF Spec

LEMMA Covered == IInv /\ FindingsInv => CoverageExact
PROOF
<1> SUFFICES ASSUME IInv, FindingsInv, stage = "over" PROVE CoverageExact
    BY DEF CoverageExact
<1>1. folded = Len(entries) /\ DOMAIN entries = 1 .. Len(entries)
    BY DEF FindingsInv, FoldInv, IInv, PoolInv
<1>2. \A e \in DOMAIN entries : Settles(entries[e], slots[e])
    BY DEF FindingsInv, SlotInv, IInv, PoolInv
<1>3. \A k : Classed(k) = ClassedTo({k}, folded)
    BY <1>1 DEF Classed, ClassedTo
<1>4. UNION {Classed(k) : k \in Skips} = ClassedTo(Skips, folded)
    BY <1>1 DEF Classed, ClassedTo
<1>5. {e \in DOMAIN entries : ~entries[e].dir} = FilesTo(folded)
    BY <1>1 DEF FilesTo
<1>6. ASSUME NEW g \in DOMAIN flags.filter.exclude
      PROVE  ChargedTo(g, folded) = {e \in Classed("not_path") :
                                               /\ entries[e].path \in flags.filter.exclude[g]
                                               /\ \A h \in 1 .. g - 1 : entries[e].path \notin flags.filter.exclude[h]}
    BY <1>3 DEF ChargedTo
<1>7. \A e \in DOMAIN entries :
          slots[e].class \in Kinds /\ (slots[e].class = "directory" <=> entries[e].dir)
    BY <1>2 DEF Settles
<1>8. StatsInv
    BY DEF FindingsInv
<1> QED
    BY <1>3, <1>4, <1>5, <1>6, <1>7, <1>8 DEF StatsInv, CoverageExact

(* For every source, every flags and any number of threads: each entry gets one
   class, and the statistics are the classes' cardinalities and bytes, and each
   glob's skips are those it is the first to match (classify_entry() with
   the tallies of ScanStats). *)
THEOREM CoverageIsExact == Spec => []CoverageExact
BY FindingsInvariant, Covered, PTL

(* For every source, every flags and any number of threads: the audit trail is
   the entries a profile matched, in their order, each with what became of it,
   whatever the type filter did with them afterwards. *)
THEOREM AuditIsComplete == Spec => []AuditComplete
PROOF
<1>1. ASSUME IInv, FindingsInv, stage = "over" PROVE folded = Len(entries) /\ AuditInv
    BY <1>1 DEF FindingsInv, FoldInv
<1>2. IInv /\ FindingsInv => AuditComplete
    BY <1>1 DEF AuditInv, AuditComplete, Line
<1> QED
    BY <1>2, FindingsInvariant, PTL

-----------------------------------------------------------------------------
(* What a search shows of an entry *)

Min(m, n) == IF m < n THEN m ELSE n

LEMMA FirstHitsOk ==
    ASSUME NEW offsets \in Seq(Nat)
    PROVE  /\ Min(Len(offsets), MaxHits) \in Nat
           /\ FirstHits(offsets) \in Seq(Nat) /\ Len(FirstHits(offsets)) = Min(Len(offsets), MaxHits)
           /\ DOMAIN FirstHits(offsets) = 1 .. Min(Len(offsets), MaxHits)
           /\ \A k \in 1 .. Min(Len(offsets), MaxHits) :
                  k \in DOMAIN offsets /\ FirstHits(offsets)[k] = offsets[k] /\ offsets[k] \in Nat
PROOF
<1>1. MaxHits \in Nat \ {0} /\ Len(offsets) \in Nat /\ DOMAIN offsets = 1 .. Len(offsets)
    BY SearchAssumption
<1> PICK l, h : l = Len(offsets) /\ h = MaxHits
    OBVIOUS
<1>2. PICK m \in Nat : m = Min(l, h)
    BY <1>1 DEF Min
<1>6. l \in Nat /\ h \in Nat /\ m <= l
    BY <1>1, <1>2 DEF Min
<1>3. m <= Len(offsets) /\ \A k \in 1 .. m : k \in 1 .. Len(offsets)
    BY <1>6
<1>4. FirstHits(offsets) = SubSeq(offsets, 1, m)
    BY <1>1, <1>2 DEF FirstHits, Min
<1>5. /\ SubSeq(offsets, 1, m) \in Seq(Nat) /\ Len(SubSeq(offsets, 1, m)) = m
      /\ \A k \in 1 .. m : SubSeq(offsets, 1, m)[k] = offsets[k]
    BY <1>1, <1>3
<1> QED
    BY <1>1, <1>2, <1>3, <1>4, <1>5

(* How the places where the patterns are lie in the list of hits. *)
Spread(bytes, m, n) ==
    /\ m \in Nat /\ n \in Nat
    /\ DOMAIN FirstHits(bytes.plain) = 1 .. m
    /\ {k \in DOMAIN FirstHits(bytes.base64) : flags.base64} = 1 .. n
    /\ DOMAIN Found(bytes) = 1 .. (m + n)
    /\ \A k \in 1 .. m : bytes.plain[k] \in Nat /\ Found(bytes)[k] = [offset |-> bytes.plain[k], encoding |-> "plain"]
    /\ \A k \in 1 .. n :
           bytes.base64[k] \in Nat /\ Found(bytes)[m + k] = [offset |-> bytes.base64[k], encoding |-> "base64"]
    /\ \A j, k \in 1 .. m : j < k => bytes.plain[j] < bytes.plain[k]
    /\ \A j, k \in 1 .. n : j < k => bytes.base64[j] < bytes.base64[k]

LEMMA FoundOk ==
    ASSUME NEW bytes \in Contents, flags \in Setting
    PROVE  \E m, n : Spread(bytes, m, n)
PROOF
<1>1. /\ bytes.plain \in Seq(Nat) /\ bytes.base64 \in Seq(Nat)
      /\ LeftToRight(bytes.plain) /\ LeftToRight(bytes.base64) /\ flags.base64 \in BOOLEAN
    BY SearchAssumption DEF Setting
<1>2. PICK m \in Nat : /\ DOMAIN FirstHits(bytes.plain) = 1 .. m
                       /\ FirstHits(bytes.plain) \in Seq(Nat) /\ Len(FirstHits(bytes.plain)) = m
                       /\ \A k \in 1 .. m : /\ k \in DOMAIN bytes.plain /\ FirstHits(bytes.plain)[k] = bytes.plain[k]
                                            /\ bytes.plain[k] \in Nat
    BY <1>1, FirstHitsOk
<1>3. PICK b \in Nat : /\ DOMAIN FirstHits(bytes.base64) = 1 .. b
                       /\ FirstHits(bytes.base64) \in Seq(Nat) /\ Len(FirstHits(bytes.base64)) = b
                       /\ \A k \in 1 .. b : /\ k \in DOMAIN bytes.base64 /\ FirstHits(bytes.base64)[k] = bytes.base64[k]
                                            /\ bytes.base64[k] \in Nat
    BY <1>1, FirstHitsOk
<1> PICK n : n = IF flags.base64 THEN b ELSE 0
    OBVIOUS
<1>4. n \in Nat /\ {k \in DOMAIN FirstHits(bytes.base64) : flags.base64} = 1 .. n
    BY <1>1, <1>3
<1> DEFINE Hit == [offset : Nat, encoding : {"plain", "base64"}]
           plain == Tagged(FirstHits(bytes.plain), "plain")
           coded == IF flags.base64 THEN Tagged(FirstHits(bytes.base64), "base64") ELSE <<>>
<1>5. /\ plain \in Seq(Hit) /\ Len(plain) = m
      /\ \A k \in 1 .. m : plain[k] = [offset |-> bytes.plain[k], encoding |-> "plain"]
    BY <1>2 DEF Tagged
<1>6. /\ coded \in Seq(Hit) /\ Len(coded) = n
      /\ \A k \in 1 .. n : coded[k] = [offset |-> bytes.base64[k], encoding |-> "base64"]
    <2>1. CASE flags.base64
        <3>1. n = b /\ coded = Tagged(FirstHits(bytes.base64), "base64")
            BY <2>1
        <3> HIDE DEF coded
        <3> QED
            BY <1>3, <3>1 DEF Tagged
    <2>2. CASE ~flags.base64
        <3>1. n = 0 /\ coded = <<>>
            BY <2>2
        <3> HIDE DEF coded
        <3> QED
            BY <3>1
    <2> QED
        BY <2>1, <2>2
<1>7. Found(bytes) = plain \o coded
    BY DEF Found
<1> HIDE DEF plain, coded, Hit
<1>8. /\ DOMAIN (plain \o coded) = 1 .. (m + n)
      /\ \A k \in 1 .. m : (plain \o coded)[k] = plain[k]
      /\ \A k \in 1 .. n : (plain \o coded)[m + k] = coded[k]
    <2> PICK S : plain \in Seq(S) /\ coded \in Seq(S)
        BY <1>5, <1>6
    <2>1. /\ plain \o coded \in Seq(S) /\ Len(plain \o coded) = m + n
          /\ \A k \in 1 .. m + n : (plain \o coded)[k] = IF k <= m THEN plain[k] ELSE coded[k - m]
        <3>1. plain \o coded \in Seq(S) /\ Len(plain \o coded) = Len(plain) + Len(coded)
            BY ConcatProperties
        <3>2. \A k \in 1 .. Len(plain) + Len(coded) :
                  (plain \o coded)[k] = IF k <= Len(plain) THEN plain[k] ELSE coded[k - Len(plain)]
            BY ConcatProperties
        <3> QED
            BY <1>5, <1>6, <3>1, <3>2
    <2>2. PICK both : both = plain \o coded
        OBVIOUS
    <2>3. DOMAIN both = 1 .. (m + n)
        BY <2>1, <2>2
    <2>4. /\ \A k \in 1 .. m : both[k] = plain[k]
          /\ \A k \in 1 .. n : both[m + k] = coded[k]
        BY <1>4, <2>1, <2>2
    <2> QED
        BY <2>2, <2>3, <2>4
<1>9. /\ \A j, k \in 1 .. m : j < k => bytes.plain[j] < bytes.plain[k]
      /\ \A j, k \in 1 .. n : j < k => bytes.base64[j] < bytes.base64[k]
    <2>1. \A k \in 1 .. n : k \in DOMAIN bytes.base64
        BY <1>1, <1>3
    <2> QED
        BY <1>1, <1>2, <2>1 DEF LeftToRight
<1>10. \A k \in 1 .. n : bytes.base64[k] \in Nat
    BY <1>1, <1>3
<1>11. /\ DOMAIN Found(bytes) = 1 .. (m + n)
       /\ \A k \in 1 .. m : Found(bytes)[k] = [offset |-> bytes.plain[k], encoding |-> "plain"]
       /\ \A k \in 1 .. n : Found(bytes)[m + k] = [offset |-> bytes.base64[k], encoding |-> "base64"]
    BY <1>5, <1>6, <1>7, <1>8
<1>12. Spread(bytes, m, n)
    BY <1>2, <1>4, <1>9, <1>10, <1>11 DEF Spread
<1> QED
    BY <1>12

PlaceOf(entry, hit) == [path |-> entry.path, offset |-> hit.offset, encoding |-> hit.encoding]
ListedPlaces(entry, bytes) ==
    InOrder(PlacesIn(entry, bytes),
            {p \in PlacesIn(entry, bytes) \X PlacesIn(entry, bytes) : Before(p[1], p[2])})

(* Each hit is one of the places, and they are ordered alike. *)
LEMMA PlacesMatch ==
    ASSUME NEW bytes, NEW entry, NEW m, NEW n, Spread(bytes, m, n)
    PROVE  /\ \A i \in 1 .. (m + n) : Found(bytes)[i].offset \in Nat
           /\ \A i \in 1 .. (m + n) : PlaceOf(entry, Found(bytes)[i]) \in PlacesIn(entry, bytes)
           /\ \A i, j \in 1 .. (m + n) :
                  PlaceOf(entry, Found(bytes)[i]) = PlaceOf(entry, Found(bytes)[j]) => i = j
           /\ \A p \in PlacesIn(entry, bytes) : \E i \in 1 .. (m + n) : PlaceOf(entry, Found(bytes)[i]) = p
           /\ \A i, j \in 1 .. (m + n) :
                  Stands(Found(bytes), i, j) <=>
                      Before(PlaceOf(entry, Found(bytes)[i]), PlaceOf(entry, Found(bytes)[j]))
PROOF
<1> PICK found : found = Found(bytes)
    OBVIOUS
<1> DEFINE Plain(k) == [path |-> entry.path, offset |-> bytes.plain[k], encoding |-> "plain"]
           Coded(k) == [path |-> entry.path, offset |-> bytes.base64[k], encoding |-> "base64"]
<1>1. /\ m \in Nat /\ n \in Nat
      /\ \A i \in 1 .. (m + n) : i \in 1 .. m \/ \E k \in 1 .. n : i = m + k
      /\ \A i \in 1 .. m : i \in 1 .. (m + n)
      /\ \A k \in 1 .. n : m + k \in 1 .. (m + n)
    <2>1. m \in Nat /\ n \in Nat
        BY DEF Spread
    <2>2. ASSUME NEW i \in 1 .. (m + n), i \notin 1 .. m PROVE \E k \in 1 .. n : i = m + k
        <3>1. i - m \in 1 .. n /\ i = m + (i - m)
            BY <2>1, <2>2
        <3> QED
            BY <3>1
    <2> QED
        BY <2>1, <2>2
<1>2. \A i \in 1 .. m : PlaceOf(entry, found[i]) = Plain(i) /\ found[i].offset = bytes.plain[i]
                        /\ found[i].encoding = "plain" /\ bytes.plain[i] \in Nat
    <2> SUFFICES ASSUME NEW i \in 1 .. m
                 PROVE  /\ PlaceOf(entry, found[i]) = Plain(i) /\ found[i].offset = bytes.plain[i]
                        /\ found[i].encoding = "plain" /\ bytes.plain[i] \in Nat
        OBVIOUS
    <2>1. bytes.plain[i] \in Nat /\ found[i] = [offset |-> bytes.plain[i], encoding |-> "plain"]
        BY DEF Spread
    <2> QED
        BY <2>1 DEF PlaceOf
<1>3. \A k \in 1 .. n : PlaceOf(entry, found[m + k]) = Coded(k) /\ found[m + k].offset = bytes.base64[k]
                        /\ found[m + k].encoding = "base64" /\ bytes.base64[k] \in Nat
    <2> SUFFICES ASSUME NEW k \in 1 .. n
                 PROVE  /\ PlaceOf(entry, found[m + k]) = Coded(k) /\ found[m + k].offset = bytes.base64[k]
                        /\ found[m + k].encoding = "base64" /\ bytes.base64[k] \in Nat
        OBVIOUS
    <2>1. bytes.base64[k] \in Nat /\ found[m + k] = [offset |-> bytes.base64[k], encoding |-> "base64"]
        BY DEF Spread
    <2> QED
        BY <2>1 DEF PlaceOf
<1>4. PlacesIn(entry, bytes) = {Plain(k) : k \in 1 .. m} \cup {Coded(k) : k \in 1 .. n}
    BY DEF PlacesIn, Spread
<1>5. \A i, j \in 1 .. m : /\ Plain(i) = Plain(j) => i = j
                           /\ bytes.plain[i] < bytes.plain[j] <=> i < j
    <2>1. \A i, j \in 1 .. m : i < j => bytes.plain[i] < bytes.plain[j]
        BY DEF Spread
    <2>2. ASSUME NEW i \in 1 .. m PROVE bytes.plain[i] \in Nat /\ i \in Nat
        <3>1. bytes.plain[i] \in Nat
            BY DEF Spread
        <3> QED
            BY <1>1, <3>1
    <2>3. ASSUME NEW i \in 1 .. m, NEW j \in 1 .. m, Plain(i) = Plain(j) PROVE bytes.plain[i] = bytes.plain[j]
        BY <2>3
    <2> QED
        BY <2>1, <2>2, <2>3
<1>6. \A i, j \in 1 .. n : /\ Coded(i) = Coded(j) => i = j
                           /\ bytes.base64[i] < bytes.base64[j] <=> i < j
    <2>1. \A i, j \in 1 .. n : i < j => bytes.base64[i] < bytes.base64[j]
        BY DEF Spread
    <2>2. ASSUME NEW i \in 1 .. n PROVE bytes.base64[i] \in Nat /\ i \in Nat
        <3>1. bytes.base64[i] \in Nat
            BY DEF Spread
        <3> QED
            BY <1>1, <3>1
    <2>3. ASSUME NEW i \in 1 .. n, NEW j \in 1 .. n, Coded(i) = Coded(j) PROVE bytes.base64[i] = bytes.base64[j]
        BY <2>3
    <2> QED
        BY <2>1, <2>2, <2>3
<1>7. \A i, k : Plain(i) # Coded(k)
    OBVIOUS
<1>8. ASSUME NEW i \in 1 .. (m + n)
      PROVE  found[i].offset \in Nat /\ PlaceOf(entry, found[i]) \in PlacesIn(entry, bytes)
    <2>1. CASE i \in 1 .. m
        <3>1. found[i].offset \in Nat /\ PlaceOf(entry, found[i]) = Plain(i)
            BY <1>2, <2>1
        <3> QED
            BY <1>4, <2>1, <3>1
    <2>2. CASE i \notin 1 .. m
        <3>1. PICK k \in 1 .. n : i = m + k
            BY <1>1, <2>2
        <3>2. found[m + k].offset \in Nat /\ PlaceOf(entry, found[m + k]) = Coded(k)
            BY <1>3
        <3>3. Coded(k) \in PlacesIn(entry, bytes)
            BY <1>4
        <3> QED
            BY <3>1, <3>2, <3>3
    <2> QED
        BY <2>1, <2>2
<1>10. \A p \in PlacesIn(entry, bytes) : \E i \in 1 .. (m + n) : PlaceOf(entry, found[i]) = p
    BY <1>1, <1>2, <1>3, <1>4
<1>11. ASSUME NEW i \in 1 .. (m + n), NEW j \in 1 .. (m + n)
       PROVE  /\ PlaceOf(entry, found[i]) = PlaceOf(entry, found[j]) => i = j
              /\ Stands(found, i, j) <=> Before(PlaceOf(entry, found[i]), PlaceOf(entry, found[j]))
    <2> PICK a, b : a = PlaceOf(entry, found[i]) /\ b = PlaceOf(entry, found[j])
        OBVIOUS
    <2>0. /\ a.offset = found[i].offset /\ a.encoding = found[i].encoding
          /\ b.offset = found[j].offset /\ b.encoding = found[j].encoding
          /\ a.offset \in Nat /\ b.offset \in Nat
        BY <1>8 DEF PlaceOf
    <2>1. CASE i \in 1 .. m /\ j \in 1 .. m
        <3>1. a = Plain(i) /\ b = Plain(j) /\ a.encoding = "plain" /\ b.encoding = "plain"
              /\ (a.offset < b.offset <=> i < j) /\ (a = b => i = j)
            BY <1>2, <1>5, <2>1
        <3> QED
            BY <1>2, <1>5, <2>0, <2>1, <3>1 DEF Stands, Before
    <2>2. CASE i \in 1 .. m /\ j \notin 1 .. m
        <3>1. PICK k \in 1 .. n : j = m + k
            BY <1>1, <2>2
        <3>2. a = Plain(i) /\ b = Coded(k) /\ a.encoding = "plain" /\ b.encoding = "base64" /\ i < j
            BY <1>1, <1>2, <1>3, <2>2, <3>1
        <3>3. a # b
            BY <1>7, <3>2
        <3> QED
            BY <2>0, <3>2, <3>3 DEF Stands, Before
    <2>3. CASE i \notin 1 .. m /\ j \in 1 .. m
        <3>1. PICK k \in 1 .. n : i = m + k
            BY <1>1, <2>3
        <3>2. a = Coded(k) /\ b = Plain(j) /\ a.encoding = "base64" /\ b.encoding = "plain" /\ ~(i < j)
            BY <1>1, <1>2, <1>3, <2>3, <3>1
        <3>3. a # b
            BY <1>7, <3>2
        <3> QED
            BY <2>0, <3>2, <3>3 DEF Stands, Before
    <2>4. CASE i \notin 1 .. m /\ j \notin 1 .. m
        <3>1. PICK k \in 1 .. n, l \in 1 .. n : i = m + k /\ j = m + l
            BY <1>1, <2>4
        <3>2. a = Coded(k) /\ b = Coded(l) /\ a.encoding = "base64" /\ b.encoding = "base64"
              /\ (a.offset < b.offset <=> k < l) /\ (a = b => k = l)
            BY <1>3, <1>6, <3>1
        <3>3. (i < j <=> k < l) /\ (i = j <=> k = l)
            BY <1>1, <3>1
        <3>4. a.offset = b.offset => k = l
            BY <1>3, <1>6, <3>1, <3>2
        <3> QED
            BY <2>0, <3>2, <3>3, <3>4 DEF Stands, Before
    <2> QED
        BY <2>1, <2>2, <2>3, <2>4
<1> QED
    BY <1>8, <1>10, <1>11

(* The hits, in order, are the places in order. *)
LEMMA HitsListed ==
    ASSUME NEW bytes \in Contents, flags \in Setting, NEW entry
    PROVE  /\ \E n \in Nat : DOMAIN Hits(bytes) = 1 .. n
           /\ ListedPlaces(entry, bytes) = [k \in DOMAIN Hits(bytes) |-> PlaceOf(entry, Hits(bytes)[k])]
PROOF
<1>1. PICK m, n : Spread(bytes, m, n)
    BY FoundOk
<1> PICK found : found = Found(bytes)
    OBVIOUS
<1> PICK size \in Nat : size = m + n /\ DOMAIN found = 1 .. size
    BY <1>1 DEF Spread
<1> DEFINE S == 1 .. size
           T == PlacesIn(entry, bytes)
           first == {p \in S \X S : Stands(found, p[1], p[2])}
           second == {p \in T \X T : Before(p[1], p[2])}
           f == [i \in S |-> PlaceOf(entry, found[i])]
<1>2. /\ \A i \in S : found[i].offset \in Nat
      /\ \A i \in S : f[i] \in T
      /\ \A i, j \in S : f[i] = f[j] => i = j
      /\ \A p \in T : \E i \in S : f[i] = p
      /\ \A i, j \in S : Stands(found, i, j) <=> Before(f[i], f[j])
    <2> HIDE DEF first, second, S, T, f
    <2>1. /\ \A i \in 1 .. (m + n) : found[i].offset \in Nat
          /\ \A i \in 1 .. (m + n) : PlaceOf(entry, found[i]) \in PlacesIn(entry, bytes)
          /\ \A i, j \in 1 .. (m + n) :
                 PlaceOf(entry, found[i]) = PlaceOf(entry, found[j]) => i = j
          /\ \A p \in PlacesIn(entry, bytes) : \E i \in 1 .. (m + n) : PlaceOf(entry, found[i]) = p
          /\ \A i, j \in 1 .. (m + n) :
                 Stands(found, i, j) <=> Before(PlaceOf(entry, found[i]), PlaceOf(entry, found[j]))
        <3>1. /\ \A i \in 1 .. (m + n) : Found(bytes)[i].offset \in Nat
              /\ \A i \in 1 .. (m + n) : PlaceOf(entry, Found(bytes)[i]) \in PlacesIn(entry, bytes)
              /\ \A i, j \in 1 .. (m + n) :
                     PlaceOf(entry, Found(bytes)[i]) = PlaceOf(entry, Found(bytes)[j]) => i = j
              /\ \A p \in PlacesIn(entry, bytes) : \E i \in 1 .. (m + n) : PlaceOf(entry, Found(bytes)[i]) = p
              /\ \A i, j \in 1 .. (m + n) :
                     Stands(Found(bytes), i, j) <=>
                         Before(PlaceOf(entry, Found(bytes)[i]), PlaceOf(entry, Found(bytes)[j]))
            BY <1>1, PlacesMatch
        <3> QED
            BY <3>1
    <2>2. S = 1 .. (m + n) /\ T = PlacesIn(entry, bytes)
        BY DEF S, T
    <2>3. \A i \in S : f[i] = PlaceOf(entry, found[i])
        BY DEF f
    <2>4. \A i \in S : found[i].offset \in Nat
        BY <2>1, <2>2
    <2>5. \A i \in S : f[i] \in T
        BY <2>1, <2>2, <2>3
    <2>6. \A i, j \in S : f[i] = f[j] => i = j
        BY <2>1, <2>2, <2>3
    <2>7. \A p \in T : \E i \in S : f[i] = p
        BY <2>1, <2>2, <2>3
    <2>8. \A i, j \in S : Stands(found, i, j) <=> Before(f[i], f[j])
        BY <2>1, <2>2, <2>3
    <2> QED
        BY <2>4, <2>5, <2>6, <2>7, <2>8
<1>3. /\ \A x \in S : ~Stands(found, x, x)
      /\ \A x, y, z \in S : Stands(found, x, y) /\ Stands(found, y, z) => Stands(found, x, z)
      /\ \A x, y \in S : x # y => Stands(found, x, y) \/ Stands(found, y, x)
    <2>1. \A x \in S : x \in Nat /\ found[x].offset \in Nat
        BY <1>2
    <2> HIDE DEF S
    <2>2. ASSUME NEW x \in S, NEW y \in S, NEW z \in S, Stands(found, x, y), Stands(found, y, z)
          PROVE  Stands(found, x, z)
        BY <2>1, <2>2 DEF Stands
    <2>3. \A x \in S : ~Stands(found, x, x)
        BY <2>1 DEF Stands
    <2>4. \A x, y \in S : x # y => Stands(found, x, y) \/ Stands(found, y, x)
        BY <2>1 DEF Stands
    <2> QED
        BY <2>2, <2>3, <2>4
<1>4. \A x, y \in S : <<x, y>> \in first <=> Stands(found, x, y)
    OBVIOUS
<1>5. \A x, y \in T : <<x, y>> \in second <=> Before(x, y)
    OBVIOUS
<1>6. IsFiniteSet(S) /\ Cardinality(S) = size
    BY FS_Interval
<1>7. \A i \in S : f[i] = PlaceOf(entry, found[i])
    OBVIOUS
<1>8. Hits(bytes) = [k \in S |-> found[InOrder(S, first)[k]]]
    BY DEF Hits
<1>9. ListedPlaces(entry, bytes) = InOrder(T, second)
    BY DEF ListedPlaces
<1> HIDE DEF S, T, first, second, f
<1>11. /\ \A x, y \in S : <<x, y>> \in first <=> <<f[x], f[y]>> \in second
       /\ \A x \in S : <<x, x>> \notin first
       /\ \A x, y, z \in S : <<x, y>> \in first /\ <<y, z>> \in first => <<x, z>> \in first
       /\ \A x, y \in S : x # y => <<x, y>> \in first \/ <<y, x>> \in first
    BY <1>2, <1>3, <1>4, <1>5
<1>10. InOrder(T, second) = [k \in DOMAIN InOrder(T, second) |-> InOrder(T, second)[k]]
    BY IsListing
<1>16. OrderedAlike(S, first, T, second, f)
    BY <1>2, <1>11 DEF OrderedAlike
<1>12. /\ Cardinality(S) \in Nat
       /\ DOMAIN InOrder(S, first) = 1 .. Cardinality(S)
       /\ DOMAIN InOrder(T, second) = 1 .. Cardinality(S)
       /\ \A k \in 1 .. Cardinality(S) :
              InOrder(S, first)[k] \in S /\ InOrder(T, second)[k] = f[InOrder(S, first)[k]]
    BY <1>6, <1>16, SameOrder
<1>13. S = 1 .. size /\ DOMAIN Hits(bytes) = S
    BY <1>8 DEF S
<1>14. \A k \in S : InOrder(T, second)[k] = PlaceOf(entry, Hits(bytes)[k])
    BY <1>6, <1>7, <1>8, <1>12, <1>13
<1>15. InOrder(T, second) = [k \in S |-> PlaceOf(entry, Hits(bytes)[k])]
    BY <1>6, <1>10, <1>12, <1>13, <1>14
<1> QED
    BY <1>9, <1>13, <1>15

-----------------------------------------------------------------------------
(* The search implements the sequential one *)

ShownOf(found) == [k \in DOMAIN found |-> [path |-> found[k].path, offset |-> found[k].file_offset,
                                           encoding |-> found[k].encoding]]

IsList(found) == \E n \in Nat : found = [k \in 1 .. n |-> found[k]]

(* What a result adds to the report: everything, or nothing for a reason. *)
Shows(entry, result) ==
    /\ IsList(result.records)
    /\ result.class = "scanned" => ~Filtered(entry) /\ ShownOf(result.records) = Evidence(entry)
    /\ result.class # "scanned" => result.records = <<>>
    /\ result.class \in {"directory"} \cup Skips => Filtered(entry)

(* The content at hand is the entry's, as it lies there or as it was encrypted. *)
ReadInv ==
    /\ DOMAIN content = Workers
    /\ \A w \in Workers : /\ at[w] = "decrypt" => content[w] = E(w).body
                          /\ at[w] = "type" => content[w] = Plaintext(E(w))

ShowsInv == \A e \in DOMAIN entries : slots[e] # Pending => Shows(entries[e], slots[e])

LEMMA ScanShows ==
    ASSUME NEW entry, NEW bytes \in Contents, flags \in Setting, ~flags.match_path, bytes = Plaintext(entry),
           NEW start, NEW decrypted
    PROVE  /\ IsList(ScanResult(entry, bytes, start, decrypted).records)
           /\ ShownOf(ScanResult(entry, bytes, start, decrypted).records) = Evidence(entry)
PROOF
<1> PICK hits : hits = Hits(bytes)
    OBVIOUS
<1> PICK found : found = ScanResult(entry, bytes, start, decrypted).records
    OBVIOUS
<1>1. /\ \E n \in Nat : DOMAIN hits = 1 .. n
      /\ ListedPlaces(entry, bytes) = [k \in DOMAIN hits |-> PlaceOf(entry, hits[k])]
    BY HitsListed
<1>2. found = [k \in DOMAIN hits |-> MatchRecord(entry, hits[k], start, decrypted)]
    BY DEF ScanResult
<1>3. \A k \in DOMAIN hits : found[k].path = entry.path /\ found[k].file_offset = hits[k].offset
                             /\ found[k].encoding = hits[k].encoding
    BY <1>2 DEF MatchRecord
<1>4. DOMAIN found = DOMAIN hits
    BY <1>2
<1>5. ShownOf(found) = [k \in DOMAIN hits |-> PlaceOf(entry, hits[k])]
    BY <1>3, <1>4 DEF ShownOf, PlaceOf
<1>6. Evidence(entry) = ListedPlaces(entry, bytes)
    BY DEF Evidence, ListedPlaces
<1>7. IsList(found)
    <2>1. PICK n \in Nat : DOMAIN hits = 1 .. n
        BY <1>1
    <2>2. found = [k \in 1 .. n |-> found[k]]
        BY <1>2, <2>1
    <2> QED
        BY <2>2 DEF IsList
<1> QED
    BY <1>1, <1>5, <1>6, <1>7

LEMMA NothingListed == IsList(<<>>)
PROOF
<1>1. <<>> = [k \in 1 .. 0 |-> <<>>[k]]
    OBVIOUS
<1> QED
    BY <1>1 DEF IsList

LEMMA PathShows ==
    ASSUME NEW entry, is_selected(entry), flags.match_path
    PROVE  Shows(entry, PathResult(entry))
PROOF
<1>1. ~Filtered(entry)
    BY DEF Filtered
<1>2. CASE entry.path \in PathHits
    <2>1. PathResult(entry).records = <<PathRecord(entry)>> /\ PathResult(entry).class = "scanned"
        BY <1>2 DEF PathResult, Result
    <2>2. /\ PathRecord(entry).path = entry.path /\ PathRecord(entry).file_offset = 0
          /\ PathRecord(entry).encoding = "plain"
        BY DEF PathRecord
    <2>3. ShownOf(<<PathRecord(entry)>>) = <<[path |-> entry.path, offset |-> 0, encoding |-> "plain"]>>
        BY <2>2 DEF ShownOf
    <2>4. Evidence(entry) = <<[path |-> entry.path, offset |-> 0, encoding |-> "plain"]>>
        BY <1>2 DEF Evidence
    <2>5. IsList(<<PathRecord(entry)>>)
        <3>1. <<PathRecord(entry)>> = [k \in 1 .. 1 |-> <<PathRecord(entry)>>[k]]
            OBVIOUS
        <3> QED
            BY <3>1 DEF IsList
    <2> QED
        BY <1>1, <2>1, <2>3, <2>4, <2>5 DEF Shows, Skips
<1>3. CASE entry.path \notin PathHits
    <2>1. PathResult(entry).records = <<>> /\ PathResult(entry).class = "scanned"
        BY <1>3 DEF PathResult, Result
    <2>2. ShownOf(<<>>) = <<>>
        BY DEF ShownOf
    <2>3. Evidence(entry) = <<>>
        BY <1>3 DEF Evidence
    <2> QED
        BY <1>1, <2>1, <2>2, <2>3, NothingListed DEF Shows, Skips
<1> QED
    BY <1>2, <1>3

(* A result without records, of an entry that was left out or could not be read. *)
LEMMA NothingShown ==
    ASSUME NEW entry, NEW class, class # "scanned", class \in {"directory"} \cup Skips => Filtered(entry), NEW outcome
    PROVE  Shows(entry, Result(class, outcome))
PROOF
<1>1. Result(class, outcome).records = <<>> /\ Result(class, outcome).class = class
    BY DEF Result
<1> QED
    BY <1>1, NothingListed DEF Shows

LEMMA EvidenceStutter ==
    ASSUME UNCHANGED flags
    PROVE  /\ \A entry : Filtered(entry)' <=> Filtered(entry)
           /\ \A entry : Evidence(entry)' = Evidence(entry)
PROOF
<1>1. \A entry : Plaintext(entry)' = Plaintext(entry) /\ (is_selected(entry)' <=> is_selected(entry))
    BY DEF Plaintext, Opens, is_selected
<1>2. \A entry, bytes : PlacesIn(entry, bytes)' = PlacesIn(entry, bytes)
    BY DEF PlacesIn
<1>3. \A entry : Filtered(entry)' <=> Filtered(entry)
    BY <1>1 DEF Filtered
<1>4. \A entry : Evidence(entry)' = Evidence(entry)
    BY <1>1, <1>2 DEF Evidence
<1> QED
    BY <1>3, <1>4

LEMMA ShowsStutter ==
    ASSUME UNCHANGED flags
    PROVE  \A entry, result : Shows(entry, result)' <=> Shows(entry, result)
BY EvidenceStutter DEF Shows

LEMMA PlaintextStutter ==
    ASSUME UNCHANGED flags
    PROVE  \A entry : Plaintext(entry)' = Plaintext(entry)
BY DEF Plaintext, Opens

(* A step within classify_entry(), with what it leaves at hand. *)
LEMMA MoveShows ==
    ASSUME IInv, ReadInv, ShowsInv, NEW w \in Workers, at[w] # "idle",
           NEW place, Goto(w, place), UNCHANGED <<entries, flags>>,
           DOMAIN content' = Workers, \A v \in Workers : v # w => content'[v] = content[v],
           place = "decrypt" => content'[w] = E(w).body,
           place = "type" => content'[w] = Plaintext(E(w))
    PROVE  ReadInv' /\ ShowsInv'
PROOF
<1>1. /\ at' = [at EXCEPT ![w] = place] /\ UNCHANGED <<job, slots>>
      /\ at \in [Workers -> {"idle", "path", "prefix", "content", "decrypt", "type"}]
    BY DEF Goto, IInv, PoolInv
<1>2. \A v \in Workers : v # w => at'[v] = at[v]
    BY <1>1
<1>3. at'[w] = place
    BY <1>1
<1>4. \A v \in Workers : E(v)' = E(v) /\ Plaintext(E(v))' = Plaintext(E(v))
    BY <1>1, PlaintextStutter DEF E
<1>5. ReadInv'
    BY <1>2, <1>3, <1>4 DEF ReadInv
<1>6. ShowsInv'
    BY <1>1, ShowsStutter DEF ShowsInv
<1> QED
    BY <1>5, <1>6

(* A return from it. *)
LEMMA ReturnShows ==
    ASSUME IInv, ReadInv, ShowsInv, NEW w \in Workers, at[w] # "idle", NEW result, Shows(E(w), result),
           slots' = [slots EXCEPT ![job[w]] = result], Release(w), UNCHANGED <<entries, flags>>
    PROVE  ReadInv' /\ ShowsInv'
PROOF
<1>1. /\ job[w] \in DOMAIN entries /\ DOMAIN slots = DOMAIN entries
      /\ at \in [Workers -> {"idle", "path", "prefix", "content", "decrypt", "type"}]
      /\ job \in [Workers -> Nat]
    BY Working DEF IInv, PoolInv
<1>2. ReadInv'
    <2>1. \A v \in Workers : v # w => at'[v] = at[v] /\ content'[v] = content[v] /\ job'[v] = job[v]
        BY <1>1 DEF ReadInv, Release
    <2>2. at'[w] = "idle" /\ DOMAIN content' = Workers
        BY <1>1 DEF ReadInv, Release
    <2>3. \A v \in Workers : v # w => E(v)' = E(v) /\ Plaintext(E(v))' = Plaintext(E(v))
        BY <2>1, PlaintextStutter DEF E
    <2> QED
        BY <2>1, <2>2, <2>3 DEF ReadInv
<1>3. ASSUME NEW e \in DOMAIN entries, slots'[e] # Pending
      PROVE  Shows(entries[e], slots'[e])
    BY <1>1, <1>3 DEF ShowsInv, E
<1> QED
    BY <1>2, <1>3, ShowsStutter DEF ShowsInv

LEMMA WorkShows ==
    ASSUME IInv, HandInv, ReadInv, ShowsInv, NEW w \in Workers, Work(w)
    PROVE  ReadInv' /\ ShowsInv'
PROOF
<1> USE DEF Elsewhere
<1>a. at[w] # "idle" => job[w] \in DOMAIN entries
    BY Working DEF IInv
<1>b. at[w] \notin {"idle", "path"} => is_selected(E(w)) /\ ~flags.match_path
    BY DEF IInv, PoolInv, HandInv
<1>c. /\ entries \in Seq(Entry)
      /\ at \in [Workers -> {"idle", "path", "prefix", "content", "decrypt", "type"}]
    BY DEF IInv, PoolInv
<1>d. at[w] # "idle" => E(w).body \in Contents /\ E(w).inner \in Contents
    <2> SUFFICES ASSUME at[w] # "idle" PROVE E(w) \in Entry
        BY DEF Entry
    <2> QED
        BY <1>a, <1>c DEF E
<1>1. CASE Take(w)
    <2>1. at[w] = "idle" /\ UNCHANGED <<entries, flags, slots, content>> /\ at' = [at EXCEPT ![w] = "path"]
        BY <1>1 DEF Take
    <2>2. \A v \in Workers : v # w => job'[v] = job[v] /\ at'[v] = at[v]
        BY <1>1, <1>c DEF Take, IInv, PoolInv
    <2>3. \A v \in Workers : v # w => E(v)' = E(v) /\ Plaintext(E(v))' = Plaintext(E(v))
        BY <2>1, <2>2, PlaintextStutter DEF E
    <2>4. at'[w] = "path"
        BY <1>c, <2>1
    <2>5. ReadInv'
        BY <2>1, <2>2, <2>3, <2>4 DEF ReadInv
    <2>6. ShowsInv'
        BY <2>1, ShowsStutter DEF ShowsInv
    <2> QED
        BY <2>5, <2>6
<1>2. CASE SkipByPath(w)
    <2> DEFINE class == IF E(w).dir THEN "directory" ELSE select(flags.filter, E(w).path)
    <2>1. at[w] # "idle" /\ ~is_selected(E(w)) /\ Return(w, Result(class, "none")) /\ UNCHANGED <<entries, flags>>
        BY <1>2 DEF SkipByPath
    <2>2. select(flags.filter, E(w).path) \in {"not_included", "not_path", "search"}
        BY DEF select
    <2>3. class # "scanned"
        BY <2>2
    <2>4. Filtered(E(w))
        BY <2>1 DEF Filtered
    <2> HIDE DEF class
    <2>5. Shows(E(w), Result(class, "none"))
        BY <2>3, <2>4, NothingShown
    <2> QED
        BY <2>1, <2>5, ReturnShows DEF Return
<1>3. CASE MatchPath(w)
    <2>1. at[w] # "idle" /\ is_selected(E(w)) /\ flags.match_path /\ CountAndReturn(w, PathResult(E(w)))
          /\ UNCHANGED <<entries, flags>>
        BY <1>3 DEF MatchPath
    <2>2. Shows(E(w), PathResult(E(w)))
        BY <2>1, PathShows
    <2> QED
        BY <2>1, <2>2, ReturnShows DEF CountAndReturn
<1>4. CASE Open(w)
    <2> DEFINE place == IF HeaderFirst THEN "prefix" ELSE "content"
    <2>1. /\ at[w] # "idle" /\ Goto(w, place) /\ UNCHANGED <<entries, flags, content>>
          /\ place \notin {"decrypt", "type"}
        BY <1>4 DEF Open
    <2> HIDE DEF place
    <2>2. DOMAIN content' = Workers
        BY <2>1 DEF ReadInv
    <2> QED
        BY <2>1, <2>2, MoveShows
<1>5. CASE SkipByHeader(w)
    <2> DEFINE decision == accept_type(flags.filter, detect_type(E(w).path, E(w).body))
    <2>1. decision \in {"search", "media", "type"}
        BY DEF accept_type
    <2>2. CountAndReturn(w, Result(decision, "none")) /\ at[w] = "prefix" /\ decision # "search"
          /\ UNCHANGED <<entries, flags>>
        BY <1>5 DEF SkipByHeader
    <2>3. Plaintext(E(w)) = E(w).body
        BY <2>2 DEF HandInv, Plaintext, Opens
    <2>4. Filtered(E(w))
        BY <1>b, <2>2, <2>3 DEF Filtered
    <2> HIDE DEF decision
    <2>5. Shows(E(w), Result(decision, "none"))
        BY <2>1, <2>4, NothingShown
    <2> QED
        BY <2>2, <2>5, ReturnShows DEF CountAndReturn
<1>6. CASE PassHeader(w)
    <2>1. at[w] # "idle" /\ Goto(w, "content") /\ UNCHANGED <<entries, flags, content>>
        BY <1>6 DEF PassHeader
    <2>2. DOMAIN content' = Workers
        BY <2>1 DEF ReadInv
    <2> QED
        BY <2>1, <2>2, MoveShows
<1>7. CASE ReadContent(w)
    <2>1. at[w] # "idle" /\ Goto(w, "decrypt") /\ UNCHANGED <<entries, flags>>
          /\ content' = [content EXCEPT ![w] = E(w).body]
        BY <1>7 DEF ReadContent
    <2>2. /\ DOMAIN content' = Workers /\ content'[w] = E(w).body
          /\ \A v \in Workers : v # w => content'[v] = content[v]
        BY <2>1 DEF ReadInv
    <2> QED
        BY <2>1, <2>2, MoveShows
<1>8. CASE Unreadable(w)
    <2>1. at[w] # "idle" /\ CountAndReturn(w, Result("unreadable", "none")) /\ UNCHANGED <<entries, flags>>
        BY <1>8 DEF Unreadable
    <2>2. Shows(E(w), Result("unreadable", "none"))
        BY NothingShown DEF Skips
    <2> QED
        BY <2>1, <2>2, ReturnShows DEF CountAndReturn
<1>9. CASE LeaveAsIs(w)
    <2>1. /\ at[w] = "decrypt" /\ (~flags.secrets \/ E(w).secret = "none") /\ Goto(w, "type")
          /\ UNCHANGED <<entries, flags, content>>
        BY <1>9 DEF LeaveAsIs
    <2>2. Plaintext(E(w)) = E(w).body
        BY <2>1 DEF Plaintext, Opens
    <2>3. DOMAIN content' = Workers /\ content'[w] = Plaintext(E(w))
        BY <2>1, <2>2 DEF ReadInv
    <2> QED
        BY <2>1, <2>3, MoveShows
<1>10. CASE Decrypt(w)
    <2>1. /\ at[w] = "decrypt" /\ flags.secrets /\ E(w).secret = "opens" /\ Goto(w, "type")
          /\ UNCHANGED <<entries, flags>> /\ content' = [content EXCEPT ![w] = E(w).inner]
        BY <1>10 DEF Decrypt
    <2>2. Plaintext(E(w)) = E(w).inner
        BY <2>1 DEF Plaintext, Opens
    <2>3. /\ DOMAIN content' = Workers /\ content'[w] = Plaintext(E(w))
          /\ \A v \in Workers : v # w => content'[v] = content[v]
        BY <2>1, <2>2 DEF ReadInv
    <2> QED
        BY <2>1, <2>3, MoveShows
<1>11. CASE DecryptFails(w)
    <2>1. at[w] # "idle" /\ CountAndReturn(w, Result("decrypt_failed", "failed")) /\ UNCHANGED <<entries, flags>>
        BY <1>11 DEF DecryptFails
    <2>2. Shows(E(w), Result("decrypt_failed", "failed"))
        BY NothingShown DEF Skips
    <2> QED
        BY <2>1, <2>2, ReturnShows DEF CountAndReturn
<1>12. CASE SkipByType(w)
    <2> DEFINE outcome == IF opened[w] THEN "decrypted" ELSE "none"
    <2>1. Accepted(w) \in {"search", "media", "type"}
        BY DEF Accepted, accept_type
    <2>2. /\ CountAndReturn(w, Result(Accepted(w), outcome)) /\ at[w] = "type" /\ Accepted(w) # "search"
          /\ UNCHANGED <<entries, flags>>
        BY <1>12 DEF SkipByType
    <2>3. content[w] = Plaintext(E(w))
        BY <2>2 DEF ReadInv
    <2>4. Filtered(E(w))
        BY <1>b, <2>2, <2>3 DEF Filtered, Accepted
    <2> HIDE DEF outcome
    <2>5. Shows(E(w), Result(Accepted(w), outcome))
        BY <2>1, <2>4, NothingShown
    <2> QED
        BY <2>2, <2>5, ReturnShows DEF CountAndReturn
<1>13. CASE Scan(w)
    <2>1. PICK start \in SourceStarts(E(w)) :
              CountAndReturn(w, ScanResult(E(w), content[w], start, opened[w]))
        BY <1>13 DEF Scan
    <2>2. at[w] = "type" /\ Accepted(w) = "search" /\ UNCHANGED <<entries, flags>>
        BY <1>13 DEF Scan
    <2>3. PICK bytes : bytes = content[w]
        OBVIOUS
    <2>4. bytes = Plaintext(E(w))
        BY <2>2, <2>3 DEF ReadInv
    <2>5. bytes \in Contents
        BY <1>d, <2>2, <2>4 DEF Plaintext
    <2>6. ~Filtered(E(w))
        BY <1>b, <2>2, <2>3, <2>4 DEF Filtered, Accepted
    <2>7. flags \in Setting /\ ~flags.match_path
        BY <1>b, <2>2 DEF HandInv
    <2>8. PICK result : result = ScanResult(E(w), bytes, start, opened[w])
        OBVIOUS
    <2>9. /\ IsList(result.records)
          /\ ShownOf(result.records) = Evidence(E(w))
        BY <2>4, <2>5, <2>7, <2>8, ScanShows
    <2>10. result.class = "scanned"
        BY <2>8 DEF ScanResult
    <2>11. Shows(E(w), result)
        BY <2>6, <2>9, <2>10 DEF Shows, Skips
    <2> QED
        BY <2>1, <2>2, <2>3, <2>8, <2>11, ReturnShows DEF CountAndReturn
<1> QED
    BY <1>1, <1>2, <1>3, <1>4, <1>5, <1>6, <1>7, <1>8, <1>9, <1>10, <1>11, <1>12, <1>13 DEF Work

LEMMA ShowsInit == Init => ReadInv /\ ShowsInv
PROOF
<1> SUFFICES ASSUME Init PROVE ReadInv /\ ShowsInv
    OBVIOUS
<1>1. \A e \in DOMAIN entries : slots[e] = Pending
    BY DEF Init
<1> QED
    BY <1>1 DEF Init, ReadInv, ShowsInv

LEMMA ShowsStep == IInv /\ HandInv /\ ReadInv /\ ShowsInv /\ [Next]_vars => ReadInv' /\ ShowsInv'
PROOF
<1> SUFFICES ASSUME IInv, HandInv, ReadInv, ShowsInv, [Next]_vars PROVE ReadInv' /\ ShowsInv'
    OBVIOUS
<1>1. CASE \E w \in Workers : Work(w)
    BY <1>1, WorkShows
<1>2. CASE MainThread \/ Reporter \/ UNCHANGED vars
    <2>1. UNCHANGED <<entries, flags, job, at, content, slots>>
        BY <1>2 DEF MainThread, Reporter, SetTotal, Collect, Fold, Folded, StopReporter, Join,
                    LoadTotal, Redraw, SleepOn, SeeStop, NotReporter, vars, workVars
    <2>2. \A w \in Workers : E(w)' = E(w) /\ Plaintext(E(w))' = Plaintext(E(w))
        BY <2>1, PlaintextStutter DEF E
    <2> QED
        BY <2>1, <2>2, ShowsStutter DEF ReadInv, ShowsInv
<1> QED
    BY <1>1, <1>2 DEF Next

(* One list after the other. *)
LEMMA Joined ==
    ASSUME NEW S, NEW s \in Seq(S), NEW t \in Seq(S)
    PROVE  s \o t = [k \in 1 .. Len(s) + Len(t) |-> IF k <= Len(s) THEN s[k] ELSE t[k - Len(s)]]
PROOF
<1>1. s \o t \in Seq(S) /\ Len(s \o t) = Len(s) + Len(t)
    BY ConcatProperties
<1>2. \A k \in 1 .. Len(s) + Len(t) : (s \o t)[k] = IF k <= Len(s) THEN s[k] ELSE t[k - Len(s)]
    BY ConcatProperties
<1>3. PICK r \in Seq(S) : r = s \o t
    BY <1>1
<1>4. r = [k \in 1 .. Len(r) |-> r[k]]
    OBVIOUS
<1>5. PICK n : n = Len(s) + Len(t) /\ Len(r) = n
    BY <1>1, <1>3
<1>6. r = [k \in 1 .. n |-> IF k <= Len(s) THEN s[k] ELSE t[k - Len(s)]]
    BY <1>2, <1>3, <1>4, <1>5
<1> QED
    BY <1>3, <1>5, <1>6

(* Reports one after the other. *)
LEMMA ShownJoin ==
    ASSUME NEW s, NEW t, IsList(s), IsList(t)
    PROVE  /\ IsList(s \o t)
           /\ ShownOf(s \o t) = ShownOf(s) \o ShownOf(t)
PROOF
<1> DEFINE Seen(x) == [path |-> x.path, offset |-> x.file_offset, encoding |-> x.encoding]
<1>1. PICK m \in Nat : s = [k \in 1 .. m |-> s[k]]
    BY DEF IsList
<1>2. PICK n \in Nat : t = [k \in 1 .. n |-> t[k]]
    BY DEF IsList
<1> DEFINE R == {s[k] : k \in 1 .. m} \cup {t[k] : k \in 1 .. n}
           V == {Seen(x) : x \in R}
           u == ShownOf(s)
           v == ShownOf(t)
<1>3. s \in Seq(R) /\ Len(s) = m
    BY <1>1
<1>4. t \in Seq(R) /\ Len(t) = n
    BY <1>2
<1>5. u = [k \in 1 .. m |-> Seen(s[k])]
    BY <1>1 DEF ShownOf
<1>6. v = [k \in 1 .. n |-> Seen(t[k])]
    BY <1>2 DEF ShownOf
<1>13. \A k \in 1 .. m : s[k] \in R
    OBVIOUS
<1>14. \A k \in 1 .. n : t[k] \in R
    OBVIOUS
<1>15. \A x \in R : Seen(x) \in V
    OBVIOUS
<1> HIDE DEF R, V, u, v
<1>7. u \in Seq(V) /\ Len(u) = m
    BY <1>5, <1>13, <1>15
<1>8. v \in Seq(V) /\ Len(v) = n
    BY <1>6, <1>14, <1>15
<1>9. PICK r : r = s \o t
    OBVIOUS
<1>10. r = [k \in 1 .. m + n |-> IF k <= m THEN s[k] ELSE t[k - m]]
    <2>1. s \o t = [k \in 1 .. Len(s) + Len(t) |-> IF k <= Len(s) THEN s[k] ELSE t[k - Len(s)]]
        BY <1>3, <1>4, Joined
    <2> QED
        BY <1>3, <1>4, <1>9, <2>1
<1>11. u \o v = [k \in 1 .. m + n |-> IF k <= m THEN u[k] ELSE v[k - m]]
    <2>1. u \o v = [k \in 1 .. Len(u) + Len(v) |-> IF k <= Len(u) THEN u[k] ELSE v[k - Len(u)]]
        BY <1>7, <1>8, Joined
    <2> QED
        BY <1>7, <1>8, <2>1
<1>12. ShownOf(r) = [k \in 1 .. m + n |-> Seen(r[k])]
    BY <1>10 DEF ShownOf
<1>16. \A k \in 1 .. m + n : Seen(r[k]) = IF k <= m THEN u[k] ELSE v[k - m]
    <2> TAKE k \in 1 .. m + n
    <2>1. CASE k <= m
        <3>1. k \in 1 .. m /\ r[k] = s[k]
            BY <1>10, <2>1
        <3> QED
            BY <1>5, <2>1, <3>1
    <2>2. CASE ~(k <= m)
        <3>1. k - m \in 1 .. n /\ r[k] = t[k - m]
            BY <1>10, <2>2
        <3> QED
            BY <1>6, <2>2, <3>1
    <2> QED
        BY <2>1, <2>2
<1>17. ShownOf(r) = u \o v
    BY <1>11, <1>12, <1>16
<1>18. IsList(r)
    <2>1. r = [k \in 1 .. m + n |-> r[k]] /\ m + n \in Nat
        BY <1>10
    <2> QED
        BY <2>1 DEF IsList
<1> QED
    BY <1>9, <1>17, <1>18 DEF u, v

Withheld == Tally("directory") + Tally("not_included") + Tally("not_path") + Tally("media") + Tally("type")
Failed == Tally("unreadable") + Tally("decrypt_failed")

(* Every entry folded is in one of the sequential search's three tallies. *)
ReportInv ==
    /\ IsList(records)
    /\ Tally("scanned") + Withheld + Failed = folded

LEMMA TallyNext ==
    ASSUME IInv, FindingsInv, Fold
    PROVE  /\ slots[folded + 1].class \in Kinds
           /\ \A k \in Kinds : /\ Tally(k) \in Nat
                               /\ Tally(k)' = IF k = slots[folded + 1].class THEN Tally(k) + 1 ELSE Tally(k)
PROOF
<1>1. /\ stage = "fold" /\ folded \in Nat /\ folded + 1 \in DOMAIN entries
      /\ stats' = Tallied(entries[folded + 1], slots[folded + 1])
    BY DEF Fold, FindingsInv, FoldInv, IInv, PoolInv
<1>2. PICK class : class = slots[folded + 1].class
    OBVIOUS
<1>3. class \in Kinds
    <2>1. Settles(entries[folded + 1], slots[folded + 1])
        BY <1>1 DEF IInv, PoolInv, FindingsInv, SlotInv
    <2> QED
        BY <1>2, <2>1 DEF Settles
<1>4. stats.tally \in [Kinds -> [count : Nat, bytes : Nat]]
    BY DEF FindingsInv, StatsInv
<1>5. PICK bytes : stats'.tally = [stats.tally EXCEPT ![class] = Plus(@, bytes)]
    BY <1>1, <1>2 DEF Tallied
<1>6. Plus(stats.tally[class], bytes).count = stats.tally[class].count + 1
    BY DEF Plus
<1>7. ASSUME NEW k \in Kinds
      PROVE  Tally(k) \in Nat /\ Tally(k)' = IF k = class THEN Tally(k) + 1 ELSE Tally(k)
    BY <1>3, <1>4, <1>5, <1>6 DEF Tally
<1> QED
    BY <1>2, <1>3, <1>7

LEMMA ReportStutter ==
    ASSUME UNCHANGED <<entries, flags>>
    PROVE  EvidenceOf' = EvidenceOf /\ FilteredOf' = FilteredOf
PROOF
<1>1. \A e \in DOMAIN entries : entries'[e] = entries[e]
    OBVIOUS
<1>2. \A e \in DOMAIN entries : Evidence(entries[e])' = Evidence(entries[e])
    BY <1>1, EvidenceStutter
<1>3. \A e \in DOMAIN entries : Filtered(entries[e])' <=> Filtered(entries[e])
    BY <1>1, EvidenceStutter
<1>4. EvidenceOf' = EvidenceOf
    BY <1>2 DEF EvidenceOf
<1>5. FilteredOf' = FilteredOf
    <2>1. \A e \in DOMAIN entries : Filtered(entries[e])' = Filtered(entries[e])
        BY <1>3 DEF Filtered
    <2> QED
        BY <2>1 DEF FilteredOf
<1> QED
    BY <1>4, <1>5

(* The fold of one result is one step of the sequential search. *)
LEMMA FoldReports ==
    ASSUME IInv, FindingsInv, ShowsInv, ReportInv, Fold
    PROVE  ReportInv' /\ Sequential!Next
PROOF
<1>1. /\ folded \in Nat /\ folded < Len(entries) /\ entries \in Seq(Entry) /\ stage = "fold"
      /\ folded' = folded + 1 /\ records' = records \o slots[folded + 1].records
      /\ UNCHANGED <<entries, flags>>
    BY DEF Fold, FindingsInv, FoldInv, IInv, PoolInv
<1>2. PICK e : e = folded + 1
    OBVIOUS
<1>3. PICK entry, result : entry = entries[e] /\ result = slots[e]
    OBVIOUS
<1>4. e \in DOMAIN entries /\ e \in 1 .. Len(entries)
    BY <1>1, <1>2
<1>5. Shows(entry, result)
    BY <1>1, <1>3, <1>4 DEF IInv, PoolInv, ShowsInv
<1>6. /\ result.class \in Kinds
      /\ \A k \in Kinds : /\ Tally(k) \in Nat
                          /\ Tally(k)' = IF k = result.class THEN Tally(k) + 1 ELSE Tally(k)
    BY <1>2, <1>3, TallyNext
<1>7. PICK a, b, c : a = Tally("scanned") /\ b = Withheld /\ c = Failed
    OBVIOUS
<1>8. PICK x, y, z : x = Tally("scanned")' /\ y = Withheld' /\ z = Failed'
    OBVIOUS
<1>9. a \in Nat /\ b \in Nat /\ c \in Nat
    BY <1>6, <1>7 DEF Kinds, Withheld, Failed
<1>10. /\ result.class = "scanned" => x = a + 1 /\ y = b /\ z = c
       /\ result.class \in {"directory"} \cup Skips => x = a /\ y = b + 1 /\ z = c
       /\ result.class \in {"unreadable", "decrypt_failed"} => x = a /\ y = b /\ z = c + 1
    BY <1>6, <1>7, <1>8 DEF Kinds, Skips, Withheld, Failed
<1>11. result.class \in {"scanned", "unreadable", "decrypt_failed"} \cup ({"directory"} \cup Skips)
    BY <1>6 DEF Kinds, Skips
<1>12. a + b + c = folded
    BY <1>7 DEF ReportInv
<1>13. x + y + z = folded'
    BY <1>1, <1>9, <1>10, <1>11, <1>12
<1>14. IsList(records') /\ ShownOf(records') = ShownOf(records) \o ShownOf(result.records)
    BY <1>1, <1>2, <1>3, <1>5, ShownJoin DEF Shows, ReportInv
<1>15. ReportInv'
    BY <1>8, <1>13, <1>14 DEF ReportInv, IsList
<1>16. /\ ReportOf = ShownOf(records) /\ ReportOf' = ShownOf(records')
    BY DEF ReportOf, ShownOf
<1>17. a + b + c + 1 = e /\ a + b + c < Len(EvidenceOf) /\ EvidenceOf[e] = Evidence(entry)
       /\ (FilteredOf[e] <=> Filtered(entry))
    <2>1. DOMAIN EvidenceOf = 1 .. Len(entries) /\ Len(entries) \in Nat /\ IsList(EvidenceOf)
        <3>1. Len(entries) \in Nat /\ DOMAIN entries = 1 .. Len(entries)
            BY <1>1
        <3>2. EvidenceOf = [k \in 1 .. Len(entries) |-> EvidenceOf[k]]
            BY <3>1 DEF EvidenceOf
        <3> QED
            BY <3>1, <3>2 DEF IsList
    <2>2. Len(EvidenceOf) = Len(entries)
        BY <2>1
    <2> QED
        BY <1>1, <1>2, <1>3, <1>4, <1>12, <2>2 DEF EvidenceOf, FilteredOf
<1>18. EvidenceOf' = EvidenceOf /\ FilteredOf' = FilteredOf
    BY <1>1, ReportStutter
<1>19. CASE result.class = "scanned"
    <2>1. x = a + 1 /\ y = b /\ z = c /\ ~FilteredOf[e] /\ ReportOf' = ReportOf \o EvidenceOf[e]
        BY <1>5, <1>10, <1>14, <1>16, <1>17, <1>19 DEF Shows
    <2>2. Sequential!Show
        BY <1>7, <1>8, <1>17, <1>18, <2>1
        DEF Sequential!Show, Sequential!Unaccounted, Sequential!Position, Sequential!Entry, Withheld, Failed
    <2> QED
        BY <1>15, <2>2 DEF Sequential!Next
<1>20. ASSUME result.class # "scanned"
       PROVE  ReportOf' = ReportOf
    <2>1. ShownOf(result.records) = ShownOf(<<>>) /\ result.records = <<>>
        BY <1>5, <1>20 DEF Shows
    <2>2. records' = records
        <3>1. PICK m \in Nat : records = [k \in 1 .. m |-> records[k]]
            BY DEF ReportInv, IsList
        <3>2. records \in Seq({records[k] : k \in 1 .. m})
            BY <3>1
        <3> QED
            BY <1>1, <1>2, <1>3, <2>1, <3>2, ConcatEmptySeq
    <2> QED
        BY <1>16, <2>2
<1>21. CASE result.class \in {"directory"} \cup Skips
    <2>1. x = a /\ y = b + 1 /\ z = c /\ FilteredOf[e] /\ ReportOf' = ReportOf
        BY <1>5, <1>10, <1>17, <1>20, <1>21 DEF Shows, Skips
    <2>2. Sequential!Withhold
        BY <1>7, <1>8, <1>17, <1>18, <2>1
        DEF Sequential!Withhold, Sequential!Unaccounted, Sequential!Position, Sequential!Entry, Withheld, Failed
    <2> QED
        BY <1>15, <2>2 DEF Sequential!Next
<1>22. CASE result.class \in {"unreadable", "decrypt_failed"}
    <2>1. x = a /\ y = b /\ z = c + 1 /\ ReportOf' = ReportOf
        BY <1>10, <1>20, <1>22
    <2>2. Sequential!Fail
        BY <1>7, <1>8, <1>17, <1>18, <2>1
        DEF Sequential!Fail, Sequential!Unaccounted, Sequential!Position, Sequential!Entry, Withheld, Failed
    <2> QED
        BY <1>15, <2>2 DEF Sequential!Next
<1> QED
    BY <1>11, <1>15, <1>19, <1>21, <1>22

LEMMA ReportInit == Init => ReportInv /\ Sequential!Init
PROOF
<1> SUFFICES ASSUME Init PROVE ReportInv /\ Sequential!Init
    OBVIOUS
<1>1. records = <<>> /\ folded = 0 /\ stats = NoStats
    BY DEF Init
<1>2. \A k \in Kinds : Tally(k) = 0
    BY <1>1 DEF Tally, NoStats
<1>3. Tally("scanned") = 0 /\ Withheld = 0 /\ Failed = 0
    BY <1>2 DEF Kinds, Withheld, Failed
<1>4. ReportInv
    BY <1>1, <1>3, NothingListed DEF ReportInv
<1>5. ReportOf = <<>>
    BY <1>1 DEF ReportOf
<1> QED
    BY <1>3, <1>4, <1>5 DEF Sequential!Init, Withheld, Failed

LEMMA ReportStep ==
    IInv /\ FindingsInv /\ ShowsInv /\ ReportInv /\ [Next]_vars
        => ReportInv' /\ [Sequential!Next]_(Sequential!scanVars)
PROOF
<1> SUFFICES ASSUME IInv, FindingsInv, ShowsInv, ReportInv, [Next]_vars
             PROVE  ReportInv' /\ [Sequential!Next]_(Sequential!scanVars)
    OBVIOUS
<1>1. CASE Fold
    BY <1>1, FoldReports
<1>2. CASE (\E w \in Workers : Work(w)) \/ SetTotal \/ Collect \/ Folded \/ StopReporter \/ Join \/ Reporter
           \/ UNCHANGED vars
    <2>1. UNCHANGED <<entries, flags, folded, records, stats>>
        BY <1>2 DEF Work, Elsewhere, Take, SkipByPath, MatchPath, Open, SkipByHeader, PassHeader, ReadContent,
                    Unreadable, LeaveAsIs, Decrypt, DecryptFails, SkipByType, Scan, findingVars,
                    Reporter, SetTotal, Collect, Folded, StopReporter, Join, LoadTotal, Redraw,
                    SleepOn, SeeStop, NotReporter, vars
    <2>2. /\ ReportOf' = ReportOf /\ \A k : Tally(k)' = Tally(k)
        BY <2>1 DEF ReportOf, Tally
    <2>3. ReportInv'
        BY <2>1, <2>2 DEF ReportInv, IsList, Withheld, Failed
    <2>4. UNCHANGED Sequential!scanVars
        BY <2>1, <2>2, ReportStutter DEF Sequential!scanVars
    <2> QED
        BY <2>3, <2>4
<1> QED
    BY <1>1, <1>2 DEF Next, MainThread

(* For every source, every flags, any number of threads, whatever reads fail and
   in whatever order the pool takes the entries: the findings are those of a
   search that goes through the entries one after the other, shows all the hits
   of an entry in the order of their offsets or none of them, and leaves an entry
   out only when a filter says so or it is counted as one that could not be
   looked into.  Neither the header that was looked at first nor the key that
   opened the content changes that (classify_entry() with search_source()). *)
THEOREM SearchImplementsReport == Spec => ImplementsScanReport
PROOF
<1>1. Init => ReadInv /\ ShowsInv /\ ReportInv /\ Sequential!Init
    BY ShowsInit, ReportInit
<1>2. FindingsInv => HandInv
    BY DEF FindingsInv
<1>3. IInv /\ FindingsInv /\ ReadInv /\ ShowsInv /\ ReportInv /\ [Next]_vars
          => ReadInv' /\ ShowsInv' /\ ReportInv' /\ [Sequential!Next]_(Sequential!scanVars)
    BY <1>2, ShowsStep, ReportStep
<1> QED
    BY <1>1, <1>3, FindingsInvariant, PTL DEF Spec, ImplementsScanReport, Sequential!Spec

=============================================================================
