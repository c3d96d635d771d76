------------------------------- MODULE Search -------------------------------
(***************************************************************************)
(* src/src/ops/search: a pool of threads classifies and searches the       *)
(* entries of a source (classify.rs), one thread then folds the results    *)
(* into the findings (mod.rs); meanwhile the reporter thread of            *)
(* cmd/support/progress.rs redraws the progress line.                      *)
(***************************************************************************)
EXTENDS Integers, EntryFilter, Ordering

CONSTANTS
    Contents,     \* file contents: their magic and where the patterns hit
    ExtType,      \* the type detect_type() takes from a name without a magic
    PathHits,     \* the paths the pattern matches (--match-path)
    EntryLists,   \* the entries of a source
    Settings,     \* the flags of a run
    Workers,      \* the threads of the pool
    MaxHits       \* MAX_HITS_PER_FILE

(* `secret` says what try_decrypt() finds: no profile matches the name, a key
   opens the content (to `inner`), or none does.  `kind` is the Location. *)
Entry == [path : Paths, dir : BOOLEAN, size : Nat, start : Nat,
          kind : {"zip", "ranged", "loose"}, compressed : BOOLEAN,
          body : Contents, secret : {"none", "opens", "fails"}, inner : Contents]

Setting == [filter : Filter, match_path : BOOLEAN, base64 : BOOLEAN,
            secrets : BOOLEAN, prefers_prefix : BOOLEAN, terminal : BOOLEAN]

(* A pattern is found from left to right, at one place once. *)
LeftToRight(offsets) == \A j, k \in DOMAIN offsets : j < k => offsets[j] < offsets[k]

ASSUME SearchAssumption ==
    /\ Contents \subseteq [magic : TypeInfo, plain : Seq(Nat), base64 : Seq(Nat)]
    /\ \A c \in Contents : LeftToRight(c.plain) /\ LeftToRight(c.base64)
    /\ ExtType \in [Paths -> TypeInfo]
    /\ PathHits \subseteq Paths
    /\ EntryLists \subseteq Seq(Entry)
    /\ Settings \subseteq Setting
    /\ MaxHits \in Nat \ {0}

VARIABLES
    entries,    \* source.entries()
    flags,      \* the settings of this run
    stage,      \* the main thread: "start", "map", "fold", "stop", "join", "over"
    total,      \* progress.total
    done,       \* progress.done
    taken,      \* the entries some thread has taken
    job,        \* the entry each thread is at
    at,         \* where in classify_entry() it is
    content,    \* the bytes it holds
    opened,     \* whether it decrypted them
    slots,      \* the EntryResult of each entry
    folded,     \* how many results are folded
    records,    \* findings.records
    matched,    \* findings.files: [path, offsets]
    audit,      \* findings.decryptions: [path, outcome]
    stats,      \* findings.stats
    stop,       \* the flag that ends the reporter
    reporter,   \* the reporter: "off", "total", "done", "check", "ended"
    seen,       \* the counters as it last saw them: [total, done]
    line        \* the progress line on the terminal

workVars == <<taken, job, at, content, opened, slots>>
findingVars == <<folded, records, matched, audit, stats>>
reporterVars == <<reporter, seen>>
vars == <<entries, flags, stage, total, done, workVars, findingVars, stop, reporterVars, line>>

-----------------------------------------------------------------------------
(* One entry *)

NoOffset == -1
NoLine == [done |-> 0, total |-> 0]
NoContent == [magic |-> Untyped, plain |-> <<>>, base64 |-> <<>>]

detect_type(path, bytes) == IF bytes.magic # Untyped THEN bytes.magic ELSE ExtType[path]

is_selected(entry) == ~entry.dir /\ select(flags.filter, entry.path) = "search"

FirstHits(offsets) == SubSeq(offsets, 1, IF Len(offsets) < MaxHits THEN Len(offsets) ELSE MaxHits)

Tagged(offsets, encoding) ==
    [k \in DOMAIN offsets |-> [offset |-> offsets[k], encoding |-> encoding]]

(* The hits of both patterns, each capped. *)
Found(bytes) ==
    Tagged(FirstHits(bytes.plain), "plain")
        \o IF flags.base64 THEN Tagged(FirstHits(bytes.base64), "base64") ELSE <<>>

(* sort_by_key() is stable: at one offset the plain hit comes first. *)
Stands(hits, j, k) ==
    hits[j].offset < hits[k].offset \/ (hits[j].offset = hits[k].offset /\ j < k)

Hits(bytes) ==
    LET found == Found(bytes)
        order == InOrder(DOMAIN found, {p \in (DOMAIN found) \X (DOMAIN found) : Stands(found, p[1], p[2])})
    IN  [k \in DOMAIN found |-> found[order[k]]]

Truncated(bytes) ==
    Len(bytes.plain) > MaxHits \/ (flags.base64 /\ Len(bytes.base64) > MaxHits)

(* Entry::archive_data_start: only a mapped ZIP entry carries its start. *)
OwnStart(entry) == IF entry.kind = "zip" THEN entry.start ELSE NoOffset

(* Source::archive_data_start: a ranged source reads the header, or fails to. *)
SourceStarts(entry) ==
    CASE entry.kind = "zip"    -> {entry.start}
      [] entry.kind = "ranged" -> {entry.start, NoOffset}
      [] entry.kind = "loose"  -> {NoOffset}

(* MatchRecord::new and what classify_entry changes of it. *)
MatchRecord(entry, hit, start, decrypted) ==
    [path           |-> entry.path,
     file_start     |-> IF start = NoOffset THEN 0 ELSE start,
     file_offset    |-> hit.offset,
     archive_offset |-> IF start = NoOffset \/ decrypted \/ entry.compressed
                        THEN start ELSE start + hit.offset,
     compressed     |-> entry.compressed,
     decrypted      |-> decrypted,
     encoding       |-> hit.encoding]

PathRecord(entry) ==
    [path |-> entry.path, file_start |-> IF OwnStart(entry) = NoOffset THEN 0 ELSE OwnStart(entry),
     file_offset |-> 0, archive_offset |-> OwnStart(entry), compressed |-> entry.compressed,
     decrypted |-> FALSE, encoding |-> "plain"]

(* An EntryResult; a file matched iff it has offsets. *)
Result(class, outcome) ==
    [class |-> class, records |-> <<>>, offsets |-> <<>>, truncated |-> FALSE, decryption |-> outcome]

Pending == Result("pending", "none")

PathResult(entry) ==
    IF entry.path \in PathHits
    THEN [Result("scanned", "none") EXCEPT !.records = <<PathRecord(entry)>>, !.offsets = <<0>>]
    ELSE Result("scanned", "none")

ScanResult(entry, bytes, start, decrypted) ==
    LET hits == Hits(bytes)
    IN  [class      |-> "scanned",
         records    |-> [k \in DOMAIN hits |-> MatchRecord(entry, hits[k], start, decrypted)],
         offsets    |-> [k \in DOMAIN hits |-> hits[k].offset],
         truncated  |-> Truncated(bytes),
         decryption |-> IF decrypted THEN "decrypted" ELSE "none"]

-----------------------------------------------------------------------------
(* classify_entry(), in a thread of the pool *)

E(w) == entries[job[w]]

Release(w) ==
    /\ job' = [job EXCEPT ![w] = 0]
    /\ at' = [at EXCEPT ![w] = "idle"]
    /\ content' = [content EXCEPT ![w] = NoContent]
    /\ opened' = [opened EXCEPT ![w] = FALSE]

(* Return without counting: the entry was not in the total. *)
Return(w, result) ==
    /\ slots' = [slots EXCEPT ![job[w]] = result]
    /\ Release(w)
    /\ UNCHANGED <<taken, done>>

(* progress.inc() and return. *)
CountAndReturn(w, result) ==
    /\ slots' = [slots EXCEPT ![job[w]] = result]
    /\ done' = done + 1
    /\ Release(w)
    /\ UNCHANGED taken

Elsewhere == UNCHANGED <<entries, flags, stage, total, findingVars, stop, reporterVars, line>>

Goto(w, place) ==
    /\ at' = [at EXCEPT ![w] = place]
    /\ UNCHANGED <<done, taken, job, slots>>

(* par_iter(): the pool gives a free thread any entry that is left. *)
Take(w) ==
    /\ stage = "map" /\ at[w] = "idle"
    /\ \E e \in DOMAIN entries \ taken :
          /\ taken' = taken \cup {e}
          /\ job' = [job EXCEPT ![w] = e]
    /\ at' = [at EXCEPT ![w] = "path"]
    /\ UNCHANGED <<done, content, opened, slots>>
    /\ Elsewhere

SkipByPath(w) ==
    /\ at[w] = "path"
    /\ ~is_selected(E(w))
    /\ Return(w, Result(IF E(w).dir THEN "directory" ELSE select(flags.filter, E(w).path), "none"))
    /\ Elsewhere

MatchPath(w) ==
    /\ at[w] = "path"
    /\ is_selected(E(w)) /\ flags.match_path
    /\ CountAndReturn(w, PathResult(E(w)))
    /\ Elsewhere

(* Mutant of HeaderFirst: encrypted headers are looked at too. *)
HeaderFirstAlways == may_skip_by_type(flags.filter) /\ flags.prefers_prefix

(* Encrypted content cannot be classified by its header. *)
HeaderFirst ==
    /\ ~flags.secrets
    /\ may_skip_by_type(flags.filter)
    /\ flags.prefers_prefix

Open(w) ==
    /\ at[w] = "path"
    /\ is_selected(E(w)) /\ ~flags.match_path
    /\ Goto(w, IF HeaderFirst THEN "prefix" ELSE "content")
    /\ UNCHANGED <<content, opened>>
    /\ Elsewhere

(* The header says skip: the file is never fetched. *)
SkipByHeader(w) ==
    LET decision == accept_type(flags.filter, detect_type(E(w).path, E(w).body))
    IN  /\ at[w] = "prefix"
        /\ decision # "search"
        /\ CountAndReturn(w, Result(decision, "none"))
        /\ Elsewhere

(* The header says search, or could not be read. *)
PassHeader(w) ==
    /\ at[w] = "prefix"
    /\ Goto(w, "content")
    /\ UNCHANGED <<content, opened>>
    /\ Elsewhere

ReadContent(w) ==
    /\ at[w] = "content"
    /\ content' = [content EXCEPT ![w] = E(w).body]
    /\ Goto(w, "decrypt")
    /\ UNCHANGED opened
    /\ Elsewhere

(* A read that fails is counted, and the search goes on. *)
Unreadable(w) ==
    /\ at[w] = "content"
    /\ CountAndReturn(w, Result("unreadable", "none"))
    /\ Elsewhere

LeaveAsIs(w) ==
    /\ at[w] = "decrypt"
    /\ ~flags.secrets \/ E(w).secret = "none"
    /\ Goto(w, "type")
    /\ UNCHANGED <<content, opened>>
    /\ Elsewhere

Decrypt(w) ==
    /\ at[w] = "decrypt"
    /\ flags.secrets /\ E(w).secret = "opens"
    /\ content' = [content EXCEPT ![w] = E(w).inner]
    /\ opened' = [opened EXCEPT ![w] = TRUE]
    /\ Goto(w, "type")
    /\ Elsewhere

(* Mutant of DecryptFails: the thread waits for a key. *)
DecryptFailsStuck(w) ==
    /\ at[w] = "decrypt"
    /\ flags.secrets /\ E(w).secret = "fails"
    /\ Goto(w, "decrypt")
    /\ UNCHANGED <<content, opened>>
    /\ Elsewhere

(* A profile matches and no key opens the file: its ciphertext is not searched. *)
DecryptFails(w) ==
    /\ at[w] = "decrypt"
    /\ flags.secrets /\ E(w).secret = "fails"
    /\ CountAndReturn(w, Result("decrypt_failed", "failed"))
    /\ Elsewhere

Accepted(w) == accept_type(flags.filter, detect_type(E(w).path, content[w]))

(* Mutant of SkipByType: the decryption leaves no trace. *)
SkipByTypeSilently(w) ==
    /\ at[w] = "type"
    /\ Accepted(w) # "search"
    /\ CountAndReturn(w, Result(Accepted(w), "none"))
    /\ Elsewhere

SkipByType(w) ==
    /\ at[w] = "type"
    /\ Accepted(w) # "search"
    /\ CountAndReturn(w, Result(Accepted(w), IF opened[w] THEN "decrypted" ELSE "none"))
    /\ Elsewhere

Scan(w) ==
    /\ at[w] = "type"
    /\ Accepted(w) = "search"
    /\ \E start \in SourceStarts(E(w)) :
          CountAndReturn(w, ScanResult(E(w), content[w], start, opened[w]))
    /\ Elsewhere

Work(w) ==
    \/ Take(w) \/ SkipByPath(w) \/ MatchPath(w) \/ Open(w)
    \/ SkipByHeader(w) \/ PassHeader(w)
    \/ ReadContent(w) \/ Unreadable(w)
    \/ LeaveAsIs(w) \/ Decrypt(w) \/ DecryptFails(w)
    \/ SkipByType(w) \/ Scan(w)

-----------------------------------------------------------------------------
(* search_source() and search_with_reporter(), in the main thread *)

Kinds == {"directory", "not_included", "not_path", "media", "type",
          "unreadable", "decrypt_failed", "scanned"}
Skips == {"not_included", "not_path", "media", "type"}

NoStats == [tally |-> [k \in Kinds |-> [count |-> 0, bytes |-> 0]],
            globs |-> [g \in DOMAIN flags.filter.exclude |-> 0],
            bytes_total |-> 0, files_skipped |-> 0,
            files_with_matches |-> 0, total_matches |-> 0, files_truncated |-> 0]

Init ==
    /\ entries \in EntryLists
    /\ flags \in Settings
    /\ stage = "start"
    /\ total = 0 /\ done = 0
    /\ taken = {}
    /\ job = [w \in Workers |-> 0]
    /\ at = [w \in Workers |-> "idle"]
    /\ content = [w \in Workers |-> NoContent]
    /\ opened = [w \in Workers |-> FALSE]
    /\ slots = [e \in DOMAIN entries |-> Pending]
    /\ folded = 0 /\ records = <<>> /\ matched = <<>> /\ audit = <<>> /\ stats = NoStats
    /\ stop = FALSE
    /\ reporter = IF flags.terminal THEN "total" ELSE "off"
    /\ seen = NoLine /\ line = NoLine

Selected == {e \in DOMAIN entries : is_selected(entries[e])}

(* Mutant of ToRead: every file is counted. *)
ToReadAll == Cardinality({e \in DOMAIN entries : ~entries[e].dir})

(* The first pass over the entries: how many files will be read. *)
ToRead == Cardinality(Selected)

SetTotal ==
    /\ stage = "start"
    /\ total' = ToRead
    /\ stage' = "map"
    /\ UNCHANGED <<entries, flags, done, workVars, findingVars, stop, reporterVars, line>>

(* collect() returns when every entry has its result. *)
Collect ==
    /\ stage = "map"
    /\ \A e \in DOMAIN entries : slots[e] # Pending
    /\ stage' = "fold"
    /\ UNCHANGED <<entries, flags, total, done, workVars, findingVars, stop, reporterVars, line>>

Plus(tally, bytes) == [count |-> tally.count + 1, bytes |-> tally.bytes + bytes]

One(condition) == IF condition THEN 1 ELSE 0

(* Mutant of Tallied: an undecryptable file also counts as scanned. *)
TalliedTwice(entry, result) ==
    LET bytes == IF result.class = "directory" THEN 0 ELSE entry.size
    IN  [tally |-> [k \in Kinds |->
                       IF k = result.class \/ (k = "scanned" /\ result.class = "decrypt_failed")
                       THEN Plus(stats.tally[k], bytes) ELSE stats.tally[k]],
         globs |-> stats.globs, bytes_total |-> stats.bytes_total + bytes,
         files_skipped |-> stats.files_skipped + One(result.class \in Skips),
         files_with_matches |-> stats.files_with_matches + One(result.offsets # <<>>),
         total_matches |-> stats.total_matches + Len(result.records),
         files_truncated |-> stats.files_truncated + One(result.truncated)]

(* The statistics with one more result in them. *)
Tallied(entry, result) ==
    LET bytes == IF result.class = "directory" THEN 0 ELSE entry.size
    IN  [tally |-> [stats.tally EXCEPT ![result.class] = Plus(@, bytes)],
         globs |-> IF result.class = "not_path"
                   THEN [stats.globs EXCEPT ![SkippingGlob(flags.filter, entry.path)] = @ + 1]
                   ELSE stats.globs,
         bytes_total |-> stats.bytes_total + bytes,
         files_skipped |-> stats.files_skipped + One(result.class \in Skips),
         files_with_matches |-> stats.files_with_matches + One(result.offsets # <<>>),
         total_matches |-> stats.total_matches + Len(result.records),
         files_truncated |-> stats.files_truncated + One(result.truncated)]

Fold ==
    LET e      == folded + 1
        result == slots[e]
    IN  /\ stage = "fold" /\ folded < Len(entries)
        /\ folded' = e
        /\ records' = records \o result.records
        /\ matched' = IF result.offsets = <<>> THEN matched
                      ELSE Append(matched, [path |-> entries[e].path, offsets |-> result.offsets])
        /\ audit' = IF result.decryption = "none" THEN audit
                    ELSE Append(audit, [path |-> entries[e].path, outcome |-> result.decryption])
        /\ stats' = Tallied(entries[e], result)
        /\ UNCHANGED <<entries, flags, stage, total, done, workVars, stop, reporterVars, line>>

Folded ==
    /\ stage = "fold" /\ folded = Len(entries)
    /\ stage' = "stop"
    /\ UNCHANGED <<entries, flags, total, done, workVars, findingVars, stop, reporterVars, line>>

StopReporter ==
    /\ stage = "stop"
    /\ stop' = TRUE
    /\ stage' = "join"
    /\ UNCHANGED <<entries, flags, total, done, workVars, findingVars, reporterVars, line>>

(* Mutant of Join: the thread is left to itself. *)
JoinNobody ==
    /\ stage = "join"
    /\ line' = NoLine
    /\ stage' = "over"
    /\ UNCHANGED <<entries, flags, total, done, workVars, findingVars, stop, reporterVars>>

(* join(), then the line is cleared. *)
Join ==
    /\ stage = "join"
    /\ reporter \in {"off", "ended"}
    /\ line' = NoLine
    /\ stage' = "over"
    /\ UNCHANGED <<entries, flags, total, done, workVars, findingVars, stop, reporterVars>>

MainThread == SetTotal \/ Collect \/ Fold \/ Folded \/ StopReporter \/ Join

-----------------------------------------------------------------------------
(* report_progress(), in its own thread.  Its loads are Relaxed: it may see    *)
(* any value written since the one it saw last.                              *)

NotReporter == UNCHANGED <<entries, flags, stage, total, done, workVars, findingVars, stop>>

LoadTotal ==
    /\ reporter = "total"
    /\ \E t \in {seen.total, total} :
          /\ seen' = [seen EXCEPT !.total = t]
          /\ reporter' = IF t > 0 THEN "done" ELSE "check"
    /\ UNCHANGED line
    /\ NotReporter

Redraw ==
    /\ reporter = "done"
    /\ \E d \in seen.done .. done :
          /\ seen' = [seen EXCEPT !.done = d]
          /\ line' = seen'
    /\ reporter' = "check"
    /\ NotReporter

SleepOn ==
    /\ reporter = "check"
    /\ reporter' = "total"
    /\ UNCHANGED <<seen, line>>
    /\ NotReporter

SeeStop ==
    /\ reporter = "check" /\ stop
    /\ reporter' = "ended"
    /\ UNCHANGED <<seen, line>>
    /\ NotReporter

Reporter == LoadTotal \/ Redraw \/ SleepOn \/ SeeStop

Next == (\E w \in Workers : Work(w)) \/ MainThread \/ Reporter

Spec == Init /\ [][Next]_vars

(* Threads are scheduled, and a store becomes visible in finite time: the
   reporter, which comes back to the flag again and again, sees it set. *)
FairSpec ==
    /\ Spec
    /\ \A w \in Workers : WF_vars(Work(w))
    /\ WF_vars(MainThread)
    /\ WF_vars(Reporter)
    /\ SF_vars(SeeStop)

-----------------------------------------------------------------------------
(* Properties *)

(* The progress bar never passes its total, and stands exactly at it when the
   last file is done, whichever of its nine ways out each entry took
   ("Progress reflects the files we actually read"). *)
ProgressExact ==
    /\ stage # "start" => done <= total
    /\ stage \notin {"start", "map"} => done = total

Classed(kind) == {e \in DOMAIN entries : slots[e].class = kind}
BytesOf(some) == UNION {{e} \X (1 .. entries[e].size) : e \in some}

(* "What did you not look at" is exact: every entry has one class, only what is
   no directory has a class of files, and each tally holds its files, each byte of
   them once; a file left out by a glob is charged to the first that matches. *)
CoverageExact ==
    stage = "over" =>
        /\ \A e \in DOMAIN entries :
              slots[e].class \in Kinds /\ (slots[e].class = "directory" <=> entries[e].dir)
        /\ \A k \in Kinds :
              /\ stats.tally[k].count = Cardinality(Classed(k))
              /\ stats.tally[k].bytes = IF k = "directory" THEN 0 ELSE Cardinality(BytesOf(Classed(k)))
        /\ stats.bytes_total = Cardinality(BytesOf({e \in DOMAIN entries : ~entries[e].dir}))
        /\ stats.files_skipped = Cardinality(UNION {Classed(k) : k \in Skips})
        /\ \A g \in DOMAIN flags.filter.exclude :
              stats.globs[g] = Cardinality({e \in Classed("not_path") :
                                               /\ entries[e].path \in flags.filter.exclude[g]
                                               /\ \A h \in 1 .. g - 1 : entries[e].path \notin flags.filter.exclude[h]})

Opens(entry) == flags.secrets /\ entry.secret = "opens"
Attempted(e) ==
    /\ flags.secrets /\ entries[e].secret # "none"
    /\ is_selected(entries[e]) /\ ~flags.match_path /\ slots[e].class # "unreadable"

AttemptedTo(n) == {e \in 1 .. n : Attempted(e)}

(* The audit trail names every entry a profile matched, in order and with its
   outcome, also one the type filter then dropped: as many lines as such entries,
   and the line of each stands behind those of the earlier ones. *)
AuditComplete ==
    stage = "over" =>
        /\ Len(audit) = Cardinality(AttemptedTo(Len(entries)))
        /\ \A e \in AttemptedTo(Len(entries)) :
              audit[Cardinality(AttemptedTo(e))] =
                  [path |-> entries[e].path, outcome |-> IF Opens(entries[e]) THEN "decrypted" ELSE "failed"]

(* What a search of the entry, alone and with everything readable, shows. *)
Before(a, b) ==
    \/ a.offset < b.offset
    \/ a.offset = b.offset /\ a.encoding = "plain" /\ b.encoding # "plain"

Plaintext(entry) == IF Opens(entry) THEN entry.inner ELSE entry.body

(* The places where either pattern is, as far as its hits are counted. *)
PlacesIn(entry, bytes) ==
    {[path |-> entry.path, offset |-> bytes.plain[k], encoding |-> "plain"] :
        k \in DOMAIN FirstHits(bytes.plain)}
    \cup {[path |-> entry.path, offset |-> bytes.base64[k], encoding |-> "base64"] :
              k \in {k \in DOMAIN FirstHits(bytes.base64) : flags.base64}}

Evidence(entry) ==
    IF flags.match_path
    THEN IF entry.path \in PathHits THEN <<[path |-> entry.path, offset |-> 0, encoding |-> "plain"]>>
         ELSE <<>>
    ELSE LET places == PlacesIn(entry, Plaintext(entry))
         IN  InOrder(places, {p \in places \X places : Before(p[1], p[2])})

Filtered(entry) ==
    \/ ~is_selected(entry)
    \/ /\ ~flags.match_path
       /\ accept_type(flags.filter, detect_type(entry.path, Plaintext(entry))) # "search"

Tally(kind) == stats.tally[kind].count

EvidenceOf == [e \in DOMAIN entries |-> Evidence(entries[e])]
FilteredOf == [e \in DOMAIN entries |-> Filtered(entries[e])]
ReportOf == [k \in DOMAIN records |-> [path |-> records[k].path, offset |-> records[k].file_offset,
                                       encoding |-> records[k].encoding]]

(* The parallel search implements the sequential one: in entry order, all of
   an entry's evidence or none of it, and none only for a reason that is
   counted.  Threads, header-first classification and decryption do not show. *)
Sequential == INSTANCE ScanReport WITH
    evidence <- EvidenceOf,
    filtered <- FilteredOf,
    report   <- ReportOf,
    shown    <- Tally("scanned"),
    withheld <- Tally("directory") + Tally("not_included") + Tally("not_path") + Tally("media") + Tally("type"),
    failed   <- Tally("unreadable") + Tally("decrypt_failed")

ImplementsScanReport == Sequential!Spec

(* The progress line never shows more files than there are, and the terminal
   is clean when the results are read: the reporter cannot draw after it. *)
LineHonest ==
    /\ line.done <= line.total
    /\ stage = "over" => line = NoLine /\ reporter \in {"off", "ended"}

(* The search always ends, and its reporter with it. *)
SearchEnds == <>(stage = "over")

=============================================================================
