------------------------------ MODULE Commands ------------------------------
(***************************************************************************)
(* A command from its arguments to its end: the sources, and above them    *)
(* the driver of grep or of diff.                                          *)
(***************************************************************************)
EXTENDS Comparison

CONSTANTS CommandLines, \* [operand, cli]
          Bytes         \* the bytes a pattern may stand among

(* What the operator may ask. *)
GlobList == Seq([paths : SUBSET Name, bundles : SUBSET Nat])

IsArguments(args) ==
    /\ {"name", "format", "path", "not_path", "types"} \subseteq DOMAIN args
    /\ args.name \in {"grep", "diff"} /\ (args.name = "grep" => {"preset", "fast"} \subseteq DOMAIN args)
    /\ args.format \in {"txt", "csv", "json"}
    /\ args.path \in GlobList /\ args.not_path \in GlobList
    /\ args.name = "grep" => {"base64", "pattern"} \subseteq DOMAIN args /\ (args.base64 => args.pattern \in Seq(Byte))
    /\ args.name = "diff" => "too_long" \in DOMAIN args

IsPreset(preset) == preset # None /\ preset.loads => preset.path \in GlobList /\ preset.not_path \in GlobList

(* A comparison is of two sides, each of one source. *)
IsCommand(o, args) ==
    /\ IsOperand(o) /\ IsArguments(args)
    /\ args.name = "grep" => IsPreset(args.preset) /\ IsPreset(args.fast)
    /\ args.name = "diff" => Len(o.paths) = 2 /\ ~o.recursive

ASSUME CommandAssumption ==
    /\ \A c \in CommandLines : IsCommand(c.operand, c.cli)
    /\ "untyped" \notin KnownTypes
    /\ Bytes \subseteq Byte

vars == <<ownVars, readerVars, grepVars, diffVars>>

Init ==
    /\ \E c \in CommandLines : operand = c.operand /\ cli = c.cli
    /\ command = IF cli.name = "grep" THEN "presets" ELSE "diff"
    /\ SourcesInit /\ GrepInit /\ DiffInit

Next ==
    \/ OpenSource /\ UNCHANGED <<grepVars, diffVars>>
    \/ GrepNext /\ UNCHANGED diffVars
    \/ DiffNext

Spec == Init /\ [][Next]_vars

-----------------------------------------------------------------------------
(* What a flag covers in a source: the paths its globs match, and all of the
   containers whose app they name. *)
Covers(globs, inside, name) ==
    \E k \in DOMAIN globs :
        \/ name \in globs[k].paths
        \/ \E c \in Range(inside.containers) : c.bundle \in globs[k].bundles /\ name \in c.paths

InScope(s, e) ==
    /\ ~e.dir
    /\ cli.path # <<>> => Covers(cli.path, s.inside, e.name)
    /\ ~Covers(cli.not_path, s.inside, e.name)

Sealed(e) == cli.keys = "some" /\ e.secret = "fails"

OfType(e) ==
    IF cli.types = {} THEN ~(cli.exclude_media /\ e.type.category = "media")
    ELSE {e.type.name, e.type.category} \cap cli.types # {}

Wanted(s, e) == InScope(s, e) /\ (cli.match_path \/ (e.reads /\ ~Sealed(e) /\ OfType(e)))

(* In every source exactly those files are searched that the operator's filters
   leave in, an app's name standing for its containers in this source and no
   other; and where a filter reached further than its globs, it was announced:
   widen_filter_for_apps(), with_searched_source(). *)
ScopeExact ==
    \A n \in DOMAIN searched :
        LET s == searched[n] IN
        /\ s.scanned = {i \in DOMAIN s.view : Wanted(s, s.view[i])}
        /\ \A i \in s.scanned :
               cli.path # <<>> =>
                   \/ \E k \in DOMAIN cli.path : s.view[i].name \in cli.path[k].paths
                   \/ \E k \in DOMAIN said : /\ said[k].what = "widened" /\ said[k].source = n
                                             /\ s.view[i].name \in said[k].paths

-----------------------------------------------------------------------------
Hits(e) == IF cli.match_path THEN (IF e.path_hit THEN 1 ELSE 0) ELSE e.hits

(* The app whose container holds a name closest. *)
Owner(s, name) ==
    {c.bundle : c \in {c \in Range(s.inside.containers) :
        name \in c.paths /\ \A d \in Range(s.inside.containers) : name \in d.paths => c.paths \subseteq d.paths}}

(* A line of the results, told of entry e of source n. *)
TellsOf(line, n, e) ==
    LET many == Len(sources) > 1
        labelled == IF many THEN <<sources[n].label>> \o e.name ELSE e.name
        in_app == Owner(searched[n], e.name) \cup {None} IN
    CASE cli.count -> line = [path |-> labelled, count |-> Hits(e)]
      [] ~cli.count /\ cli.format = "txt" -> line.path = labelled /\ (~cli.match_path => {line.app, None} = in_app)
      [] ~cli.count /\ cli.format = "csv" -> line.archive = (IF many THEN sources[n].label ELSE None)
                                             /\ line.path = e.name /\ line.hits = Hits(e)
      [] ~cli.count /\ cli.format = "json" -> line.archive = sources[n].full /\ {line.app, None} = in_app
                                              /\ line.path = e.name /\ line.hits = Hits(e)

(* All that was looked at, source by source, entry by entry. *)
Entries == UNION {{n} \X DOMAIN searched[n].view : n \in DOMAIN searched}
EntryAt(p) == searched[p[1]].view[p[2]]

(* Where the hits are. *)
Places == {p \in Entries : p[2] \in searched[p[1]].scanned /\ Hits(EntryAt(p)) > 0}
PlaceBefore(p, q) == p[1] < q[1] \/ (p[1] = q[1] /\ p[2] < q[2])

Written(what) == {k \in DOMAIN written : written[k].what = what}
Holds(what) == written[Max(Written(what))].holds

(* The results list, in order and to the right archive and app, every place
   with a hit, of every source. *)
LinesTell ==
    Written("results") # {} =>
        LET in_order == InOrder(Places, {p \in Places \X Places : PlaceBefore(p[1], p[2])})
            lines == Holds("results").results
        IN /\ Len(searched) = Len(sources)
           /\ Len(lines) = Len(in_order)
           /\ \A k \in DOMAIN lines : TellsOf(lines[k], in_order[k][1], EntryAt(in_order[k]))

(* What should become of an entry. *)
Standing(s, e) ==
    LET left_out == cli.path # <<>> /\ ~Covers(cli.path, s.inside, e.name)
        unread == InScope(s, e) /\ ~cli.match_path /\ ~e.reads
        opaque == InScope(s, e) /\ ~cli.match_path /\ e.reads /\ Sealed(e) IN
    CASE e.dir -> "directory"
      [] ~e.dir /\ left_out -> "not_included"
      [] ~e.dir /\ ~left_out /\ Covers(cli.not_path, s.inside, e.name) -> "not_path"
      [] unread -> "unreadable"
      [] opaque -> "decrypt_failed"
      [] Wanted(s, e) -> "scanned"
      [] InScope(s, e) /\ ~unread /\ ~opaque /\ ~Wanted(s, e) -> IF cli.types = {} THEN "media" ELSE "type"

Standings(fate) == {p \in Entries : Standing(searched[p[1]], EntryAt(p)) = fate}

(* The totals account for every entry of every source, what nobody could look
   into included, and the audit trail agrees with them. *)
TotalsAccount ==
    Written("results") # {} =>
        /\ \A fate \in Fates : stats.files[fate] = Cardinality(Standings(fate))
        /\ stats.files["matched"] = Cardinality(Places)
        /\ \A k \in DOMAIN said :
               said[k].what = "decryptions" => said[k].failed = stats.files["decrypt_failed"]

(* A report comes after the results, if it is asked for, and repeats what was
   counted; what was to be exported is, or was refused aloud. *)
ReportFollows ==
    /\ Written("results") # {} /\ Exports => Written("export") # {} \/ [what |-> "refused"] \in Range(said)
    /\ Written("report") # {} =>
           Written("results") # {} /\ Holds("report").stats = stats /\ Holds("report").decryptions = decryptions
    /\ command = "done" => Written("results") # {} /\ (cli.no_report <=> Written("report") = {})

(* One backup among the sources, wherever it stands, is announced with the
   password that opened it; of several, the last: BackupProvenance. *)
BackupAnnounced ==
    command = "done" =>
        LET backups == {n \in DOMAIN sources : sources[n].inside.backup # None}
            lines == {k \in DOMAIN said : said[k].what = "backup"}
        IN /\ Cardinality(lines) = (IF backups = {} THEN 0 ELSE 1)
           /\ \A k \in lines : /\ said[k].source = Max(backups)
                               /\ said[k].default = sources[Max(backups)].inside.backup.default
           /\ Written("report") # {} => (Holds("report").backup = None <=> backups = {})

(* A command that ends well has told all it found, of every source, and to the
   right archive and app; its totals account for every entry of every source;
   a report exists only once the results are out; and a backup is announced:
   run_grep(), ScanStats::merge(). *)
ReportTellsAll ==
    cli.name = "grep" => LinesTell /\ TotalsAccount /\ ReportFollows /\ BackupAnnounced

-----------------------------------------------------------------------------
Around == BoundedSeq(Bytes, 2)

(* Of a literal of two bytes or more, whatever stands before and after it, its
   base64 text holds one of the fragments; of a single byte it may not, and the
   operator is warned: fragments(). *)
EncodedFound ==
    command = "resolve" /\ cli.base64 =>
        IF Len(cli.pattern) >= 2
        THEN \A before, after \in Around : \E f \in fragment_set :
                 Occurs(f, encode_no_pad(before \o cli.pattern \o after, cli.urlsafe))
        ELSE \E k \in DOMAIN said : said[k].what = "short fragments"

-----------------------------------------------------------------------------
(* What a side holds in the end: of two entries with one name, the last. *)
Held(view) ==
    LET chosen == {i \in DOMAIN view : ~view[i].dir /\ EntryFilter!select(filter, view[i].name) = "search"}
    IN {[path |-> view[i].name, content |-> view[i].content] :
           i \in {i \in chosen : \A j \in chosen : j > i => view[j].name # view[i].name}}

Gone == {verdicts[k].path : k \in {j \in DOMAIN verdicts : verdicts[j].change = "removed"}}

PathsIn(held) == {f.path : f \in held}
Except(held, names) == {f \in held : f.path \notin names}

(* A with what was removed taken out, and what was exported of B put in. *)
Rebuilt ==
    {f \in Held(side_a) : f.path \notin Gone /\ \A x \in exported : x.path # f.path}
    \cup {x \in exported : x.path \in PathsIn(Held(View))}

(* What is new or different in B, and would have too long a path in the export. *)
LeftOut == PathsIn(Held(View) \ Held(side_a)) \cap cli.too_long

(* Each file that is left out is named on stderr, and no other. *)
LeftOutAloud ==
    /\ \A n \in LeftOut : \E k \in DOMAIN said : said[k].what = "too long" /\ n \in said[k].paths
    /\ \A k \in DOMAIN said : said[k].what = "too long" => said[k].paths \subseteq LeftOut

(* An exact comparison says all there is to say: take from A what was removed,
   put in what was exported, and B is there, but for the files that were named
   as having too long a path; what else was exported is a sidecar of B's; every
   name has one verdict, in order, before anything is said of any; and what is
   not exported for its size is refused as a whole and aloud: diff_sources(),
   export_changes(), write_one(), report_skipped_too_long(). *)
ChangesRebuildB ==
    cli.name = "diff" =>
        /\ command = "done" /\ mode = "hash" /\ cli.sink /\ [what |-> "refused"] \notin Range(said) =>
               /\ Except(Rebuilt, LeftOut) = Except(Held(View), LeftOut)
               /\ LeftOutAloud
               /\ \A x \in exported :
                      x.path \in PathsIn(Held(View)) \/ \E i \in DOMAIN View : x.path \in View[i].sidecars
        /\ Written("results") # {} =>
               LET names == {f.path : f \in Held(side_a) \cup Held(View)} IN
               /\ {verdicts[k].path : k \in DOMAIN verdicts} = names
               /\ Len(verdicts) = Cardinality(names)
               /\ \A n \in names :
                      \/ \E k \in DOMAIN Holds("results").files : Holds("results").files[k].path = n
                      \/ /\ cli.format = "txt"
                         /\ \A side \in {side_a, View} : \E f \in Held(side) : f.path = n

=============================================================================
