----------------------------- MODULE GrepDriver -----------------------------
(***************************************************************************)
(* The grep command, cmd/run/grep.rs, with its presets and reports: it     *)
(* opens one source after the other (Sources), searches each and adds up   *)
(* what it finds, until everything is printed and reported at the end.     *)
(* The search of one source, which Search takes apart, is one step here.   *)
(*                                                                         *)
(* A glob is known by the paths it matches and the bundle identifiers it   *)
(* matches.  A container covers a set of paths; of several that cover one, *)
(* the innermost covers the fewest.                                        *)
(***************************************************************************)
EXTENDS Sources, EncodedNeedle, Bags

CONSTANTS
    Paths,      \* names of entries that occur
    Types,      \* detected types: [name, category]
    KnownTypes  \* what --type accepts

VARIABLES
    cli,          \* the arguments, the presets in them once they are applied
    fragment_set, \* BuiltQuery: the base64 fragments, {} without --base64
    records,      \* the matches, or with --count the files' counts
    decryptions,  \* the audit trail
    stats,        \* ScanStats: a counter for each fate, and two bags
    said,         \* what stderr says
    written,      \* what is on disk or stdout, in order: exports, the results, the report
    searched      \* history: of each source its view and what was searched in it

grepVars == <<cli, fragment_set, records, decryptions, stats, said, written, searched>>

EntryFilter == INSTANCE EntryFilter
Out == INSTANCE Reports WITH Absent <- None

Say(what) == said' = Append(said, what)

(* What may become of an entry. *)
Fates == {"directory", "not_included", "not_path", "media", "type", "unreadable", "decrypt_failed", "scanned"}
Counters == Fates \cup {"matched"}

NoStats == [files |-> [c \in Counters |-> 0], not_path |-> EmptyBag, types |-> EmptyBag]

(* Counter by counter; the bags by their keys, which are globs and type names. *)
merge(s, t) ==
    [files |-> [c \in Counters |-> s.files[c] + t.files[c]],
     not_path |-> s.not_path (+) t.not_path, types |-> s.types (+) t.types]

GrepInit ==
    /\ fragment_set = {} /\ records = <<>> /\ decryptions = <<>> /\ stats = NoStats
    /\ said = <<>> /\ written = <<>> /\ searched = <<>>

-----------------------------------------------------------------------------
(* Up to the first source. *)

Switches == {"literal", "match_path", "inspect", "count", "verify", "recursive", "exclude_media"}

(* A switch is on if either sets it; what is listed comes together. *)
apply_preset(args, preset) ==
    [a \in DOMAIN args |->
        CASE a \in Switches -> args[a] \/ preset[a]
          [] a \in {"path", "not_path"} -> args[a] \o preset[a]
          [] a = "types" -> args[a] \cup preset[a]
          [] OTHER -> args[a]]

Loads(preset) == preset # None /\ preset.loads

(* --fast without its file: the list compiled in, which is empty. *)
apply_fast(args) ==
    CASE args.fast = None -> args
      [] args.fast # None /\ args.fast.loads -> apply_preset(args, args.fast)
      [] OTHER -> [args EXCEPT !.exclude_media = TRUE]

apply_presets(args) == apply_fast(IF args.preset = None THEN args ELSE apply_preset(args, args.preset))

ApplyPresets ==
    /\ command = "presets"
    /\ cli.preset # None => cli.preset.loads
    /\ cli' = apply_presets(cli)
    /\ operand' = [operand EXCEPT !.recursive = apply_presets(cli).recursive]
    /\ command' = "query"
    /\ UNCHANGED <<sources, turn, reader, facts, readerVars, fragment_set, records, decryptions, stats,
                   said, written, searched>>

Fails == command' = "failed" /\ UNCHANGED <<operand, sources, turn, reader, facts, readerVars>>
Quietly == UNCHANGED grepVars

PresetFails ==
    /\ command = "presets" /\ cli.preset # None /\ ~cli.preset.loads
    /\ Fails /\ Quietly

(* The text in the bytes of a literal can be encoded, a regex cannot. *)
base64_allowed ==
    cli.base64 => /\ cli.literal /\ ~cli.match_path
                  /\ fragments(cli.pattern, cli.urlsafe) # {}

BuildQuery ==
    /\ command = "query" /\ base64_allowed
    /\ fragment_set' = IF cli.base64 THEN fragments(cli.pattern, cli.urlsafe) ELSE {}
    /\ said' = IF \E f \in fragment_set' : Len(f) < 4 THEN Append(said, [what |-> "short fragments"]) ELSE said
    /\ command' = "resolve"
    /\ UNCHANGED <<operand, sources, turn, reader, facts, readerVars, cli, records, decryptions, stats,
                   written, searched>>

QueryFails == command = "query" /\ ~base64_allowed /\ Fails /\ Quietly

ResolveSources == command = "resolve" /\ Resolve("flags") /\ Quietly

ResolveFails == command = "resolve" /\ ~Resolves /\ Fails /\ Quietly

multi == Len(sources) > 1

validate_flags ==
    /\ cli.types \subseteq KnownTypes
    /\ cli.match_path => ~cli.inspect /\ cli.types = {}

(* Every argument the result depends on, for whoever reads it later. *)
build_run_info ==
    [pattern |-> cli.pattern, literal |-> cli.literal, match_path |-> cli.match_path, inspect |-> cli.inspect,
     archives |-> [n \in DOMAIN sources |-> sources[n].full], path_globs |-> cli.path, not_path_globs |-> cli.not_path,
     types |-> cli.types, exclude_media |-> cli.exclude_media, base64 |-> cli.base64, urlsafe |-> cli.urlsafe]

log_skip_rules(run) ==
    [what |-> "rules", path |-> run.path_globs, not_path |-> run.not_path_globs,
     types |-> run.types, media |-> run.exclude_media]

(* The filters in effect are announced before the first result. *)
AnnounceRules ==
    /\ command = "flags"
    /\ multi => ~cli.sink
    /\ validate_flags
    /\ Say(log_skip_rules(build_run_info))
    /\ command' = "keys"
    /\ UNCHANGED <<operand, sources, turn, reader, facts, readerVars, cli, fragment_set, records, decryptions,
                   stats, written, searched>>

RefuseFlags ==
    /\ command = "flags"
    /\ (multi /\ cli.sink) \/ ~validate_flags
    /\ Fails /\ Quietly

(* build_decryption_context(), the subject of Decryption: keys, none, or a
   profile or a dump that was named and cannot be read. *)
BuildContext ==
    /\ command = "keys" /\ cli.keys # "broken"
    /\ command' = "open"
    /\ UNCHANGED <<operand, sources, turn, reader, facts, readerVars>> /\ Quietly

ContextFails == command = "keys" /\ cli.keys = "broken" /\ Fails /\ Quietly

-----------------------------------------------------------------------------
(* with_searched_source() *)

PathsOf(globs) == [k \in DOMAIN globs |-> globs[k].paths]

filter ==
    [include |-> PathsOf(cli.path), exclude |-> PathsOf(cli.not_path),
     types |-> cli.types, skip_media |-> cli.exclude_media]

(* The app containers of this source, in the order of their directories. *)
Containers == Inside.containers

BundleOf(p) == Containers[p[2]].bundle

(* By bundle, of one bundle by directory, of one container by glob. *)
ExpandsBefore(p, q) ==
    \/ BundleOf(p) < BundleOf(q)
    \/ BundleOf(p) = BundleOf(q) /\ (p[2] < q[2] \/ (p[2] = q[2] /\ p[1] < q[1]))

(* The containers of this source that globs name by their bundle, in order. *)
expand(globs) ==
    LET named == {p \in (DOMAIN globs) \X (DOMAIN Containers) : BundleOf(p) \in globs[p[1]].bundles}
    IN InOrder(named, {pair \in named \X named : ExpandsBefore(pair[1], pair[2])})

Covered(p) == Containers[p[2]].paths

Named(globs) == [k \in DOMAIN expand(globs) |-> Covered(expand(globs)[k])]

(* Mutant: with what the sources before this one were widened by. *)
WidenFurther ==
    LET earlier == {said[k].paths : k \in {j \in DOMAIN said : said[j].what = "widened" /\ said[j].flag = "path"}}
    IN [filter EXCEPT !.include = IF @ = <<>> THEN @ ELSE @ \o Named(cli.path) \o SetToSeq(earlier),
                      !.exclude = @ \o Named(cli.not_path)]

widen_filter_for_apps ==
    [filter EXCEPT !.include = @ \o Named(cli.path), !.exclude = @ \o Named(cli.not_path)]

Widened(flag, globs) ==
    [k \in DOMAIN expand(globs) |->
        [what |-> "widened", flag |-> flag, source |-> turn, paths |-> Covered(expand(globs)[k])]]

(* classify_entry(), by its outcome. *)
Fate(f, e) ==
    LET path == EntryFilter!select(f, e.name) IN
    CASE e.dir -> "directory"
      [] ~e.dir /\ path # "search" -> path
      [] ~e.dir /\ path = "search" /\ cli.match_path -> "scanned"
      [] ~e.dir /\ path = "search" /\ ~cli.match_path /\ ~e.reads -> "unreadable"
      [] ~e.dir /\ path = "search" /\ ~cli.match_path /\ e.reads /\ cli.keys = "some" /\ e.secret = "fails" -> "decrypt_failed"
      [] OTHER -> LET type == EntryFilter!accept_type(f, e.type) IN IF type = "search" THEN "scanned" ELSE type

HitsIn(e) == IF cli.match_path THEN (IF e.path_hit THEN 1 ELSE 0) ELSE e.hits

(* The positions in the view that meet with a fate. *)
Met(f, fate) == {i \in DOMAIN View : Fate(f, View[i]) = fate}
Scanned(f) == Met(f, "scanned")
WithHits(f) == {i \in Scanned(f) : HitsIn(View[i]) > 0}
Matched(f) == Ascending(WithHits(f))

(* Whether the engine took the entry through decryption. *)
Decrypts(f, e) ==
    /\ cli.keys = "some" /\ ~cli.match_path /\ e.secret # "none"
    /\ Fate(f, e) \in {"decrypt_failed", "scanned", "media", "type"}

Decrypted(f) ==
    LET tried == Ascending({i \in DOMAIN View : Decrypts(f, View[i])})
    IN [k \in DOMAIN tried |-> [path |-> View[tried[k]].name, outcome |-> View[tried[k]].secret]]

Tally(f, counter) == Cardinality(IF counter = "matched" THEN WithHits(f) ELSE Met(f, counter))

GlobTally(f) ==
    LET globs(b, e) == IF Fate(f, e) # "not_path" THEN b
                       ELSE b (+) SetToBag({f.exclude[EntryFilter!SkippingGlob(f, e.name)]})
    IN FoldLeft(globs, EmptyBag, View)

TypeTally(f) ==
    LET types(b, e) == IF Fate(f, e) # "scanned" \/ cli.match_path \/ e.type = EntryFilter!Untyped THEN b
                       ELSE b (+) SetToBag({e.type.name})
    IN FoldLeft(types, EmptyBag, View)

(* Mutant: of the sources after the first, what could not be read is not added. *)
StatsOfReadable(f) ==
    [files |-> [c \in Counters |-> IF turn > 1 /\ c = "unreadable" THEN 0 ELSE Tally(f, c)],
     not_path |-> GlobTally(f), types |-> TypeTally(f)]

StatsOf(f) ==
    [files |-> [c \in Counters |-> Tally(f, c)], not_path |-> GlobTally(f), types |-> TypeTally(f)]

(* Longest prefix: the container that covers the path most closely. *)
resolve(name) ==
    LET over == {c \in Range(Containers) : name \in c.paths}
    IN IF over = {} THEN None
       ELSE (CHOOSE c \in over : \A d \in over : Cardinality(c.paths) <= Cardinality(d.paths)).bundle

Source == sources[turn]

Record(e) ==
    IF cli.count
    THEN [path |-> IF multi THEN <<Source.label>> \o e.name ELSE e.name, count |-> HitsIn(e)]
    ELSE [archive_path |-> Source.full, archive |-> IF multi THEN Source.label ELSE None,
          path |-> e.name, bundle_id |-> resolve(e.name), hits |-> HitsIn(e),
          decrypted |-> cli.keys = "some" /\ ~cli.match_path /\ e.secret = "opens"]

Handled(f) == [k \in DOMAIN Matched(f) |-> Record(View[Matched(f)[k]])]

report_verify ==
    IF cli.verify THEN <<[what |-> "verify", source |-> turn, hashed |-> RawBytes]>> ELSE <<>>

Exports == cli.sink /\ ~cli.count

(* More bytes than --max-size: nothing is exported. *)
OverCap(files) == MapThenSumSet(LAMBDA e : e.size, files) > cli.max_size
MatchedFiles(f) == Range([k \in DOMAIN Matched(f) |-> View[Matched(f)[k]] @@ [index |-> Matched(f)[k]]])

SearchSource ==
    LET f == widen_filter_for_apps IN
    /\ command = "serve" /\ cli.name = "grep"
    /\ records' = records \o Handled(f)
    /\ written' = IF Exports /\ ~OverCap(MatchedFiles(f)) THEN Append(written, [what |-> "export"]) ELSE written
    /\ decryptions' = decryptions \o Decrypted(f)
    /\ stats' = merge(stats, StatsOf(f))
    /\ said' = said \o Widened("path", cli.path) \o Widened("not_path", cli.not_path)
                    \o (IF Exports /\ OverCap(MatchedFiles(f)) THEN <<[what |-> "refused"]>> ELSE <<>>)
                    \o report_verify
    /\ searched' = Append(searched, [view |-> View, inside |-> Inside, scanned |-> Scanned(f)])
    /\ command' = IF turn = Len(sources) THEN "emit" ELSE "open"
    /\ Close
    /\ UNCHANGED <<cli, fragment_set>>

(* The export of the matches fails, or is cut short. *)
ExportFails ==
    /\ command = "serve" /\ cli.name = "grep" /\ Exports
    /\ said' = said \o Widened("path", cli.path) \o Widened("not_path", cli.not_path)
    /\ Fails
    /\ UNCHANGED <<cli, fragment_set, records, decryptions, stats, written, searched>>

-----------------------------------------------------------------------------
(* What comes at the end: emit(), the summary, the report. *)

emitted ==
    IF cli.count THEN Out!write_counts(records)
    ELSE Out!write_results(records, cli.format, cli.match_path, build_run_info, stats)

EmitResults ==
    /\ command = "emit" /\ cli.name = "grep"
    /\ written' = Append(written, [what |-> "results", holds |-> emitted])
    /\ command' = "summary"
    /\ UNCHANGED <<operand, sources, turn, reader, facts, readerVars, cli, fragment_set, records, decryptions,
                   stats, said, searched>>

EmitFails == command = "emit" /\ Fails /\ Quietly

Provenance ==
    IF facts = None THEN <<>> ELSE <<[what |-> "backup", source |-> facts.source, default |-> facts.default]>>

Summarise ==
    /\ command = "summary" /\ cli.name = "grep"
    /\ said' = said \o <<[what |-> "statistics"]>> \o Out!report_decryptions(decryptions) \o Provenance
    /\ command' = IF cli.no_report THEN "done" ELSE "report"
    /\ UNCHANGED <<operand, sources, turn, reader, facts, readerVars, cli, fragment_set, records, decryptions,
                   stats, written, searched>>

WriteReport ==
    /\ command = "report"
    /\ written' = Append(written, [what |-> "report",
                                   holds |-> Out!write_scan_report(build_run_info, stats, decryptions, facts)])
    /\ command' = "done"
    /\ UNCHANGED <<operand, sources, turn, reader, facts, readerVars, cli, fragment_set, records, decryptions,
                   stats, said, searched>>

ReportFails == command = "report" /\ Fails /\ Quietly

GrepNext ==
    \/ ApplyPresets \/ PresetFails \/ BuildQuery \/ QueryFails \/ ResolveSources \/ ResolveFails
    \/ AnnounceRules \/ RefuseFlags \/ BuildContext \/ ContextFails \/ SearchSource \/ ExportFails
    \/ EmitResults \/ EmitFails \/ Summarise \/ WriteReport \/ ReportFails
=============================================================================
