----------------------------- MODULE ReportProofs -----------------------------
(***************************************************************************)
(* For every command line over files that are written as IsTar, IsZip and  *)
(* IsTree tell: what a search ends with says all that it met.  Its totals  *)
(* account for every entry of every source, its records tell the places    *)
(* of the needle, and what failed is announced before the report.          *)
(***************************************************************************)
EXTENDS CommandProofs

-----------------------------------------------------------------------------
(* The report of a search. *)

(* What only the end of a search says. *)
Closing == {"decryptions", "backup"}

(* What is said grows, by nothing that only the end says. *)
Adds(s, t) == Longer(s, t) /\ \A k \in DOMAIN t : k \notin DOMAIN s => t[k].what \notin Closing

Proceeds ==
    /\ UNCHANGED <<sources, turn, facts, cli, records, decryptions, stats, written, searched>>
    /\ Adds(said, said')
    /\ command' = command \/ <<command, command'>> \in {<<"query", "resolve">>, <<"flags", "keys">>, <<"keys", "open">>}

Stops ==
    /\ UNCHANGED <<sources, turn, facts, cli, records, decryptions, stats, written, searched>>
    /\ Adds(said, said')
    /\ command' = "failed" /\ command # "done"

(* The steps of a search. *)
GrepStep ==
    \/ ApplyPresets \/ ResolveSources \/ (Recognise /\ UNCHANGED grepVars)
    \/ SearchSource \/ EmitResults \/ Summarise \/ WriteReport
    \/ Proceeds \/ Stops

LEMMA AddsSame == ASSUME NEW s, IsSeq(s) PROVE Adds(s, s)
BY DEF Adds, Longer

LEMMA AddsMore ==
    ASSUME NEW s, NEW t, Adds(s, t), NEW u, IsSeq(u), \A k \in DOMAIN u : u[k].what \notin Closing
    PROVE  Adds(s, t \o u)
PROOF
<1>1. Longer(s, t) /\ IsSeq(t)
    BY DEF Adds, Longer
<1>2. /\ Longer(t, t \o u)
      /\ Len(t) \in Nat /\ DOMAIN t = 1 .. Len(t)
      /\ Len(u) \in Nat /\ DOMAIN u = 1 .. Len(u)
      /\ DOMAIN (t \o u) = 1 .. Len(t) + Len(u)
      /\ \A k \in DOMAIN u : (t \o u)[Len(t) + k] = u[k]
    BY <1>1, ConcatLonger
<1> PICK v : v = t \o u
    OBVIOUS
<1>3. ASSUME NEW k \in DOMAIN v, k \notin DOMAIN s PROVE v[k].what \notin Closing
    <2>1. CASE k \in DOMAIN t
        BY <1>2, <1>3, <2>1 DEF Adds, Longer
    <2>2. CASE k \notin DOMAIN t
        <3>1. k - Len(t) \in DOMAIN u /\ k = Len(t) + (k - Len(t))
            BY <1>2, <2>2
        <3> QED
            BY <1>2, <3>1
    <2> QED
        BY <2>1, <2>2
<1> QED
    BY <1>1, <1>2, <1>3, LongerStill DEF Adds

LEMMA AddsOne ==
    ASSUME NEW s, IsSeq(s), NEW x, x.what \notin Closing
    PROVE  Adds(s, Append(s, x))
BY AppendLonger DEF Adds

(* What is said at the end of a source, before anything of its export. *)
LEMMA WidenedAdds ==
    ASSUME IsInside(Inside), IsArguments(cli), IsSeq(said)
    PROVE  Adds(said, said \o Widened("path", cli.path) \o Widened("not_path", cli.not_path))
PROOF
<1> DEFINE a == Widened("path", cli.path)
           b == Widened("not_path", cli.not_path)
<1>1. cli.path \in GlobList /\ cli.not_path \in GlobList
    BY DEF IsArguments
<1>2. /\ IsSeq(a) /\ \A k \in DOMAIN a : a[k].what = "widened"
      /\ IsSeq(b) /\ \A k \in DOMAIN b : b[k].what = "widened"
    <2>1. ASSUME NEW globs \in GlobList, NEW flag
          PROVE  IsSeq(Widened(flag, globs)) /\ \A k \in DOMAIN Widened(flag, globs) : Widened(flag, globs)[k].what = "widened"
        <3>1. /\ IsSeq(Widened(flag, globs))
              /\ DOMAIN Widened(flag, globs) = DOMAIN Named(globs)
              /\ \A k \in DOMAIN Named(globs) : Widened(flag, globs)[k] =
                     [what |-> "widened", flag |-> flag, source |-> turn, paths |-> Named(globs)[k]]
            BY WidenedSaid
        <3> QED
            BY <3>1
    <2> QED
        BY <1>1, <2>1
<1> HIDE DEF a, b
<1>3. Adds(said, said \o a)
    BY <1>2, AddsSame, AddsMore DEF Closing
<1>4. Adds(said, (said \o a) \o b)
    BY <1>2, <1>3, AddsMore DEF Closing
<1> QED
    BY <1>4 DEF a, b

LEMMA SearchAdds ==
    ASSUME WellSourced, IsSeq(said), SearchSource
    PROVE  /\ Adds(said, said')
           /\ Exports => \/ [what |-> "refused"] \in Range(said')
                         \/ written' = Append(written, [what |-> "export"])
PROOF
<1> DEFINE widened == said \o Widened("path", cli.path) \o Widened("not_path", cli.not_path)
           refused == IF Exports /\ OverCap(MatchedFiles(widen_filter_for_apps))
                      THEN <<[what |-> "refused"]>> ELSE <<>>
<1>1. IsInside(Inside) /\ IsArguments(cli)
    BY InsideOk DEF SearchSource
<1>2. Adds(said, widened)
    BY <1>1, WidenedAdds
<1>3. said' = (widened \o refused) \o report_verify
    BY DEF SearchSource
<1>4. /\ IsSeq(refused) /\ \A k \in DOMAIN refused : refused[k].what \notin Closing
      /\ IsSeq(report_verify) /\ \A k \in DOMAIN report_verify : report_verify[k].what \notin Closing
    BY SingleSeq DEF report_verify, Closing
<1>5. Exports => \/ refused = <<[what |-> "refused"]>>
                 \/ written' = Append(written, [what |-> "export"])
    BY DEF SearchSource
<1> HIDE DEF widened, refused
<1>6. Adds(said, widened \o refused)
    BY <1>2, <1>4, AddsMore
<1>7. Adds(said, said')
    BY <1>3, <1>4, <1>6, AddsMore
<1>8. ASSUME refused = <<[what |-> "refused"]>> PROVE [what |-> "refused"] \in Range(said')
    <2>1. 1 \in DOMAIN refused /\ refused[1] = [what |-> "refused"]
        BY <1>8
    <2>2. Len(widened) + 1 \in DOMAIN (widened \o refused)
          /\ (widened \o refused)[Len(widened) + 1] = [what |-> "refused"]
        <3>1. IsSeq(widened) /\ IsSeq(refused)
            BY <1>2, <1>4 DEF Adds, Longer
        <3>2. \A k \in DOMAIN refused : Len(widened) + k \in DOMAIN (widened \o refused)
                                        /\ (widened \o refused)[Len(widened) + k] = refused[k]
            BY <3>1, ConcatLonger
        <3> QED
            BY <2>1, <3>2
    <2>3. Longer(widened \o refused, said')
        <3>1. IsSeq(widened \o refused) /\ IsSeq(report_verify)
            BY <1>4, <1>6 DEF Adds, Longer
        <3>2. Longer(widened \o refused, (widened \o refused) \o report_verify)
            BY <3>1, ConcatLonger
        <3> QED
            BY <1>3, <3>2
    <2> PICK n : n = Len(widened) + 1
        OBVIOUS
    <2>4. n \in DOMAIN said' /\ said'[n] = [what |-> "refused"]
        BY <2>2, <2>3 DEF Longer
    <2> QED
        BY <2>4 DEF Range
<1> QED
    BY <1>5, <1>7, <1>8

LEMMA GrepSteps ==
    ASSUME WellSourced, IsSeq(said), cli.name = "grep", [Next]_vars
    PROVE  GrepStep
PROOF
<1>0. Adds(said, said)
    BY AddsSame
<1>w. IsArguments(cli) /\ command \in Stages(cli.name)
    BY DEF WellSourced
<1>1. CASE OpenSource /\ UNCHANGED <<grepVars, diffVars>>
    <2>1. CASE OpenTar \/ OpenArchive \/ OpenFolder
        <3>1. Proceeds
            BY <1>0, <1>1, <2>1 DEF OpenTar, OpenArchive, OpenFolder, Opening, Proceeds, grepVars
        <3> QED
            BY <3>1 DEF GrepStep
    <2>2. CASE ReadTar \/ ReadZip \/ ScanFolder
        <3>1. Proceeds
            BY <1>0, <1>1, <2>2 DEF ReadTar, ReadZip, ScanFolder, Proceeds, ownVars, grepVars
        <3> QED
            BY <3>1 DEF GrepStep
    <2>3. CASE SourceFails \/ UnlockFails
        <3>1. Stops
            BY <1>0, <1>1, <2>3 DEF SourceFails, UnlockFails, Stops, grepVars
        <3> QED
            BY <3>1 DEF GrepStep
    <2>4. CASE Recognise
        BY <1>1, <2>4 DEF GrepStep
    <2> QED
        BY <1>1, <2>1, <2>2, <2>3, <2>4 DEF OpenSource
<1>2. CASE GrepNext /\ UNCHANGED diffVars
    <2>1. CASE ApplyPresets \/ ResolveSources \/ SearchSource \/ EmitResults \/ Summarise \/ WriteReport
        BY <2>1 DEF GrepStep
    <2>2. CASE BuildQuery
        <3>1. Adds(said, said')
            BY <1>0, <2>2, AddsOne DEF BuildQuery, Closing
        <3>2. Proceeds
            BY <2>2, <3>1 DEF BuildQuery, Proceeds
        <3> QED
            BY <3>2 DEF GrepStep
    <2>3. CASE AnnounceRules
        <3>1. Adds(said, said')
            BY <2>3, AddsOne DEF AnnounceRules, Say, log_skip_rules, Closing
        <3>2. Proceeds
            BY <2>3, <3>1 DEF AnnounceRules, Proceeds
        <3> QED
            BY <3>2 DEF GrepStep
    <2>4. CASE BuildContext
        <3>1. Proceeds
            BY <1>0, <2>4 DEF BuildContext, Quietly, Proceeds, grepVars
        <3> QED
            BY <3>1 DEF GrepStep
    <2>5. CASE PresetFails \/ QueryFails \/ ResolveFails \/ RefuseFlags \/ ContextFails \/ EmitFails \/ ReportFails
        <3>1. Stops
            BY <1>0, <2>5 DEF PresetFails, QueryFails, ResolveFails, RefuseFlags, ContextFails, EmitFails,
                        ReportFails, Fails, Quietly, Stops, grepVars
        <3> QED
            BY <3>1 DEF GrepStep
    <2>6. CASE ExportFails
        <3>1. IsInside(Inside)
            BY <2>6, InsideOk DEF ExportFails
        <3>2. Adds(said, said')
            BY <1>w, <2>6, <3>1, WidenedAdds DEF ExportFails
        <3>3. Stops
            BY <2>6, <3>2 DEF ExportFails, Fails, Stops
        <3> QED
            BY <3>3 DEF GrepStep
    <2> QED
        BY <1>2, <2>1, <2>2, <2>3, <2>4, <2>5, <2>6 DEF GrepNext
<1>3. CASE DiffNext
    <2>1. CASE SideRefused
        <3>1. Stops
            BY <1>0, <2>1 DEF SideRefused, Fails, Quietly, Stops, grepVars
        <3> QED
            BY <3>1 DEF GrepStep
    <2>2. command \notin {"diff", "compare", "changes"} /\ cli.name # "diff"
        BY <1>w DEF Stages
    <2> QED
        BY <1>3, <2>1, <2>2 DEF DiffNext, RejectUnsupported, OpenSides, KeepSideA, BeginCompare, ComparePath, CompareFails,
                    EmitDiff, EmitDiffFails, ExportChanges, ExportRefused, ExportChangesFails
<1>4. CASE UNCHANGED vars
    <2>1. Proceeds
        BY <1>0, <1>4 DEF vars, ownVars, grepVars, Proceeds
    <2> QED
        BY <2>1 DEF GrepStep
<1> QED
    BY <1>1, <1>2, <1>3, <1>4 DEF Next

-----------------------------------------------------------------------------
(* Every source is searched in its turn, as it was resolved. *)
SearchedAs(n, s) ==
    /\ n \in DOMAIN sources /\ IsSource(sources[n]) /\ s.inside = sources[n].inside
    /\ \E m \in Nat : DOMAIN s.view = 1 .. m

Ending == {"emit", "summary", "report", "done"}

SearchedInv ==
    cli.name = "grep" =>
        /\ command \in {"flags", "keys"} => Len(sources) > 0
        /\ command \in {"open", "serve"} => turn <= Len(sources)
        /\ command \in Ending =>
               turn = Len(sources) + 1 /\ Len(searched) = Len(sources) /\ Len(sources) > 0
        /\ \A n \in DOMAIN searched : SearchedAs(n, searched[n])

(* What a search is left with when one source after the other is done. *)
Appended(s) ==
    /\ IsSeq(searched') /\ DOMAIN searched' = 1 .. Len(searched) + 1 /\ Len(searched) \in Nat
    /\ DOMAIN searched = 1 .. Len(searched) /\ Len(searched') = Len(searched) + 1
    /\ \A n \in DOMAIN searched : searched'[n] = searched[n]
    /\ searched'[Len(searched) + 1] = s /\ turn = Len(searched) + 1

LEMMA SearchAppends ==
    ASSUME ScopeInv, SearchSource
    PROVE  Appended([view |-> View, inside |-> Inside, scanned |-> Scanned(widen_filter_for_apps)])
PROOF
<1> PICK s : s = [view |-> View, inside |-> Inside, scanned |-> Scanned(widen_filter_for_apps)]
    OBVIOUS
<1>1. searched' = Append(searched, s) /\ command = "serve" /\ cli.name = "grep"
    BY DEF SearchSource
<1>2. turn = Len(searched) + 1 /\ IsSeq(searched)
    BY <1>1 DEF ScopeInv
<1>3. /\ IsSeq(searched') /\ DOMAIN searched' = 1 .. Len(searched) + 1 /\ Len(searched) \in Nat
      /\ DOMAIN searched = 1 .. Len(searched) /\ Len(searched') = Len(searched) + 1
      /\ \A n \in DOMAIN searched : searched'[n] = searched[n]
      /\ searched'[Len(searched) + 1] = s
    BY <1>1, <1>2, AppendLonger DEF Longer
<1> QED
    BY <1>2, <1>3 DEF Appended

LEMMA NameStays == WellSourced /\ [Next]_vars => cli'.name = cli.name
PROOF
<1> SUFFICES ASSUME WellSourced, [Next]_vars PROVE cli'.name = cli.name
    OBVIOUS
<1>1. OwnStep
    BY OwnSteps
<1>2. CASE ApplyPresets
    BY <1>2, PresetsOk
<1>3. CASE ~ApplyPresets
    <2>1. CASE SearchSource \/ KeepSideA
        BY <2>1 DEF SearchSource, KeepSideA, Quietly, grepVars
    <2>2. CASE OpenSides \/ Stays
        BY <2>2 DEF OpenSides, Report, Stays
    <2> QED
        BY <1>1, <1>3, <2>1, <2>2 DEF OwnStep
<1> QED
    BY <1>2, <1>3

LEMMA SearchedStep ==
    ASSUME WellSourced, WellSourced', ScopeInv, SearchedInv, command = "serve" => Shows(View), [Next]_vars
    PROVE  SearchedInv'
PROOF
<1> SUFFICES ASSUME cli'.name = "grep" PROVE SearchedInv'
    BY DEF SearchedInv
<1>1. cli.name = "grep"
    BY NameStays
<1>2. GrepStep
    BY <1>1, GrepSteps DEF ScopeInv
<1>3. Len(sources') \in Nat /\ (sources' # <<>> => Len(sources') > 0)
    <2>1. sources' \in Seq(Range(sources'))
        BY DEF WellSourced
    <2> QED
        BY <2>1
<1>4. CASE ApplyPresets
    BY <1>4 DEF ApplyPresets, SearchedInv, ScopeInv, Early, Ending
<1>5. CASE ResolveSources
    <2>1. searched' = searched /\ searched = <<>> /\ command' = "flags" /\ sources' = resolve_sources /\ resolve_sources # <<>>
        BY <1>5 DEF ResolveSources, Resolve, Resolves, Quietly, grepVars, ScopeInv, Early
    <2> QED
        BY <1>3, <2>1 DEF SearchedInv, Ending
<1>6. ASSUME UNCHANGED <<sources, turn, searched>>, command' = command \/ <<command, command'>> \in
              {<<"query", "resolve">>, <<"flags", "keys">>, <<"keys", "open">>, <<"open", "serve">>, <<"emit", "summary">>,
               <<"summary", "done">>, <<"summary", "report">>, <<"report", "done">>} \/ command' = "failed"
      PROVE  SearchedInv'
    <2>1. \A n \in DOMAIN searched' : SearchedAs(n, searched[n])' <=> SearchedAs(n, searched[n])
        BY <1>6 DEF SearchedAs, IsSource
    <2>2. command = "keys" => turn = 1
        BY DEF WellSourced, Early
    <2> QED
        BY <1>1, <1>6, <2>1, <2>2 DEF SearchedInv, Ending, SearchedAs, IsSource
<1>7. CASE Recognise /\ UNCHANGED grepVars
    BY <1>6, <1>7 DEF Recognise, grepVars
<1>8. CASE EmitResults \/ WriteReport
    BY <1>6, <1>8 DEF EmitResults, WriteReport
<1>9. CASE Summarise
    BY <1>6, <1>9 DEF Summarise
<1>10. CASE Proceeds \/ Stops
    BY <1>6, <1>10 DEF Proceeds, Stops
<1>11. CASE SearchSource
    <2> PICK s : s = [view |-> View, inside |-> Inside, scanned |-> Scanned(widen_filter_for_apps)]
        OBVIOUS
    <2>1. Appended(s)
        BY <1>11, SearchAppends
    <2>2. /\ sources' = sources /\ turn' = turn + 1 /\ command = "serve"
          /\ command' = IF turn = Len(sources) THEN "emit" ELSE "open"
        BY <1>11 DEF SearchSource, Close
    <2>3. turn <= Len(sources) /\ turn \in Nat \ {0} /\ Len(sources) \in Nat
        BY <1>1, <1>3, <2>2 DEF SearchedInv, WellSourced
    <2>4. SearchedAs(turn, s)
        <3>1. turn \in DOMAIN sources /\ IsSource(sources[turn]) /\ s.inside = sources[turn].inside
            BY <2>2, InsideOk DEF Inside
        <3>2. s.view = View /\ IsSeq(View)
            BY <2>2 DEF Shows, Names
        <3>3. Len(View) \in Nat /\ DOMAIN View = 1 .. Len(View)
            BY <3>2 DEF IsSeq
        <3> QED
            BY <3>1, <3>2, <3>3 DEF SearchedAs
    <2>5. ASSUME NEW n \in DOMAIN searched' PROVE \E x : x = searched'[n] /\ SearchedAs(n, x)
        <3>1. CASE n = turn
            BY <2>1, <2>4, <3>1 DEF Appended
        <3>2. CASE n # turn
            <4>1. n \in DOMAIN searched /\ searched'[n] = searched[n]
                BY <2>1, <3>2 DEF Appended
            <4> QED
                BY <1>1, <4>1 DEF SearchedInv
        <3> QED
            BY <3>1, <3>2
    <2>6. ASSUME NEW n \in DOMAIN searched' PROVE SearchedAs(n, searched[n])'
        BY <2>2, <2>5 DEF SearchedAs, IsSource
    <2>7. command' \in Ending => turn' = Len(sources') + 1 /\ Len(searched') = Len(sources') /\ Len(sources') > 0
        BY <2>1, <2>2, <2>3 DEF Ending, Appended
    <2>8. command' \in {"open", "serve"} => turn' <= Len(sources')
        BY <2>2, <2>3
    <2> QED
        BY <2>2, <2>6, <2>7, <2>8 DEF SearchedInv
<1> QED
    BY <1>2, <1>4, <1>5, <1>7, <1>8, <1>9, <1>10, <1>11 DEF GrepStep

-----------------------------------------------------------------------------
(* The results are written once, and the report once and after them. *)
Only(what, x) == \E k : Written(what) = {k} /\ written[k].holds = x

Reporting == Out!write_scan_report(build_run_info, stats, decryptions, facts)

Refused == [what |-> "refused"] \in Range(said)

WrittenInv ==
    /\ IsSeq(written)
    /\ cli.name = "grep" =>
        /\ Written("results") # {} =>
               /\ Only("results", emitted) /\ Len(searched) = Len(sources) /\ Len(sources) > 0
               /\ command \in {"summary", "report", "done", "failed"}
        /\ command \in {"summary", "report", "done"} => Written("results") # {}
        /\ Written("report") # {} => command = "done" /\ ~cli.no_report /\ Only("report", Reporting)
        /\ command = "report" => ~cli.no_report
        /\ command = "done" /\ ~cli.no_report => Written("report") # {}
        /\ Exports /\ Len(searched) > 0 => Written("export") # {} \/ Refused

LEMMA WrittenAppend ==
    ASSUME IsSeq(written), NEW x, written' = Append(written, x)
    PROVE  /\ IsSeq(written')
           /\ Len(written) + 1 \notin DOMAIN written
           /\ written'[Len(written) + 1] = x
           /\ \A k \in DOMAIN written : written'[k] = written[k]
           /\ \A what : Written(what)' = Written(what) \cup (IF x.what = what THEN {Len(written) + 1} ELSE {})
PROOF
<1>1. /\ Longer(written, written')
      /\ DOMAIN written' = 1 .. Len(written) + 1 /\ Len(written) \in Nat /\ DOMAIN written = 1 .. Len(written)
      /\ written'[Len(written) + 1] = x
    BY AppendLonger
<1>2. /\ IsSeq(written') /\ \A k \in DOMAIN written : written'[k] = written[k]
      /\ Len(written) + 1 \notin DOMAIN written
      /\ \A k : k \in DOMAIN written' <=> k \in DOMAIN written \/ k = Len(written) + 1
    BY <1>1 DEF Longer
<1>3. ASSUME NEW what
      PROVE  Written(what)' = Written(what) \cup (IF x.what = what THEN {Len(written) + 1} ELSE {})
    BY <1>1, <1>2 DEF Written
<1> QED
    BY <1>1, <1>2, <1>3

LEMMA EmittedStays ==
    ASSUME UNCHANGED <<sources, cli, records, stats>>
    PROVE  emitted' = emitted /\ build_run_info' = build_run_info
PROOF
<1>1. build_run_info' = build_run_info
    BY DEF build_run_info
<1> QED
    BY <1>1 DEF emitted

LEMMA RefusedStays == ASSUME Longer(said, said'), Refused PROVE Refused'
BY DEF Refused, Longer, Range

(* What is counted, found and written stays; the command moves on. *)
LEMMA WrittenStays ==
    ASSUME WrittenInv, cli.name = "grep", Longer(said, said'),
           UNCHANGED <<sources, facts, cli, records, decryptions, stats, written, searched>>,
           \/ command' = command
           \/ command' = "failed" /\ command # "done"
           \/ {command, command'} \cap {"summary", "report", "done", "failed"} = {}
    PROVE  WrittenInv'
PROOF
<1>1. emitted' = emitted /\ build_run_info' = build_run_info
    BY EmittedStays
<1>2. \A what : Written(what)' = Written(what)
    BY DEF Written
<1>3. Reporting' = Reporting
    BY <1>1 DEF Reporting
<1>4. /\ Only("results", emitted) => Only("results", emitted)'
      /\ Only("report", Reporting) => Only("report", Reporting)'
    BY <1>1, <1>2, <1>3 DEF Only
<1>5. (Refused => Refused') /\ Exports' = Exports
    BY RefusedStays DEF Exports
<1>6. command = "done" => command' # "failed" \/ command' = command
    OBVIOUS
<1> QED
    BY <1>2, <1>4, <1>5, <1>6 DEF WrittenInv

LEMMA WrittenStep ==
    ASSUME WellSourced, ScopeInv, SearchedInv, WrittenInv, cli.name = "grep", [Next]_vars
    PROVE  WrittenInv'
PROOF
<1>1. GrepStep
    BY GrepSteps DEF ScopeInv
<1>2. Longer(said, said')
    BY SaidGrows DEF ScopeInv
<1>3. CASE ApplyPresets
    <2>1. written' = written /\ searched' = <<>> /\ command' = "query" /\ command = "presets" /\ cli'.name = "grep"
        BY <1>3, PresetsOk DEF ApplyPresets, ScopeInv, Early
    <2>2. \A what : Written(what)' = Written(what)
        BY <2>1 DEF Written
    <2> QED
        BY <2>1, <2>2 DEF WrittenInv
<1>4. CASE ResolveSources
    <2>1. /\ UNCHANGED <<cli, written, searched>> /\ searched = <<>> /\ command' = "flags" /\ command = "resolve"
        BY <1>4 DEF ResolveSources, Resolve, Quietly, grepVars, ScopeInv, Early
    <2>2. \A what : Written(what)' = Written(what)
        BY <2>1 DEF Written
    <2> QED
        BY <2>1, <2>2 DEF WrittenInv
<1>5. CASE Recognise /\ UNCHANGED grepVars
    <2>1. UNCHANGED <<sources, cli, records, decryptions, stats, written, searched>>
          /\ command = "open" /\ command' = "serve"
        BY <1>5 DEF Recognise, grepVars
    <2>2. \A what : Written(what)' = Written(what)
        BY <2>1 DEF Written
    <2>3. (Refused => Refused') /\ Exports' = Exports
        BY <1>2, <2>1, RefusedStays DEF Exports
    <2> QED
        BY <2>1, <2>2, <2>3 DEF WrittenInv
<1>6. CASE SearchSource
    <2>1. command = "serve" /\ command' \in {"emit", "open"} /\ cli' = cli
        BY <1>6 DEF SearchSource
    <2>2. Written("results") = {} /\ Written("report") = {}
        BY <2>1 DEF WrittenInv
    <2>3. Exports' = Exports
        BY <2>1 DEF Exports
    <2>4. Exports => Refused' \/ written' = Append(written, [what |-> "export"])
        BY <1>6, SearchAdds DEF Refused, ScopeInv
    <2>5. CASE written' = written
        <3>1. \A what : Written(what)' = Written(what)
            BY <2>5 DEF Written
        <3>2. \A x : written' # Append(written, x)
            <4>1. \A x : Len(Append(written, x)) # Len(written)
                BY AppendLonger DEF WrittenInv
            <4> QED
                BY <2>5, <4>1
        <3> QED
            BY <2>1, <2>2, <2>3, <2>4, <2>5, <3>1, <3>2 DEF WrittenInv
    <2>6. CASE written' = Append(written, [what |-> "export"])
        <3> PICK x : x = [what |-> "export"]
            OBVIOUS
        <3>1. IsSeq(written') /\ \A what : Written(what)' = Written(what) \cup (IF x.what = what THEN {Len(written) + 1} ELSE {})
            BY <2>6, WrittenAppend DEF WrittenInv
        <3>2. Written("results")' = {} /\ Written("report")' = {} /\ Written("export")' # {}
            BY <2>2, <3>1
        <3> QED
            BY <2>1, <3>1, <3>2 DEF WrittenInv
    <2> QED
        BY <1>6, <2>5, <2>6 DEF SearchSource
<1>7. CASE EmitResults
    <2> PICK x : x = [what |-> "results", holds |-> emitted]
        OBVIOUS
    <2>1. /\ written' = Append(written, x) /\ command = "emit" /\ command' = "summary"
          /\ UNCHANGED <<sources, facts, cli, records, decryptions, stats, searched>>
        BY <1>7 DEF EmitResults
    <2>2. /\ IsSeq(written') /\ \A what : Written(what)' = Written(what) \cup (IF x.what = what THEN {Len(written) + 1} ELSE {})
          /\ written'[Len(written) + 1] = x
        BY <2>1, WrittenAppend DEF WrittenInv
    <2>3. Written("results") = {} /\ Written("report") = {}
        BY <2>1 DEF WrittenInv
    <2>4. /\ Written("results")' = {Len(written) + 1} /\ Written("report")' = {}
          /\ Written("export")' = Written("export")
        <3>0. x.what = "results"
            OBVIOUS
        <3>1. Written("results")' = Written("results") \cup {Len(written) + 1}
            BY <2>2, <3>0
        <3>2. ASSUME NEW what, what # "results" PROVE Written(what)' = Written(what)
            BY <2>2, <3>0, <3>2
        <3>3. Written("report")' = Written("report")
            BY <3>2
        <3>4. Written("export")' = Written("export")
            BY <3>2
        <3> QED
            BY <2>3, <3>1, <3>3, <3>4
    <2>5. emitted' = emitted
        BY <2>1, EmittedStays
    <2>6. Only("results", emitted)'
        BY <2>2, <2>4, <2>5 DEF Only
    <2>7. (Refused => Refused') /\ Exports' = Exports
        BY <1>2, <2>1, RefusedStays DEF Exports
    <2>8. Len(searched) = Len(sources) /\ Len(sources) > 0
        BY <2>1 DEF SearchedInv, Ending
    <2> QED
        BY <2>1, <2>2, <2>4, <2>6, <2>7, <2>8 DEF WrittenInv
<1>8. CASE Summarise
    <2>1. /\ command = "summary" /\ command' = IF cli.no_report THEN "done" ELSE "report"
          /\ UNCHANGED <<sources, facts, cli, records, decryptions, stats, written, searched>>
        BY <1>8 DEF Summarise
    <2>2. emitted' = emitted /\ \A what : Written(what)' = Written(what)
        BY <2>1, EmittedStays DEF Written
    <2>3. Only("results", emitted) => Only("results", emitted)'
        BY <2>1, <2>2 DEF Only
    <2>4. Written("report") = {}
        BY <2>1 DEF WrittenInv
    <2>5. (Refused => Refused') /\ Exports' = Exports
        BY <1>2, <2>1, RefusedStays DEF Exports
    <2> QED
        BY <2>1, <2>2, <2>3, <2>4, <2>5 DEF WrittenInv
<1>9. CASE WriteReport
    <2> PICK x : x = [what |-> "report", holds |-> Reporting]
        OBVIOUS
    <2>1. /\ written' = Append(written, x) /\ command = "report" /\ command' = "done"
          /\ UNCHANGED <<sources, facts, cli, records, decryptions, stats, searched>>
        BY <1>9 DEF WriteReport, Reporting
    <2>2. /\ IsSeq(written') /\ \A what : Written(what)' = Written(what) \cup (IF x.what = what THEN {Len(written) + 1} ELSE {})
          /\ written'[Len(written) + 1] = x /\ \A k \in DOMAIN written : written'[k] = written[k]
        BY <2>1, WrittenAppend DEF WrittenInv
    <2>3. Written("report") = {} /\ Written("results") # {} /\ Only("results", emitted) /\ ~cli.no_report
        BY <2>1 DEF WrittenInv
    <2>4. /\ Written("report")' = {Len(written) + 1} /\ Written("results")' = Written("results")
          /\ Written("export")' = Written("export")
        <3>0. x.what = "report"
            OBVIOUS
        <3>1. Written("report")' = Written("report") \cup {Len(written) + 1}
            BY <2>2, <3>0
        <3>2. ASSUME NEW what, what # "report" PROVE Written(what)' = Written(what)
            BY <2>2, <3>0, <3>2
        <3>3. Written("results")' = Written("results")
            BY <3>2
        <3>4. Written("export")' = Written("export")
            BY <3>2
        <3> QED
            BY <2>3, <3>1, <3>3, <3>4
    <2>5. emitted' = emitted /\ build_run_info' = build_run_info
        BY <2>1, EmittedStays
    <2>6. Only("report", Reporting)'
        BY <2>1, <2>2, <2>4, <2>5 DEF Only, Reporting
    <2>7. Only("results", emitted)'
        <3>1. PICK k : Written("results") = {k} /\ written[k].holds = emitted
            BY <2>3 DEF Only
        <3>2. k \in DOMAIN written
            BY <3>1 DEF Written
        <3> QED
            BY <2>2, <2>4, <2>5, <3>1, <3>2 DEF Only
    <2>8. (Refused => Refused') /\ Exports' = Exports
        BY <1>2, <2>1, RefusedStays DEF Exports
    <2> QED
        BY <2>1, <2>2, <2>3, <2>4, <2>6, <2>7, <2>8 DEF WrittenInv
<1>10. CASE Proceeds
    BY <1>2, <1>10, WrittenStays DEF Proceeds
<1>11. CASE Stops
    BY <1>2, <1>11, WrittenStays DEF Stops
<1> QED
    BY <1>1, <1>3, <1>4, <1>5, <1>6, <1>7, <1>8, <1>9, <1>10, <1>11 DEF GrepStep

-----------------------------------------------------------------------------
(* Of the backups among the first n sources the last is the one that is known. *)
BackupsTo(n) == {m \in 1 .. n : sources[m].inside.backup # None}

FactsOf(n) ==
    \/ BackupsTo(n) = {} /\ facts = None
    \/ \E m \in BackupsTo(n) :
           /\ \A k \in BackupsTo(n) : k <= m
           /\ facts = [source |-> m, default |-> sources[m].inside.backup.default]
           /\ facts \in [source : Nat, default : BOOLEAN]

FactsInv == cli.name = "grep" /\ command # "failed" => FactsOf(IF command = "serve" THEN turn ELSE turn - 1)

LEMMA FactsStep ==
    ASSUME WellSourced, WellSourced', ScopeInv, FactsInv, cli.name = "grep", [Next]_vars
    PROVE  FactsInv'
PROOF
<1>1. GrepStep
    BY GrepSteps DEF ScopeInv
<1>2. turn \in Nat \ {0}
    BY DEF WellSourced
<1>3. ASSUME NEW n \in Nat, FactsOf(n), UNCHANGED <<facts, sources>> PROVE FactsOf(n)'
    <2>1. BackupsTo(n)' = BackupsTo(n)
        BY <1>3 DEF BackupsTo
    <2> QED
        BY <1>3, <2>1 DEF FactsOf
<1>4. ASSUME UNCHANGED <<sources, facts, turn>>, command # "failed", command = "serve" <=> command' = "serve"
      PROVE  FactsInv'
    <2> PICK n \in Nat : n = IF command = "serve" THEN turn ELSE turn - 1
        BY <1>2
    <2>1. FactsOf(n)
        BY <1>4 DEF FactsInv
    <2>2. FactsOf(n)'
        BY <1>3, <1>4, <2>1
    <2> QED
        BY <1>4, <2>2 DEF FactsInv
<1>5. CASE ApplyPresets
    BY <1>4, <1>5 DEF ApplyPresets
<1>6. CASE ResolveSources
    <2>1. command = "resolve" /\ command' = "flags" /\ facts' = facts /\ turn' = turn /\ turn = 1
        BY <1>6 DEF ResolveSources, Resolve, WellSourced, Early
    <2> PICK n : n = turn - 1
        OBVIOUS
    <2>2. FactsOf(n) /\ n = 0
        BY <2>1 DEF FactsInv
    <2>3. BackupsTo(n) = {} /\ BackupsTo(n)' = {}
        BY <2>2 DEF BackupsTo
    <2>4. FactsOf(n)'
        BY <2>1, <2>2, <2>3 DEF FactsOf
    <2> QED
        BY <2>1, <2>4 DEF FactsInv
<1>7. CASE Recognise /\ UNCHANGED grepVars
    <2>1. /\ command = "open" /\ command' = "serve" /\ UNCHANGED <<sources, turn>> /\ Served
          /\ facts' = IF Backup = None THEN facts ELSE [source |-> turn, default |-> Backup.default]
        BY <1>7 DEF Recognise
    <2>2. reader # None
        BY <2>1, NoneIsNoWord DEF Served
    <2>3. turn \in DOMAIN sources /\ IsSource(sources[turn])
        BY <2>2 DEF WellSourced
    <2>4. Backup # None => Backup.default \in BOOLEAN
        BY <2>3 DEF IsSource, IsInside, Backup, Inside
    <2> PICK t \in Nat \ {0} : t = turn
        BY <1>2
    <2>5. FactsOf(t - 1)
        BY <2>1 DEF FactsInv
    <2>6. \A m : m \in BackupsTo(t) <=> m \in BackupsTo(t - 1) \/ (m = t /\ Backup # None)
        <3>1. \A m : m \in 1 .. t <=> m \in 1 .. (t - 1) \/ m = t
            OBVIOUS
        <3> QED
            BY <3>1 DEF BackupsTo, Backup, Inside
    <2>7. \A m \in BackupsTo(t - 1) : m \in Nat /\ m <= t
        BY DEF BackupsTo
    <2>8. BackupsTo(t)' = BackupsTo(t)
        BY <2>1 DEF BackupsTo
    <2>9. FactsOf(t)'
        <3>1. CASE Backup = None
            <4>1. BackupsTo(t) = BackupsTo(t - 1) /\ facts' = facts
                BY <2>1, <2>6, <3>1
            <4> QED
                BY <2>1, <2>5, <2>8, <4>1 DEF FactsOf
        <3>2. CASE Backup # None
            <4>1. facts' = [source |-> t, default |-> sources[t].inside.backup.default] /\ t \in BackupsTo(t)
                BY <2>1, <2>6, <3>2 DEF Backup, Inside
            <4>2. facts' \in [source : Nat, default : BOOLEAN]
                BY <2>4, <3>2, <4>1 DEF Backup, Inside
            <4>3. \A k \in BackupsTo(t) : k <= t
                BY <2>6, <2>7
            <4> QED
                BY <2>1, <2>8, <4>1, <4>2, <4>3 DEF FactsOf
        <3> QED
            BY <3>1, <3>2
    <2> QED
        BY <2>1, <2>9 DEF FactsInv
<1>8. CASE SearchSource
    <2>1. /\ command = "serve" /\ command' \in {"emit", "open"} /\ UNCHANGED <<sources, facts>> /\ turn' = turn + 1
        BY <1>8 DEF SearchSource, Close
    <2>2. FactsOf(turn)
        BY <2>1 DEF FactsInv
    <2> PICK n \in Nat : n = turn
        BY <1>2
    <2>3. FactsOf(n)'
        BY <1>3, <2>1, <2>2
    <2>4. turn' - 1 = n
        BY <1>2, <2>1
    <2> QED
        BY <2>1, <2>3, <2>4 DEF FactsInv
<1>9. CASE EmitResults \/ WriteReport
    BY <1>4, <1>9 DEF EmitResults, WriteReport
<1>10. CASE Summarise
    BY <1>4, <1>10 DEF Summarise
<1>11. CASE Proceeds /\ command # "failed"
    BY <1>4, <1>11 DEF Proceeds
<1>12. CASE Stops \/ (Proceeds /\ command = "failed")
    BY <1>12 DEF Stops, Proceeds, FactsInv
<1> QED
    BY <1>1, <1>5, <1>6, <1>7, <1>8, <1>9, <1>10, <1>11, <1>12 DEF GrepStep

-----------------------------------------------------------------------------
(* The end of a search says what failed to be decrypted, and which backup was opened. *)
Lines(s, what) == {k \in DOMAIN s : s[k].what = what}

Failures == Cardinality({k \in DOMAIN decryptions : decryptions[k].outcome = "fails"})

Announced ==
    IF facts = None THEN Lines(said, "backup") = {}
    ELSE \E k : /\ Lines(said, "backup") = {k}
                /\ said[k].source = facts.source /\ said[k].default = facts.default

SaidInv ==
    cli.name = "grep" =>
        /\ command \notin {"report", "done", "failed"} =>
               Lines(said, "decryptions") = {} /\ Lines(said, "backup") = {}
        /\ \A k \in Lines(said, "decryptions") : said[k].failed = Failures
        /\ command \in {"report", "done"} => Announced

LEMMA AddsLines ==
    ASSUME NEW s, NEW t, Adds(s, t)
    PROVE  \A what \in Closing : /\ Lines(t, what) = Lines(s, what)
                                 /\ \A k \in Lines(s, what) : t[k] = s[k]
BY DEF Adds, Longer, Lines

LinesJoined(s, t, u, what) ==
    /\ Lines(t, what) = {} => Lines(u, what) = Lines(s, what)
    /\ Lines(s, what) = {} /\ Lines(t, what) = {1} => \E n : Lines(u, what) = {n} /\ u[n] = t[1]
    /\ \A k \in Lines(u, what) : \/ k \in Lines(s, what) /\ u[k] = s[k]
                                 \/ \E j \in Lines(t, what) : u[k] = t[j]

LEMMA LinesJoin ==
    ASSUME NEW s, IsSeq(s), NEW t, IsSeq(t), NEW u, u = s \o t
    PROVE  IsSeq(u) /\ \A what : LinesJoined(s, t, u, what)
PROOF
<1> SUFFICES ASSUME NEW what PROVE IsSeq(u) /\ LinesJoined(s, t, u, what)
    OBVIOUS
<1>1. /\ Longer(s, u)
      /\ Len(s) \in Nat /\ DOMAIN s = 1 .. Len(s)
      /\ Len(t) \in Nat /\ DOMAIN t = 1 .. Len(t)
      /\ DOMAIN u = 1 .. Len(s) + Len(t)
      /\ \A k \in DOMAIN t : Len(s) + k \in DOMAIN u /\ u[Len(s) + k] = t[k]
    BY ConcatLonger
<1>2. /\ \A k \in DOMAIN s : k \in DOMAIN u /\ u[k] = s[k]
      /\ IsSeq(u)
    BY <1>1 DEF Longer
<1>3. ASSUME NEW k \in DOMAIN u, k \notin DOMAIN s PROVE \E j \in DOMAIN t : k = Len(s) + j
    <2>1. k - Len(s) \in DOMAIN t /\ k = Len(s) + (k - Len(s))
        BY <1>1, <1>3
    <2> QED
        BY <2>1
<1>4. Lines(u, what) \subseteq Lines(s, what) \cup {Len(s) + k : k \in Lines(t, what)}
    BY <1>1, <1>2, <1>3 DEF Lines
<1>5. Lines(s, what) \cup {Len(s) + k : k \in Lines(t, what)} \subseteq Lines(u, what)
    BY <1>1, <1>2 DEF Lines
<1> PICK len : len = Len(s)
    OBVIOUS
<1>6. Lines(u, what) = Lines(s, what) \cup {len + k : k \in Lines(t, what)}
    BY <1>4, <1>5
<1>7. /\ \A k \in Lines(s, what) : u[k] = s[k]
      /\ \A k \in Lines(t, what) : u[len + k] = t[k]
    BY <1>1, <1>2 DEF Lines
<1>8. \A k \in Lines(u, what) : (k \in Lines(s, what) /\ u[k] = s[k]) \/ \E j \in Lines(t, what) : u[k] = t[j]
    BY <1>6, <1>7
<1>9. ASSUME Lines(s, what) = {}, Lines(t, what) = {1} PROVE \E n : Lines(u, what) = {n} /\ u[n] = t[1]
    <2>1. Lines(u, what) = {len + 1} /\ u[len + 1] = t[1]
        BY <1>6, <1>7, <1>9
    <2> QED
        BY <2>1
<1>10. Lines(t, what) = {} => Lines(u, what) = Lines(s, what)
    BY <1>6
<1> QED
    BY <1>2, <1>8, <1>9, <1>10 DEF LinesJoined

LEMMA LinesOfOne ==
    /\ \A what : Lines(<<>>, what) = {}
    /\ \A x, what : Lines(<<x>>, what) = IF x.what = what THEN {1} ELSE {}
PROOF
<1>1. \A what : Lines(<<>>, what) = {}
    BY DEF Lines
<1>2. ASSUME NEW x, NEW what PROVE Lines(<<x>>, what) = IF x.what = what THEN {1} ELSE {}
    <2>1. DOMAIN <<x>> = {1} /\ <<x>>[1] = x
        OBVIOUS
    <2> QED
        BY <2>1 DEF Lines
<1> QED
    BY <1>1, <1>2

LEMMA SummariseSays ==
    ASSUME IsSeq(said), Lines(said, "decryptions") = {}, Lines(said, "backup") = {}, Summarise
    PROVE  /\ \A k \in Lines(said', "decryptions") : said'[k].failed = Failures
           /\ Announced'
PROOF
<1> PICK start : start = <<[what |-> "statistics"]>>
    OBVIOUS
<1> PICK middle : middle = Out!report_decryptions(decryptions)
    OBVIOUS
<1> PICK end : end = Provenance
    OBVIOUS
<1>1. said' = ((said \o start) \o middle) \o end /\ facts' = facts
    BY DEF Summarise
<1>2. /\ IsSeq(start) /\ Lines(start, "decryptions") = {} /\ Lines(start, "backup") = {}
    <2>1. Lines(start, "decryptions") = {} /\ Lines(start, "backup") = {}
        BY LinesOfOne
    <2> QED
        BY <2>1, SingleSeq
<1>3. /\ IsSeq(middle) /\ Lines(middle, "backup") = {}
      /\ \A k \in Lines(middle, "decryptions") : middle[k].failed = Failures
    <2>1. CASE decryptions = <<>>
        <3>1. middle = <<>>
            BY <2>1 DEF Out!report_decryptions
        <3> QED
            BY <3>1, LinesOfOne, SingleSeq
    <2>2. CASE decryptions # <<>>
        <3> PICK x : x = [what |-> "decryptions", failed |-> Failures]
            OBVIOUS
        <3>1. middle = <<x>>
            BY <2>2 DEF Out!report_decryptions, Out!Cardinality, Failures, Cardinality
        <3>2. Lines(middle, "backup") = {} /\ Lines(middle, "decryptions") = {1} /\ middle[1] = x
            BY <3>1, LinesOfOne
        <3> QED
            BY <3>1, <3>2, SingleSeq
    <2> QED
        BY <2>1, <2>2
<1>4. /\ IsSeq(end) /\ Lines(end, "decryptions") = {}
      /\ facts = None => Lines(end, "backup") = {}
      /\ facts # None => Lines(end, "backup") = {1} /\ end[1].source = facts.source /\ end[1].default = facts.default
    <2>1. CASE facts = None
        <3>1. end = <<>>
            BY <2>1 DEF Provenance
        <3> QED
            BY <2>1, <3>1, LinesOfOne, SingleSeq
    <2>2. CASE facts # None
        <3> PICK x : x = [what |-> "backup", source |-> facts.source, default |-> facts.default]
            OBVIOUS
        <3>1. x.what = "backup" /\ x.source = facts.source /\ x.default = facts.default
            OBVIOUS
        <3>2. end = <<x>>
            BY <2>2 DEF Provenance
        <3>3. Lines(end, "decryptions") = {} /\ Lines(end, "backup") = {1} /\ end[1] = x
            BY <3>1, <3>2, LinesOfOne
        <3> QED
            BY <2>2, <3>1, <3>2, <3>3, SingleSeq
    <2> QED
        BY <2>1, <2>2
<1> PICK one : one = said \o start
    OBVIOUS
<1>5. IsSeq(one) /\ Lines(one, "decryptions") = {} /\ Lines(one, "backup") = {}
    <2>1. IsSeq(one) /\ \A what : LinesJoined(said, start, one, what)
        BY <1>2, LinesJoin
    <2>2. LinesJoined(said, start, one, "decryptions") /\ LinesJoined(said, start, one, "backup")
        BY <2>1
    <2> QED
        BY <1>2, <2>1, <2>2 DEF LinesJoined
<1> PICK two : two = one \o middle
    OBVIOUS
<1>6. /\ IsSeq(two) /\ Lines(two, "backup") = {}
      /\ \A k \in Lines(two, "decryptions") : two[k].failed = Failures
    <2>1. IsSeq(two) /\ \A what : LinesJoined(one, middle, two, what)
        BY <1>3, <1>5, LinesJoin
    <2>2. LinesJoined(one, middle, two, "decryptions")
        BY <2>1
    <2>3. LinesJoined(one, middle, two, "backup")
        BY <2>1
    <2>4. Lines(two, "backup") = {}
        BY <1>3, <1>5, <2>3 DEF LinesJoined
    <2>5. ASSUME NEW k \in Lines(two, "decryptions") PROVE two[k].failed = Failures
        <3>1. \E j \in Lines(middle, "decryptions") : two[k] = middle[j]
            BY <1>5, <2>2 DEF LinesJoined
        <3> QED
            BY <1>3, <3>1
    <2> QED
        BY <2>1, <2>4, <2>5
<1> PICK all : all = two \o end
    OBVIOUS
<1>7. LinesJoined(two, end, all, "decryptions") /\ LinesJoined(two, end, all, "backup")
    <2>1. \A what : LinesJoined(two, end, all, what)
        BY <1>4, <1>6, LinesJoin
    <2> QED
        BY <2>1
<1>8. said' = all /\ Failures' = Failures
    BY <1>1 DEF Summarise, Failures
<1>9. ASSUME NEW k \in Lines(all, "decryptions") PROVE all[k].failed = Failures
    <2>1. k \in Lines(two, "decryptions") /\ all[k] = two[k]
        BY <1>4, <1>7 DEF LinesJoined
    <2> QED
        BY <1>6, <2>1
<1>10. CASE facts = None
    <2>1. Lines(all, "backup") = {}
        BY <1>4, <1>6, <1>7, <1>10 DEF LinesJoined
    <2> QED
        BY <1>1, <1>8, <1>9, <1>10, <2>1 DEF Announced
<1>11. CASE facts # None
    <2>1. \E n : Lines(all, "backup") = {n} /\ all[n] = end[1]
        BY <1>4, <1>6, <1>7, <1>11 DEF LinesJoined
    <2>2. PICK n : Lines(all, "backup") = {n} /\ all[n] = end[1]
        BY <2>1
    <2>3. Lines(said', "backup") = {n} /\ said'[n].source = facts'.source /\ said'[n].default = facts'.default
        BY <1>1, <1>4, <1>8, <1>11, <2>2
    <2>4. Announced'
        BY <1>1, <1>11, <2>3 DEF Announced
    <2> QED
        BY <1>8, <1>9, <2>4
<1> QED
    BY <1>10, <1>11

LEMMA SaidStep ==
    ASSUME WellSourced, ScopeInv, FactsInv, SaidInv, cli.name = "grep", [Next]_vars
    PROVE  SaidInv'
PROOF
<1>1. GrepStep
    BY GrepSteps DEF ScopeInv
<1>2. ASSUME Adds(said, said'), UNCHANGED <<facts, decryptions>>, command' = command \/ command' = "failed"
             \/ {command, command'} \cap {"report", "done", "failed"} = {}
             \/ (command = "report" /\ command' = "done")
      PROVE  SaidInv'
    <2>1. /\ Lines(said', "decryptions") = Lines(said, "decryptions") /\ Lines(said', "backup") = Lines(said, "backup")
          /\ \A k \in Lines(said, "decryptions") : said'[k] = said[k]
          /\ \A k \in Lines(said, "backup") : said'[k] = said[k]
        BY <1>2, AddsLines DEF Closing
    <2>2. Failures' = Failures
        BY <1>2 DEF Failures
    <2>3. Announced => Announced'
        BY <1>2, <2>1 DEF Announced
    <2> QED
        BY <1>2, <2>1, <2>2, <2>3 DEF SaidInv
<1>3. Adds(said, said)
    BY AddsSame DEF ScopeInv
<1>4. CASE ApplyPresets
    BY <1>2, <1>3, <1>4 DEF ApplyPresets
<1>5. CASE ResolveSources
    BY <1>2, <1>3, <1>5 DEF ResolveSources, Resolve, Quietly, grepVars
<1>6. CASE Recognise /\ UNCHANGED grepVars
    <2>1. said' = said /\ decryptions' = decryptions /\ command = "open" /\ command' = "serve"
        BY <1>6 DEF Recognise, grepVars
    <2>2. Lines(said, "decryptions") = {} /\ Lines(said, "backup") = {}
        BY <2>1 DEF SaidInv
    <2> QED
        BY <2>1, <2>2 DEF SaidInv
<1>7. CASE SearchSource
    <2>1. Adds(said, said')
        BY <1>7, SearchAdds DEF ScopeInv
    <2>2. command = "serve" /\ command' \in {"emit", "open"}
        BY <1>7 DEF SearchSource
    <2>3. Lines(said', "decryptions") = {} /\ Lines(said', "backup") = {}
        BY <2>1, <2>2, AddsLines DEF SaidInv, Closing
    <2> QED
        BY <2>2, <2>3 DEF SaidInv
<1>8. CASE EmitResults
    BY <1>2, <1>3, <1>8 DEF EmitResults
<1>9. CASE WriteReport
    BY <1>2, <1>3, <1>9 DEF WriteReport
<1>10. CASE Summarise
    <2>1. command = "summary" /\ command' \in {"done", "report"} /\ decryptions' = decryptions
        BY <1>10 DEF Summarise
    <2>2. Lines(said, "decryptions") = {} /\ Lines(said, "backup") = {}
        BY <2>1 DEF SaidInv
    <2>4. (\A k \in Lines(said', "decryptions") : said'[k].failed = Failures) /\ Announced'
        BY <1>10, <2>2, SummariseSays DEF ScopeInv
    <2>5. Failures' = Failures
        BY <2>1 DEF Failures
    <2> QED
        BY <2>1, <2>4, <2>5 DEF SaidInv
<1>11. CASE Proceeds \/ Stops
    BY <1>2, <1>11 DEF Proceeds, Stops
<1> QED
    BY <1>1, <1>4, <1>5, <1>6, <1>7, <1>8, <1>9, <1>10, <1>11 DEF GrepStep

-----------------------------------------------------------------------------
(* The counters. *)

(* Of two finite sets without a common element. *)
LEMMA CountsAdd ==
    ASSUME NEW A, NEW B, IsFiniteSet(A), IsFiniteSet(B), \A x \in A : x \notin B
    PROVE  /\ IsFiniteSet(A \cup B) /\ Cardinality(A) \in Nat /\ Cardinality(B) \in Nat
           /\ Cardinality(A \cup B) = Cardinality(A) + Cardinality(B)
PROOF
<1>1. A \cap B = {}
    OBVIOUS
<1>2. Cardinality(A \cap B) = 0 /\ Cardinality(A) \in Nat /\ Cardinality(B) \in Nat
    BY <1>1, FS_EmptySet, FS_CardinalityType
<1>3. IsFiniteSet(A \cup B) /\ Cardinality(A \cup B) = Cardinality(A) + Cardinality(B) - Cardinality(A \cap B)
    BY FS_Union
<1> QED
    BY <1>2, <1>3

(* What a source adds to a set of places in the sources before it. *)
Joins(A, n, M, B) == B = A \cup ({n} \X M) /\ \A p \in A : p[1] # n

LEMMA PlacesAdd ==
    ASSUME NEW A, IsFiniteSet(A), NEW n, NEW m \in Nat, NEW M \in SUBSET (1 .. m), NEW B, Joins(A, n, M, B)
    PROVE  IsFiniteSet(B) /\ Cardinality(B) = Cardinality(A) + Cardinality(M)
PROOF
<1>1. IsFiniteSet(M)
    BY IntervalFinite, FS_Subset
<1>2. IsFiniteSet({n}) /\ Cardinality({n}) = 1 /\ Cardinality(M) \in Nat
    BY <1>1, FS_Singleton, FS_CardinalityType
<1>3. IsFiniteSet({n} \X M) /\ Cardinality({n} \X M) = 1 * Cardinality(M)
    BY <1>1, <1>2, FS_Product
<1>4. \A x \in A : x \notin {n} \X M
    BY DEF Joins
<1> PICK C : C = {n} \X M
    OBVIOUS
<1>5. IsFiniteSet(A \cup C) /\ Cardinality(A) \in Nat /\ Cardinality(A \cup C) = Cardinality(A) + Cardinality(C)
    BY <1>3, <1>4, CountsAdd
<1>6. B = A \cup C
    BY DEF Joins
<1> QED
    BY <1>2, <1>3, <1>5, <1>6

FailedIn(s) == {k \in DOMAIN s : s[k].outcome = "fails"}

LEMMA FailedAdd ==
    ASSUME NEW s, IsSeq(s), NEW t, IsSeq(t), NEW u, u = s \o t
    PROVE  /\ Cardinality(FailedIn(s)) \in Nat /\ Cardinality(FailedIn(t)) \in Nat
           /\ Cardinality(FailedIn(u)) = Cardinality(FailedIn(s)) + Cardinality(FailedIn(t))
PROOF
<1>1. /\ Longer(s, u)
      /\ Len(s) \in Nat /\ DOMAIN s = 1 .. Len(s)
      /\ Len(t) \in Nat /\ DOMAIN t = 1 .. Len(t)
      /\ DOMAIN u = 1 .. Len(s) + Len(t)
      /\ \A k \in DOMAIN t : Len(s) + k \in DOMAIN u /\ u[Len(s) + k] = t[k]
    BY ConcatLonger
<1> PICK len \in Nat : len = Len(s)
    BY <1>1
<1> PICK shift : shift = [k \in DOMAIN t |-> len + k]
    OBVIOUS
<1> PICK more : more = {len + k : k \in FailedIn(t)}
    OBVIOUS
<1>2. IsFiniteSet(FailedIn(s)) /\ IsFiniteSet(FailedIn(t))
    <2>1. IsFiniteSet(DOMAIN s) /\ IsFiniteSet(DOMAIN t)
        BY <1>1, IntervalFinite
    <2> QED
        BY <2>1, FS_Subset DEF FailedIn
<1>3. IsFiniteSet(more) /\ Cardinality(more) = Cardinality(FailedIn(t))
    <2>1. \A x \in FailedIn(t) : x \in DOMAIN t /\ x \in Nat /\ shift[x] = len + x
        BY <1>1 DEF FailedIn
    <2>2. \A x \in FailedIn(t) : shift[x] \in more
        BY <2>1
    <2>3. \A x, y \in FailedIn(t) : shift[x] = shift[y] => x = y
        BY <2>1
    <2>4. \A y \in more : \E x \in FailedIn(t) : shift[x] = y
        BY <2>1
    <2> PICK A : A = FailedIn(t)
        OBVIOUS
    <2>5. IsFiniteSet(A) /\ (\A x \in A : shift[x] \in more)
        BY <1>2, <2>2
    <2>6. (\A x, y \in A : shift[x] = shift[y] => x = y) /\ (\A y \in more : \E x \in A : shift[x] = y)
        BY <2>3, <2>4
    <2>7. IsFiniteSet(more) /\ Cardinality(more) = Cardinality(A)
        BY ONLY <2>5, <2>6, SameSize
    <2> QED
        BY <2>7
<1>4. FailedIn(u) = FailedIn(s) \cup more
    <2>1. \A k \in DOMAIN s : k \in DOMAIN u /\ u[k] = s[k]
        BY <1>1 DEF Longer
    <2>2. ASSUME NEW k \in DOMAIN u, k \notin DOMAIN s PROVE \E j \in DOMAIN t : k = len + j /\ u[k] = t[j]
        <3>1. k - len \in DOMAIN t /\ k = len + (k - len)
            BY <1>1, <2>2
        <3> QED
            BY <1>1, <3>1
    <2>3. FailedIn(u) \subseteq FailedIn(s) \cup more
        BY <2>1, <2>2 DEF FailedIn
    <2>4. more \subseteq FailedIn(u)
        BY <1>1 DEF FailedIn
    <2>5. FailedIn(s) \subseteq FailedIn(u)
        BY <2>1 DEF FailedIn
    <2> QED
        BY <2>3, <2>4, <2>5
<1>5. \A x \in FailedIn(s) : x \notin more
    <2>1. \A x \in FailedIn(s) : x \in Nat /\ x <= len
        BY <1>1 DEF FailedIn
    <2>2. \A x \in FailedIn(t) : x \in Nat /\ x > 0
        BY <1>1 DEF FailedIn
    <2>3. \A x \in more : ~(x <= len)
        BY <2>2
    <2> QED
        BY <2>1, <2>3
<1>6. /\ Cardinality(FailedIn(s)) \in Nat /\ Cardinality(more) \in Nat
      /\ Cardinality(FailedIn(s) \cup more) = Cardinality(FailedIn(s)) + Cardinality(more)
    BY <1>2, <1>3, <1>5, CountsAdd
<1> QED
    BY <1>3, <1>4, <1>6

(* Of what was to be decrypted in a source, so much failed as is counted. *)
LEMMA FailedOf ==
    ASSUME NEW m \in Nat, DOMAIN View = 1 .. m, NEW f, NEW new, new = Decrypted(f)
    PROVE  IsSeq(new) /\ Cardinality(FailedIn(new)) = Cardinality(Met(f, "decrypt_failed"))
PROOF
<1> PICK due : due = {i \in DOMAIN View : Decrypts(f, View[i])}
    OBVIOUS
<1> PICK tried : tried = Ascending(due)
    OBVIOUS
<1> PICK n : n = Cardinality(due)
    OBVIOUS
<1>1. /\ n \in Nat /\ DOMAIN tried = 1 .. n
      /\ \A k \in DOMAIN tried : tried[k] \in due
      /\ \A j, k \in DOMAIN tried : tried[j] = tried[k] => j = k
      /\ \A x \in due : \E k \in DOMAIN tried : tried[k] = x
    <2>1. m \in Nat /\ due \in SUBSET (1 .. m)
        OBVIOUS
    <2>2. tried = Ascending(due) /\ n = Cardinality(due)
        OBVIOUS
    <2> QED
        BY ONLY <2>1, <2>2, AscendingOk
<1>2. new = [k \in 1 .. n |-> [path |-> View[tried[k]].name, outcome |-> View[tried[k]].secret]]
    BY <1>1 DEF Decrypted
<1>3. DOMAIN new = 1 .. n /\ \A k \in 1 .. n : new[k].outcome = View[tried[k]].secret
    BY ONLY <1>2
<1>4. IsSeq(new)
    <2>1. new = [k \in 1 .. n |-> new[k]]
        BY <1>2
    <2> QED
        BY <1>1, <2>1, SequenceOf DEF IsSeq
<1>5. \A i \in DOMAIN View : i \in Met(f, "decrypt_failed") <=> i \in due /\ View[i].secret = "fails"
    <2> SUFFICES ASSUME NEW i \in DOMAIN View
                 PROVE  Fate(f, View[i]) = "decrypt_failed" <=> Decrypts(f, View[i]) /\ View[i].secret = "fails"
        BY DEF Met
    <2> PICK e : e = View[i]
        OBVIOUS
    <2>1. e.dir \in BOOLEAN
        BY ViewShown
    <2>2. EntryFilter!select(f, e.name) \in {"search", "not_included", "not_path"}
        BY DEF EntryFilter!select
    <2>3. EntryFilter!accept_type(f, e.type) \in {"search", "media", "type"}
        BY DEF EntryFilter!accept_type
    <2>4. Fate(f, e) = "decrypt_failed" <=> Decrypts(f, e) /\ e.secret = "fails"
        BY <2>1, <2>2, <2>3 DEF Fate, Decrypts
    <2> QED
        BY <2>4
<1>6. FailedIn(new) = {k \in 1 .. n : View[tried[k]].secret = "fails"}
    BY <1>3 DEF FailedIn
<1>7. Met(f, "decrypt_failed") \subseteq DOMAIN View
    BY DEF Met
<1>8. /\ \A k \in FailedIn(new) : tried[k] \in Met(f, "decrypt_failed")
      /\ \A j, k \in FailedIn(new) : tried[j] = tried[k] => j = k
      /\ \A x \in Met(f, "decrypt_failed") : \E k \in FailedIn(new) : tried[k] = x
    <2>1. \A k \in FailedIn(new) : tried[k] \in Met(f, "decrypt_failed")
        BY <1>1, <1>5, <1>6
    <2>2. \A j, k \in FailedIn(new) : tried[j] = tried[k] => j = k
        BY <1>1, <1>6
    <2>3. \A x \in Met(f, "decrypt_failed") : \E k \in FailedIn(new) : tried[k] = x
        BY <1>1, <1>5, <1>6, <1>7
    <2> QED
        BY <2>1, <2>2, <2>3
<1>9. IsFiniteSet(FailedIn(new))
    BY <1>1, <1>6, IntervalFinite, FS_Subset
<1> PICK A : A = FailedIn(new)
    OBVIOUS
<1> PICK B : B = Met(f, "decrypt_failed")
    OBVIOUS
<1>10. IsFiniteSet(A) /\ (\A x \in A : tried[x] \in B)
    BY <1>8, <1>9
<1>11. (\A x, y \in A : tried[x] = tried[y] => x = y) /\ (\A y \in B : \E x \in A : tried[x] = y)
    BY <1>8
<1>12. Cardinality(B) = Cardinality(A)
    BY ONLY <1>10, <1>11, SameSize
<1> QED
    BY <1>4, <1>12

(* A source that is searched comes behind those before it, which stay as they are. *)
Grows(s, m) ==
    /\ Appended(s) /\ cli' = cli /\ m \in Nat /\ DOMAIN View = 1 .. m
    /\ s.view = View /\ s.scanned = Scanned(widen_filter_for_apps)
    /\ \A i \in DOMAIN View : Fate(widen_filter_for_apps, View[i]) = Standing(s, View[i])

LEMMA EntriesGrow ==
    ASSUME NEW s, NEW m, Grows(s, m)
    PROVE  /\ \A p \in Entries : p[1] \in DOMAIN searched /\ p[1] \in Nat /\ p[1] < turn
           /\ \A n \in DOMAIN searched : searched'[n] = searched[n]
           /\ searched'[turn] = s
           /\ Entries' = Entries \cup ({turn} \X DOMAIN View)
PROOF
<1>1. /\ DOMAIN searched' = 1 .. Len(searched) + 1 /\ Len(searched) \in Nat /\ DOMAIN searched = 1 .. Len(searched)
      /\ \A n \in DOMAIN searched : searched'[n] = searched[n]
      /\ searched'[turn] = s /\ turn = Len(searched) + 1 /\ s.view = View
    BY DEF Grows, Appended
<1>2. ASSUME NEW p \in Entries PROVE p[1] \in DOMAIN searched
    BY DEF Entries
<1>3. ASSUME NEW p \in Entries PROVE p[1] \in DOMAIN searched /\ p[1] \in Nat /\ p[1] < turn
    <2> PICK n : n = p[1]
        OBVIOUS
    <2>1. n \in DOMAIN searched
        BY <1>2
    <2>2. n \in Nat /\ n < turn
        BY <1>1, <2>1
    <2> QED
        BY <2>1, <2>2
<1>4. \A n : n \in DOMAIN searched' <=> n \in DOMAIN searched \/ n = turn
    BY <1>1
<1>5. turn \notin DOMAIN searched
    BY <1>1
<1>6. \A n \in DOMAIN searched : {n} \X DOMAIN searched'[n].view = {n} \X DOMAIN searched[n].view
    BY <1>1
<1>7. {turn} \X DOMAIN searched'[turn].view = {turn} \X DOMAIN View
    BY <1>1
<1>8. Entries' = UNION {{n} \X DOMAIN searched'[n].view : n \in DOMAIN searched'}
    BY DEF Entries
<1>9. Entries' \subseteq Entries \cup ({turn} \X DOMAIN View)
    <2> SUFFICES ASSUME NEW p \in Entries' PROVE p \in Entries \cup ({turn} \X DOMAIN View)
        OBVIOUS
    <2>1. PICK n \in DOMAIN searched' : p \in {n} \X DOMAIN searched'[n].view
        BY <1>8
    <2>2. CASE n = turn
        BY <1>7, <2>1, <2>2
    <2>3. CASE n \in DOMAIN searched
        BY <1>6, <2>1, <2>3 DEF Entries
    <2> QED
        BY <1>4, <2>2, <2>3
<1>10. Entries \cup ({turn} \X DOMAIN View) \subseteq Entries'
    <2>1. ASSUME NEW p \in Entries PROVE p \in Entries'
        <3>1. PICK n \in DOMAIN searched : p \in {n} \X DOMAIN searched[n].view
            BY DEF Entries
        <3> QED
            BY <1>4, <1>6, <1>8, <3>1
    <2>2. {turn} \X DOMAIN View \subseteq Entries'
        BY <1>4, <1>7, <1>8
    <2> QED
        BY <2>1, <2>2
<1> QED
    BY <1>1, <1>3, <1>9, <1>10

LEMMA StandingStays ==
    ASSUME cli' = cli, NEW s, NEW e
    PROVE  Standing(s, e)' = Standing(s, e) /\ Hits(e)' = Hits(e) /\ HitsIn(e) = Hits(e)
PROOF
<1>1. /\ InScope(s, e)' <=> InScope(s, e)
      /\ Wanted(s, e)' <=> Wanted(s, e)
      /\ Sealed(e)' <=> Sealed(e)
    BY DEF InScope, Wanted, Sealed, OfType
<1> QED
    BY <1>1 DEF Standing, Hits, HitsIn

LEMMA StandingsGrow ==
    ASSUME NEW s, NEW m, Grows(s, m), NEW fate
    PROVE  Standings(fate)' = Standings(fate) \cup ({turn} \X Met(widen_filter_for_apps, fate))
PROOF
<1> PICK t : t = turn
    OBVIOUS
<1> PICK met : met = Met(widen_filter_for_apps, fate)
    OBVIOUS
<1> PICK all : all = Entries'
    OBVIOUS
<1>1. /\ \A p \in Entries : p[1] \in DOMAIN searched
      /\ \A n \in DOMAIN searched : searched'[n] = searched[n]
      /\ searched'[t] = s
      /\ all = Entries \cup ({t} \X DOMAIN View)
    BY EntriesGrow
<1>2. /\ cli' = cli /\ s.view = View
      /\ \A i \in DOMAIN View : i \in met <=> Standing(s, View[i]) = fate
      /\ met \subseteq DOMAIN View
    BY DEF Grows, Met
<1>3. Standings(fate)' = {p \in all : Standing(searched'[p[1]], searched'[p[1]].view[p[2]]) = fate}
    <2>1. \A x, e : Standing(x, e)' = Standing(x, e)
        BY <1>2, StandingStays
    <2>2. Standings(fate)' = {p \in all : Standing(searched'[p[1]], EntryAt(p)') = fate}
        BY <1>2 DEF Standings, Standing, InScope, Wanted, Sealed, OfType
    <2> QED
        BY <2>2 DEF EntryAt
<1>4. Standings(fate) = {p \in Entries : Standing(searched[p[1]], searched[p[1]].view[p[2]]) = fate}
    BY DEF Standings, EntryAt
<1>5. ASSUME NEW p \in Entries PROVE p \in Standings(fate)' <=> p \in Standings(fate)
    <2>1. p \in all /\ searched'[p[1]] = searched[p[1]]
        BY <1>1
    <2> QED
        BY <1>3, <1>4, <2>1
<1>6. ASSUME NEW p \in {t} \X DOMAIN View PROVE p \in Standings(fate)' <=> p[2] \in met
    <2>1. p \in all /\ p[1] = t /\ p[2] \in DOMAIN View
        BY <1>1
    <2>2. searched'[p[1]] = s /\ s.view = View
        BY <1>1, <1>2, <2>1
    <2>3. Standing(searched'[p[1]], searched'[p[1]].view[p[2]]) = fate <=> p[2] \in met
        BY <1>2, <2>1, <2>2
    <2> QED
        BY <1>3, <2>1, <2>3
<1>7. Standings(fate)' \subseteq Entries \cup ({t} \X DOMAIN View)
    BY <1>1, <1>3
<1>8. Standings(fate) \subseteq Entries
    BY <1>4
<1>9. \A p \in {t} \X met : p \in {t} \X DOMAIN View /\ p[2] \in met
    BY <1>2
<1>10. \A p \in {t} \X DOMAIN View : p[2] \in met => p \in {t} \X met
    BY <1>2
<1>11. Standings(fate)' \subseteq Standings(fate) \cup ({t} \X met)
    BY <1>5, <1>6, <1>7, <1>10
<1>12. Standings(fate) \cup ({t} \X met) \subseteq Standings(fate)'
    BY <1>5, <1>6, <1>8, <1>9
<1> QED
    BY <1>11, <1>12

LEMMA PlacesGrow ==
    ASSUME NEW s, NEW m, Grows(s, m)
    PROVE  Places' = Places \cup ({turn} \X WithHits(widen_filter_for_apps))
PROOF
<1> PICK t : t = turn
    OBVIOUS
<1> PICK met : met = WithHits(widen_filter_for_apps)
    OBVIOUS
<1> PICK all : all = Entries'
    OBVIOUS
<1>1. /\ \A p \in Entries : p[1] \in DOMAIN searched
      /\ \A n \in DOMAIN searched : searched'[n] = searched[n]
      /\ searched'[t] = s
      /\ all = Entries \cup ({t} \X DOMAIN View)
    BY EntriesGrow
<1>2. /\ cli' = cli /\ s.view = View
      /\ \A i \in DOMAIN View : i \in met <=> i \in s.scanned /\ Hits(View[i]) > 0
      /\ met \subseteq DOMAIN View
    <2>1. cli' = cli /\ s.view = View /\ s.scanned = Scanned(widen_filter_for_apps)
        BY DEF Grows
    <2>2. met \subseteq DOMAIN View
        BY DEF WithHits, Scanned, Met
    <2>3. \A e : HitsIn(e) = Hits(e)
        BY <2>1, StandingStays
    <2> QED
        BY <2>1, <2>2, <2>3 DEF WithHits
<1>3. Places' = {p \in all : p[2] \in searched'[p[1]].scanned /\ Hits(searched'[p[1]].view[p[2]]) > 0}
    BY <1>2 DEF Places, EntryAt, Hits
<1>4. Places = {p \in Entries : p[2] \in searched[p[1]].scanned /\ Hits(searched[p[1]].view[p[2]]) > 0}
    BY DEF Places, EntryAt
<1>5. ASSUME NEW p \in Entries PROVE p \in Places' <=> p \in Places
    <2>1. p \in all /\ searched'[p[1]] = searched[p[1]]
        BY <1>1
    <2> QED
        BY <1>3, <1>4, <2>1
<1>6. ASSUME NEW p \in {t} \X DOMAIN View PROVE p \in Places' <=> p[2] \in met
    <2>1. p \in all /\ p[1] = t /\ p[2] \in DOMAIN View
        BY <1>1
    <2>2. searched'[p[1]] = s /\ s.view = View
        BY <1>1, <1>2, <2>1
    <2>3. p[2] \in searched'[p[1]].scanned /\ Hits(searched'[p[1]].view[p[2]]) > 0 <=> p[2] \in met
        BY <1>2, <2>1, <2>2
    <2> QED
        BY <1>3, <2>1, <2>3
<1>7. Places' \subseteq Entries \cup ({t} \X DOMAIN View)
    BY <1>1, <1>3
<1>8. Places \subseteq Entries
    BY <1>4
<1>9. \A p \in {t} \X met : p \in {t} \X DOMAIN View /\ p[2] \in met
    BY <1>2
<1>10. \A p \in {t} \X DOMAIN View : p[2] \in met => p \in {t} \X met
    BY <1>2
<1>11. Places' \subseteq Places \cup ({t} \X met)
    BY <1>5, <1>6, <1>7, <1>10
<1>12. Places \cup ({t} \X met) \subseteq Places'
    BY <1>5, <1>6, <1>8, <1>9
<1> QED
    BY <1>11, <1>12

LEMMA SearchGrows ==
    ASSUME WellSourced, ScopeInv, Shows(View), SearchSource,
           NEW s, s = [view |-> View, inside |-> Inside, scanned |-> Scanned(widen_filter_for_apps)]
    PROVE  \E m : Grows(s, m)
PROOF
<1>1. Appended(s)
    BY SearchAppends
<1>2. command = "serve" /\ cli.name = "grep" /\ cli' = cli
    BY DEF SearchSource
<1>3. IsInside(Inside) /\ IsArguments(cli) /\ cli.types \subseteq KnownTypes
    BY <1>2, InsideOk DEF ScopeInv
<1>4. s.view = View /\ s.inside = Inside /\ s.scanned = Scanned(widen_filter_for_apps)
    OBVIOUS
<1>5. \A i \in DOMAIN View : Fate(widen_filter_for_apps, View[i]) = Standing(s, View[i])
    BY <1>3, <1>4, StandingOk, ViewShown
<1>6. IsSeq(View)
    BY DEF Shows, Names
<1>7. Len(View) \in Nat /\ DOMAIN View = 1 .. Len(View)
    BY <1>6 DEF IsSeq
<1> QED
    BY <1>1, <1>2, <1>4, <1>5, <1>7 DEF Grows

(* The counters say how many entries met with each fate; what failed to be
   decrypted is what the trail says failed. *)
Counted ==
    /\ stats.files \in [Counters -> Nat]
    /\ \A fate \in Fates : IsFiniteSet(Standings(fate)) /\ stats.files[fate] = Cardinality(Standings(fate))
    /\ IsFiniteSet(Places) /\ stats.files["matched"] = Cardinality(Places)
    /\ IsSeq(decryptions) /\ Failures = stats.files["decrypt_failed"]

LEMMA TalliesAdd ==
    ASSUME NEW m \in Nat, DOMAIN View = 1 .. m, NEW f, NEW c
    PROVE  /\ WithHits(f) \in SUBSET (1 .. m) /\ Met(f, c) \in SUBSET (1 .. m) /\ Tally(f, c) \in Nat
           /\ c # "matched" => Tally(f, c) = Cardinality(Met(f, c))
           /\ Tally(f, "matched") = Cardinality(WithHits(f))
PROOF
<1>1. WithHits(f) \in SUBSET (1 .. m) /\ Met(f, c) \in SUBSET (1 .. m)
    BY DEF WithHits, Scanned, Met
<1>2. IsFiniteSet(WithHits(f)) /\ IsFiniteSet(Met(f, c))
    BY <1>1, IntervalFinite, FS_Subset
<1>3. Cardinality(WithHits(f)) \in Nat /\ Cardinality(Met(f, c)) \in Nat
    BY <1>2, FS_CardinalityType
<1> QED
    BY <1>1, <1>3 DEF Tally

LEMMA CountedStep ==
    ASSUME WellSourced, ScopeInv, Shows(View), Counted, SearchSource
    PROVE  Counted'
PROOF
<1> PICK s : s = [view |-> View, inside |-> Inside, scanned |-> Scanned(widen_filter_for_apps)]
    OBVIOUS
<1> PICK m : Grows(s, m)
    BY SearchGrows
<1> PICK f : f = widen_filter_for_apps
    OBVIOUS
<1> PICK t : t = turn
    OBVIOUS
<1>1. m \in Nat /\ DOMAIN View = 1 .. m
    BY DEF Grows
<1>2. \A c \in Counters : Tally(f, c) \in Nat
    BY <1>1, TalliesAdd
<1>3. \A fate \in Fates : fate \in Counters /\ fate # "matched"
    BY DEF Fates, Counters
<1>4. "matched" \in Counters /\ "decrypt_failed" \in Fates
    BY DEF Fates, Counters
<1>5. stats'.files = [c \in Counters |-> stats.files[c] + Tally(f, c)]
    <2>1. stats' = merge(stats, StatsOf(f))
        BY DEF SearchSource
    <2>2. stats'.files = [c \in Counters |-> stats.files[c] + StatsOf(f).files[c]]
        BY <2>1 DEF merge
    <2>3. \A c \in Counters : StatsOf(f).files[c] = Tally(f, c)
        BY DEF StatsOf
    <2> QED
        BY <2>2, <2>3
<1>6. stats'.files \in [Counters -> Nat]
    BY <1>2, <1>5 DEF Counted
<1>7. ASSUME NEW fate \in Fates
      PROVE  IsFiniteSet(Standings(fate)') /\ stats'.files[fate] = Cardinality(Standings(fate)')
    <2> PICK old : old = Standings(fate)
        OBVIOUS
    <2> PICK met : met = Met(f, fate)
        OBVIOUS
    <2>1. Standings(fate)' = old \cup ({t} \X met)
        BY StandingsGrow
    <2>2. \A p \in old : p[1] # t
        <3>1. \A p \in Entries : p[1] \in Nat /\ p[1] < t
            BY EntriesGrow
        <3>2. old \subseteq Entries
            BY DEF Standings
        <3> QED
            BY <3>1, <3>2
    <2>3. met \in SUBSET (1 .. m) /\ Tally(f, fate) = Cardinality(met)
        BY <1>1, <1>3, TalliesAdd
    <2>4. IsFiniteSet(old) /\ stats.files[fate] = Cardinality(old)
        BY DEF Counted
    <2> PICK all : all = old \cup ({t} \X met)
        OBVIOUS
    <2>5. Joins(old, t, met, all)
        BY <2>2 DEF Joins
    <2>6. IsFiniteSet(all) /\ Cardinality(all) = Cardinality(old) + Cardinality(met)
        BY ONLY <1>1, <2>3, <2>4, <2>5, PlacesAdd
    <2> QED
        BY <1>3, <1>5, <2>1, <2>3, <2>4, <2>6
<1>8. IsFiniteSet(Places') /\ stats'.files["matched"] = Cardinality(Places')
    <2> PICK old : old = Places
        OBVIOUS
    <2> PICK met : met = WithHits(f)
        OBVIOUS
    <2>1. Places' = old \cup ({t} \X met)
        BY PlacesGrow
    <2>2. \A p \in old : p[1] # t
        <3>1. \A p \in Entries : p[1] \in Nat /\ p[1] < t
            BY EntriesGrow
        <3>2. old \subseteq Entries
            BY DEF Places
        <3> QED
            BY <3>1, <3>2
    <2>3. met \in SUBSET (1 .. m) /\ Tally(f, "matched") = Cardinality(met)
        BY <1>1, TalliesAdd
    <2>4. IsFiniteSet(old) /\ stats.files["matched"] = Cardinality(old)
        BY DEF Counted
    <2> PICK all : all = old \cup ({t} \X met)
        OBVIOUS
    <2>5. Joins(old, t, met, all)
        BY <2>2 DEF Joins
    <2>6. IsFiniteSet(all) /\ Cardinality(all) = Cardinality(old) + Cardinality(met)
        BY ONLY <1>1, <2>3, <2>4, <2>5, PlacesAdd
    <2> QED
        BY <1>4, <1>5, <2>1, <2>3, <2>4, <2>6
<1>9. IsSeq(decryptions') /\ Failures' = stats'.files["decrypt_failed"]
    <2> PICK new : new = Decrypted(f)
        OBVIOUS
    <2>1. decryptions' = decryptions \o new
        BY DEF SearchSource
    <2>2. IsSeq(new) /\ Cardinality(FailedIn(new)) = Cardinality(Met(f, "decrypt_failed"))
        BY <1>1, FailedOf
    <2>3. IsSeq(decryptions) /\ Cardinality(FailedIn(decryptions)) = stats.files["decrypt_failed"]
        BY DEF Counted, Failures, FailedIn
    <2>4. Cardinality(FailedIn(decryptions')) = Cardinality(FailedIn(decryptions)) + Cardinality(FailedIn(new))
        BY <2>1, <2>2, <2>3, FailedAdd
    <2>5. Tally(f, "decrypt_failed") = Cardinality(Met(f, "decrypt_failed"))
        BY <1>1, TalliesAdd
    <2>6. Longer(decryptions, decryptions')
        <3>1. Longer(decryptions, decryptions \o new)
            BY <2>2, <2>3, ConcatLonger
        <3> QED
            BY <2>1, <3>1
    <2>7. IsSeq(decryptions')
        BY <2>6 DEF Longer
    <2>8. Failures' = Cardinality(FailedIn(decryptions'))
        BY DEF Failures, FailedIn
    <2>9. stats'.files["decrypt_failed"] = stats.files["decrypt_failed"] + Tally(f, "decrypt_failed")
        BY <1>3, <1>4, <1>5
    <2> QED
        BY <2>2, <2>3, <2>4, <2>5, <2>7, <2>8, <2>9
<1> QED
    BY <1>6, <1>7, <1>8, <1>9 DEF Counted

LEMMA NothingSearched ==
    ASSUME searched = <<>>
    PROVE  Entries = {} /\ Places = {} /\ (\A fate : Standings(fate) = {})
PROOF
<1>1. DOMAIN searched = {}
    OBVIOUS
<1>2. Entries = {}
    BY <1>1 DEF Entries
<1> QED
    BY <1>2 DEF Places, Standings

(* What is counted stays but when a source is searched. *)
LEMMA CountsStay ==
    ASSUME GrepStep
    PROVE  \/ SearchSource
           \/ ApplyPresets
           \/ ResolveSources
           \/ UNCHANGED <<sources, cli, records, decryptions, stats, searched>>
PROOF
<1>1. CASE Recognise /\ UNCHANGED grepVars
    BY <1>1 DEF Recognise, grepVars
<1>2. CASE EmitResults \/ Summarise \/ WriteReport
    BY <1>2 DEF EmitResults, Summarise, WriteReport
<1>3. CASE Proceeds \/ Stops
    BY <1>3 DEF Proceeds, Stops
<1> QED
    BY <1>1, <1>2, <1>3 DEF GrepStep

LEMMA CountedStays ==
    ASSUME ScopeInv, Counted, GrepStep, ~SearchSource
    PROVE  Counted'
PROOF
<1>1. UNCHANGED <<decryptions, stats, searched>> /\ (UNCHANGED cli \/ searched = <<>>)
    <2>1. CASE ApplyPresets
        BY <2>1 DEF ApplyPresets, ScopeInv, Early
    <2>2. CASE ResolveSources
        BY <2>2 DEF ResolveSources, Quietly, grepVars
    <2> QED
        BY <2>1, <2>2, CountsStay
<1>2. Places' = Places /\ \A fate \in Fates : Standings(fate)' = Standings(fate)
    <2>1. CASE searched = <<>>
        <3>1. Entries = {} /\ Entries' = {}
            <4>1. DOMAIN searched = {} /\ DOMAIN searched' = {}
                BY <1>1, <2>1
            <4> QED
                BY <4>1 DEF Entries
        <3> QED
            BY <3>1 DEF Places, Standings
    <2>2. CASE UNCHANGED cli
        BY <1>1, <2>2 DEF Places, Standings, Entries, EntryAt, Standing, Hits, InScope, Wanted, Sealed, OfType
    <2> QED
        BY <1>1, <2>1, <2>2
<1>3. Failures' = Failures
    BY <1>1 DEF Failures
<1> QED
    BY <1>1, <1>2, <1>3 DEF Counted

-----------------------------------------------------------------------------
(* The records. *)

(* Places, each once and in their order. *)
Lists(ps, P) ==
    /\ IsSeq(ps)
    /\ \A k \in DOMAIN ps : ps[k] \in P
    /\ \A p \in P : \E k \in DOMAIN ps : ps[k] = p
    /\ \A j, k \in DOMAIN ps : j < k => PlaceBefore(ps[j], ps[k])

LEMMA ListsAre ==
    ASSUME NEW P, NEW ps, Lists(ps, P), \A p \in P : p[1] \in Nat /\ p[2] \in Nat
    PROVE  LET listed == InOrder(P, {p \in P \X P : PlaceBefore(p[1], p[2])})
           IN /\ DOMAIN listed = DOMAIN ps /\ Len(listed) = Len(ps)
              /\ \A k \in DOMAIN ps : listed[k] = ps[k]
PROOF
<1> PICK n \in Nat : n = Len(ps) /\ DOMAIN ps = 1 .. n
    BY DEF Lists, IsSeq
<1> PICK S : S = 1 .. n
    OBVIOUS
<1> PICK first : first = {p \in S \X S : p[1] < p[2]}
    OBVIOUS
<1> PICK second : second = {p \in P \X P : PlaceBefore(p[1], p[2])}
    OBVIOUS
<1>1. IsFiniteSet(S) /\ Cardinality(S) = n
    <2>1. n \in Nat
        OBVIOUS
    <2>2. IsFiniteSet(1 .. n) /\ Cardinality(1 .. n) = n
        BY ONLY <2>1, FS_Interval
    <2> QED
        BY <2>2
<1>2. /\ \A x \in S : ps[x] \in P
      /\ \A y \in P : \E x \in S : ps[x] = y
      /\ \A x, y \in S : x < y => PlaceBefore(ps[x], ps[y])
    BY DEF Lists
<1>3. \A x, y \in S : <<x, y>> \in first <=> x < y
    OBVIOUS
<1>4. \A p, q \in P : <<p, q>> \in second <=> PlaceBefore(p, q)
    OBVIOUS
<1>5. \A p, q \in P : PlaceBefore(p, q) => ~PlaceBefore(q, p)
    <2> SUFFICES ASSUME NEW p \in P, NEW q \in P, PlaceBefore(p, q), PlaceBefore(q, p) PROVE FALSE
        OBVIOUS
    <2>1. p[1] \in Nat /\ p[2] \in Nat /\ q[1] \in Nat /\ q[2] \in Nat
        OBVIOUS
    <2> QED
        BY <2>1 DEF PlaceBefore
<1>6. \A x, y \in S : x \in Nat /\ y \in Nat /\ (x < y \/ x = y \/ y < x)
    OBVIOUS
<1>7. \A x, y \in S : <<x, y>> \in first <=> <<ps[x], ps[y]>> \in second
    <2> SUFFICES ASSUME NEW x \in S, NEW y \in S PROVE x < y <=> PlaceBefore(ps[x], ps[y])
        BY <1>2, <1>3, <1>4
    <2>1. ps[x] \in P /\ ps[y] \in P
        BY <1>2
    <2> QED
        BY <1>2, <1>5, <1>6, <2>1
<1>8. \A x, y \in S : ps[x] = ps[y] => x = y
    <2> SUFFICES ASSUME NEW x \in S, NEW y \in S, ps[x] = ps[y], x # y PROVE FALSE
        OBVIOUS
    <2>1. ps[x] \in P /\ ps[y] \in P /\ (PlaceBefore(ps[x], ps[y]) \/ PlaceBefore(ps[y], ps[x]))
        BY <1>2, <1>6
    <2> QED
        BY <1>5, <2>1
<1>9. /\ \A x \in S : <<x, x>> \notin first
      /\ \A x, y, z \in S : <<x, y>> \in first /\ <<y, z>> \in first => <<x, z>> \in first
      /\ \A x, y \in S : x # y => <<x, y>> \in first \/ <<y, x>> \in first
    BY <1>3, <1>6
<1>10. OrderedAlike(S, first, P, second, ps)
    BY <1>2, <1>7, <1>8, <1>9 DEF OrderedAlike
<1>11. /\ DOMAIN InOrder(P, second) = 1 .. Cardinality(S)
       /\ \A k \in 1 .. Cardinality(S) : InOrder(P, second)[k] = ps[InOrder(S, first)[k]]
    BY ONLY <1>1, <1>10, SameOrder
<1>12. \A k \in 1 .. n : InOrder(S, first)[k] = k
    <2>1. InOrder(S, first) = Ascending(S)
        BY DEF Ascending
    <2> QED
        BY <2>1, AscendingAll
<1> PICK listed : listed = InOrder(P, second)
    OBVIOUS
<1>13. DOMAIN listed = 1 .. n /\ \A k \in 1 .. n : listed[k] = ps[k]
    <2>1. DOMAIN listed = 1 .. n
        BY <1>1, <1>11
    <2>2. \A k \in 1 .. n : listed[k] = ps[InOrder(S, first)[k]]
        BY <1>1, <1>11
    <2> QED
        BY ONLY <1>12, <2>1, <2>2
<1>14. Len(listed) = n
    <2>1. listed = [k \in 1 .. n |-> listed[k]]
        <3>1. InOrder(P, second) = [k \in DOMAIN InOrder(P, second) |-> InOrder(P, second)[k]]
            BY IsListing
        <3> QED
            BY <1>13, <3>1
    <2> QED
        BY <2>1, SequenceOf
<1> QED
    BY <1>13, <1>14

LEMMA ListsJoin ==
    ASSUME NEW P, NEW n \in Nat, \A p \in P : p[1] \in Nat /\ p[1] < n,
           NEW m \in Nat, NEW M \in SUBSET (1 .. m), NEW Q, Joins(P, n, M, Q),
           NEW ps, Lists(ps, P),
           NEW new, new = [k \in DOMAIN Ascending(M) |-> <<n, Ascending(M)[k]>>]
    PROVE  Lists(ps \o new, Q)
PROOF
<1> PICK listed : listed = Ascending(M)
    OBVIOUS
<1> PICK c \in Nat : c = Cardinality(M)
    <2>1. m \in Nat /\ M \in SUBSET (1 .. m)
        OBVIOUS
    <2>2. Cardinality(M) \in Nat
        BY ONLY <2>1, AscendingOk
    <2> QED
        BY <2>2
<1>1. /\ DOMAIN listed = 1 .. c
      /\ \A k \in DOMAIN listed : listed[k] \in M
      /\ \A x \in M : \E k \in DOMAIN listed : listed[k] = x
    <2>1. m \in Nat /\ M \in SUBSET (1 .. m)
        OBVIOUS
    <2>2. /\ DOMAIN Ascending(M) = 1 .. Cardinality(M)
          /\ \A k \in DOMAIN Ascending(M) : Ascending(M)[k] \in M
          /\ \A x \in M : \E k \in DOMAIN Ascending(M) : Ascending(M)[k] = x
        BY ONLY <2>1, AscendingOk
    <2> QED
        BY <2>2
<1>2. \A j, k \in DOMAIN listed : j < k => listed[j] < listed[k]
    <2>1. m \in Nat /\ M \in SUBSET (1 .. m)
        OBVIOUS
    <2>2. \A j, k \in DOMAIN Ascending(M) : j < k => Ascending(M)[j] < Ascending(M)[k]
        BY ONLY <2>1, AscendingGrows
    <2> QED
        BY <2>2
<1>3. DOMAIN new = 1 .. c /\ \A k \in 1 .. c : new[k] = <<n, listed[k]>>
    BY <1>1
<1>4. IsSeq(new)
    <2>1. new = [k \in 1 .. c |-> new[k]]
        BY <1>1
    <2> QED
        BY <2>1, SequenceOf DEF IsSeq
<1> PICK all : all = ps \o new
    OBVIOUS
<1> PICK len \in Nat : len = Len(ps) /\ DOMAIN ps = 1 .. len
    BY DEF Lists, IsSeq
<1>5. /\ IsSeq(all) /\ DOMAIN all = 1 .. len + c
      /\ \A k \in DOMAIN ps : all[k] = ps[k]
      /\ \A k \in DOMAIN new : all[len + k] = new[k]
    <2>1. IsSeq(ps)
        BY DEF Lists
    <2>2. Longer(ps, ps \o new) /\ Len(new) \in Nat /\ DOMAIN new = 1 .. Len(new)
        BY <1>4, <2>1, ConcatLonger
    <2>3. /\ DOMAIN (ps \o new) = 1 .. Len(ps) + Len(new)
          /\ \A k \in DOMAIN new : (ps \o new)[Len(ps) + k] = new[k]
        BY <1>4, <2>1, ConcatLonger
    <2>4. Len(new) = c
        BY <1>3, <2>2
    <2> QED
        BY <2>2, <2>3, <2>4 DEF Longer
<1>6. \A k \in DOMAIN all : k \in DOMAIN ps \/ \E j \in 1 .. c : k = len + j
    <2> SUFFICES ASSUME NEW k \in DOMAIN all, k \notin DOMAIN ps PROVE \E j \in 1 .. c : k = len + j
        OBVIOUS
    <2>1. k - len \in 1 .. c /\ k = len + (k - len)
        BY <1>5
    <2> QED
        BY <2>1
<1>7. Q = P \cup ({n} \X M)
    BY DEF Joins
<1>8. /\ \A k \in DOMAIN ps : all[k] \in P
      /\ \A j \in 1 .. c : len + j \in DOMAIN all /\ all[len + j] = <<n, listed[j]>> /\ listed[j] \in M
    <2>1. \A k \in DOMAIN ps : all[k] \in P
        BY <1>5 DEF Lists
    <2>2. \A j \in 1 .. c : len + j \in DOMAIN all
        BY <1>5
    <2> QED
        BY <1>1, <1>3, <1>5, <2>1, <2>2
<1>9. \A k \in DOMAIN all : all[k] \in Q
    <2>1. \A j \in 1 .. c : <<n, listed[j]>> \in {n} \X M
        BY ONLY <1>8
    <2>2. ASSUME NEW k \in DOMAIN all PROVE all[k] \in P \/ all[k] \in {n} \X M
        <3>1. CASE k \in DOMAIN ps
            BY <1>8, <3>1
        <3>2. ASSUME NEW j \in 1 .. c, k = len + j PROVE all[k] \in {n} \X M
            BY <1>8, <2>1, <3>2
        <3> QED
            BY <1>6, <3>1, <3>2
    <2> QED
        BY <1>7, <2>2
<1>10. \A p \in Q : \E k \in DOMAIN all : all[k] = p
    <2> SUFFICES ASSUME NEW p \in Q PROVE \E k \in DOMAIN all : all[k] = p
        OBVIOUS
    <2>1. CASE p \in P
        <3>1. PICK k \in DOMAIN ps : ps[k] = p
            BY <2>1 DEF Lists
        <3>2. k \in DOMAIN all /\ all[k] = p
            BY <1>5, <3>1
        <3> QED
            BY <3>2
    <2>2. CASE p \in {n} \X M
        <3>1. PICK x \in M : p = <<n, x>>
            <4>1. p \in {n} \X M
                BY <2>2
            <4>2. p[2] \in M /\ p = <<n, p[2]>>
                BY ONLY <4>1
            <4> QED
                BY <4>2
        <3>2. PICK j \in 1 .. c : listed[j] = x
            BY <1>1
        <3> QED
            BY <1>8, <3>1, <3>2
    <2> QED
        BY <1>7, <2>1, <2>2
<1>11. \A j, k \in DOMAIN all : j < k => PlaceBefore(all[j], all[k])
    <2> SUFFICES ASSUME NEW j \in DOMAIN all, NEW k \in DOMAIN all, j < k PROVE PlaceBefore(all[j], all[k])
        OBVIOUS
    <2>1. CASE j \in DOMAIN ps /\ k \in DOMAIN ps
        BY <1>5, <2>1 DEF Lists
    <2>2. CASE j \in DOMAIN ps /\ k \notin DOMAIN ps
        <3>1. PICK i \in 1 .. c : k = len + i
            BY <1>6, <2>2
        <3>2. all[j] \in P /\ all[k][1] = n
            BY <1>8, <2>2, <3>1
        <3>3. all[j][1] < all[k][1]
            BY <3>2
        <3> QED
            BY <3>3 DEF PlaceBefore
    <2>3. CASE j \notin DOMAIN ps /\ k \notin DOMAIN ps
        <3>1. PICK i \in 1 .. c : j = len + i
            BY <1>6, <2>3
        <3>2. PICK h \in 1 .. c : k = len + h
            BY <1>6, <2>3
        <3>3. i < h
            BY <3>1, <3>2
        <3>4. listed[i] < listed[h]
            BY <1>1, <1>2, <3>3
        <3>5. all[j] = <<n, listed[i]>> /\ all[k] = <<n, listed[h]>>
            BY <1>8, <3>1, <3>2
        <3>6. all[j][1] = all[k][1] /\ all[j][2] = listed[i] /\ all[k][2] = listed[h]
            BY ONLY <3>5
        <3> QED
            BY <3>4, <3>6 DEF PlaceBefore
    <2>4. CASE j \notin DOMAIN ps /\ k \in DOMAIN ps
        BY <1>5, <2>4
    <2> QED
        BY <2>1, <2>2, <2>3, <2>4
<1> QED
    BY <1>5, <1>9, <1>10, <1>11 DEF Lists

(* Of the containers that cover a name, one lies within all the others. *)
LEMMA OwnerOk ==
    ASSUME IsInside(Inside), NEW s, s.inside = Inside, NEW name
    PROVE  {resolve(name), None} = Owner(s, name) \cup {None}
PROOF
<1> PICK all : all = Range(Containers)
    OBVIOUS
<1> DEFINE over == {c \in all : name \in c.paths}
           inner == {c \in all : name \in c.paths /\ \A d \in all : name \in d.paths => c.paths \subseteq d.paths}
           size == [c \in over |-> Cardinality(c.paths)]
           Least(c) == \A d \in over : Cardinality(c.paths) <= Cardinality(d.paths)
<1>1. /\ \A c \in all : IsFiniteSet(c.paths)
      /\ \A c, d \in all : c = d \/ c.paths \cap d.paths = {}
                           \/ (c.paths \subseteq d.paths /\ c.paths # d.paths)
                           \/ (d.paths \subseteq c.paths /\ d.paths # c.paths)
    <2>1. all = Range(Inside.containers)
        BY DEF Containers
    <2>2. \A c, d \in all : IsFiniteSet(c.paths) /\ (c = d \/ Apart(c, d) \/ LiesIn(c, d) \/ LiesIn(d, c))
        BY <2>1 DEF IsInside
    <2> QED
        BY <2>2 DEF Apart, LiesIn
<1>2. Owner(s, name) = {c.bundle : c \in inner}
    BY DEF Owner, Containers
<1>3. resolve(name) = IF over = {} THEN None ELSE (CHOOSE c \in over : Least(c)).bundle
    BY DEF resolve
<1>4. CASE over = {}
    <2>1. inner = {}
        BY <1>4
    <2>2. {c.bundle : c \in inner} = {}
        BY <2>1
    <2> QED
        BY <1>2, <1>3, <1>4, <2>2
<1>5. CASE over # {}
    <2>1. \E c \in over : Least(c)
        <3> PICK T : T = {size[c] : c \in over}
            OBVIOUS
        <3>1. \A c \in over : size[c] = Cardinality(c.paths) /\ size[c] \in Nat
            BY <1>1, FS_CardinalityType
        <3>2. T \in SUBSET Nat /\ T # {}
            BY <1>5, <3>1
        <3>3. PICK n \in T : \A x \in T : n <= x
            BY <3>2, LeastNatural
        <3>4. PICK c \in over : size[c] = n
            BY <3>3
        <3> QED
            BY <3>1, <3>3, <3>4
    <2> PICK c : c = CHOOSE x \in over : Least(x)
        OBVIOUS
    <2>2. c \in over /\ Least(c)
        BY <2>1
    <2>3. ASSUME NEW d \in over PROVE c.paths \subseteq d.paths
        <3>1. c \in all /\ d \in all /\ name \in c.paths /\ name \in d.paths
            BY <2>2
        <3>2. Cardinality(c.paths) <= Cardinality(d.paths) /\ IsFiniteSet(c.paths)
            BY <1>1, <2>2, <3>1
        <3>3. CASE d.paths \subseteq c.paths /\ d.paths # c.paths
            <4>1. Cardinality(d.paths) <= Cardinality(c.paths) /\ Cardinality(d.paths) # Cardinality(c.paths)
                BY <3>2, <3>3, FS_Subset
            <4>2. Cardinality(d.paths) \in Nat /\ Cardinality(c.paths) \in Nat
                BY <1>1, <3>1, FS_CardinalityType
            <4> PICK x \in Nat : x = Cardinality(c.paths)
                BY <4>2
            <4> PICK y \in Nat : y = Cardinality(d.paths)
                BY <4>2
            <4>3. x \in Nat /\ y \in Nat /\ x <= y /\ y <= x /\ y # x
                BY <3>2, <4>1
            <4> QED
                BY ONLY <4>3
        <3>4. c.paths \cap d.paths # {}
            BY <3>1
        <3>5. c = d \/ c.paths \subseteq d.paths \/ (d.paths \subseteq c.paths /\ d.paths # c.paths)
            BY ONLY <1>1, <3>1, <3>4
        <3> QED
            BY <3>3, <3>5
    <2>4. c \in inner
        BY <2>2, <2>3
    <2>5. ASSUME NEW d \in inner PROVE d = c
        <3>1. d \in over /\ d.paths \subseteq c.paths
            BY <2>2
        <3>2. c.paths = d.paths
            BY <2>3, <3>1
        <3>3. c.paths \cap d.paths # {}
            BY <2>2, <3>2
        <3> QED
            BY <1>1, <2>2, <3>1, <3>2, <3>3
    <2> HIDE DEF inner, over, Least
    <2>6. inner = {c}
        BY <2>4, <2>5
    <2>7. {x.bundle : x \in inner} = {c.bundle}
        BY <2>6
    <2> QED
        BY <1>2, <1>3, <1>5, <2>7
<1> QED
    BY <1>4, <1>5

(* What a record tells of entry e of source n. *)
Labelled(n, e) == IF multi THEN <<sources[n].label>> \o e.name ELSE e.name

Told(r, n, e) ==
    IF cli.count THEN r = [path |-> Labelled(n, e), count |-> Hits(e)]
    ELSE /\ r.archive_path = sources[n].full /\ r.archive = (IF multi THEN sources[n].label ELSE None)
         /\ r.path = e.name /\ {r.bundle_id, None} = Owner(searched[n], e.name) \cup {None}
         /\ r.hits = Hits(e)

RecordsInv ==
    /\ IsSeq(records)
    /\ \E ps : /\ Lists(ps, Places) /\ Len(ps) = Len(records)
               /\ \A k \in DOMAIN ps : Told(records[k], ps[k][1], EntryAt(ps[k]))

(* A record that is made tells of its entry. *)
LEMMA RecordTells ==
    ASSUME IsInside(Inside), NEW s, s.inside = Inside, NEW e, NEW n, n = turn, NEW r, r = Record(e),
           UNCHANGED <<sources, cli>>, searched'[n] = s
    PROVE  Told(r, n, e)'
PROOF
<1>1. HitsIn(e) = Hits(e) /\ Hits(e)' = Hits(e) /\ multi' = multi /\ Source = sources[n]
    BY StandingStays DEF multi, Source
<1>2. Labelled(n, e)' = Labelled(n, e)
    BY <1>1 DEF Labelled
<1>3. CASE cli.count
    <2>1. r = [path |-> Labelled(n, e), count |-> Hits(e)]
        BY <1>1, <1>3 DEF Record, Labelled
    <2> QED
        BY <1>1, <1>2, <1>3, <2>1 DEF Told
<1>4. CASE ~cli.count
    <2>1. /\ r.archive_path = sources[n].full /\ r.archive = (IF multi THEN sources[n].label ELSE None)
          /\ r.path = e.name /\ r.bundle_id = resolve(e.name) /\ r.hits = Hits(e)
        BY <1>1, <1>4 DEF Record
    <2>2. {r.bundle_id, None} = Owner(s, e.name) \cup {None}
        BY <2>1, OwnerOk
    <2>3. Owner(searched[n], e.name)' = Owner(s, e.name)
        BY DEF Owner
    <2> QED
        BY <1>1, <1>4, <2>1, <2>2, <2>3 DEF Told
<1> QED
    BY <1>3, <1>4

(* And still does later. *)
LEMMA ToldStays ==
    ASSUME UNCHANGED <<sources, cli>>, NEW n, searched'[n] = searched[n], NEW e, NEW r, Told(r, n, e)
    PROVE  Told(r, n, e)'
PROOF
<1>1. Hits(e)' = Hits(e) /\ multi' = multi
    BY DEF multi, Hits
<1>2. Labelled(n, e)' = Labelled(n, e)
    BY <1>1 DEF Labelled
<1>3. Owner(searched[n], e.name)' = Owner(searched[n], e.name)
    BY DEF Owner
<1> QED
    BY <1>1, <1>2, <1>3 DEF Told

LEMMA RecordsStep ==
    ASSUME WellSourced, ScopeInv, SearchedInv, Shows(View), RecordsInv, SearchSource
    PROVE  RecordsInv'
PROOF
<1> PICK s : s = [view |-> View, inside |-> Inside, scanned |-> Scanned(widen_filter_for_apps)]
    OBVIOUS
<1> PICK m : Grows(s, m)
    BY SearchGrows
<1> PICK f : f = widen_filter_for_apps
    OBVIOUS
<1> PICK t : t = turn
    OBVIOUS
<1> PICK hit : hit = WithHits(f)
    OBVIOUS
<1> PICK listed : listed = Ascending(hit)
    OBVIOUS
<1> PICK ps : /\ Lists(ps, Places) /\ Len(ps) = Len(records)
              /\ \A k \in DOMAIN ps : Told(records[k], ps[k][1], EntryAt(ps[k]))
    BY DEF RecordsInv
<1> PICK new : new = [k \in DOMAIN listed |-> <<t, listed[k]>>]
    OBVIOUS
<1> PICK made : made = Handled(f)
    OBVIOUS
<1>1. /\ m \in Nat /\ DOMAIN View = 1 .. m /\ UNCHANGED <<cli, sources>> /\ s.view = View /\ s.inside = Inside
      /\ records' = records \o made /\ command = "serve"
    BY DEF Grows, SearchSource, Close
<1>2. IsInside(Inside) /\ t \in Nat
    BY <1>1, InsideOk DEF WellSourced
<1>3. /\ \A p \in Entries : p[1] \in DOMAIN searched /\ p[1] \in Nat /\ p[1] < t
      /\ \A n \in DOMAIN searched : searched'[n] = searched[n]
      /\ searched'[t] = s
    BY EntriesGrow
<1>4. hit \in SUBSET (1 .. m)
    BY <1>1, TalliesAdd
<1> PICK c \in Nat : c = Cardinality(hit)
    <2>1. Cardinality(hit) \in Nat
        BY ONLY <1>1, <1>4, AscendingOk
    <2> QED
        BY <2>1
<1>5. DOMAIN listed = 1 .. c /\ \A k \in 1 .. c : listed[k] \in 1 .. m
    <2>1. DOMAIN Ascending(hit) = 1 .. Cardinality(hit) /\ \A k \in DOMAIN Ascending(hit) : Ascending(hit)[k] \in hit
        BY ONLY <1>1, <1>4, AscendingOk
    <2> QED
        BY <1>4, <2>1
<1>6. Lists(ps \o new, Places')
    <2> PICK old : old = Places
        OBVIOUS
    <2> PICK all : all = Places'
        OBVIOUS
    <2>1. all = old \cup ({t} \X hit)
        BY PlacesGrow
    <2>2. \A p \in old : p[1] \in Nat /\ p[1] < t
        BY <1>3 DEF Places
    <2>3. Joins(old, t, hit, all)
        BY <1>2, <2>1, <2>2 DEF Joins
    <2>4. Lists(ps, old) /\ new = [k \in DOMAIN Ascending(hit) |-> <<t, Ascending(hit)[k]>>]
        OBVIOUS
    <2>5. m \in Nat /\ t \in Nat
        BY <1>1, <1>2
    <2>6. Lists(ps \o new, all)
        BY ONLY <1>4, <2>2, <2>3, <2>4, <2>5, ListsJoin
    <2> QED
        BY <2>6
<1>7. /\ DOMAIN new = 1 .. c /\ \A k \in 1 .. c : new[k] = <<t, listed[k]>>
      /\ IsSeq(new)
    <2>1. DOMAIN new = 1 .. c /\ \A k \in 1 .. c : new[k] = <<t, listed[k]>>
        BY <1>5
    <2>2. new = [k \in 1 .. c |-> new[k]]
        BY <1>5
    <2> QED
        BY <2>1, <2>2, SequenceOf DEF IsSeq
<1>8. /\ DOMAIN made = 1 .. c /\ \A k \in 1 .. c : made[k] = Record(View[listed[k]])
      /\ IsSeq(made)
    <2>1. made = [k \in 1 .. c |-> Record(View[listed[k]])]
        BY <1>5 DEF Handled, Matched
    <2>2. DOMAIN made = 1 .. c /\ \A k \in 1 .. c : made[k] = Record(View[listed[k]])
        BY <2>1
    <2>3. made = [k \in 1 .. c |-> made[k]]
        BY <2>1
    <2> QED
        BY <2>2, <2>3, SequenceOf DEF IsSeq
<1>9. \A k \in 1 .. c : Told(made[k], new[k][1], EntryAt(new[k]))'
    <2> SUFFICES ASSUME NEW k \in 1 .. c PROVE Told(made[k], new[k][1], EntryAt(new[k]))'
        OBVIOUS
    <2> PICK e : e = View[listed[k]]
        OBVIOUS
    <2> PICK r : r = made[k]
        OBVIOUS
    <2> PICK p : p = new[k]
        OBVIOUS
    <2>1. r = Record(e) /\ p[1] = t /\ p[2] = listed[k]
        BY <1>7, <1>8
    <2>2. EntryAt(p)' = e
        BY <1>1, <1>3, <2>1 DEF EntryAt
    <2>3. Told(r, t, e)'
        BY <1>1, <1>2, <1>3, <2>1, RecordTells
    <2>4. Told(r, p[1], EntryAt(p))'
        BY <2>1, <2>2, <2>3 DEF Told, Labelled
    <2> QED
        BY <2>4
<1>10. \A k \in DOMAIN ps : Told(records[k], ps[k][1], EntryAt(ps[k])) => \A r : r = records[k] => Told(r, ps[k][1], EntryAt(ps[k]))'
    <2> SUFFICES ASSUME NEW k \in DOMAIN ps, Told(records[k], ps[k][1], EntryAt(ps[k])), NEW r, r = records[k]
                 PROVE  Told(r, ps[k][1], EntryAt(ps[k]))'
        OBVIOUS
    <2> PICK p : p = ps[k]
        OBVIOUS
    <2> PICK n : n = p[1]
        OBVIOUS
    <2> PICK e : e = EntryAt(p)
        OBVIOUS
    <2>1. p \in Places /\ p \in Entries
        BY DEF Lists, Places
    <2>2. n \in DOMAIN searched /\ searched'[n] = searched[n]
        BY <1>3, <2>1
    <2>3. EntryAt(p)' = e
        BY <2>2 DEF EntryAt
    <2>4. Told(r, n, e)'
        BY <1>1, <2>2, ToldStays
    <2>5. Told(r, p[1], EntryAt(p))'
        BY <2>3, <2>4 DEF Told, Labelled
    <2> QED
        BY <2>5
<1> PICK all : all = ps \o new
    OBVIOUS
<1> PICK len \in Nat : len = Len(ps) /\ DOMAIN ps = 1 .. len
    BY DEF Lists, IsSeq
<1>11. IsSeq(ps) /\ IsSeq(records) /\ Len(records) = len /\ DOMAIN records = 1 .. len
    BY DEF Lists, RecordsInv, IsSeq
<1>12. /\ DOMAIN all = 1 .. len + c /\ Len(all) = len + c
       /\ \A k \in DOMAIN ps : all[k] = ps[k]
       /\ \A k \in 1 .. c : all[len + k] = new[k]
    <2>1. /\ Longer(ps, ps \o new) /\ Len(new) \in Nat /\ DOMAIN new = 1 .. Len(new)
          /\ DOMAIN (ps \o new) = 1 .. Len(ps) + Len(new) /\ Len(ps \o new) = Len(ps) + Len(new)
          /\ \A k \in DOMAIN new : (ps \o new)[Len(ps) + k] = new[k]
        BY <1>7, <1>11, ConcatLonger
    <2>2. Len(new) = c
        BY <1>7, <2>1
    <2> QED
        BY <1>7, <2>1, <2>2 DEF Longer
<1>13. /\ IsSeq(records') /\ Len(records') = len + c
       /\ \A k \in DOMAIN ps : records'[k] = records[k]
       /\ \A k \in 1 .. c : records'[len + k] = made[k]
    <2>1. /\ Longer(records, records \o made) /\ Len(made) \in Nat /\ DOMAIN made = 1 .. Len(made)
          /\ Len(records \o made) = Len(records) + Len(made)
          /\ \A k \in DOMAIN made : (records \o made)[Len(records) + k] = made[k]
        BY <1>8, <1>11, ConcatLonger
    <2>2. Len(made) = c
        BY <1>8, <2>1
    <2> QED
        BY <1>1, <1>8, <1>11, <2>1, <2>2 DEF Longer
<1>14. \A k \in DOMAIN all : Told(records[k], all[k][1], EntryAt(all[k]))'
    <2> SUFFICES ASSUME NEW k \in DOMAIN all PROVE Told(records[k], all[k][1], EntryAt(all[k]))'
        OBVIOUS
    <2> PICK r : r = records'[k]
        OBVIOUS
    <2> PICK p : p = all[k]
        OBVIOUS
    <2>1. Told(r, p[1], EntryAt(p))'
        <3>1. CASE k \in DOMAIN ps
            <4>1. r = records[k] /\ p = ps[k]
                BY <1>12, <1>13, <3>1
            <4> QED
                BY <1>10, <3>1, <4>1
        <3>2. CASE k \notin DOMAIN ps
            <4> PICK j : j = k - len
                OBVIOUS
            <4>1. j \in 1 .. c /\ k = len + j
                BY <1>12, <3>2
            <4>2. r = made[j] /\ p = new[j]
                <5>1. all[len + j] = new[j] /\ records'[len + j] = made[j]
                    BY ONLY <1>12, <1>13, <4>1
                <5> QED
                    BY ONLY <5>1, <4>1, r = records'[k], p = all[k]
            <4> QED
                BY <1>9, <4>1, <4>2
        <3> QED
            BY <3>1, <3>2
    <2> QED
        BY <2>1 DEF Told
<1>15. Lists(all, Places)'
    BY <1>6
<1> QED
    BY ONLY <1>12, <1>13, <1>14, <1>15 DEF RecordsInv

LEMMA RecordsStay ==
    ASSUME ScopeInv, command \in Early => records = <<>>, RecordsInv, GrepStep, ~SearchSource
    PROVE  RecordsInv'
PROOF
<1>1. CASE ApplyPresets \/ ResolveSources
    <2>1. command \in Early /\ UNCHANGED <<records, searched>>
        BY <1>1 DEF ApplyPresets, ResolveSources, Quietly, grepVars, Early
    <2>2. searched' = <<>> /\ records' = <<>>
        BY <2>1 DEF ScopeInv
    <2>3. Places' = {}
        <3>1. DOMAIN searched' = {}
            BY <2>2
        <3>2. Entries' = {}
            BY <3>1 DEF Entries
        <3> QED
            BY <3>2 DEF Places
    <2>4. IsSeq(records') /\ Len(records') = 0
        BY <2>2, SingleSeq
    <2> PICK ps : ps = <<>>
        OBVIOUS
    <2>5. IsSeq(ps) /\ Len(ps) = 0 /\ DOMAIN ps = {}
        BY SingleSeq
    <2>6. Lists(ps, Places') /\ Len(ps) = Len(records')
        BY <2>3, <2>4, <2>5 DEF Lists
    <2> QED
        BY <2>4, <2>5, <2>6 DEF RecordsInv
<1>2. CASE UNCHANGED <<sources, cli, records, decryptions, stats, searched>>
    <2>1. Places' = Places
        BY <1>2 DEF Places, Entries, EntryAt, Hits
    <2>2. \A r, n, e : Told(r, n, e)' <=> Told(r, n, e)
        BY <1>2 DEF Told, Labelled, multi, Owner, Hits
    <2> PICK ps : /\ Lists(ps, Places) /\ Len(ps) = Len(records)
                  /\ \A k \in DOMAIN ps : Told(records[k], ps[k][1], EntryAt(ps[k]))
        BY DEF RecordsInv
    <2>3. ASSUME NEW k \in DOMAIN ps PROVE Told(records[k], ps[k][1], EntryAt(ps[k]))'
        <3> PICK e : e = EntryAt(ps[k])
            OBVIOUS
        <3>1. EntryAt(ps[k])' = e /\ records'[k] = records[k]
            BY <1>2 DEF EntryAt
        <3>2. Told(records[k], ps[k][1], e)
            OBVIOUS
        <3> QED
            BY <1>2, <3>1, <3>2 DEF Told, Labelled, multi, Owner, Hits
    <2> QED
        BY <1>2, <2>1, <2>3 DEF RecordsInv
<1> QED
    BY <1>1, <1>2, CountsStay

(* A line tells what its record tells. *)
LEMMA LineTells ==
    ASSUME NEW n \in DOMAIN sources, IsSource(sources[n]), NEW e, NEW r, Told(r, n, e)
    PROVE  /\ cli.count => TellsOf(r, n, e)
           /\ ~cli.count /\ cli.format = "txt" => TellsOf(Out!write_txt(r, cli.match_path), n, e)
           /\ ~cli.count /\ cli.format = "csv" => TellsOf(Out!CsvView(r), n, e)
           /\ ~cli.count /\ cli.format = "json" => TellsOf(Out!JsonView(r), n, e)
PROOF
<1>1. sources[n].label # None
    BY SourcesAssumption DEF IsSource
<1>2. multi <=> Len(sources) > 1
    BY DEF multi
<1>3. cli.count => TellsOf(r, n, e)
    BY <1>2 DEF Told, TellsOf, Labelled
<1>4. ASSUME ~cli.count, cli.format = "txt" PROVE TellsOf(Out!write_txt(r, cli.match_path), n, e)
    <2> PICK line : line = Out!write_txt(r, cli.match_path)
        OBVIOUS
    <2>1. Out!Joined(r) = Labelled(n, e)
        BY <1>1, <1>4 DEF Out!Joined, Told, Labelled
    <2>2. line.path = Labelled(n, e) /\ (~cli.match_path => line.app = r.bundle_id)
        BY <2>1 DEF Out!write_txt
    <2> QED
        BY <1>2, <1>4, <2>2 DEF TellsOf, Told, Labelled
<1>5. ASSUME ~cli.count, cli.format = "csv" PROVE TellsOf(Out!CsvView(r), n, e)
    <2> PICK line : line = Out!CsvView(r)
        OBVIOUS
    <2>1. line.archive = r.archive /\ line.path = r.path /\ line.hits = r.hits
        BY DEF Out!CsvView
    <2> QED
        BY <1>2, <1>5, <2>1 DEF TellsOf, Told
<1>6. ASSUME ~cli.count, cli.format = "json" PROVE TellsOf(Out!JsonView(r), n, e)
    <2> PICK line : line = Out!JsonView(r)
        OBVIOUS
    <2>1. line.archive = r.archive_path /\ line.path = r.path /\ line.hits = r.hits /\ line.app = r.bundle_id
        BY DEF Out!JsonView
    <2> QED
        BY <1>6, <2>1 DEF TellsOf, Told
<1> QED
    BY <1>3, <1>4, <1>5, <1>6

(* What is written at the end tells of every place. *)
LEMMA EmittedTells ==
    ASSUME IsArguments(cli), RecordsInv, \A n \in DOMAIN searched : SearchedAs(n, searched[n]),
           DOMAIN searched \subseteq Nat
    PROVE  LET in_order == InOrder(Places, {p \in Places \X Places : PlaceBefore(p[1], p[2])})
               lines == emitted.results
           IN /\ Len(lines) = Len(in_order)
              /\ \A k \in DOMAIN lines : TellsOf(lines[k], in_order[k][1], EntryAt(in_order[k]))
PROOF
<1> PICK in_order : in_order = InOrder(Places, {p \in Places \X Places : PlaceBefore(p[1], p[2])})
    OBVIOUS
<1> PICK lines : lines = emitted.results
    OBVIOUS
<1> PICK ps : /\ Lists(ps, Places) /\ Len(ps) = Len(records)
              /\ \A k \in DOMAIN ps : Told(records[k], ps[k][1], EntryAt(ps[k]))
    BY DEF RecordsInv
<1> PICK n \in Nat : n = Len(ps) /\ DOMAIN ps = 1 .. n
    BY DEF Lists, IsSeq
<1>1. DOMAIN records = 1 .. n /\ Len(records) = n
    BY DEF RecordsInv, IsSeq
<1>2. \A p \in Places : p[1] \in DOMAIN searched /\ p[1] \in DOMAIN sources /\ p[1] \in Nat /\ p[2] \in Nat
    <2> SUFFICES ASSUME NEW p \in Places
                 PROVE  p[1] \in DOMAIN searched /\ p[1] \in DOMAIN sources /\ p[1] \in Nat /\ p[2] \in Nat
        OBVIOUS
    <2>1. PICK i \in DOMAIN searched : p \in {i} \X DOMAIN searched[i].view
        BY DEF Places, Entries
    <2>2. p[1] = i /\ p[2] \in DOMAIN searched[i].view
        BY ONLY <2>1
    <2>3. SearchedAs(i, searched[i])
        OBVIOUS
    <2>4. i \in DOMAIN sources /\ i \in Nat /\ \E m \in Nat : DOMAIN searched[i].view = 1 .. m
        BY <2>3 DEF SearchedAs
    <2> QED
        BY <2>2, <2>4
<1>3. /\ DOMAIN in_order = DOMAIN ps /\ Len(in_order) = n
      /\ \A k \in DOMAIN ps : in_order[k] = ps[k]
    <2> PICK P : P = Places
        OBVIOUS
    <2>1. Lists(ps, P) /\ \A p \in P : p[1] \in Nat /\ p[2] \in Nat
        BY <1>2
    <2>2. in_order = InOrder(P, {p \in P \X P : PlaceBefore(p[1], p[2])})
        OBVIOUS
    <2> QED
        BY <2>1, <2>2, ListsAre
<1>4. ASSUME NEW k \in 1 .. n
      PROVE  /\ cli.count => TellsOf(records[k], ps[k][1], EntryAt(ps[k]))
             /\ ~cli.count /\ cli.format = "txt" =>
                    TellsOf(Out!write_txt(records[k], cli.match_path), ps[k][1], EntryAt(ps[k]))
             /\ ~cli.count /\ cli.format = "csv" => TellsOf(Out!CsvView(records[k]), ps[k][1], EntryAt(ps[k]))
             /\ ~cli.count /\ cli.format = "json" => TellsOf(Out!JsonView(records[k]), ps[k][1], EntryAt(ps[k]))
    <2> PICK r : r = records[k]
        OBVIOUS
    <2> PICK i : i = ps[k][1]
        OBVIOUS
    <2> PICK e : e = EntryAt(ps[k])
        OBVIOUS
    <2>1. ps[k] \in Places
        BY DEF Lists
    <2>2. i \in DOMAIN sources /\ SearchedAs(i, searched[i])
        BY <1>2, <2>1
    <2>3. IsSource(sources[i])
        BY <2>2 DEF SearchedAs
    <2>4. Told(r, i, e)
        OBVIOUS
    <2>5. /\ cli.count => TellsOf(r, i, e)
          /\ ~cli.count /\ cli.format = "txt" => TellsOf(Out!write_txt(r, cli.match_path), i, e)
          /\ ~cli.count /\ cli.format = "csv" => TellsOf(Out!CsvView(r), i, e)
          /\ ~cli.count /\ cli.format = "json" => TellsOf(Out!JsonView(r), i, e)
        BY <2>2, <2>3, <2>4, LineTells
    <2> QED
        BY <2>5
<1>5. cli.format \in {"txt", "csv", "json"}
    BY DEF IsArguments
<1>6. /\ DOMAIN lines = 1 .. n /\ Len(lines) = n
      /\ \A k \in 1 .. n : TellsOf(lines[k], ps[k][1], EntryAt(ps[k]))
    <2>1. CASE cli.count
        <3>1. lines = records
            BY <2>1 DEF emitted, Out!write_counts
        <3> QED
            BY <1>1, <1>4, <2>1, <3>1
    <2>2. CASE ~cli.count /\ cli.format = "txt"
        <3>1. lines = [k \in 1 .. n |-> Out!write_txt(records[k], cli.match_path)]
            BY <1>1, <2>2 DEF emitted, Out!write_results, Out!Rendered
        <3>2. DOMAIN lines = 1 .. n /\ \A k \in 1 .. n : lines[k] = Out!write_txt(records[k], cli.match_path)
            BY <3>1
        <3>3. lines = [k \in 1 .. n |-> lines[k]]
            BY <3>1
        <3>4. Len(lines) = n
            BY <3>2, <3>3, SequenceOf
        <3> QED
            BY <1>4, <2>2, <3>2, <3>4
    <2>3. CASE ~cli.count /\ cli.format = "csv"
        <3>1. lines = [k \in 1 .. n |-> Out!CsvView(records[k])]
            BY <1>1, <2>3 DEF emitted, Out!write_results, Out!Rendered
        <3>2. DOMAIN lines = 1 .. n /\ \A k \in 1 .. n : lines[k] = Out!CsvView(records[k])
            BY <3>1
        <3>3. lines = [k \in 1 .. n |-> lines[k]]
            BY <3>1
        <3>4. Len(lines) = n
            BY <3>2, <3>3, SequenceOf
        <3> QED
            BY <1>4, <2>3, <3>2, <3>4
    <2>4. CASE ~cli.count /\ cli.format = "json"
        <3>1. lines = [k \in 1 .. n |-> Out!JsonView(records[k])]
            BY <1>1, <2>4 DEF emitted, Out!write_results, Out!Rendered
        <3>2. DOMAIN lines = 1 .. n /\ \A k \in 1 .. n : lines[k] = Out!JsonView(records[k])
            BY <3>1
        <3>3. lines = [k \in 1 .. n |-> lines[k]]
            BY <3>1
        <3>4. Len(lines) = n
            BY <3>2, <3>3, SequenceOf
        <3> QED
            BY <1>4, <2>4, <3>2, <3>4
    <2> QED
        BY <1>5, <2>1, <2>2, <2>3, <2>4
<1>7. ASSUME NEW k \in DOMAIN lines PROVE TellsOf(lines[k], in_order[k][1], EntryAt(in_order[k]))
    BY <1>3, <1>6
<1> QED
    BY <1>3, <1>6, <1>7

-----------------------------------------------------------------------------
(* The whole of a search. *)
ReportInv ==
    /\ SearchedInv /\ WrittenInv /\ FactsInv /\ SaidInv
    /\ cli.name = "grep" => Counted /\ RecordsInv /\ (command \in Early => records = <<>>)

LEMMA WrittenGrows ==
    ASSUME IsSeq(written), [Next]_vars
    PROVE  IsSeq(written')
PROOF
<1>1. ASSUME NEW x PROVE IsSeq(Append(written, x))
    BY AppendLonger DEF Longer
<1>2. CASE UNCHANGED written
    BY <1>2
<1>3. CASE UNCHANGED grepVars
    BY <1>2, <1>3 DEF grepVars
<1>4. CASE GrepNext
    BY <1>1, <1>2, <1>4 DEF GrepNext, ApplyPresets, PresetFails, BuildQuery, QueryFails, ResolveSources, ResolveFails,
            AnnounceRules, RefuseFlags, BuildContext, ContextFails, SearchSource, ExportFails, EmitResults, EmitFails,
            Summarise, WriteReport, ReportFails, Quietly, grepVars
<1>5. CASE DiffNext
    BY <1>1, <1>2, <1>5 DEF DiffNext, RejectUnsupported, OpenSides, SideRefused, KeepSideA, BeginCompare, ComparePath,
            CompareFails, EmitDiff, EmitDiffFails, ExportChanges, ExportRefused, ExportChangesFails, Quietly, grepVars
<1> QED
    BY <1>3, <1>4, <1>5, VarsUnchanged DEF Next

LEMMA ReportInit == Init => ReportInv
PROOF
<1> SUFFICES ASSUME Init PROVE ReportInv
    OBVIOUS
<1>1. /\ command = IF cli.name = "grep" THEN "presets" ELSE "diff"
      /\ sources = <<>> /\ turn = 1 /\ facts = None /\ records = <<>> /\ decryptions = <<>>
      /\ stats = NoStats /\ said = <<>> /\ written = <<>> /\ searched = <<>>
    BY DEF Init, SourcesInit, GrepInit
<1>2. /\ IsSeq(<<>>) /\ DOMAIN <<>> = {} /\ Len(<<>>) = 0
    BY SingleSeq
<1>3. SearchedInv
    BY <1>1, <1>2 DEF SearchedInv, Ending
<1>4. WrittenInv
    <2>1. \A what : Written(what) = {}
        BY <1>1, <1>2 DEF Written
    <2> QED
        BY <1>1, <1>2, <2>1 DEF WrittenInv
<1>5. FactsInv
    <2>1. BackupsTo(0) = {}
        BY DEF BackupsTo
    <2>2. FactsOf(0)
        BY <1>1, <2>1 DEF FactsOf
    <2> QED
        BY <1>1, <2>2 DEF FactsInv
<1>6. SaidInv
    <2>1. Lines(said, "decryptions") = {} /\ Lines(said, "backup") = {}
        BY <1>1, <1>2 DEF Lines
    <2> QED
        BY <1>1, <2>1 DEF SaidInv
<1>7. Entries = {} /\ Places = {} /\ (\A fate : Standings(fate) = {})
    BY <1>1, NothingSearched
<1>8. Counted
    <2>1. stats.files = [c \in Counters |-> 0]
        BY <1>1 DEF NoStats
    <2>2. stats.files \in [Counters -> Nat] /\ \A c \in Counters : stats.files[c] = 0
        BY <2>1
    <2>3. Fates \subseteq Counters /\ "matched" \in Counters /\ "decrypt_failed" \in Counters
        BY DEF Fates, Counters
    <2>4. IsFiniteSet({}) /\ Cardinality({}) = 0
        BY FS_EmptySet
    <2>5. Failures = 0
        <3>1. {k \in DOMAIN decryptions : decryptions[k].outcome = "fails"} = {}
            BY <1>1, <1>2
        <3> QED
            BY <2>4, <3>1 DEF Failures
    <2>6. \A fate \in Fates : IsFiniteSet(Standings(fate)) /\ stats.files[fate] = Cardinality(Standings(fate))
        BY <1>7, <2>2, <2>3, <2>4
    <2>7. IsFiniteSet(Places) /\ stats.files["matched"] = Cardinality(Places)
        BY <1>7, <2>2, <2>3, <2>4
    <2>8. IsSeq(decryptions)
        BY <1>1, <1>2
    <2> QED
        BY <2>2, <2>3, <2>5, <2>6, <2>7, <2>8 DEF Counted
<1>9. RecordsInv
    <2> PICK ps : ps = <<>>
        OBVIOUS
    <2>1. Lists(ps, Places) /\ Len(ps) = Len(records) /\ DOMAIN ps = {}
        BY <1>1, <1>2, <1>7 DEF Lists
    <2> QED
        BY <1>1, <1>2, <2>1 DEF RecordsInv
<1> QED
    BY <1>1, <1>3, <1>4, <1>5, <1>6, <1>8, <1>9 DEF ReportInv

LEMMA ReportStep ==
    WellSourced /\ WellSourced' /\ TarInv /\ ZipInv /\ FolderInv /\ ServedInv /\ ScopeInv /\ ReportInv /\ [Next]_vars
        => ReportInv'
PROOF
<1> SUFFICES ASSUME WellSourced, WellSourced', TarInv, ZipInv, FolderInv, ServedInv, ScopeInv, ReportInv, [Next]_vars
             PROVE  ReportInv'
    OBVIOUS
<1>1. command = "serve" => Shows(View)
    BY ViewOk
<1>2. SearchedInv'
    BY <1>1, SearchedStep DEF ReportInv
<1>3. cli'.name = cli.name
    BY NameStays
<1>4. CASE cli.name # "grep"
    <2>1. IsSeq(written')
        BY <1>4, WrittenGrows DEF ReportInv, WrittenInv
    <2> QED
        BY <1>2, <1>3, <1>4, <2>1 DEF ReportInv, WrittenInv, FactsInv, SaidInv
<1>5. CASE cli.name = "grep"
    <2>1. GrepStep
        BY <1>5, GrepSteps DEF ScopeInv
    <2>2. WrittenInv'
        BY <1>5, WrittenStep DEF ReportInv
    <2>3. FactsInv'
        BY <1>5, FactsStep DEF ReportInv
    <2>4. SaidInv'
        BY <1>5, SaidStep DEF ReportInv
    <2>5. Counted /\ RecordsInv /\ (command \in Early => records = <<>>)
        BY <1>5 DEF ReportInv
    <2>6. CASE SearchSource
        <3>1. Shows(View) /\ command' \notin Early
            BY <1>1, <2>6 DEF SearchSource, Early
        <3>2. Counted'
            BY <2>5, <2>6, <3>1, CountedStep
        <3>3. RecordsInv'
            BY <2>5, <2>6, <3>1, RecordsStep DEF ReportInv
        <3> QED
            BY <1>2, <2>2, <2>3, <2>4, <3>1, <3>2, <3>3 DEF ReportInv
    <2>7. CASE ~SearchSource
        <3>1. Counted'
            BY <2>1, <2>5, <2>7, CountedStays
        <3>2. RecordsInv'
            BY <2>1, <2>5, <2>7, RecordsStay
        <3>3. command' \in Early => command \in Early /\ records' = records
            BY <2>1, <2>7 DEF GrepStep, ApplyPresets, ResolveSources, Resolve, Recognise, EmitResults, Summarise, WriteReport,
                              Proceeds, Stops, Quietly, grepVars, Early
        <3> QED
            BY <1>2, <2>2, <2>3, <2>4, <2>5, <3>1, <3>2, <3>3 DEF ReportInv
    <2> QED
        BY <2>6, <2>7
<1> QED
    BY <1>4, <1>5

LEMMA OnlyHeld ==
    ASSUME NEW what, NEW x, Only(what, x), IsSeq(written)
    PROVE  Holds(what) = x
PROOF
<1>1. PICK k : Written(what) = {k} /\ written[k].holds = x
    BY DEF Only
<1>2. k \in Nat
    <2>1. k \in DOMAIN written
        BY <1>1 DEF Written
    <2>2. DOMAIN written = 1 .. Len(written)
        BY DEF IsSeq
    <2> QED
        BY <2>1, <2>2
<1>3. Max({k}) = k
    BY <1>2 DEF Max
<1> QED
    BY <1>1, <1>3 DEF Holds

LEMMA BackupTold ==
    ASSUME WellSourced, SearchedInv, WrittenInv, FactsInv, SaidInv, cli.name = "grep"
    PROVE  BackupAnnounced
PROOF
<1> SUFFICES ASSUME command = "done" PROVE BackupAnnounced
    BY DEF BackupAnnounced
<1> PICK n : n = Len(sources)
    OBVIOUS
<1> PICK backups : backups = BackupsTo(n)
    OBVIOUS
<1>1. n \in Nat /\ DOMAIN sources = 1 .. n /\ turn = n + 1
    BY DEF WellSourced, SearchedInv, Ending
<1>2. FactsOf(n)
    BY <1>1 DEF FactsInv
<1>3. Announced
    BY DEF SaidInv
<1>4. Written("report") # {} => Holds("report").backup = facts
    <2>1. Written("report") # {} => Holds("report") = Reporting
        BY OnlyHeld DEF WrittenInv
    <2> QED
        BY <2>1 DEF Reporting, Out!write_scan_report
<1>5. backups = {m \in DOMAIN sources : sources[m].inside.backup # None} /\ backups \subseteq Nat
    BY <1>1 DEF BackupsTo
<1> PICK lines : lines = {k \in DOMAIN said : said[k].what = "backup"}
    OBVIOUS
<1>6. lines = Lines(said, "backup")
    BY DEF Lines
<1>7. /\ Cardinality(lines) = (IF backups = {} THEN 0 ELSE 1)
      /\ \A k \in lines : said[k].source = Max(backups) /\ said[k].default = sources[Max(backups)].inside.backup.default
      /\ Written("report") # {} => (Holds("report").backup = None <=> backups = {})
    <2>1. CASE backups = {}
        <3>1. facts = None
            BY <1>2, <2>1 DEF FactsOf
        <3>2. lines = {}
            BY <1>3, <1>6, <3>1 DEF Announced
        <3> QED
            BY <1>4, <2>1, <3>1, <3>2, FS_EmptySet
    <2>2. CASE backups # {}
        <3>1. PICK m \in backups :
                 /\ \A k \in backups : k <= m
                 /\ facts = [source |-> m, default |-> sources[m].inside.backup.default]
                 /\ facts \in [source : Nat, default : BOOLEAN]
            BY <1>2, <2>2 DEF FactsOf
        <3>2. facts # None
            BY <3>1, SourcesAssumption
        <3>3. PICK k : /\ lines = {k} /\ said[k].source = facts.source /\ said[k].default = facts.default
            BY <1>3, <1>6, <3>2 DEF Announced
        <3>4. Max(backups) = m
            <4>1. \A x \in backups : (\A y \in backups : y <= x) => x = m
                BY <1>5, <3>1
            <4>2. Max(backups) = CHOOSE x \in backups : \A y \in backups : y <= x
                BY DEF Max
            <4> QED
                BY <3>1, <4>1, <4>2
        <3>5. Cardinality(lines) = 1
            BY <3>3, FS_Singleton
        <3>6. facts.source = m /\ facts.default = sources[m].inside.backup.default
            BY <3>1
        <3> QED
            BY <1>4, <2>2, <3>2, <3>3, <3>4, <3>5, <3>6
    <2> QED
        BY <2>1, <2>2
<1> QED
    BY <1>5, <1>7 DEF BackupAnnounced

LEMMA ReportFollowsThen == WellSourced /\ ReportInv => ReportTellsAll
PROOF
<1> SUFFICES ASSUME WellSourced, ReportInv, cli.name = "grep"
             PROVE  LinesTell /\ TotalsAccount /\ ReportFollows /\ BackupAnnounced
    BY DEF ReportTellsAll
<1>1. SearchedInv /\ WrittenInv /\ FactsInv /\ SaidInv /\ Counted /\ RecordsInv
    BY DEF ReportInv
<1>2. Written("results") # {} => Holds("results") = emitted
    BY <1>1, OnlyHeld DEF WrittenInv
<1>3. Written("report") # {} => Holds("report") = Reporting
    BY <1>1, OnlyHeld DEF WrittenInv
<1>4. LinesTell
    <2> SUFFICES ASSUME Written("results") # {} PROVE LinesTell
        BY DEF LinesTell
    <2>1. Len(searched) = Len(sources)
        BY <1>1 DEF WrittenInv
    <2>2. IsArguments(cli) /\ (\A n \in DOMAIN searched : SearchedAs(n, searched[n]))
        BY <1>1 DEF WellSourced, SearchedInv
    <2>3. DOMAIN searched \subseteq Nat
        <3>1. DOMAIN sources = 1 .. Len(sources)
            BY DEF WellSourced
        <3>2. DOMAIN searched \subseteq DOMAIN sources
            BY <2>2 DEF SearchedAs
        <3> QED
            BY <3>1, <3>2
    <2>4. LET in_order == InOrder(Places, {p \in Places \X Places : PlaceBefore(p[1], p[2])})
              lines == emitted.results
          IN /\ Len(lines) = Len(in_order)
             /\ \A k \in DOMAIN lines : TellsOf(lines[k], in_order[k][1], EntryAt(in_order[k]))
        BY <1>1, <2>2, <2>3, EmittedTells
    <2> QED
        BY <1>2, <2>1, <2>4 DEF LinesTell
<1>5. TotalsAccount
    <2>1. \A k \in DOMAIN said : said[k].what = "decryptions" => said[k].failed = Failures
        BY <1>1 DEF SaidInv, Lines
    <2> QED
        BY <1>1, <2>1 DEF TotalsAccount, Counted
<1>6. ReportFollows
    <2>1. Written("results") # {} /\ Exports => Written("export") # {} \/ [what |-> "refused"] \in Range(said)
        BY <1>1 DEF WrittenInv, Refused
    <2>2. Written("report") # {} =>
              Written("results") # {} /\ Holds("report").stats = stats /\ Holds("report").decryptions = decryptions
        <3>1. Reporting.stats = stats /\ Reporting.decryptions = decryptions
            BY DEF Reporting, Out!write_scan_report
        <3> QED
            BY <1>1, <1>3, <3>1 DEF WrittenInv
    <2>3. command = "done" => Written("results") # {} /\ (cli.no_report <=> Written("report") = {})
        BY <1>1 DEF WrittenInv
    <2> QED
        BY <2>1, <2>2, <2>3 DEF ReportFollows
<1>7. BackupAnnounced
    BY <1>1, BackupTold
<1> QED
    BY <1>4, <1>5, <1>6, <1>7

(* Whatever sources a search is over, however many: its results name in order
   every place with a hit, to the right archive and app; its totals account for
   every entry of every source, and the trail of decryptions agrees with them;
   a report comes after the results and repeats them; and a backup among the
   sources is announced once, with the password that opened it. *)
THEOREM ReportIsWhole == Spec => []ReportTellsAll
PROOF
<1>1. Init => TarInv
    BY NoneIsNoWord DEF Init, SourcesInit, TarInv
<1>2. Init => FolderInv
    BY DEF Init, SourcesInit, FolderInv
<1>3. Init => ServedInv
    BY DEF Init, ServedInv
<1>4. Init => ScopeInv
    BY SingleSeq DEF Init, SourcesInit, GrepInit, ScopeInv, ScopeExact, IsSeq
<1>5. WellSourced /\ TarInv /\ [Next]_vars => TarInv'
    BY TarStep
<1> QED
    BY <1>1, <1>2, <1>3, <1>4, <1>5, ReportInit, WellSourcedInit, WellSourcedStep, ZipInvInit, ZipStep, FolderStep,
       ServedStep, ScopeStep, ReportStep, ReportFollowsThen, PTL DEF Spec

=============================================================================
