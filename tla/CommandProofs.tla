---------------------------- MODULE CommandProofs ----------------------------
(***************************************************************************)
(* For every command line over files that are written as IsTar, IsZip and  *)
(* IsTree tell: the tar walk implements the listing of members, a ZIP      *)
(* archive opens alike both ways and its entries are attested as their     *)
(* own, a search covers exactly what the operator left in and finds what   *)
(* it looks for in base64 text, and an exact comparison rebuilds one side  *)
(* from the other.                                                         *)
(***************************************************************************)
EXTENDS Commands, OrderingProofs, SequenceTheorems

IsSource(s) ==
    /\ s.kind \in {"tar", "archive", "folder"} /\ s.label \in Seq(Nat) /\ IsInside(s.inside)
    /\ s.kind = "tar" => IsTar(s.what.tar)
    /\ s.kind = "archive" => IsZip(s.what.zip)
    /\ s.kind = "folder" => IsTree(s.what)

LEMMA IntervalFinite == \A n \in Nat : IsFiniteSet(1 .. n)
BY FS_Interval

(* A file is a source. *)
LEMMA ResolvedOk ==
    ASSUME NEW n, NEW f, NEW label \in Seq(Nat), IsFile(f)
    PROVE  IsSource(Resolved(n, f, label))
BY DEF IsFile, IsSource, Resolved, Kind

LEMMA CollectedOk ==
    ASSUME NEW files, files \in Seq(Range(files)), \A f \in Range(files) : IsFile(f),
           \A i, j \in DOMAIN files : files[i].path = files[j].path => i = j
    PROVE  \E m \in Nat : /\ DOMAIN collect_archives(files) = 1 .. m
                          /\ \A k \in 1 .. m : IsFile(collect_archives(files)[k])
PROOF
<1> DEFINE found == {i \in DOMAIN files : is_tar_path(files[i]) \/ files[i].named = "zip"}
           before == {p \in found \X found : files[p[1]].path < files[p[2]].path}
           sorted == InOrder(found, before)
<1>1. Len(files) \in Nat /\ DOMAIN files = 1 .. Len(files)
    OBVIOUS
<1>2. IsFiniteSet(found)
    <2>1. found \in SUBSET (1 .. Len(files))
        BY <1>1
    <2> QED
        BY <1>1, <2>1, IntervalFinite, FS_Subset
<1>3. \A i \in found : files[i] \in Range(files) /\ files[i].path \in Nat
    BY DEF Range, IsFile
<1>4. /\ \A x \in found : <<x, x>> \notin before
      /\ \A x, y, z \in found : <<x, y>> \in before /\ <<y, z>> \in before => <<x, z>> \in before
      /\ \A x, y \in found : x # y => <<x, y>> \in before \/ <<y, x>> \in before
    BY <1>3
<1>5. collect_archives(files) = [k \in DOMAIN sorted |-> files[sorted[k]]]
    BY DEF collect_archives
<1> HIDE DEF found, before
<1>6. /\ Cardinality(found) \in Nat /\ DOMAIN sorted = 1 .. Cardinality(found)
      /\ \A k \in 1 .. Cardinality(found) : sorted[k] \in found
    BY <1>2, <1>4, InOrderOk
<1> HIDE DEF sorted
<1>7. \A k \in 1 .. Cardinality(found) : IsFile(collect_archives(files)[k])
    BY <1>3, <1>5, <1>6
<1> QED
    BY <1>5, <1>6, <1>7

(* What one operand stands for. *)
LEMMA SourcesOfOk ==
    ASSUME IsOperand(operand), NEW n \in DOMAIN operand.paths, ~Unstated(n)
    PROVE  \E m \in Nat : /\ DOMAIN SourcesOf(n) = 1 .. m
                          /\ \A k \in 1 .. m : IsSource(SourcesOf(n)[k])
                          /\ (operand.paths[n].is_dir => operand.dir_mode) => m = 1
PROOF
<1> PICK p : p = operand.paths[n]
    OBVIOUS
<1>0. p \in Range(operand.paths)
    BY DEF Range
<1>n. n \in Nat
    BY DEF IsOperand
<1>1. /\ IsPath(p) /\ (p.is_dir /\ operand.dir_mode => IsTree(p.tree) /\ IsInside(p.inside))
      /\ p.is_dir \in BOOLEAN
    BY <1>0 DEF IsOperand, IsPath
<1>2. CASE ~p.is_dir
    <2> DEFINE s == Resolved(n, p.files[1], <<n, p.files[1].path>>)
    <2>1. p.files \in Seq(Range(p.files)) /\ p.files # <<>>
        BY <1>1, <1>2 DEF IsPath
    <2>2. 1 \in DOMAIN p.files
        BY <2>1
    <2>3. IsFile(p.files[1])
        BY <1>1, <2>2 DEF IsPath, Range
    <2>4. IsSource(s)
        <3>1. p.files[1].path \in Nat
            BY <2>3 DEF IsFile
        <3>2. <<n, p.files[1].path>> \in Seq(Nat)
            BY <1>n, <3>1
        <3> QED
            BY <2>3, <3>2, ResolvedOk
    <2>5. SourcesOf(n) = <<s>>
        BY <1>2 DEF SourcesOf
    <2> HIDE DEF s
    <2> QED
        BY <2>4, <2>5
<1>3. CASE p.is_dir /\ operand.dir_mode
    <2> DEFINE s == [kind |-> "folder", what |-> p.tree, remote |-> p.remote,
                     full |-> <<n, 0>>, label |-> <<n, 0>>, inside |-> p.inside]
    <2>1. SourcesOf(n) = <<s>>
        BY <1>3 DEF SourcesOf
    <2>2. IsSource(s)
        <3>1. <<n, 0>> \in Seq(Nat)
            BY <1>n
        <3> QED
            BY <1>1, <1>3, <3>1 DEF IsSource
    <2> HIDE DEF s
    <2> QED
        BY <2>1, <2>2
<1>4. CASE p.is_dir /\ ~operand.dir_mode
    <2> DEFINE found == collect_archives(p.files)
    <2>1. operand.recursive
        BY <1>4 DEF Unstated
    <2>2. SourcesOf(n) = [i \in DOMAIN found |-> Resolved(n, found[i], <<found[i].path>>)]
        BY <1>4, <2>1 DEF SourcesOf
    <2>3. PICK m \in Nat : /\ DOMAIN found = 1 .. m
                           /\ \A k \in 1 .. m : IsFile(found[k])
        BY <1>1, CollectedOk DEF IsPath
    <2> HIDE DEF found
    <2>4. \A k \in 1 .. m : IsSource(SourcesOf(n)[k])
        <3> SUFFICES ASSUME NEW k \in 1 .. m PROVE IsSource(SourcesOf(n)[k])
            OBVIOUS
        <3>1. IsFile(found[k]) /\ found[k].path \in Nat
            BY <2>3 DEF IsFile
        <3>2. <<found[k].path>> \in Seq(Nat)
            BY <3>1
        <3>3. SourcesOf(n)[k] = Resolved(n, found[k], <<found[k].path>>)
            BY <2>2, <2>3
        <3> QED
            BY <3>1, <3>2, <3>3, ResolvedOk
    <2> QED
        BY <1>4, <2>2, <2>3, <2>4
<1> QED
    BY <1>1, <1>2, <1>3, <1>4

(* What all of them stand for. *)
LEMMA ResolvesOk ==
    ASSUME IsOperand(operand), Resolves
    PROVE  \E m \in Nat : /\ DOMAIN resolve_sources = 1 .. m
                          /\ \A k \in 1 .. m : IsSource(resolve_sources[k])
PROOF
<1> DEFINE N == DOMAIN operand.paths
           Of(n) == {n} \X (DOMAIN SourcesOf(n))
           parts == UNION {Of(n) : n \in N}
           before == {p \in parts \X parts : PartBefore(p[1], p[2])}
           sorted == InOrder(parts, before)
<1>1. \A n \in N : \E m \in Nat : /\ DOMAIN SourcesOf(n) = 1 .. m
                                  /\ \A k \in 1 .. m : IsSource(SourcesOf(n)[k])
    BY SourcesOfOk DEF Resolves
<1>2. IsFiniteSet(N) /\ N \in SUBSET Nat
    <2>1. N = 1 .. Len(operand.paths) /\ Len(operand.paths) \in Nat
        BY DEF IsOperand
    <2> QED
        BY <2>1, IntervalFinite
<1>3. \A n \in N : IsFiniteSet(Of(n))
    <2> SUFFICES ASSUME NEW n \in N PROVE IsFiniteSet(Of(n))
        OBVIOUS
    <2>1. IsFiniteSet({n}) /\ IsFiniteSet(DOMAIN SourcesOf(n))
        BY <1>1, IntervalFinite, FS_Singleton
    <2> QED
        BY <2>1, FS_Product
<1>4. \A p \in parts : p[1] \in N /\ p[2] \in DOMAIN SourcesOf(p[1]) /\ p[1] \in Nat /\ p[2] \in Nat /\ p = <<p[1], p[2]>>
    BY <1>1, <1>2
<1>5. IsFiniteSet(parts)
    <2> DEFINE F == {Of(n) : n \in N}
               of == [n \in N |-> Of(n)]
    <2>1. of \in Surjection(N, F)
        BY DEF Surjection
    <2>2. \A T \in F : IsFiniteSet(T)
        BY <1>3
    <2> HIDE DEF F, of
    <2>3. IsFiniteSet(F)
        BY <1>2, <2>1, FS_Surjection
    <2>4. IsFiniteSet(UNION F)
        BY <2>2, <2>3, FS_UNION
    <2> QED
        BY <2>4 DEF F
<1>6. resolve_sources = [k \in DOMAIN sorted |-> SourcesOf(sorted[k][1])[sorted[k][2]]]
    BY DEF resolve_sources
<1> HIDE DEF parts
<1>7. /\ \A x \in parts : <<x, x>> \notin before
      /\ \A x, y, z \in parts : <<x, y>> \in before /\ <<y, z>> \in before => <<x, z>> \in before
      /\ \A x, y \in parts : x # y => <<x, y>> \in before \/ <<y, x>> \in before
    <2>1. \A x, y \in parts : <<x, y>> \in before <=> PartBefore(x, y)
        OBVIOUS
    <2> HIDE DEF before
    <2>2. \A x \in parts : <<x, x>> \notin before
        BY <1>4, <2>1 DEF PartBefore
    <2>3. \A x, y, z \in parts : PartBefore(x, y) /\ PartBefore(y, z) => PartBefore(x, z)
        <3> SUFFICES ASSUME NEW x \in parts, NEW y \in parts, NEW z \in parts,
                            PartBefore(x, y), PartBefore(y, z)
                     PROVE  PartBefore(x, z)
            OBVIOUS
        <3>1. x[1] \in Nat /\ x[2] \in Nat /\ y[1] \in Nat /\ y[2] \in Nat /\ z[1] \in Nat /\ z[2] \in Nat
            BY <1>4
        <3> QED
            BY <3>1 DEF PartBefore
    <2>4. \A x, y \in parts : x # y => PartBefore(x, y) \/ PartBefore(y, x)
        <3> SUFFICES ASSUME NEW x \in parts, NEW y \in parts, x # y
                     PROVE  PartBefore(x, y) \/ PartBefore(y, x)
            OBVIOUS
        <3>1. x[1] \in Nat /\ x[2] \in Nat /\ y[1] \in Nat /\ y[2] \in Nat
              /\ x = <<x[1], x[2]>> /\ y = <<y[1], y[2]>>
            BY <1>4
        <3>2. x[1] # y[1] \/ x[2] # y[2]
            BY <3>1
        <3> QED
            BY <3>1, <3>2 DEF PartBefore
    <2> QED
        BY <2>1, <2>2, <2>3, <2>4
<1> HIDE DEF before
<1>8. /\ Cardinality(parts) \in Nat /\ DOMAIN sorted = 1 .. Cardinality(parts)
      /\ \A k \in 1 .. Cardinality(parts) : sorted[k] \in parts
    BY <1>5, <1>7, InOrderOk
<1> HIDE DEF sorted
<1>9. \A k \in 1 .. Cardinality(parts) : IsSource(resolve_sources[k])
    <2> SUFFICES ASSUME NEW k \in 1 .. Cardinality(parts) PROVE IsSource(resolve_sources[k])
        OBVIOUS
    <2>1. sorted[k][1] \in N /\ sorted[k][2] \in DOMAIN SourcesOf(sorted[k][1])
        BY <1>4, <1>8
    <2> QED
        BY <1>1, <1>6, <1>8, <2>1
<1> QED
    BY <1>6, <1>8, <1>9

-----------------------------------------------------------------------------
(* The stages of a command. *)
Early == {"presets", "query", "resolve", "flags", "keys", "diff"}

Stages(name) ==
    IF name = "grep"
    THEN {"presets", "query", "resolve", "flags", "keys", "open", "serve", "emit", "summary", "report",
          "done", "failed"}
    ELSE {"diff", "open", "serve", "compare", "changes", "done", "failed"}

(* A step that leaves the sources as they are. *)
Stays ==
    /\ UNCHANGED <<operand, sources, turn, reader, cli>>
    /\ command' \in Early => command \in Early
    /\ command' \in {"presets", "diff"} => command' = command
    /\ command' = "serve" => reader # None \/ command = "serve"
    /\ command' \in {"open", "serve"} => command \in {"keys", "open", "serve"}
    /\ command' = "keys" => command = "keys" \/ validate_flags
    /\ command \in Stages(cli.name) => command' \in Stages(cli.name)

OwnStep ==
    \/ ApplyPresets
    \/ command = "resolve" /\ Resolve("flags") /\ cli' = cli
    \/ OpenSides
    \/ cli' = cli /\ \E kind \in {"tar", "archive", "folder"} : Opening(kind)
    \/ SearchSource \/ KeepSideA
    \/ Stays

LEMMA NoneIsNoWord ==
    /\ None # "tar" /\ None # "archive" /\ None # "folder"
    /\ None # "open" /\ None # "walk" /\ None # "listed" /\ None # "failed" /\ None # "opened"
    /\ None # "expand" /\ None # "done"
BY SourcesAssumption

LEMMA VarsUnchanged ==
    UNCHANGED vars => UNCHANGED ownVars /\ UNCHANGED readerVars /\ UNCHANGED grepVars /\ UNCHANGED diffVars
BY DEF vars

LEMMA ReaderUnchanged ==
    UNCHANGED readerVars => UNCHANGED tarVars /\ UNCHANGED zipVars /\ UNCHANGED scanVars
BY DEF readerVars

LEMMA OwnSteps == ASSUME [Next]_vars PROVE OwnStep
PROOF
<1> USE DEF Stays, Early, Stages, ownVars, grepVars, diffVars
<1>1. CASE OpenSource /\ UNCHANGED <<grepVars, diffVars>>
    <2>1. CASE OpenTar \/ OpenArchive \/ OpenFolder
        BY <1>1, <2>1 DEF OwnStep, OpenTar, OpenArchive, OpenFolder
    <2>2. CASE ReadTar \/ ReadZip \/ ScanFolder
        <3>1. Stays
            BY <1>1, <2>2 DEF ReadTar, ReadZip, ScanFolder, Reading
        <3> QED
            BY <3>1 DEF OwnStep
    <2>3. CASE SourceFails \/ UnlockFails
        <3>1. Stays
            BY <1>1, <2>3 DEF SourceFails, UnlockFails
        <3> QED
            BY <3>1 DEF OwnStep
    <2>4. CASE Recognise
        <3>1. reader # None
            BY <2>4, NoneIsNoWord DEF Recognise, Served
        <3>2. Stays
            BY <1>1, <2>4, <3>1 DEF Recognise
        <3> QED
            BY <3>2 DEF OwnStep
    <2> QED
        BY <1>1, <2>1, <2>2, <2>3, <2>4 DEF OpenSource
<1>2. CASE GrepNext /\ UNCHANGED diffVars
    <2>1. CASE ApplyPresets \/ SearchSource
        BY <2>1 DEF OwnStep
    <2>2. CASE ResolveSources
        BY <2>2 DEF OwnStep, ResolveSources, Quietly
    <2>3. CASE BuildQuery \/ AnnounceRules \/ BuildContext
        <3>1. Stays
            BY <2>3 DEF BuildQuery, AnnounceRules, BuildContext, Quietly
        <3> QED
            BY <3>1 DEF OwnStep
    <2>4. CASE PresetFails \/ QueryFails \/ ResolveFails \/ RefuseFlags \/ ContextFails \/ ExportFails \/ EmitFails \/ ReportFails
        <3>1. Stays
            BY <2>4 DEF PresetFails, QueryFails, ResolveFails, RefuseFlags, ContextFails, ExportFails, EmitFails,
                        ReportFails, Fails, Quietly
        <3> QED
            BY <3>1 DEF OwnStep
    <2>5. CASE EmitResults \/ Summarise \/ WriteReport
        <3>1. Stays
            BY <2>5 DEF EmitResults, Summarise, WriteReport
        <3> QED
            BY <3>1 DEF OwnStep
    <2> QED
        BY <1>2, <2>1, <2>2, <2>3, <2>4, <2>5 DEF GrepNext
<1>3. CASE DiffNext
    <2>1. CASE OpenSides \/ KeepSideA
        BY <2>1 DEF OwnStep
    <2>2. CASE RejectUnsupported \/ SideRefused \/ CompareFails \/ EmitDiffFails \/ ExportChangesFails
        <3>1. Stays
            BY <2>2 DEF RejectUnsupported, SideRefused, CompareFails, EmitDiffFails, ExportChangesFails, Fails, Quietly
        <3> QED
            BY <3>1 DEF OwnStep
    <2>3. CASE BeginCompare \/ ComparePath
        <3>1. Stays
            BY <2>3 DEF BeginCompare, ComparePath, SameSource, Quietly
        <3> QED
            BY <3>1 DEF OwnStep
    <2>4. CASE EmitDiff \/ ExportChanges \/ ExportRefused
        <3>1. Stays
            BY <2>4 DEF EmitDiff, ExportChanges, ExportRefused, SameSource, Report
        <3> QED
            BY <3>1 DEF OwnStep
    <2> QED
        BY <1>3, <2>1, <2>2, <2>3, <2>4 DEF DiffNext
<1>4. CASE UNCHANGED vars
    <2>1. Stays
        BY <1>4, VarsUnchanged
    <2> QED
        BY <2>1 DEF OwnStep
<1> QED
    BY <1>1, <1>2, <1>3, <1>4 DEF Next

(* The sources are sources, and the reader at work is the one of the source in turn. *)
WellSourced ==
    /\ IsOperand(operand) /\ IsArguments(cli) /\ command \in Stages(cli.name)
    /\ command = "presets" => \E c \in CommandLines : operand = c.operand /\ cli = c.cli
    /\ cli.name = "diff" => Len(operand.paths) = 2 /\ ~operand.recursive
    /\ sources \in Seq(Range(sources))
    /\ \A n \in DOMAIN sources : sources[n].kind # "refused" => IsSource(sources[n])
    /\ turn \in Nat \ {0}
    /\ command \in Early => reader = None /\ turn = 1
    /\ reader # None => turn \in DOMAIN sources /\ reader = sources[turn].kind
                        /\ reader \in {"tar", "archive", "folder"}
    /\ command = "serve" => reader # None

LEMMA SequenceOf ==
    ASSUME NEW s, NEW m \in Nat, DOMAIN s = 1 .. m, s = [k \in 1 .. m |-> s[k]]
    PROVE  s \in Seq(Range(s)) /\ Len(s) = m
PROOF
<1>1. s \in [1 .. m -> Range(s)]
    BY DEF Range
<1> QED
    BY <1>1

(* A side of a comparison. *)
LEMMA SideOk ==
    ASSUME WellSourced, cli.name = "diff", NEW n \in {1, 2}
    PROVE  Side(n).kind # "refused" => IsSource(Side(n))
PROOF
<1>1. n \in DOMAIN operand.paths /\ ~operand.recursive /\ IsOperand(operand)
    BY DEF WellSourced, IsOperand
<1>2. CASE Unstated(n)
    BY <1>2 DEF Side
<1>3. CASE ~Unstated(n)
    <2>1. operand.paths[n].is_dir => operand.dir_mode
        BY <1>1, <1>3 DEF Unstated
    <2>2. DOMAIN SourcesOf(n) = 1 .. 1 /\ \A k \in 1 .. 1 : IsSource(SourcesOf(n)[k])
        BY <1>1, <1>3, <2>1, SourcesOfOk
    <2>3. IsSource(SourcesOf(n)[1])
        BY <2>2
    <2> QED
        BY <1>3, <2>3 DEF Side
<1> QED
    BY <1>2, <1>3

(* A preset adds to the filters; what else is asked of the sources stays. *)
LEMMA PresetsOk ==
    ASSUME WellSourced, ApplyPresets
    PROVE  /\ IsArguments(cli)' /\ cli'.name = cli.name
           /\ IsOperand(operand)' /\ operand'.paths = operand.paths
           /\ cli.name = "grep"
PROOF
<1>1. PICK c \in CommandLines : operand = c.operand /\ cli = c.cli
    BY DEF WellSourced, ApplyPresets
<1>2. cli.name = "grep" /\ IsArguments(cli)
    BY DEF WellSourced, ApplyPresets, Stages, IsArguments
<1>3. IsPreset(cli.preset) /\ IsPreset(cli.fast)
    BY <1>1, <1>2, CommandAssumption DEF IsCommand
<1>4. ASSUME NEW args, IsArguments(args), args.name = "grep", NEW preset, preset.path \in GlobList, preset.not_path \in GlobList
      PROVE  IsArguments(apply_preset(args, preset)) /\ apply_preset(args, preset).name = args.name
             /\ apply_preset(args, preset).fast = args.fast
    <2> DEFINE applied == apply_preset(args, preset)
    <2>1. /\ DOMAIN applied = DOMAIN args /\ applied.name = args.name /\ applied.fast = args.fast
          /\ applied.format = args.format /\ applied.base64 = args.base64 /\ applied.pattern = args.pattern
          /\ applied.path = args.path \o preset.path /\ applied.not_path = args.not_path \o preset.not_path
        BY <1>4 DEF apply_preset, IsArguments, Switches
    <2>2. applied.path \in GlobList /\ applied.not_path \in GlobList
        BY <1>4, <2>1 DEF IsArguments, GlobList
    <2> HIDE DEF applied
    <2> QED
        BY <1>4, <2>1, <2>2 DEF IsArguments, applied
<1> DEFINE first == IF cli.preset = None THEN cli ELSE apply_preset(cli, cli.preset)
<1>5. IsArguments(first) /\ first.name = cli.name /\ first.fast = cli.fast
    <2>1. CASE cli.preset = None
        BY <1>2, <2>1
    <2>2. CASE cli.preset # None
        BY <1>2, <1>3, <1>4, <2>2 DEF ApplyPresets, IsPreset
    <2> QED
        BY <2>1, <2>2
<1>6. cli' = apply_fast(first)
    BY DEF ApplyPresets, apply_presets
<1> HIDE DEF first
<1>7. IsArguments(apply_fast(first)) /\ apply_fast(first).name = first.name
    <2>1. CASE first.fast = None
        BY <1>5, <2>1 DEF apply_fast
    <2>2. CASE first.fast # None /\ first.fast.loads
        <3>1. apply_fast(first) = apply_preset(first, first.fast)
            BY <2>2 DEF apply_fast
        <3>2. first.fast.path \in GlobList /\ first.fast.not_path \in GlobList
            BY <1>3, <1>5, <2>2 DEF IsPreset
        <3> QED
            BY <1>2, <1>4, <1>5, <3>1, <3>2
    <2>3. CASE first.fast # None /\ ~first.fast.loads
        <3>1. apply_fast(first) = [first EXCEPT !.exclude_media = TRUE]
            BY <2>3 DEF apply_fast
        <3> QED
            BY <1>5, <3>1 DEF IsArguments
    <2> QED
        BY <2>1, <2>2, <2>3
<1>8. IsOperand(operand') /\ operand'.paths = operand.paths
    BY DEF ApplyPresets, WellSourced, IsOperand
<1> QED
    BY <1>2, <1>5, <1>6, <1>7, <1>8

LEMMA WellSourcedStep == WellSourced /\ [Next]_vars => WellSourced'
PROOF
<1> SUFFICES ASSUME WellSourced, [Next]_vars PROVE WellSourced'
    OBVIOUS
<1>0. OwnStep
    BY OwnSteps
<1>1. CASE ApplyPresets
    <2>1. /\ IsArguments(cli)' /\ cli'.name = cli.name
          /\ IsOperand(operand)' /\ operand'.paths = operand.paths
          /\ cli.name = "grep"
        BY <1>1, PresetsOk
    <2> QED
        BY <1>1, <2>1 DEF WellSourced, ApplyPresets, Stages, Early
<1>2. CASE command = "resolve" /\ Resolve("flags") /\ cli' = cli
    <2>1. PICK m \in Nat : /\ DOMAIN resolve_sources = 1 .. m
                           /\ \A k \in 1 .. m : IsSource(resolve_sources[k])
        BY <1>2, ResolvesOk DEF WellSourced, Resolve
    <2>2. resolve_sources = [k \in 1 .. m |-> resolve_sources[k]]
        BY <2>1 DEF resolve_sources
    <2>3. resolve_sources \in Seq(Range(resolve_sources))
        BY <2>1, <2>2, SequenceOf
    <2>4. sources' = resolve_sources
        BY <1>2 DEF Resolve
    <2>5. sources' \in Seq(Range(sources')) /\ \A n \in DOMAIN sources' : IsSource(sources'[n])
        BY <2>1, <2>3, <2>4
    <2>6. UNCHANGED <<operand, turn, reader, cli>> /\ command' = "flags" /\ command = "resolve"
        BY <1>2 DEF Resolve
    <2> QED
        BY <2>5, <2>6 DEF WellSourced, Stages, Early
<1>3. CASE OpenSides
    <2>1. cli.name = "diff"
        BY <1>3 DEF WellSourced, OpenSides, Stages, IsArguments
    <2>2. /\ Side(1).kind # "refused" => IsSource(Side(1))
          /\ Side(2).kind # "refused" => IsSource(Side(2))
        BY <2>1, SideOk
    <2>3. /\ sources' = <<Side(1), Side(2)>> /\ UNCHANGED <<operand, turn, reader, cli>>
          /\ command = "diff" /\ command' = "open"
        BY <1>3 DEF OpenSides, Report
    <2>4. /\ sources' \in Seq(Range(sources')) /\ DOMAIN sources' = {1, 2}
          /\ sources'[1] = Side(1) /\ sources'[2] = Side(2)
        <3> PICK a, b : a = Side(1) /\ b = Side(2)
            OBVIOUS
        <3>1. sources' = <<a, b>>
            BY <2>3
        <3>2. DOMAIN sources' = {1, 2} /\ sources'[1] = a /\ sources'[2] = b
            BY <3>1
        <3>3. a \in Range(sources') /\ b \in Range(sources')
            BY <3>2 DEF Range
        <3>4. sources' \in Seq(Range(sources'))
            BY <3>1, <3>3
        <3> QED
            BY <3>2, <3>4
    <2>5. \A n \in DOMAIN sources' : sources'[n].kind # "refused" => IsSource(sources'[n])
        BY <2>2, <2>4
    <2> QED
        BY <2>1, <2>3, <2>4, <2>5 DEF WellSourced, Stages, Early
<1>4. CASE cli' = cli /\ \E kind \in {"tar", "archive", "folder"} : Opening(kind)
    <2>1. PICK kind \in {"tar", "archive", "folder"} : Opening(kind)
        BY <1>4
    <2>2. Len(sources) \in Nat /\ DOMAIN sources = 1 .. Len(sources)
        BY DEF WellSourced
    <2>3. turn \in DOMAIN sources /\ sources[turn].kind = kind
        BY <2>1, <2>2 DEF Opening, WellSourced
    <2>4. UNCHANGED <<operand, sources, turn, command, cli>> /\ reader' = kind /\ command = "open"
        BY <1>4, <2>1 DEF Opening
    <2> QED
        BY <2>3, <2>4 DEF WellSourced, Early
<1>5. CASE SearchSource \/ KeepSideA
    <2>1. /\ UNCHANGED <<operand, sources, cli>> /\ reader' = None /\ turn' = turn + 1
          /\ command' \in {"emit", "open"} /\ command = "serve"
          /\ command' = "emit" => cli.name = "grep"
        BY <1>5 DEF SearchSource, KeepSideA, Close, Quietly, grepVars
    <2> QED
        BY <2>1 DEF WellSourced, Stages, Early
<1>6. CASE Stays
    BY <1>6 DEF WellSourced, Stays
<1> QED
    BY <1>0, <1>1, <1>2, <1>3, <1>4, <1>5, <1>6 DEF OwnStep

LEMMA WellSourcedInit == Init => WellSourced
PROOF
<1> SUFFICES ASSUME Init PROVE WellSourced
    OBVIOUS
<1>1. PICK c \in CommandLines : operand = c.operand /\ cli = c.cli
    BY DEF Init
<1>2. IsCommand(operand, cli)
    BY <1>1, CommandAssumption
<1>3. /\ command = IF cli.name = "grep" THEN "presets" ELSE "diff"
      /\ sources = <<>> /\ turn = 1 /\ reader = None
    BY DEF Init, SourcesInit
<1>4. IsOperand(operand) /\ IsArguments(cli) /\ (cli.name = "diff" => Len(operand.paths) = 2 /\ ~operand.recursive)
    BY <1>2 DEF IsCommand
<1>5. cli.name \in {"grep", "diff"}
    BY <1>4 DEF IsArguments
<1> QED
    BY <1>1, <1>3, <1>4, <1>5 DEF WellSourced, Stages, Early

-----------------------------------------------------------------------------
(* What is said stays said. *)
IsSeq(s) == s \in Seq(Range(s))
Longer(s, t) == IsSeq(t) /\ \A k \in DOMAIN s : k \in DOMAIN t /\ t[k] = s[k]

LEMMA ConcatLonger ==
    ASSUME NEW s, IsSeq(s), NEW t, IsSeq(t)
    PROVE  /\ Longer(s, s \o t)
           /\ Len(s) \in Nat /\ DOMAIN s = 1 .. Len(s)
           /\ Len(t) \in Nat /\ DOMAIN t = 1 .. Len(t)
           /\ DOMAIN (s \o t) = 1 .. Len(s) + Len(t) /\ Len(s \o t) = Len(s) + Len(t)
           /\ \A k \in DOMAIN t : Len(s) + k \in DOMAIN (s \o t) /\ (s \o t)[Len(s) + k] = t[k]
PROOF
<1> DEFINE S == Range(s) \cup Range(t)
<1>1. s \in Seq(S) /\ t \in Seq(S)
    BY DEF IsSeq
<1> HIDE DEF S
<1>2. /\ s \o t \in Seq(S)
      /\ Len(s \o t) = Len(s) + Len(t)
      /\ \A i \in 1 .. Len(s) + Len(t) : (s \o t)[i] = IF i <= Len(s) THEN s[i] ELSE t[i - Len(s)]
    BY <1>1, ConcatProperties
<1>3. s \o t \in Seq(Range(s \o t))
    BY <1>2, SeqOfRange
<1>4. /\ Len(s) \in Nat /\ DOMAIN s = 1 .. Len(s)
      /\ Len(t) \in Nat /\ DOMAIN t = 1 .. Len(t)
      /\ DOMAIN (s \o t) = 1 .. Len(s) + Len(t)
    BY <1>1, <1>2, LenProperties
<1>5. \A k \in DOMAIN s : k \in DOMAIN (s \o t) /\ (s \o t)[k] = s[k]
    BY <1>2, <1>4
<1>6. \A k \in DOMAIN t : Len(s) + k \in DOMAIN (s \o t) /\ (s \o t)[Len(s) + k] = t[k]
    <2> SUFFICES ASSUME NEW k \in DOMAIN t
                 PROVE  Len(s) + k \in DOMAIN (s \o t) /\ (s \o t)[Len(s) + k] = t[k]
        OBVIOUS
    <2>1. Len(s) + k \in 1 .. Len(s) + Len(t) /\ ~(Len(s) + k <= Len(s)) /\ (Len(s) + k) - Len(s) = k
        BY <1>4
    <2> QED
        BY <1>2, <1>4, <2>1
<1> QED
    BY <1>2, <1>3, <1>4, <1>5, <1>6 DEF Longer, IsSeq

LEMMA LongerStill ==
    ASSUME NEW s, NEW t, NEW u, Longer(s, t), Longer(t, u)
    PROVE  Longer(s, u)
BY DEF Longer

LEMMA AppendLonger ==
    ASSUME NEW s, IsSeq(s), NEW x
    PROVE  /\ Longer(s, Append(s, x))
           /\ DOMAIN Append(s, x) = 1 .. Len(s) + 1 /\ Len(s) \in Nat /\ DOMAIN s = 1 .. Len(s)
           /\ Len(Append(s, x)) = Len(s) + 1
           /\ Append(s, x)[Len(s) + 1] = x
BY AppendRange DEF IsSeq, Longer

LEMMA SingleSeq == (\A x : IsSeq(<<x>>)) /\ IsSeq(<<>>)
PROOF
<1>1. ASSUME NEW x PROVE <<x>> \in Seq(Range(<<x>>))
    BY DEF Range
<1>2. <<>> \in Seq(Range(<<>>))
    OBVIOUS
<1> QED
    BY <1>1, <1>2 DEF IsSeq

(* The containers that globs name: each pair of a glob and a container it names once. *)
LEMMA ExpandOk ==
    ASSUME IsInside(Inside), NEW globs \in GlobList
    PROVE  \E m \in Nat :
               /\ DOMAIN expand(globs) = 1 .. m
               /\ \A k \in 1 .. m : LET p == expand(globs)[k] IN
                      p[1] \in DOMAIN globs /\ p[2] \in DOMAIN Containers /\ BundleOf(p) \in globs[p[1]].bundles
               /\ \A g \in DOMAIN globs, c \in DOMAIN Containers :
                      Containers[c].bundle \in globs[g].bundles => \E k \in 1 .. m : expand(globs)[k] = <<g, c>>
PROOF
<1> DEFINE named == {p \in (DOMAIN globs) \X (DOMAIN Containers) : BundleOf(p) \in globs[p[1]].bundles}
           before == {pair \in named \X named : ExpandsBefore(pair[1], pair[2])}
           sorted == InOrder(named, before)
<1>1. /\ Len(globs) \in Nat /\ DOMAIN globs = 1 .. Len(globs)
      /\ Len(Containers) \in Nat /\ DOMAIN Containers = 1 .. Len(Containers)
      /\ \A c \in DOMAIN Containers : Containers[c].bundle \in Nat
  <2>1. Containers \in Seq([bundle : Nat, paths : SUBSET Name])
      BY DEF IsInside, Containers
  <2>2. globs \in Seq([paths : SUBSET Name, bundles : SUBSET Nat])
      BY DEF GlobList
  <2> DEFINE R == [bundle : Nat, paths : SUBSET Name]
  <2>3. \A r \in R : r.bundle \in Nat
      OBVIOUS
  <2> HIDE DEF R
  <2>4. \A c \in DOMAIN Containers : Containers[c] \in R
    <3> PICK held : held = Containers
        OBVIOUS
    <3>1. held \in Seq(R)
        BY <2>1 DEF R
    <3> QED
        BY <3>1
  <2> QED
      BY <2>1, <2>2, <2>3, <2>4
<1>2. IsFiniteSet(named)
    <2>1. IsFiniteSet((DOMAIN globs) \X (DOMAIN Containers))
        BY <1>1, IntervalFinite, FS_Product
    <2> QED
        BY <2>1, FS_Subset
<1>3. \A p \in named : /\ p[1] \in DOMAIN globs /\ p[2] \in DOMAIN Containers /\ BundleOf(p) \in globs[p[1]].bundles
                       /\ p[1] \in Nat /\ p[2] \in Nat /\ BundleOf(p) \in Nat /\ p = <<p[1], p[2]>>
    BY <1>1 DEF BundleOf
<1>4. \A g \in DOMAIN globs, c \in DOMAIN Containers : Containers[c].bundle \in globs[g].bundles => <<g, c>> \in named
    BY DEF BundleOf
<1>5. expand(globs) = sorted
    BY DEF expand
<1> HIDE DEF named
<1>6. /\ \A x \in named : <<x, x>> \notin before
      /\ \A x, y, z \in named : <<x, y>> \in before /\ <<y, z>> \in before => <<x, z>> \in before
      /\ \A x, y \in named : x # y => <<x, y>> \in before \/ <<y, x>> \in before
    <2>1. \A x, y \in named : <<x, y>> \in before <=> ExpandsBefore(x, y)
        OBVIOUS
    <2> HIDE DEF before
    <2>2. \A x \in named : <<x, x>> \notin before
        BY <1>3, <2>1 DEF ExpandsBefore
    <2>3. \A x, y, z \in named : ExpandsBefore(x, y) /\ ExpandsBefore(y, z) => ExpandsBefore(x, z)
        <3> SUFFICES ASSUME NEW x \in named, NEW y \in named, NEW z \in named,
                            ExpandsBefore(x, y), ExpandsBefore(y, z)
                     PROVE  ExpandsBefore(x, z)
            OBVIOUS
        <3>1. /\ x[1] \in Nat /\ x[2] \in Nat /\ y[1] \in Nat /\ y[2] \in Nat /\ z[1] \in Nat /\ z[2] \in Nat
              /\ BundleOf(x) \in Nat /\ BundleOf(y) \in Nat /\ BundleOf(z) \in Nat
            BY <1>3
        <3> QED
            BY <3>1 DEF ExpandsBefore
    <2>4. \A x, y \in named : x # y => ExpandsBefore(x, y) \/ ExpandsBefore(y, x)
        <3> SUFFICES ASSUME NEW x \in named, NEW y \in named, x # y
                     PROVE  ExpandsBefore(x, y) \/ ExpandsBefore(y, x)
            OBVIOUS
        <3>1. x[1] \in Nat /\ x[2] \in Nat /\ y[1] \in Nat /\ y[2] \in Nat
              /\ BundleOf(x) \in Nat /\ BundleOf(y) \in Nat /\ x = <<x[1], x[2]>> /\ y = <<y[1], y[2]>>
            BY <1>3
        <3>2. x[1] # y[1] \/ x[2] # y[2]
            BY <3>1
        <3> QED
            BY <3>1, <3>2 DEF ExpandsBefore
    <2> QED
        BY <2>1, <2>2, <2>3, <2>4
<1> HIDE DEF before
<1>7. /\ Cardinality(named) \in Nat /\ DOMAIN sorted = 1 .. Cardinality(named)
      /\ \A k \in 1 .. Cardinality(named) : sorted[k] \in named
      /\ \A x \in named : \E k \in 1 .. Cardinality(named) : sorted[k] = x
    BY <1>2, <1>6, InOrderOk
<1> HIDE DEF sorted
<1>8. \A k \in 1 .. Cardinality(named) : LET p == sorted[k] IN
          p[1] \in DOMAIN globs /\ p[2] \in DOMAIN Containers /\ BundleOf(p) \in globs[p[1]].bundles
    BY <1>3, <1>7
<1>9. \A g \in DOMAIN globs, c \in DOMAIN Containers :
          Containers[c].bundle \in globs[g].bundles => \E k \in 1 .. Cardinality(named) : sorted[k] = <<g, c>>
    BY <1>4, <1>7
<1> QED
    BY <1>5, <1>7, <1>8, <1>9

(* A widened list of globs matches what they cover. *)
WidenedBy(globs) == PathsOf(globs) \o Named(globs)

LEMMA WidenedOk ==
    ASSUME IsInside(Inside), NEW globs \in GlobList
    PROVE  /\ \A name : (\E k \in DOMAIN WidenedBy(globs) : name \in WidenedBy(globs)[k])
                            <=> Covers(globs, Inside, name)
           /\ WidenedBy(globs) = <<>> <=> globs = <<>>
           /\ IsSeq(PathsOf(globs)) /\ IsSeq(Named(globs))
PROOF
<1> PICK m \in Nat :
        /\ DOMAIN expand(globs) = 1 .. m
        /\ \A k \in 1 .. m : LET p == expand(globs)[k] IN
               p[1] \in DOMAIN globs /\ p[2] \in DOMAIN Containers /\ BundleOf(p) \in globs[p[1]].bundles
        /\ \A g \in DOMAIN globs, c \in DOMAIN Containers :
               Containers[c].bundle \in globs[g].bundles => \E k \in 1 .. m : expand(globs)[k] = <<g, c>>
    BY ExpandOk
<1>1. Len(globs) \in Nat /\ DOMAIN globs = 1 .. Len(globs)
    BY DEF GlobList
<1> DEFINE own == PathsOf(globs)
           named == Named(globs)
<1>2. /\ own = [k \in 1 .. Len(globs) |-> globs[k].paths]
      /\ named = [k \in 1 .. m |-> Covered(expand(globs)[k])]
    BY <1>1 DEF PathsOf, Named
<1>3. /\ own \in Seq(Range(own)) /\ Len(own) = Len(globs)
      /\ named \in Seq(Range(named)) /\ Len(named) = m
      /\ DOMAIN own = 1 .. Len(globs) /\ DOMAIN named = 1 .. m
    BY <1>1, <1>2, SequenceOf
<1>4. /\ \A k \in 1 .. Len(globs) : own[k] = globs[k].paths
      /\ \A k \in 1 .. m : named[k] = Covered(expand(globs)[k])
    BY <1>2
<1> HIDE DEF own, named
<1> DEFINE all == own \o named
<1>5. /\ DOMAIN all = 1 .. Len(globs) + m
      /\ \A k \in 1 .. Len(globs) : k \in DOMAIN all /\ all[k] = own[k]
      /\ \A k \in 1 .. m : Len(globs) + k \in DOMAIN all /\ all[Len(globs) + k] = named[k]
    <2>1. IsSeq(own) /\ IsSeq(named)
        BY <1>3 DEF IsSeq
    <2>2. /\ Longer(own, all) /\ DOMAIN all = 1 .. Len(own) + Len(named)
          /\ \A k \in DOMAIN named : Len(own) + k \in DOMAIN all /\ all[Len(own) + k] = named[k]
        BY <2>1, ConcatLonger
    <2> QED
        BY <1>3, <2>2 DEF Longer
<1>6. \A k \in DOMAIN all : k \in 1 .. Len(globs) \/ (k - Len(globs) \in 1 .. m /\ all[k] = named[k - Len(globs)])
    <2> SUFFICES ASSUME NEW k \in DOMAIN all, k \notin 1 .. Len(globs)
                 PROVE  k - Len(globs) \in 1 .. m /\ all[k] = named[k - Len(globs)]
        OBVIOUS
    <2>1. k - Len(globs) \in 1 .. m /\ Len(globs) + (k - Len(globs)) = k
        BY <1>1, <1>5
    <2> QED
        BY <1>5, <2>1
<1>7. WidenedBy(globs) = all
    BY DEF WidenedBy, own, named
<1>8. all = <<>> <=> globs = <<>>
    <2>1. all \in Seq(Range(all)) /\ Len(all) = Len(globs) + m
        <3>1. IsSeq(own) /\ IsSeq(named)
            BY <1>3 DEF IsSeq
        <3>2. Longer(own, all) /\ Len(all) = Len(own) + Len(named)
            BY <3>1, ConcatLonger
        <3> QED
            BY <1>3, <3>2 DEF Longer, IsSeq
    <2>2. globs = <<>> => m = 0
        <3> SUFFICES ASSUME globs = <<>>, m # 0 PROVE FALSE
            OBVIOUS
        <3>1. 1 \in 1 .. m
            OBVIOUS
        <3>2. expand(globs)[1][1] \in DOMAIN globs
            BY <3>1
        <3> QED
            BY <3>2
    <2> HIDE DEF all
    <2>3. all = <<>> <=> Len(globs) + m = 0
        BY <2>1
    <2> QED
        BY <1>1, <2>2, <2>3 DEF GlobList
<1> HIDE DEF all
<1>9. ASSUME NEW name PROVE (\E k \in DOMAIN all : name \in all[k]) <=> Covers(globs, Inside, name)
    <2>1. ASSUME NEW k \in DOMAIN all, name \in all[k] PROVE Covers(globs, Inside, name)
        <3>1. CASE k \in 1 .. Len(globs)
            BY <1>1, <1>4, <1>5, <2>1, <3>1 DEF Covers
        <3>2. CASE k \notin 1 .. Len(globs)
            <4> PICK j : j = k - Len(globs)
                OBVIOUS
            <4>1. j \in 1 .. m /\ name \in Covered(expand(globs)[j])
                BY <1>4, <1>6, <2>1, <3>2
            <4> PICK p : p = expand(globs)[j]
                OBVIOUS
            <4>2. p[1] \in DOMAIN globs /\ p[2] \in DOMAIN Containers /\ BundleOf(p) \in globs[p[1]].bundles
                BY <4>1
            <4>3. Containers[p[2]] \in Range(Inside.containers)
                BY <4>2 DEF Containers, Range
            <4> QED
                BY <4>1, <4>2, <4>3 DEF Covers, Covered, BundleOf
        <3> QED
            BY <3>1, <3>2
    <2>2. ASSUME Covers(globs, Inside, name) PROVE \E k \in DOMAIN all : name \in all[k]
        <3>1. PICK g \in DOMAIN globs :
                \/ name \in globs[g].paths
                \/ \E c \in Range(Inside.containers) : c.bundle \in globs[g].bundles /\ name \in c.paths
            BY <2>2 DEF Covers
        <3>2. CASE name \in globs[g].paths
            BY <1>1, <1>4, <1>5, <3>2
        <3>3. CASE name \notin globs[g].paths
            <4>1. PICK c \in DOMAIN Containers : Containers[c].bundle \in globs[g].bundles /\ name \in Containers[c].paths
                BY <3>1, <3>3 DEF Containers, Range
            <4>2. PICK k \in 1 .. m : expand(globs)[k] = <<g, c>>
                BY <4>1
            <4>3. named[k] = Containers[c].paths
                BY <1>4, <4>2 DEF Covered
            <4> QED
                BY <1>5, <4>1, <4>3
        <3> QED
            BY <3>2, <3>3
    <2> QED
        BY <2>1, <2>2
<1> QED
    BY <1>3, <1>7, <1>8, <1>9 DEF own, named, IsSeq

LEMMA SelectsExactly ==
    ASSUME IsInside(Inside), IsArguments(cli), NEW name
    PROVE  EntryFilter!select(widen_filter_for_apps, name) =
               IF cli.path # <<>> /\ ~Covers(cli.path, Inside, name) THEN "not_included"
               ELSE IF Covers(cli.not_path, Inside, name) THEN "not_path"
               ELSE "search"
PROOF
<1> DEFINE f == widen_filter_for_apps
<1>1. f.include = WidenedBy(cli.path) /\ f.exclude = WidenedBy(cli.not_path)
    BY DEF widen_filter_for_apps, filter, WidenedBy
<1>2. cli.path \in GlobList /\ cli.not_path \in GlobList
    BY DEF IsArguments
<1> HIDE DEF f
<1>3. /\ EntryFilter!Matching(f.include, name) # {} <=> Covers(cli.path, Inside, name)
      /\ EntryFilter!Matching(f.exclude, name) # {} <=> Covers(cli.not_path, Inside, name)
    BY <1>1, <1>2, WidenedOk DEF EntryFilter!Matching
<1>4. f.include # <<>> <=> cli.path # <<>>
    BY <1>1, <1>2, WidenedOk
<1>5. EntryFilter!select(f, name) =
          IF f.include # <<>> /\ EntryFilter!Matching(f.include, name) = {} THEN "not_included"
          ELSE IF EntryFilter!Matching(f.exclude, name) # {} THEN "not_path"
          ELSE "search"
    BY DEF EntryFilter!select
<1> QED
    BY <1>3, <1>4, <1>5 DEF f

LEMMA WidenedSaid ==
    ASSUME IsInside(Inside), NEW globs \in GlobList, NEW flag
    PROVE  /\ IsSeq(Widened(flag, globs))
           /\ DOMAIN Widened(flag, globs) = DOMAIN Named(globs)
           /\ \A k \in DOMAIN Named(globs) : Widened(flag, globs)[k] =
                  [what |-> "widened", flag |-> flag, source |-> turn, paths |-> Named(globs)[k]]
PROOF
<1> PICK m \in Nat : DOMAIN expand(globs) = 1 .. m
    BY ExpandOk
<1> DEFINE lines == Widened(flag, globs)
<1>1. /\ lines = [k \in 1 .. m |-> [what |-> "widened", flag |-> flag, source |-> turn, paths |-> Covered(expand(globs)[k])]]
      /\ Named(globs) = [k \in 1 .. m |-> Covered(expand(globs)[k])]
    BY DEF Widened, Named
<1>2. DOMAIN lines = 1 .. m /\ lines = [k \in 1 .. m |-> lines[k]]
    BY <1>1
<1> HIDE DEF lines
<1>3. IsSeq(lines)
    BY <1>2, SequenceOf DEF IsSeq
<1> QED
    BY <1>1, <1>2, <1>3 DEF lines

(* What was said before the end of a source, and of what it was widened by. *)
LEMMA SourceSaid ==
    ASSUME IsInside(Inside), IsArguments(cli), IsSeq(said)
    PROVE  LET widened == said \o Widened("path", cli.path) \o Widened("not_path", cli.not_path)
           IN /\ Longer(said, widened)
              /\ \A k \in DOMAIN Named(cli.path) :
                     \E n \in DOMAIN widened : widened[n] =
                         [what |-> "widened", flag |-> "path", source |-> turn, paths |-> Named(cli.path)[k]]
PROOF
<1> DEFINE a == Widened("path", cli.path)
           b == Widened("not_path", cli.not_path)
<1>1. cli.path \in GlobList /\ cli.not_path \in GlobList
    BY DEF IsArguments
<1>2. /\ IsSeq(a) /\ IsSeq(b) /\ DOMAIN a = DOMAIN Named(cli.path)
      /\ \A k \in DOMAIN Named(cli.path) : a[k] =
             [what |-> "widened", flag |-> "path", source |-> turn, paths |-> Named(cli.path)[k]]
    BY <1>1, WidenedSaid
<1> HIDE DEF a, b
<1>3. /\ Longer(said, said \o a)
      /\ \A k \in DOMAIN a : Len(said) + k \in DOMAIN (said \o a) /\ (said \o a)[Len(said) + k] = a[k]
    BY <1>2, ConcatLonger
<1>4. Longer(said \o a, said \o a \o b)
    <2>1. IsSeq(said \o a)
        BY <1>3 DEF Longer
    <2> QED
        BY <1>2, <2>1, ConcatLonger
<1>5. Longer(said, said \o a \o b)
    BY <1>3, <1>4, LongerStill
<1>6. \A k \in DOMAIN Named(cli.path) :
          Len(said) + k \in DOMAIN (said \o a \o b) /\ (said \o a \o b)[Len(said) + k] = a[k]
    BY <1>2, <1>3, <1>4 DEF Longer
<1> QED
    BY <1>2, <1>5, <1>6 DEF a, b

LEMMA SaidGrows ==
    ASSUME WellSourced, IsSeq(said), [Next]_vars
    PROVE  Longer(said, said')
PROOF
<1>0. Longer(said, said)
    BY DEF Longer
<1>1. ASSUME UNCHANGED said PROVE Longer(said, said')
    BY <1>0, <1>1
<1>2. ASSUME NEW x, Say(x) PROVE Longer(said, said')
    BY <1>2, AppendLonger DEF Say
<1>s. ASSUME command = "serve" PROVE IsInside(Inside) /\ IsArguments(cli)
    <2>1. turn \in DOMAIN sources /\ sources[turn].kind \in {"tar", "archive", "folder"}
        BY <1>s DEF WellSourced
    <2>2. IsSource(sources[turn])
        BY <2>1 DEF WellSourced
    <2> QED
        BY <2>2 DEF IsSource, Inside, WellSourced
<1>3. CASE SearchSource
    <2> DEFINE widened == said \o Widened("path", cli.path) \o Widened("not_path", cli.not_path)
               refused == IF Exports /\ OverCap(MatchedFiles(widen_filter_for_apps))
                          THEN <<[what |-> "refused"]>> ELSE <<>>
    <2>1. said' = (widened \o refused) \o report_verify
        BY <1>3 DEF SearchSource
    <2>2. IsSeq(refused) /\ IsSeq(report_verify)
        BY SingleSeq DEF report_verify
    <2>3. Longer(said, widened)
        BY <1>3, <1>s, SourceSaid DEF SearchSource
    <2> HIDE DEF widened, refused
    <2>4. Longer(widened, widened \o refused)
        BY <2>2, <2>3, ConcatLonger DEF Longer
    <2>5. Longer(widened \o refused, said')
        BY <2>1, <2>2, <2>4, ConcatLonger DEF Longer
    <2>6. Longer(said, widened \o refused)
        BY <2>3, <2>4, LongerStill
    <2> QED
        BY <2>5, <2>6, LongerStill
<1>4. CASE ExportFails
    BY <1>4, <1>s, SourceSaid DEF ExportFails
<1>5. CASE Summarise
    <2>1. said' = ((said \o <<[what |-> "statistics"]>>) \o Out!report_decryptions(decryptions)) \o Provenance
        BY <1>5 DEF Summarise
    <2>2. IsSeq(<<[what |-> "statistics"]>>) /\ IsSeq(Out!report_decryptions(decryptions)) /\ IsSeq(Provenance)
        BY SingleSeq DEF Out!report_decryptions, Provenance
    <2> DEFINE one == said \o <<[what |-> "statistics"]>>
               two == one \o Out!report_decryptions(decryptions)
    <2>3. Longer(said, one)
        BY <2>2, ConcatLonger
    <2> HIDE DEF one
    <2>4. Longer(one, two)
        BY <2>2, <2>3, ConcatLonger DEF Longer
    <2>5. said' = two \o Provenance
        BY <2>1 DEF one
    <2> HIDE DEF two
    <2>6. Longer(two, said')
        BY <2>2, <2>4, <2>5, ConcatLonger DEF Longer
    <2>7. Longer(said, two)
        BY <2>3, <2>4, LongerStill
    <2> QED
        BY <2>6, <2>7, LongerStill
<1>6. CASE GrepNext
    <2>1. CASE BuildQuery
        BY <1>1, <2>1, AppendLonger DEF BuildQuery
    <2>2. CASE AnnounceRules
        BY <1>2, <2>2 DEF AnnounceRules
    <2>3. CASE ApplyPresets \/ PresetFails \/ QueryFails \/ ResolveSources \/ ResolveFails \/ RefuseFlags
               \/ BuildContext \/ ContextFails \/ EmitResults \/ EmitFails \/ WriteReport \/ ReportFails
        <3>1. UNCHANGED said
            BY <2>3 DEF ApplyPresets, PresetFails, QueryFails, ResolveSources, ResolveFails, RefuseFlags,
                        BuildContext, ContextFails, EmitResults, EmitFails, WriteReport, ReportFails, Quietly, grepVars
        <3> QED
            BY <1>1, <3>1
    <2> QED
        BY <1>3, <1>4, <1>5, <1>6, <2>1, <2>2, <2>3 DEF GrepNext
<1>7. CASE DiffNext
    <2>1. CASE OpenSides
        BY <1>1, <2>1, AppendLonger DEF OpenSides
    <2>2. CASE EmitDiff
        BY <1>2, <2>2 DEF EmitDiff
    <2>3. CASE ExportRefused
        BY <1>2, <2>3 DEF ExportRefused
    <2>4. CASE RejectUnsupported \/ SideRefused \/ KeepSideA \/ BeginCompare \/ ComparePath \/ CompareFails
               \/ EmitDiffFails \/ ExportChangesFails
        <3>1. UNCHANGED said
            BY <2>4 DEF RejectUnsupported, SideRefused, KeepSideA, BeginCompare, ComparePath, CompareFails,
                        EmitDiffFails, ExportChangesFails, Quietly, grepVars
        <3> QED
            BY <1>1, <3>1
    <2>5. CASE ExportChanges
        BY <1>1, <2>5, AppendLonger DEF ExportChanges
    <2> QED
        BY <1>7, <2>1, <2>2, <2>3, <2>4, <2>5 DEF DiffNext
<1>8. CASE UNCHANGED grepVars
    BY <1>1, <1>8 DEF grepVars
<1> QED
    BY <1>6, <1>7, <1>8, VarsUnchanged DEF Next

(* What becomes of an entry is what should. *)
LEMMA StandingOk ==
    ASSUME IsInside(Inside), IsArguments(cli), cli.types \subseteq KnownTypes,
           NEW e, e.dir \in BOOLEAN, NEW s, s.inside = Inside
    PROVE  Fate(widen_filter_for_apps, e) = Standing(s, e)
PROOF
<1> DEFINE f == widen_filter_for_apps
           path == EntryFilter!select(f, e.name)
           type == EntryFilter!accept_type(f, e.type)
           left_out == cli.path # <<>> /\ ~Covers(cli.path, s.inside, e.name)
           kept_out == Covers(cli.not_path, s.inside, e.name)
<1>1. path = IF left_out THEN "not_included" ELSE IF kept_out THEN "not_path" ELSE "search"
    BY SelectsExactly
<1>2. f.types = cli.types /\ f.skip_media = cli.exclude_media
    BY DEF widen_filter_for_apps, filter
<1>3. InScope(s, e) <=> ~e.dir /\ ~left_out /\ ~kept_out
    BY DEF InScope
<1> HIDE DEF path
<1>4. type = IF OfType(e) THEN "search" ELSE IF cli.types = {} THEN "media" ELSE "type"
    <2>1. CASE cli.types # {}
        <3>1. "untyped" \notin cli.types
            BY CommandAssumption
        <3>2. e.type = EntryFilter!Untyped => {e.type.name, e.type.category} \cap cli.types = {}
            BY <3>1 DEF EntryFilter!Untyped
        <3> QED
            BY <1>2, <2>1, <3>2 DEF EntryFilter!accept_type, OfType
    <2>2. CASE cli.types = {}
        BY <1>2, <2>2 DEF EntryFilter!accept_type, OfType
    <2> QED
        BY <2>1, <2>2
<1> HIDE DEF type
<1> HIDE DEF left_out, kept_out
<1>5. Standing(s, e) =
          CASE e.dir -> "directory"
            [] ~e.dir /\ left_out -> "not_included"
            [] ~e.dir /\ ~left_out /\ kept_out -> "not_path"
            [] InScope(s, e) /\ ~cli.match_path /\ ~e.reads -> "unreadable"
            [] InScope(s, e) /\ ~cli.match_path /\ e.reads /\ Sealed(e) -> "decrypt_failed"
            [] Wanted(s, e) -> "scanned"
            [] InScope(s, e) /\ ~(InScope(s, e) /\ ~cli.match_path /\ ~e.reads)
                   /\ ~(InScope(s, e) /\ ~cli.match_path /\ e.reads /\ Sealed(e)) /\ ~Wanted(s, e) ->
                   IF cli.types = {} THEN "media" ELSE "type"
    BY DEF Standing, left_out, kept_out
<1>6. CASE e.dir
    <2>1. ~InScope(s, e) /\ ~Wanted(s, e)
        BY <1>3, <1>6 DEF Wanted
    <2>2. Fate(f, e) = "directory"
        BY <1>6 DEF Fate
    <2> QED
        BY <1>5, <1>6, <2>1, <2>2
<1>7. CASE ~e.dir /\ path # "search"
    <2>1. ~InScope(s, e) /\ ~Wanted(s, e) /\ (left_out \/ kept_out)
        BY <1>1, <1>3, <1>7 DEF Wanted
    <2>2. Fate(f, e) = path
        BY <1>7 DEF Fate, path
    <2> QED
        BY <1>1, <1>5, <1>7, <2>1, <2>2
<1>8. CASE ~e.dir /\ path = "search"
    <2>1. InScope(s, e) /\ ~left_out /\ ~kept_out
        BY <1>1, <1>3, <1>8
    <2>2. CASE cli.match_path
        <3>1. Wanted(s, e)
            BY <2>1, <2>2 DEF Wanted
        <3>2. Fate(f, e) = "scanned"
            BY <1>8, <2>2 DEF Fate, path
        <3> QED
            BY <1>5, <1>8, <2>1, <2>2, <3>1, <3>2
    <2>3. CASE ~cli.match_path /\ ~e.reads
        <3>1. ~Wanted(s, e)
            BY <2>3 DEF Wanted
        <3>2. Fate(f, e) = "unreadable"
            BY <1>8, <2>3 DEF Fate, path
        <3> QED
            BY <1>5, <1>8, <2>1, <2>3, <3>1, <3>2
    <2>4. CASE ~cli.match_path /\ e.reads /\ Sealed(e)
        <3>1. ~Wanted(s, e)
            BY <2>4 DEF Wanted
        <3>2. Fate(f, e) = "decrypt_failed"
            BY <1>8, <2>4 DEF Fate, path, Sealed
        <3> QED
            BY <1>5, <1>8, <2>1, <2>4, <3>1, <3>2
    <2>5. CASE ~cli.match_path /\ e.reads /\ ~Sealed(e)
        <3>1. Wanted(s, e) <=> OfType(e)
            BY <2>1, <2>5 DEF Wanted
        <3>2. Fate(f, e) = IF type = "search" THEN "scanned" ELSE type
            BY <1>8, <2>5 DEF Fate, path, Sealed, type
        <3> QED
            BY <1>4, <1>5, <1>8, <2>1, <2>5, <3>1, <3>2
    <2> QED
        BY <2>2, <2>3, <2>4, <2>5
<1> QED
    BY <1>6, <1>7, <1>8

(* A file is scanned exactly if it is wanted. *)
LEMMA ScannedIfWanted ==
    ASSUME NEW s, NEW e, e.dir \in BOOLEAN
    PROVE  Standing(s, e) = "scanned" <=> Wanted(s, e)
BY DEF Standing, Wanted, InScope

ScopeInv ==
    /\ IsSeq(searched) /\ IsSeq(said)
    /\ command \in Early => searched = <<>>
    /\ cli.name = "grep" /\ command \in {"open", "serve"} => turn = Len(searched) + 1
    /\ cli.name = "grep" /\ command \in {"keys", "open", "serve"} => cli.types \subseteq KnownTypes
    /\ ScopeExact

ScopeOf(n, s) ==
    /\ s.scanned = {i \in DOMAIN s.view : Wanted(s, s.view[i])}
    /\ \A i \in s.scanned :
           cli.path # <<>> =>
               \/ \E k \in DOMAIN cli.path : s.view[i].name \in cli.path[k].paths
               \/ \E k \in DOMAIN said : /\ said[k].what = "widened" /\ said[k].source = n
                                         /\ s.view[i].name \in said[k].paths

LEMMA ScopeEach == ScopeExact <=> \A n \in DOMAIN searched : ScopeOf(n, searched[n])
BY DEF ScopeExact, ScopeOf

(* What was searched as it should is not changed by what is said later. *)
LEMMA ScopeStays ==
    ASSUME cli' = cli, Longer(said, said'), NEW n, NEW s, ScopeOf(n, s)
    PROVE  ScopeOf(n, s)'
PROOF
<1>1. \A e : Wanted(s, e)' <=> Wanted(s, e)
    BY DEF Wanted, InScope, Sealed, OfType
<1> QED
    BY <1>1 DEF ScopeOf, Longer

LEMMA ViewShown == \A i \in DOMAIN View : View[i].dir = is_dir(View[i].name) /\ View[i].dir \in BOOLEAN
BY DEF View, Shown, is_dir

LEMMA InsideOk ==
    ASSUME WellSourced, command = "serve"
    PROVE  IsInside(Inside) /\ IsArguments(cli) /\ turn \in DOMAIN sources /\ IsSource(sources[turn])
           /\ reader = sources[turn].kind
PROOF
<1>1. turn \in DOMAIN sources /\ sources[turn].kind \in {"tar", "archive", "folder"} /\ reader = sources[turn].kind
    BY DEF WellSourced
<1>2. IsSource(sources[turn])
    BY <1>1 DEF WellSourced
<1> QED
    BY <1>1, <1>2 DEF IsSource, Inside, WellSourced

(* The source in turn is searched as it should. *)
LEMMA ScopeNew ==
    ASSUME WellSourced, ScopeInv, SearchSource, NEW n, n = turn,
           NEW s, s = [view |-> View, inside |-> Inside, scanned |-> Scanned(widen_filter_for_apps)]
    PROVE  ScopeOf(n, s)'
PROOF
<1>1. command = "serve" /\ cli.name = "grep" /\ cli' = cli
    BY DEF SearchSource
<1>2. IsInside(Inside) /\ IsArguments(cli) /\ cli.types \subseteq KnownTypes
    BY <1>1, InsideOk DEF ScopeInv
<1>3. s.view = View /\ s.inside = Inside
    OBVIOUS
<1>4. \A i \in DOMAIN View : Fate(widen_filter_for_apps, View[i]) = "scanned" <=> Wanted(s, View[i])
    BY <1>2, <1>3, StandingOk, ScannedIfWanted, ViewShown
<1>5. s.scanned = {i \in DOMAIN s.view : Wanted(s, s.view[i])}
    BY <1>3, <1>4 DEF Scanned, Met
<1> DEFINE widened == said \o Widened("path", cli.path) \o Widened("not_path", cli.not_path)
           refused == IF Exports /\ OverCap(MatchedFiles(widen_filter_for_apps))
                      THEN <<[what |-> "refused"]>> ELSE <<>>
<1>6. /\ Longer(said, widened)
      /\ \A k \in DOMAIN Named(cli.path) :
             \E j \in DOMAIN widened : widened[j] =
                 [what |-> "widened", flag |-> "path", source |-> turn, paths |-> Named(cli.path)[k]]
    BY <1>2, SourceSaid DEF ScopeInv
<1>7. Longer(widened, said')
    <2>1. said' = (widened \o refused) \o report_verify
        BY DEF SearchSource
    <2>2. IsSeq(refused) /\ IsSeq(report_verify)
        BY SingleSeq DEF report_verify
    <2> HIDE DEF widened, refused
    <2>3. Longer(widened, widened \o refused)
        BY <1>6, <2>2, ConcatLonger DEF Longer
    <2>4. Longer(widened \o refused, said')
        BY <2>1, <2>2, <2>3, ConcatLonger DEF Longer
    <2> QED
        BY <2>3, <2>4, LongerStill
<1> HIDE DEF widened
<1>8. ASSUME NEW i \in s.scanned, cli.path # <<>>
      PROVE  \/ \E k \in DOMAIN cli.path : s.view[i].name \in cli.path[k].paths
             \/ \E k \in DOMAIN said' : /\ said'[k].what = "widened" /\ said'[k].source = n
                                        /\ s.view[i].name \in said'[k].paths
    <2> PICK name : name = s.view[i].name
        OBVIOUS
    <2>1. Covers(cli.path, Inside, name)
        BY <1>3, <1>5, <1>8 DEF Wanted, InScope
    <2>2. PICK g \in DOMAIN cli.path :
              \/ name \in cli.path[g].paths
              \/ \E c \in Range(Inside.containers) : c.bundle \in cli.path[g].bundles /\ name \in c.paths
        BY <2>1 DEF Covers
    <2>3. CASE name \in cli.path[g].paths
        BY <2>3
    <2>4. CASE name \notin cli.path[g].paths
        <3>1. PICK c \in DOMAIN Containers : Containers[c].bundle \in cli.path[g].bundles /\ name \in Containers[c].paths
            BY <2>2, <2>4 DEF Containers, Range
        <3>2. PICK m \in Nat : /\ DOMAIN expand(cli.path) = 1 .. m
                               /\ \E k \in 1 .. m : expand(cli.path)[k] = <<g, c>>
            BY <1>2, <3>1, ExpandOk DEF IsArguments
        <3>3. PICK k \in 1 .. m : expand(cli.path)[k] = <<g, c>>
            BY <3>2
        <3>4. k \in DOMAIN Named(cli.path) /\ Named(cli.path)[k] = Containers[c].paths
            BY <3>2, <3>3 DEF Named, Covered
        <3>5. PICK j \in DOMAIN widened : widened[j] =
                  [what |-> "widened", flag |-> "path", source |-> turn, paths |-> Containers[c].paths]
            BY <1>6, <3>4
        <3>6. j \in DOMAIN said' /\ said'[j] = widened[j]
            BY <1>7 DEF Longer
        <3> QED
            BY <3>1, <3>5, <3>6
    <2> QED
        BY <2>3, <2>4
<1>9. \A e : Wanted(s, e)' <=> Wanted(s, e)
    BY <1>1 DEF Wanted, InScope, Sealed, OfType
<1> QED
    BY <1>1, <1>5, <1>8, <1>9 DEF ScopeOf

LEMMA ScopeAfter ==
    ASSUME cli' = cli, \A n \in DOMAIN searched' : \E s : s = searched'[n] /\ ScopeOf(n, s)'
    PROVE  ScopeExact'
PROOF
<1> SUFFICES ASSUME NEW n \in DOMAIN searched'
             PROVE  LET s == searched'[n] IN
                    /\ s.scanned = {i \in DOMAIN s.view : Wanted(s, s.view[i])}
                    /\ \A i \in s.scanned :
                          cli'.path # <<>> =>
                              \/ \E k \in DOMAIN cli'.path : s.view[i].name \in cli'.path[k].paths
                              \/ \E k \in DOMAIN said' : /\ said'[k].what = "widened" /\ said'[k].source = n
                                                         /\ s.view[i].name \in said'[k].paths
    BY DEF ScopeExact, Wanted, InScope, Sealed, OfType
<1> PICK s : s = searched'[n] /\ ScopeOf(n, s)'
    OBVIOUS
<1>1. \A e : Wanted(s, e)' <=> Wanted(s, e)
    BY DEF Wanted, InScope, Sealed, OfType
<1> QED
    BY <1>1 DEF ScopeOf

LEMMA ScopeStep == WellSourced /\ ScopeInv /\ [Next]_vars => ScopeInv'
PROOF
<1> SUFFICES ASSUME WellSourced, ScopeInv, [Next]_vars PROVE ScopeInv'
    OBVIOUS
<1>1. OwnStep
    BY OwnSteps
<1>2. IsSeq(said') /\ Longer(said, said')
    BY SaidGrows DEF ScopeInv, Longer
<1>3. CASE ApplyPresets
    <2>1. searched' = <<>> /\ searched = <<>> /\ command' = "query"
        BY <1>3 DEF ApplyPresets, ScopeInv, Early
    <2>2. IsSeq(searched') /\ ScopeExact'
        BY <2>1, SingleSeq DEF ScopeExact
    <2> QED
        BY <1>2, <2>1, <2>2 DEF ScopeInv
<1>4. CASE SearchSource
    <2> PICK s : s = [view |-> View, inside |-> Inside, scanned |-> Scanned(widen_filter_for_apps)]
        OBVIOUS
    <2> PICK m : m = turn
        OBVIOUS
    <2>1. /\ searched' = Append(searched, s) /\ cli' = cli /\ turn' = turn + 1
          /\ command = "serve" /\ cli.name = "grep" /\ command' \in {"emit", "open"}
        BY <1>4 DEF SearchSource, Close
    <2>2. m = Len(searched) + 1
        BY <2>1 DEF ScopeInv
    <2>3. /\ IsSeq(searched') /\ DOMAIN searched' = 1 .. Len(searched) + 1 /\ Len(searched) \in Nat
          /\ DOMAIN searched = 1 .. Len(searched) /\ Len(searched') = Len(searched) + 1
          /\ \A n \in DOMAIN searched : searched'[n] = searched[n]
          /\ searched'[Len(searched) + 1] = s
        BY <2>1, AppendLonger DEF ScopeInv, Longer
    <2>4. ScopeOf(m, s)'
        BY <1>4, ScopeNew
    <2>5. ASSUME NEW n \in DOMAIN searched' PROVE \E x : x = searched'[n] /\ ScopeOf(n, x)'
        <3>1. CASE n = m
            BY <2>2, <2>3, <2>4, <3>1
        <3>2. CASE n # m
            <4> PICK x : x = searched[n]
                OBVIOUS
            <4>1. n \in DOMAIN searched /\ searched'[n] = x
                BY <2>2, <2>3, <3>2
            <4>2. ScopeOf(n, x)
                BY <4>1, ScopeEach DEF ScopeInv
            <4>3. ScopeOf(n, x)'
                BY <1>2, <2>1, <4>2, ScopeStays
            <4> QED
                BY <4>1, <4>3
        <3> QED
            BY <3>1, <3>2
    <2>6. ScopeExact'
        BY <2>1, <2>5, ScopeAfter
    <2> QED
        BY <1>2, <2>1, <2>2, <2>3, <2>6 DEF ScopeInv, Early
<1>5. CASE UNCHANGED <<cli, searched>> /\ ~SearchSource
    <2>1. ASSUME NEW n \in DOMAIN searched' PROVE \E x : x = searched'[n] /\ ScopeOf(n, x)'
        <3> PICK x : x = searched[n]
            OBVIOUS
        <3>1. ScopeOf(n, x)
            BY <1>5, ScopeEach DEF ScopeInv
        <3>2. ScopeOf(n, x)'
            BY <1>2, <1>5, <3>1, ScopeStays
        <3> QED
            BY <1>5, <3>2
    <2>2. ScopeExact'
        BY <1>5, <2>1, ScopeAfter
    <2>3. /\ command' \in Early => command \in Early
          /\ cli.name = "grep" /\ command' \in {"open", "serve"} =>
                 turn' = turn /\ command \in {"keys", "open", "serve"}
          /\ command' = "keys" => command = "keys" \/ validate_flags
        <3>1. CASE command = "resolve" /\ Resolve("flags")
            BY <3>1 DEF Resolve, Early
        <3>2. CASE OpenSides
            BY <3>2 DEF OpenSides, Early, WellSourced, Stages
        <3>3. CASE \E kind \in {"tar", "archive", "folder"} : Opening(kind)
            BY <3>3 DEF Opening, Early
        <3>4. ~SearchSource
            BY <1>5
        <3>5. CASE KeepSideA
            BY <3>5 DEF KeepSideA, Early
        <3>6. CASE Stays
            BY <3>6 DEF Stays, Early
        <3>7. CASE ApplyPresets
            BY <3>7 DEF ApplyPresets, Early
        <3> QED
            BY <1>1, <3>1, <3>2, <3>3, <3>4, <3>5, <3>6, <3>7 DEF OwnStep
    <2>4. command = "keys" => turn = 1 /\ searched = <<>>
        BY DEF WellSourced, ScopeInv, Early
    <2> QED
        BY <1>2, <1>5, <2>2, <2>3, <2>4 DEF ScopeInv, validate_flags
<1>6. UNCHANGED <<cli, searched>> \/ SearchSource \/ ApplyPresets
    <2>1. CASE (OpenSource /\ UNCHANGED <<grepVars, diffVars>>) \/ UNCHANGED vars
        BY <2>1, VarsUnchanged DEF grepVars
    <2>2. CASE GrepNext
        BY <2>2 DEF GrepNext, PresetFails, BuildQuery, QueryFails, ResolveSources, ResolveFails, AnnounceRules, RefuseFlags,
                    BuildContext, ContextFails, ExportFails, EmitResults, EmitFails, Summarise, WriteReport, ReportFails,
                    Quietly, grepVars
    <2>3. CASE DiffNext
        BY <2>3 DEF DiffNext, RejectUnsupported, OpenSides, SideRefused, KeepSideA, BeginCompare, ComparePath, CompareFails,
                    EmitDiff, EmitDiffFails, ExportChanges, ExportRefused, ExportChangesFails, Quietly, Report, grepVars
    <2> QED
        BY <2>1, <2>2, <2>3 DEF Next
<1> QED
    BY <1>3, <1>4, <1>5, <1>6

(* Whatever sources follow upon another, an app's name never reaches into
   another source than the one it was looked up in, what is skipped is what the
   operator asked to be skipped, and whatever a filter reached beyond its own
   globs was said. *)
THEOREM ScopeIsExact == Spec => []ScopeExact
PROOF
<1>1. Init => ScopeInv
    BY SingleSeq DEF Init, SourcesInit, GrepInit, ScopeInv, ScopeExact, IsSeq
<1>2. ScopeInv => ScopeExact
    BY DEF ScopeInv
<1> QED
    BY <1>1, <1>2, WellSourcedInit, WellSourcedStep, ScopeStep, PTL DEF Spec

-----------------------------------------------------------------------------
(* The tar walk. *)
LEMMA PaddedNat == \A n \in Nat : TarFile!Padded(n) \in Nat
PROOF
<1> SUFFICES ASSUME NEW n \in Nat PROVE TarFile!Padded(n) \in Nat
    OBVIOUS
<1> PICK q : q = (n + BLOCK - 1) \div BLOCK
    OBVIOUS
<1>1. q \in Nat
    BY SourcesAssumption
<1>2. TarFile!Padded(n) = q * BLOCK
    BY DEF TarFile!Padded
<1> QED
    BY <1>1, <1>2, SourcesAssumption

LEMMA PaddedBlock == TarFile!Padded(BLOCK) = BLOCK
PROOF
<1> PICK q : q = (BLOCK + BLOCK - 1) \div BLOCK
    OBVIOUS
<1>1. BLOCK \in Nat /\ BLOCK > 0
    BY SourcesAssumption
<1>2. q = 1
    BY <1>1
<1> QED
    BY <1>1, <1>2 DEF TarFile!Padded

(* A step of a reader, or one that leaves the readers alone and, while one is at
   work, does not call it off. *)
LEMMA ReaderSteps ==
    ASSUME [Next]_vars
    PROVE  \/ OpenTar \/ OpenArchive \/ OpenFolder \/ ReadTar \/ ReadZip \/ ScanFolder
           \/ /\ UNCHANGED readerVars
              /\ command = "open" /\ reader # None /\ ~Served /\ ~Failed => UNCHANGED <<command, reader>>
PROOF
<1>1. CASE OpenSource
    <2>1. CASE SourceFails \/ Recognise \/ UnlockFails
        BY <2>1 DEF SourceFails, Recognise, UnlockFails
    <2> QED
        BY <1>1, <2>1 DEF OpenSource
<1>2. CASE GrepNext
    <2>1. UNCHANGED readerVars
        BY <1>2 DEF GrepNext, ApplyPresets, PresetFails, BuildQuery, QueryFails, ResolveSources, ResolveFails, AnnounceRules,
                    RefuseFlags, BuildContext, ContextFails, SearchSource, ExportFails, EmitResults, EmitFails, Summarise,
                    WriteReport, ReportFails, Resolve, Close, Fails, Quietly
    <2>2. command # "open"
        BY <1>2 DEF GrepNext, ApplyPresets, PresetFails, BuildQuery, QueryFails, ResolveSources, ResolveFails, AnnounceRules,
                    RefuseFlags, BuildContext, ContextFails, SearchSource, ExportFails, EmitResults, EmitFails, Summarise,
                    WriteReport, ReportFails
    <2> QED
        BY <2>1, <2>2
<1>3. CASE DiffNext
    <2>1. UNCHANGED readerVars
        BY <1>3 DEF DiffNext, RejectUnsupported, OpenSides, SideRefused, KeepSideA, BeginCompare, ComparePath, CompareFails,
                    EmitDiff, EmitDiffFails, ExportChanges, ExportRefused, ExportChangesFails, SameSource, Close, Fails
    <2>2. command # "open" \/ reader = None
        BY <1>3 DEF DiffNext, RejectUnsupported, OpenSides, SideRefused, KeepSideA, BeginCompare, ComparePath, CompareFails,
                    EmitDiff, EmitDiffFails, ExportChanges, ExportRefused, ExportChangesFails
    <2> QED
        BY <2>1, <2>2
<1>4. CASE UNCHANGED vars
    BY <1>4, VarsUnchanged DEF ownVars
<1> QED
    BY <1>1, <1>2, <1>3, <1>4 DEF Next

(* The walk stands at member n, or behind a header that told of it. *)
AtStart(n) == pos = Start(archive, n) /\ long_name = None /\ pax_path = None /\ pax_size = None

AtTold(n) ==
    LET p == Start(archive, n)
        told == At(archive, p + BLOCK).text
    IN /\ pos = Behind(p) /\ Tells(archive, p)
       /\ n <= Len(archive.members) => Behind(p) < archive.ends[n]
       /\ IF At(archive, p).type = "L"
          THEN long_name = told.path /\ pax_path = None /\ pax_size = None
          ELSE long_name = None /\ pax_path = told.path /\ pax_size = told.size

Member == [name : Nat, type : {"file", "dir"}, data_offset : Nat, data_len : Nat]

TarInv ==
    /\ tar_pc \in {None, "open", "walk", "listed", "failed"}
    /\ tar_pc # None => IsTar(archive) /\ tar_entries \in Seq(Member)
    /\ tar_pc \in {"open", "walk"} => command = "open" /\ reader = "tar"
    /\ tar_pc = "open" => AtStart(1) /\ tar_entries = <<>>
    /\ tar_pc = "walk" => \E n \in 1 .. (archive.whole + 1) : AtStart(n) \/ AtTold(n)

(* The member that comes next at p. *)
Due(a, p) == Cardinality({k \in DOMAIN a.ends : a.ends[k] <= p}) + 1

LEMMA StartOk ==
    ASSUME NEW a, IsTar(a), NEW n \in 1 .. (a.whole + 1)
    PROVE  /\ a.whole \in Nat /\ Len(a.members) \in Nat /\ a.whole <= Len(a.members)
           /\ DOMAIN a.ends = 1 .. Len(a.members) /\ \A k \in DOMAIN a.ends : a.ends[k] \in Nat
           /\ Start(a, n) \in Nat
           /\ n # 1 => n - 1 \in DOMAIN a.ends /\ Start(a, n) = a.ends[n - 1]
           /\ n = 1 => Start(a, n) = 0
PROOF
<1>1. a.whole \in Nat /\ Len(a.members) \in Nat /\ a.whole <= Len(a.members)
    BY DEF IsTar
<1>2. DOMAIN a.ends = 1 .. Len(a.members) /\ \A k \in DOMAIN a.ends : a.ends[k] \in Nat
    BY DEF IsTar
<1> QED
    BY <1>1, <1>2 DEF Start

LEMMA DueIs ==
    ASSUME NEW a, IsTar(a), NEW n \in 1 .. (a.whole + 1), NEW p \in Nat, Start(a, n) <= p,
           n <= Len(a.members) => p < a.ends[n]
    PROVE  Due(a, p) = n
PROOF
<1>0. /\ a.whole \in Nat /\ n \in Nat
      /\ DOMAIN a.ends = 1 .. Len(a.members) /\ Len(a.members) \in Nat
    BY StartOk
<1>1. \A j, k \in DOMAIN a.ends : j < k => a.ends[j] < a.ends[k]
    <2>1. \A k \in DOMAIN a.ends : \A j \in 1 .. (k - 1) : a.ends[j] < a.ends[k]
        BY DEF IsTar
    <2> QED
        BY <1>0, <2>1
<1>2. {k \in DOMAIN a.ends : a.ends[k] <= p} = 1 .. (n - 1)
    <2>1. ASSUME NEW k \in DOMAIN a.ends, a.ends[k] <= p PROVE k \in 1 .. (n - 1)
        <3>1. k \in 1 .. Len(a.members) /\ Len(a.members) \in Nat /\ a.whole <= Len(a.members) /\ a.whole \in Nat
            BY StartOk
        <3>2. CASE k >= n
            <4>1. n \in DOMAIN a.ends /\ p < a.ends[n] /\ a.ends[n] \in Nat /\ a.ends[k] \in Nat
                BY <3>1, <3>2, StartOk
            <4>2. a.ends[n] <= a.ends[k]
                BY <1>1, <3>1, <3>2, <4>1
            <4> QED
                BY <2>1, <4>1, <4>2
        <3> QED
            BY <3>1, <3>2
    <2>2. ASSUME NEW k \in 1 .. (n - 1) PROVE k \in DOMAIN a.ends /\ a.ends[k] <= p
        <3>1. n # 1 /\ n - 1 \in DOMAIN a.ends /\ a.ends[n - 1] \in Nat /\ a.ends[n - 1] <= p
            BY StartOk
        <3>2. k \in DOMAIN a.ends /\ a.ends[k] \in Nat
            BY <3>1, StartOk
        <3>3. a.ends[k] <= a.ends[n - 1]
            BY <1>1, <3>1, <3>2
        <3> QED
            BY <3>1, <3>2, <3>3
    <2> QED
        BY <2>1, <2>2
<1>3. Cardinality(1 .. (n - 1)) = n - 1
    <2>1. PICK m \in Nat : m = n - 1
        BY <1>0
    <2>2. Cardinality(1 .. m) = m
        BY <2>1, FS_Interval
    <2> QED
        BY <2>1, <2>2
<1>4. Due(a, p) = Cardinality(1 .. (n - 1)) + 1
    BY <1>2, Zenon DEF Due
<1> QED
    BY <1>0, <1>3, <1>4

(* A header that stands is read, if its size is the one that is told of it. *)
LEMMA StandsRead ==
    ASSUME tar_pc = "walk"
    PROVE  TarFile!Readable <=> Stands(archive, pos, TarFile!Size)
PROOF
<1>1. TarFile!Block(pos) = At(archive, pos)
    BY DEF TarFile!Block, At
<1> QED
    BY <1>1 DEF TarFile!Readable, TarFile!checksum_ok, TarFile!data_end, TarFile!data_start, Stands

(* The walk is at the header of a member that is whole, at one that tells of the
   next, or at the damage. *)
AtWhole(n) ==
    /\ n <= archive.whole /\ TarFile!Readable /\ (long_name # None => pax_path = None)
    /\ TarFile!Block(pos).type \notin {"L", "x", "g"} /\ TarFile!Size \in Nat /\ TarFile!TakenName \in Nat
    /\ archive.ends[n] = TarFile!data_start + TarFile!Padded(TarFile!Size)
    /\ archive.members[n].type = FlagType(TarFile!Block(pos).type)
    /\ archive.members[n].type # "other" =>
           archive.members[n] = TarFile!Entry(archive.members[n].type,
                                              IF archive.members[n].type = "dir" THEN 0 ELSE TarFile!Size)

AtTelling(n) ==
    /\ AtStart(n) /\ Tells(archive, pos)
    /\ n <= Len(archive.members) => Behind(pos) < archive.ends[n]

LEMMA HeadsWhole ==
    ASSUME TarInv, tar_pc = "walk", NEW n \in 1 .. archive.whole, NEW name, name \in DOMAIN Bare,
           Heads(archive, pos, name, TarFile!Size, archive.members[n]),
           TarFile!TakenName = Bare[name], long_name # None => pax_path = None,
           archive.ends[n] = pos + BLOCK + TarFile!Padded(TarFile!Size)
    PROVE  AtWhole(n)
PROOF
<1>1. TarFile!Block(pos) = At(archive, pos)
    BY DEF TarFile!Block, At
<1>2. TarFile!Readable
    BY StandsRead DEF Heads
<1>3. Bare[name] \in Nat
    BY SourcesAssumption
<1> QED
    BY <1>1, <1>2, <1>3, StartOk, NoneIsNoWord DEF AtWhole, Heads, TarInv, TarFile!Entry, TarFile!data_start

LEMMA Positions ==
    ASSUME TarInv, tar_pc = "walk"
    PROVE  \E n \in 1 .. (archive.whole + 1) :
               /\ pos \in Nat /\ n \in Nat /\ Due(archive, pos) = n
               /\ AtWhole(n) \/ AtTelling(n) \/ (n = archive.whole + 1 /\ ~TarFile!Readable)
PROOF
<1>1. PICK n \in 1 .. (archive.whole + 1) : AtStart(n) \/ AtTold(n)
    BY DEF TarInv
<1>2. IsTar(archive)
    BY NoneIsNoWord DEF TarInv
<1> DEFINE p == Start(archive, n)
<1>3. /\ archive.whole \in Nat /\ Len(archive.members) \in Nat /\ archive.whole <= Len(archive.members)
      /\ p \in Nat /\ n \in Nat /\ DOMAIN archive.ends = 1 .. Len(archive.members)
      /\ \A k \in DOMAIN archive.ends : archive.ends[k] \in Nat
      /\ n # 1 => p = archive.ends[n - 1]
      /\ n = 1 => p = 0
    BY <1>2, StartOk
<1>4. n <= Len(archive.members) => p < archive.ends[n]
    <2> SUFFICES ASSUME n <= Len(archive.members) PROVE p < archive.ends[n]
        OBVIOUS
    <2>1. n \in DOMAIN archive.ends /\ (n # 1 => n - 1 \in 1 .. (n - 1))
        BY <1>3
    <2>2. archive.ends[n] > 0 /\ \A j \in 1 .. (n - 1) : archive.ends[j] < archive.ends[n]
        BY <1>2, <2>1 DEF IsTar
    <2> QED
        BY <1>3, <2>1, <2>2
<1>5. BLOCK \in Nat /\ BLOCK > 0 /\ Behind(p) = p + 2 * BLOCK /\ Behind(p) \in Nat
    BY <1>3, SourcesAssumption DEF Behind
<1>6. n <= archive.whole => WellWritten(archive, n)
    BY <1>2, <1>3 DEF IsTar
<1>7. n = archive.whole + 1 => Breaks(archive)
    BY <1>2 DEF IsTar
<1>8. CASE AtStart(n)
    <2>1. pos = p /\ long_name = None /\ pax_path = None /\ pax_size = None
        BY <1>8 DEF AtStart
    <2> HIDE DEF p
    <2>2. Due(archive, pos) = n /\ pos \in Nat
        BY <1>2, <1>3, <1>4, <2>1, DueIs DEF p
    <2>3. TarFile!Block(pos) = At(archive, p) /\ TarFile!Size = At(archive, p).size /\ TarFile!TakenName = Bare[At(archive, p).name]
        BY <2>1 DEF TarFile!Block, At, TarFile!Size, TarFile!TakenName
    <2>4. CASE n <= archive.whole /\ Heads(archive, p, At(archive, p).name, At(archive, p).size, archive.members[n])
               /\ archive.ends[n] = p + BLOCK + TarFile!Padded(At(archive, p).size)
        <3>1. At(archive, p).name \in DOMAIN Bare /\ n \in 1 .. archive.whole
            BY <1>3, <2>4 DEF Heads
        <3>2. AtWhole(n)
            BY <2>1, <2>3, <2>4, <3>1, HeadsWhole
        <3> QED
            BY <1>3, <2>2, <3>2
    <2>5. CASE Tells(archive, p) /\ (n <= Len(archive.members) => Behind(p) < archive.ends[n])
        BY <1>3, <1>8, <2>1, <2>2, <2>5 DEF AtTelling
    <2>6. CASE n = archive.whole + 1 /\ ~Stands(archive, p, At(archive, p).size)
        <3>1. ~TarFile!Readable
            BY <2>1, <2>3, <2>6, StandsRead
        <3> QED
            BY <1>3, <2>2, <2>6, <3>1
    <2>7. CASE n <= archive.whole /\ Tells(archive, p) /\ Heads(archive, Behind(p), ToldName(archive, p), ToldSize(archive, p), archive.members[n])
               /\ archive.ends[n] = Behind(p) + BLOCK + TarFile!Padded(ToldSize(archive, p))
        <3>1. ToldSize(archive, p) \in Nat
            BY <2>7 DEF Heads
        <3>2. TarFile!Padded(ToldSize(archive, p)) \in Nat
            BY <3>1, PaddedNat
        <3>3. Behind(p) < archive.ends[n]
            BY <1>5, <2>7, <3>2
        <3> QED
            BY <2>5, <2>7, <3>3
    <2>8. CASE n <= archive.whole
        BY <1>6, <2>4, <2>7, <2>8 DEF WellWritten, p
    <2>9. CASE n = archive.whole + 1
        BY <1>3, <1>7, <2>5, <2>6, <2>9 DEF Breaks, p
    <2> QED
        BY <1>3, <2>8, <2>9
<1>9. CASE AtTold(n)
    <2>1. pos = Behind(p) /\ Tells(archive, p) /\ (n <= Len(archive.members) => pos < archive.ends[n])
        BY <1>9 DEF AtTold
    <2>2. pos \in Nat /\ Due(archive, pos) = n
        BY <1>2, <1>3, <1>5, <2>1, DueIs
    <2> DEFINE told == At(archive, p + BLOCK).text
    <2>3. IF At(archive, p).type = "L"
          THEN long_name = told.path /\ pax_path = None /\ pax_size = None
          ELSE long_name = None /\ pax_path = told.path /\ pax_size = told.size
        BY <1>9 DEF AtTold
    <2>4. TarFile!Block(pos) = At(archive, Behind(p))
        BY <2>1 DEF TarFile!Block, At
    <2>5. TarFile!Size = ToldSize(archive, p)
        BY <2>3, <2>4 DEF TarFile!Size, ToldSize
    <2>6. TarFile!TakenName = Bare[ToldName(archive, p)]
        <3>1. At(archive, p).type = "L" => told.path # None
            BY <2>1 DEF Tells
        <3> HIDE DEF told
        <3> QED
            BY <2>3, <2>4, <3>1 DEF TarFile!TakenName, ToldName, told
    <2> HIDE DEF p, told
    <2>7. Stands(archive, p, At(archive, p).size) /\ At(archive, p).type \in {"L", "x", "g"}
        BY <2>1 DEF Tells
    <2>8. CASE n <= archive.whole
        <3>1. /\ Heads(archive, Behind(p), ToldName(archive, p), ToldSize(archive, p), archive.members[n])
              /\ archive.ends[n] = Behind(p) + BLOCK + TarFile!Padded(ToldSize(archive, p))
            BY <1>6, <2>7, <2>8 DEF WellWritten, Heads, p
        <3>2. ToldName(archive, p) \in DOMAIN Bare /\ n \in 1 .. archive.whole
            BY <1>3, <2>8, <3>1 DEF Heads
        <3>3. AtWhole(n)
            BY <2>1, <2>3, <2>5, <2>6, <3>1, <3>2, HeadsWhole
        <3> QED
            BY <1>3, <2>2, <3>3
    <2>9. CASE n = archive.whole + 1
        <3>1. ~Stands(archive, Behind(p), ToldSize(archive, p))
            BY <1>7, <2>7, <2>9 DEF Breaks, p
        <3>2. ~TarFile!Readable
            BY <2>1, <2>5, <3>1, StandsRead
        <3> QED
            BY <1>3, <2>2, <2>9, <3>2
    <2> QED
        BY <1>3, <2>8, <2>9
<1> QED
    BY <1>1, <1>8, <1>9

(* Steps of the listing, told in the terms of the walk. *)
LEMMA TakesMember ==
    ASSUME tar_pc = "walk", tar_pc' = "walk", archive' = archive,
           Due(archive, pos) <= archive.whole, Due(archive, pos') = Due(archive, pos) + 1,
           tar_entries' = IF archive.members[Due(archive, pos)].type \in {"file", "dir"}
                          THEN Append(tar_entries, archive.members[Due(archive, pos)]) ELSE tar_entries
    PROVE  Listing!Take
BY NoneIsNoWord DEF Listing!Take, Listing!Listable, Due

LEMMA StandsStill ==
    ASSUME tar_pc \in {"open", "walk"}, tar_pc' = "walk", archive' = archive, tar_entries' = tar_entries,
           Due(archive, pos') = Due(archive, pos)
    PROVE  UNCHANGED Listing!vars
BY NoneIsNoWord DEF Listing!vars, Due

LEMMA WholeStep ==
    ASSUME TarInv, tar_pc = "walk", TarFile!TarNext, UNCHANGED <<command, reader>>, NEW n \in 1 .. (archive.whole + 1),
           pos \in Nat, Due(archive, pos) = n, AtWhole(n)
    PROVE  TarInv' /\ Listing!Take
PROOF
<1>1. IsTar(archive) /\ tar_entries \in Seq(Member) /\ command = "open" /\ reader = "tar"
    BY NoneIsNoWord DEF TarInv
<1>2. /\ archive.whole \in Nat /\ Len(archive.members) \in Nat /\ archive.whole <= Len(archive.members)
      /\ DOMAIN archive.ends = 1 .. Len(archive.members)
      /\ \A k \in DOMAIN archive.ends : archive.ends[k] \in Nat
      /\ n \in 1 .. archive.whole /\ n + 1 \in 1 .. (archive.whole + 1)
    BY <1>1, StartOk DEF AtWhole
<1>3. n + 1 <= Len(archive.members) => archive.ends[n] < archive.ends[n + 1]
    <2> SUFFICES ASSUME n + 1 <= Len(archive.members) PROVE archive.ends[n] < archive.ends[n + 1]
        OBVIOUS
    <2>1. n + 1 \in DOMAIN archive.ends /\ n \in 1 .. (n + 1 - 1)
        BY <1>2
    <2> QED
        BY <1>1, <2>1 DEF IsTar
<1>4. Start(archive, n + 1) = archive.ends[n]
    BY <1>2 DEF Start
<1> DEFINE type == TarFile!Block(pos).type
           m == archive.members[n]
<1>5. type \notin {"L", "x", "g"} /\ TarFile!Readable
    BY DEF AtWhole
<1>6. /\ TarFile!Header({type})
                     /\ long_name' = None /\ pax_path' = None /\ pax_size' = None
                     /\ tar_entries' = IF m.type \in {"file", "dir"} THEN Append(tar_entries, m) ELSE tar_entries
    <2> HIDE DEF type
    <2>1. CASE TarFile!RegularFile
        <3>1. TarFile!Header({"0", "7"}) /\ type \in {"0", "7"} /\ TarFile!TakeName
              /\ tar_entries' = Append(tar_entries, TarFile!Entry("file", TarFile!Size))
            BY <2>1 DEF TarFile!RegularFile, TarFile!Header, type
        <3>2. m.type = "file"
            BY <3>1 DEF AtWhole, FlagType, type
        <3>3. m = TarFile!Entry("file", TarFile!Size)
            BY <3>2 DEF AtWhole
        <3>4. TarFile!Header({type})
            BY <3>1 DEF TarFile!Header, type
        <3>5. long_name' = None /\ pax_path' = None /\ pax_size' = None
            BY <3>1 DEF TarFile!TakeName, AtWhole
        <3> QED
            BY <3>1, <3>2, <3>3, <3>4, <3>5
    <2>2. CASE TarFile!Directory
        <3>1. TarFile!Header({"5"}) /\ type = "5" /\ TarFile!TakeName
              /\ tar_entries' = Append(tar_entries, TarFile!Entry("dir", 0))
            BY <2>2 DEF TarFile!Directory, TarFile!Header, type
        <3>2. m.type = "dir"
            BY <3>1 DEF AtWhole, FlagType, type
        <3>3. m = TarFile!Entry("dir", 0)
            BY <3>2 DEF AtWhole
        <3>4. TarFile!Header({type})
            BY <3>1 DEF TarFile!Header, type
        <3>5. long_name' = None /\ pax_path' = None /\ pax_size' = None
            BY <3>1 DEF TarFile!TakeName, AtWhole
        <3> QED
            BY <3>1, <3>2, <3>3, <3>4, <3>5
    <2>3. CASE TarFile!OtherType
        <3>1. m.type = "other"
            BY <2>3 DEF TarFile!OtherType, AtWhole, FlagType, type
        <3> QED
            BY <2>3, <3>1 DEF TarFile!OtherType, type
    <2>4. CASE TarFile!LongName \/ TarFile!PaxHeader
        BY <1>5, <2>4 DEF TarFile!LongName, TarFile!PaxHeader, TarFile!Header, type
    <2>5. CASE TarFile!StopWalk \/ TarFile!Open
        BY <1>5, <2>5 DEF TarFile!StopWalk, TarFile!Open
    <2> QED
        BY <2>1, <2>2, <2>3, <2>4, <2>5 DEF TarFile!TarNext
<1> HIDE DEF type
<1>7. pos' = archive.ends[n] /\ archive' = archive /\ tar_pc' = "walk"
    BY <1>6 DEF TarFile!Header, AtWhole
<1>8. Due(archive, pos') = n + 1
    BY <1>1, <1>2, <1>3, <1>4, <1>7, DueIs
<1>9. Listing!Take
    BY <1>2, <1>6, <1>7, <1>8, TakesMember
<1>10. AtStart(n + 1)'
    BY <1>4, <1>6, <1>7 DEF AtStart, Start
<1>11. tar_entries' \in Seq(Member)
    <2>1. ASSUME m.type \in {"file", "dir"} PROVE m \in Member
        <3>1. m = TarFile!Entry(m.type, IF m.type = "dir" THEN 0 ELSE TarFile!Size)
            BY <2>1 DEF AtWhole
        <3>2. TarFile!TakenName \in Nat /\ TarFile!data_start \in Nat /\ TarFile!Size \in Nat
            BY SourcesAssumption DEF AtWhole, TarFile!data_start
        <3> HIDE DEF m
        <3>3. TarFile!Entry(m.type, IF m.type = "dir" THEN 0 ELSE TarFile!Size) \in Member
            BY <2>1, <3>2 DEF TarFile!Entry, Member
        <3> QED
            BY <3>1, <3>3
    <2> HIDE DEF m
    <2> QED
        BY <1>1, <1>6, <2>1
<1> QED
    BY <1>1, <1>2, <1>7, <1>9, <1>10, <1>11, NoneIsNoWord DEF TarInv

LEMMA TellingStep ==
    ASSUME TarInv, tar_pc = "walk", TarFile!TarNext, UNCHANGED <<command, reader>>, NEW n \in 1 .. (archive.whole + 1),
           pos \in Nat, Due(archive, pos) = n, AtTelling(n)
    PROVE  TarInv' /\ UNCHANGED Listing!vars
PROOF
<1>1. IsTar(archive) /\ tar_entries \in Seq(Member) /\ command = "open" /\ reader = "tar"
    BY NoneIsNoWord DEF TarInv
<1>2. /\ archive.whole \in Nat /\ Len(archive.members) \in Nat /\ archive.whole <= Len(archive.members)
      /\ DOMAIN archive.ends = 1 .. Len(archive.members)
      /\ \A k \in DOMAIN archive.ends : archive.ends[k] \in Nat
    BY <1>1, StartOk
<1>3. pos = Start(archive, n) /\ long_name = None /\ pax_path = None /\ pax_size = None /\ Tells(archive, pos)
    BY DEF AtTelling, AtStart
<1> DEFINE told == At(archive, pos + BLOCK)
<1>4. /\ TarFile!Block(pos) = At(archive, pos) /\ TarFile!Block(TarFile!data_start) = told
      /\ TarFile!Size = BLOCK /\ TarFile!data_start = pos + BLOCK
    BY <1>3 DEF TarFile!Block, At, TarFile!Size, TarFile!data_start, Tells
<1>5. /\ Stands(archive, pos, BLOCK) /\ At(archive, pos).type \in {"L", "x", "g"}
      /\ told.kind = "text" /\ told.length <= BLOCK /\ BLOCK > 0
    BY <1>3, SourcesAssumption DEF Tells
<1> HIDE DEF told
<1>6. TarFile!Fits(TarFile!data_start, TarFile!Size) /\ TarFile!Text(TarFile!data_start, TarFile!Size) = told.text
    BY <1>4, <1>5 DEF TarFile!Fits, TarFile!Text
<1>7. TarFile!Readable
    BY <1>4, <1>5, StandsRead
<1>8. /\ TarFile!Header({"L", "x", "g"}) /\ tar_entries' = tar_entries
      /\ IF At(archive, pos).type = "L"
         THEN long_name' = told.text.path /\ pax_path' = None /\ pax_size' = None
         ELSE long_name' = None /\ pax_path' = told.text.path /\ pax_size' = told.text.size
    <2>1. CASE TarFile!LongName
        <3>1. At(archive, pos).type = "L" /\ TarFile!Header({"L", "x", "g"})
            BY <1>4, <2>1 DEF TarFile!LongName, TarFile!Header
        <3> QED
            BY <1>3, <1>6, <2>1, <3>1 DEF TarFile!LongName
    <2>2. CASE TarFile!PaxHeader
        <3>1. At(archive, pos).type \in {"x", "g"} /\ TarFile!Header({"L", "x", "g"})
            BY <1>4, <2>2 DEF TarFile!PaxHeader, TarFile!Header
        <3> QED
            BY <1>3, <1>6, <2>2, <3>1 DEF TarFile!PaxHeader
    <2>3. CASE TarFile!RegularFile \/ TarFile!Directory \/ TarFile!OtherType
        BY <1>4, <1>5, <2>3 DEF TarFile!RegularFile, TarFile!Directory, TarFile!OtherType, TarFile!Header
    <2>4. CASE TarFile!StopWalk \/ TarFile!Open
        BY <1>7, <2>4 DEF TarFile!StopWalk, TarFile!Open
    <2> QED
        BY <2>1, <2>2, <2>3, <2>4 DEF TarFile!TarNext
<1>9. pos' = Behind(pos) /\ archive' = archive /\ tar_pc' = "walk"
    BY <1>4, <1>8, PaddedBlock, SourcesAssumption DEF TarFile!Header, Behind
<1>10. Due(archive, pos') = n
    <2>1. Behind(pos) \in Nat /\ Start(archive, n) <= Behind(pos)
        BY <1>3, SourcesAssumption DEF Behind
    <2>2. n <= Len(archive.members) => Behind(pos) < archive.ends[n]
        BY DEF AtTelling
    <2> QED
        BY <1>1, <1>9, <2>1, <2>2, DueIs
<1>11. UNCHANGED Listing!vars
    BY <1>8, <1>9, <1>10, StandsStill
<1>12. AtTold(n)'
    <2>1. n <= Len(archive.members) => Behind(pos) < archive.ends[n]
        BY DEF AtTelling
    <2> QED
        BY <1>3, <1>8, <1>9, <2>1 DEF AtTold, Start, Behind, At, told, Tells, Stands
<1> QED
    BY <1>1, <1>8, <1>9, <1>11, <1>12, NoneIsNoWord DEF TarInv

(* Every step of the tar reader is one of the listing, or none of it. *)
LEMMA ReadTarStep ==
    ASSUME TarInv, ReadTar
    PROVE  TarInv' /\ [Listing!Next]_(Listing!vars)
PROOF
<1>1. TarFile!TarNext /\ UNCHANGED <<command, reader>> /\ command = "open" /\ reader = "tar"
    BY DEF ReadTar, Reading, ownVars
<1>2. CASE tar_pc = "open"
    <2>1. IsTar(archive) /\ tar_entries = <<>> /\ AtStart(1) /\ tar_entries \in Seq(Member)
        BY <1>2, NoneIsNoWord DEF TarInv
    <2>2. TarFile!Open
        BY <1>1, <1>2 DEF TarFile!TarNext, TarFile!LongName, TarFile!PaxHeader, TarFile!RegularFile, TarFile!Directory,
                          TarFile!OtherType, TarFile!StopWalk, TarFile!Header
    <2>3. UNCHANGED <<archive, pos, long_name, pax_path, pax_size, tar_entries>> /\ tar_pc' \in {"failed", "walk"}
        BY <2>2 DEF TarFile!Open
    <2>4. AtStart(1)' /\ 1 \in 1 .. (archive.whole + 1)
        BY <2>1, <2>3 DEF AtStart, Start, IsTar
    <2>5. CASE tar_pc' = "walk"
        <3>1. TarInv'
            BY <1>1, <2>1, <2>3, <2>4, <2>5, NoneIsNoWord DEF TarInv
        <3>2. UNCHANGED Listing!vars
            BY <1>2, <2>3, <2>5, StandsStill
        <3> QED
            BY <3>1, <3>2
    <2>6. CASE tar_pc' = "failed"
        <3>1. TarInv'
            BY <2>1, <2>3, <2>6, NoneIsNoWord DEF TarInv
        <3>2. Listing!Refuse
            BY <1>2, <2>1, <2>3, <2>6, NoneIsNoWord DEF Listing!Refuse
        <3> QED
            BY <3>1, <3>2 DEF Listing!Next
    <2> QED
        BY <2>3, <2>5, <2>6
<1>3. CASE tar_pc = "walk"
    <2>1. PICK n \in 1 .. (archive.whole + 1) :
              /\ pos \in Nat /\ n \in Nat /\ Due(archive, pos) = n
              /\ AtWhole(n) \/ AtTelling(n) \/ (n = archive.whole + 1 /\ ~TarFile!Readable)
        BY <1>3, Positions
    <2>2. CASE AtWhole(n)
        <3>1. TarInv' /\ Listing!Take
            BY <1>1, <1>3, <2>1, <2>2, WholeStep
        <3> QED
            BY <3>1 DEF Listing!Next
    <2>3. CASE AtTelling(n)
        BY <1>1, <1>3, <2>1, <2>3, TellingStep
    <2>4. CASE n = archive.whole + 1 /\ ~TarFile!Readable
        <3>1. TarFile!StopWalk
            BY <1>1, <1>3, <2>4 DEF TarFile!TarNext, TarFile!LongName, TarFile!PaxHeader, TarFile!RegularFile,
                                    TarFile!Directory, TarFile!OtherType, TarFile!Open, TarFile!Header
        <3>2. UNCHANGED <<archive, pos, long_name, pax_path, pax_size, tar_entries>> /\ tar_pc' = "listed"
            BY <3>1 DEF TarFile!StopWalk
        <3>3. TarInv'
            BY <1>3, <3>2, NoneIsNoWord DEF TarInv
        <3>4. Listing!Stop
            BY <1>3, <2>1, <2>4, <3>2, NoneIsNoWord DEF Listing!Stop, Due
        <3> QED
            BY <3>3, <3>4 DEF Listing!Next
    <2> QED
        BY <2>1, <2>2, <2>3, <2>4
<1>4. tar_pc \in {"open", "walk"}
    BY <1>1 DEF TarFile!TarNext, TarFile!Open, TarFile!LongName, TarFile!PaxHeader, TarFile!RegularFile, TarFile!Directory,
                TarFile!OtherType, TarFile!StopWalk, TarFile!Header
<1> QED
    BY <1>2, <1>3, <1>4

LEMMA OpenTarStep ==
    ASSUME WellSourced, TarInv, OpenTar
    PROVE  TarInv' /\ Listing!Begin
PROOF
<1>1. command = "open" /\ reader = None /\ turn \in DOMAIN sources /\ sources[turn].kind = "tar"
      /\ command' = "open" /\ reader' = "tar" /\ TarFile!Begin(sources[turn].what.tar)
    BY DEF WellSourced, OpenTar, Opening
<1>2. PICK a : a = sources[turn].what.tar
    OBVIOUS
<1>3. IsTar(a)
    BY <1>1, <1>2 DEF WellSourced, IsSource
<1>4. /\ archive' = a /\ tar_pc' = "open" /\ pos' = 0 /\ tar_entries' = <<>>
      /\ long_name' = None /\ pax_path' = None /\ pax_size' = None
    BY <1>1, <1>2 DEF TarFile!Begin
<1>5. AtStart(1)'
    BY <1>4 DEF AtStart, Start
<1>6. TarInv'
    BY <1>1, <1>3, <1>4, <1>5, NoneIsNoWord DEF TarInv
<1>7. Due(a, 0) = 1
    <2>1. 1 \in 1 .. (a.whole + 1) /\ Start(a, 1) = 0
        BY <1>3 DEF IsTar, Start
    <2>2. 1 <= Len(a.members) => 0 < a.ends[1]
        <3> SUFFICES ASSUME 1 <= Len(a.members) PROVE 0 < a.ends[1]
            OBVIOUS
        <3>1. 1 \in DOMAIN a.ends
            BY <1>3, <2>1, StartOk
        <3>2. a.ends[1] > 0 /\ a.ends[1] \in Nat
            BY <1>3, <2>1, <3>1, StartOk DEF IsTar
        <3> QED
            BY <3>2
    <2> QED
        BY <1>3, <2>1, <2>2, DueIs
<1>8. tar_pc \notin {"open", "walk"}
    BY <1>1, NoneIsNoWord DEF TarInv
<1>9. a.whole \in 0 .. Len(a.members)
    BY <1>3 DEF IsTar
<1>10. Listing!Begin
    BY <1>4, <1>7, <1>8, <1>9, NoneIsNoWord DEF Listing!Begin, TarInv, Due
<1> QED
    BY <1>6, <1>10

LEMMA TarStep == WellSourced /\ TarInv /\ [Next]_vars => TarInv' /\ [Listing!Next]_(Listing!vars)
PROOF
<1> SUFFICES ASSUME WellSourced, TarInv, [Next]_vars
             PROVE  TarInv' /\ [Listing!Next]_(Listing!vars)
    OBVIOUS
<1>1. CASE OpenTar
    BY <1>1, OpenTarStep DEF Listing!Next
<1>2. CASE ReadTar
    BY <1>2, ReadTarStep
<1>3. CASE UNCHANGED tarVars /\ (tar_pc \in {"open", "walk"} => UNCHANGED <<command, reader>>)
    <2>1. TarInv'
        BY <1>3 DEF TarInv, tarVars, AtStart, AtTold
    <2>2. UNCHANGED Listing!vars
        BY <1>3 DEF Listing!vars, tarVars
    <2> QED
        BY <2>1, <2>2
<1>4. tar_pc \in {"open", "walk"} => command = "open" /\ reader = "tar" /\ ~Served /\ ~Failed /\ reader # None
    BY NoneIsNoWord DEF TarInv, Served, Failed
<1>5. CASE OpenArchive \/ OpenFolder
    BY <1>3, <1>4, <1>5 DEF OpenArchive, OpenFolder, Opening
<1>6. CASE ReadZip \/ ScanFolder
    BY <1>3, <1>4, <1>6 DEF ReadZip, ScanFolder, ownVars
<1>7. CASE UNCHANGED readerVars /\ (command = "open" /\ reader # None /\ ~Served /\ ~Failed => UNCHANGED <<command, reader>>)
    BY <1>3, <1>4, <1>7 DEF readerVars
<1> QED
    BY <1>1, <1>2, <1>5, <1>6, <1>7, ReaderSteps

(* Of every tar file that is opened, one after another and among other sources,
   the walk lists what the writer put in, in order, under its own name and with
   its own bytes, up to the first member that is damaged: it implements the
   listing of members. *)
THEOREM WalkListsMembers == Spec => ImplementsListing
PROOF
<1>1. Init => TarInv /\ Listing!Init
    BY NoneIsNoWord DEF Init, SourcesInit, TarInv, Listing!Init
<1> QED
    BY <1>1, WellSourcedInit, WellSourcedStep, TarStep, PTL DEF Spec, ImplementsListing, Listing!Spec

-----------------------------------------------------------------------------
(* The ZIP archives. *)
LEMMA ResolvedFields ==
    ASSUME NEW h
    PROVE  LET e == ZipFile!CdEntry(h)
               m == ZipFile!Resolved(e)
           IN /\ m.name = e.name /\ m.method = e.method /\ m.crc32 = e.crc32 /\ m.comp_size = e.comp_size
              /\ m.uncomp_size = e.uncomp_size /\ m.local_offset = e.local_offset
              /\ m.data_offset = ZipFile!local_data_offset(e.local_offset)
BY DEF ZipFile!CdEntry, ZipFile!Resolved

Decoded ==
    /\ ZipFile!parse_cd_headers
    /\ zip_entries = ZipFile!Entries(io_mode)
    /\ crcs = [i \in DOMAIN ZipFile!CdEntries |-> ZipFile!CdEntries[i].crc32]

ZipInv ==
    /\ zip_pc \in {None, "open", "opened", "failed"}
    /\ zip_pc # None => IsZip(zip) /\ io_mode \in {"mmap", "ranged"} /\ IsSeq(attested)
    /\ zip_pc = "open" => attested = <<>>
    /\ zip_pc = "opened" =>
           /\ Decoded
           /\ DOMAIN attested \subseteq DOMAIN zip_entries
           /\ \A i \in DOMAIN attested :
                  \E reads \in BOOLEAN : attested[i] = ZipFile!integrity_check(zip_entries[i], reads)

(* An instance counts and picks as everyone does. *)
LEMMA CountsAlike == \A S : ZipFile!Cardinality(S) = Cardinality(S)
BY DEF ZipFile!Cardinality, Cardinality

LEMMA PickedAlike == \A s, S : ZipFile!Picked(s, S) = Picked(s, S)
BY DEF ZipFile!Picked, ZipFile!Ascending, ZipFile!InOrder, ZipFile!Cardinality, Picked, Ascending, InOrder, Cardinality

(* The headers that are kept, one for each file. *)
LEMMA KeptOk ==
    ASSUME IsZip(zip)
    PROVE  /\ Len(zip.files) \in Nat
           /\ zip.files \in Seq(Range(zip.files))
           /\ ZipFile!CdEntries = [i \in 1 .. Len(zip.files) |-> ZipFile!CdEntry(Picked(zip.cd, Kept(zip))[i])]
           /\ \A i \in 1 .. Len(zip.files) :
                  /\ ArchivedAs(zip, Picked(zip.cd, Kept(zip))[i], zip.files[i])
                  /\ Ascending(Kept(zip))[i] \in Kept(zip)
                  /\ Picked(zip.cd, Kept(zip))[i] = zip.cd[Ascending(Kept(zip))[i]]
           /\ \A i, j \in 1 .. Len(zip.files) : Ascending(Kept(zip))[i] = Ascending(Kept(zip))[j] => i = j
           /\ Kept(zip) \subseteq DOMAIN zip.cd
PROOF
<1>0. zip.cd \in Seq(Range(zip.cd)) /\ zip.files \in Seq(Range(zip.files))
    BY DEF IsZip
<1>1. Kept(zip) \in SUBSET (1 .. Len(zip.cd)) /\ Len(zip.cd) \in Nat /\ DOMAIN zip.cd = 1 .. Len(zip.cd)
    BY <1>0 DEF Kept
<1>2. /\ DOMAIN Ascending(Kept(zip)) = 1 .. Cardinality(Kept(zip)) /\ Cardinality(Kept(zip)) \in Nat
      /\ \A k \in DOMAIN Ascending(Kept(zip)) : Ascending(Kept(zip))[k] \in Kept(zip)
      /\ \A j, k \in DOMAIN Ascending(Kept(zip)) : Ascending(Kept(zip))[j] = Ascending(Kept(zip))[k] => j = k
    BY <1>1, AscendingOk
<1>3. /\ Len(zip.files) = Cardinality(Kept(zip)) /\ DOMAIN zip.files = 1 .. Len(zip.files)
      /\ \A i \in DOMAIN zip.files : ArchivedAs(zip, Picked(zip.cd, Kept(zip))[i], zip.files[i])
      /\ zip.files \in Seq(Range(zip.files))
    BY DEF IsZip
<1>4. DOMAIN Picked(zip.cd, Kept(zip)) = 1 .. Len(zip.files)
      /\ \A i \in 1 .. Len(zip.files) : Picked(zip.cd, Kept(zip))[i] = zip.cd[Ascending(Kept(zip))[i]]
    BY <1>2, <1>3 DEF Picked
<1>5. {i \in DOMAIN zip.cd : ZipFile!Searchable(zip.cd[i])} = Kept(zip)
    BY DEF Kept, ZipFile!Searchable
<1>6. \A s, S : ZipFile!Picked(s, S) = Picked(s, S)
    BY PickedAlike
<1>7. ZipFile!CdEntries = [i \in 1 .. Len(zip.files) |-> ZipFile!CdEntry(Picked(zip.cd, Kept(zip))[i])]
    BY <1>4, <1>5, <1>6 DEF ZipFile!CdEntries
<1> QED
    BY <1>1, <1>2, <1>3, <1>4, <1>7

(* What a map and a ranged open list, entry by entry. *)
LEMMA EntriesOk ==
    ASSUME IsZip(zip), NEW way \in {"mmap", "ranged"}, NEW i \in 1 .. Len(zip.files)
    PROVE  LET e == ZipFile!CdEntry(Picked(zip.cd, Kept(zip))[i])
               m == ZipFile!Entries(way)[i]
           IN /\ i \in DOMAIN ZipFile!Entries(way) /\ ZipFile!CdEntries[i] = e
              /\ m.name = e.name /\ m.method = e.method /\ m.comp_size = e.comp_size /\ m.uncomp_size = e.uncomp_size
              /\ m.local_offset = e.local_offset
              /\ ZipFile!archive_data_start(way, m) = ZipFile!local_data_offset(e.local_offset)
PROOF
<1> DEFINE h == Picked(zip.cd, Kept(zip))[i]
           e == ZipFile!CdEntry(h)
<1>1. ZipFile!CdEntries[i] = e /\ i \in DOMAIN ZipFile!CdEntries
    BY KeptOk
<1>2. i \in DOMAIN ZipFile!Entries(way)
      /\ ZipFile!Entries(way)[i] = IF way = "mmap" THEN ZipFile!Resolved(e) ELSE e
    BY <1>1, Zenon DEF ZipFile!Entries
<1>3. LET m == ZipFile!Resolved(e)
      IN /\ m.name = e.name /\ m.method = e.method /\ m.crc32 = e.crc32 /\ m.comp_size = e.comp_size
         /\ m.uncomp_size = e.uncomp_size /\ m.local_offset = e.local_offset
         /\ m.data_offset = ZipFile!local_data_offset(e.local_offset)
    BY ResolvedFields
<1> HIDE DEF e
<1> QED
    BY <1>1, <1>2, <1>3 DEF e, ZipFile!archive_data_start, ZipFile!data_start

(* Nothing that the directory is found by lies before the tail. *)
LEMMA TailHolds ==
    ASSUME IsZip(zip), ZipFile!find_cd_location("mmap")
    PROVE  ZipFile!find_cd_location("ranged")
PROOF
<1>1. /\ zip.size \in Nat /\ zip.comment \in Nat /\ zip.sector \in Nat /\ zip.comment < 64 * 1024 /\ zip.sector < 32
      /\ TAIL_LEN \in Nat /\ TAIL_LEN >= 64 * 1024 + 128
    <2>1. TAIL_LEN \in Nat /\ TAIL_LEN >= 64 * 1024 + 128
        BY SourcesAssumption
    <2>2. zip.size \in Nat /\ zip.comment \in Nat /\ zip.comment < 64 * 1024 /\ zip.sector \in 0 .. 31
        BY DEF IsZip
    <2> QED
        BY <2>1, <2>2
<1>2. PICK b \in Int : b = ZipFile!base("ranged") /\ (b = 0 \/ b = zip.size - TAIL_LEN)
    <2>1. ZipFile!Min({TAIL_LEN, zip.size}) = IF TAIL_LEN <= zip.size THEN TAIL_LEN ELSE zip.size
        BY <1>1 DEF ZipFile!Min
    <2> QED
        BY <1>1, <2>1 DEF ZipFile!base
<1>3. ZipFile!base("mmap") = 0
    BY DEF ZipFile!base
<1>4. ZipFile!eocd = zip.size - 22 - zip.comment /\ ZipFile!z64_abs = ZipFile!eocd - 20 - 56 - zip.sector
    BY DEF ZipFile!eocd, ZipFile!z64_abs, ZipFile!EOCD_MIN, ZipFile!LOCATOR_LEN, ZipFile!ZIP64_EOCD_LEN
<1> QED
    BY <1>1, <1>2, <1>3, <1>4 DEF ZipFile!find_cd_location, ZipFile!LOCATOR_LEN

LEMMA RangedFollows == ZipInv => RangedAgrees
PROOF
<1> SUFFICES ASSUME ZipInv, zip_pc = "opened", ZipFile!Opens("mmap")
             PROVE  /\ ZipFile!Opens("ranged")
                    /\ \A i \in DOMAIN ZipFile!CdEntries :
                           LET m == ZipFile!Entries("mmap")[i]
                               r == ZipFile!Entries("ranged")[i]
                           IN /\ m.name = r.name /\ m.method = r.method
                              /\ ZipFile!content("mmap", m) = ZipFile!content("ranged", r)
                              /\ ZipFile!archive_data_start("mmap", m) = ZipFile!archive_data_start("ranged", r)
    BY DEF RangedAgrees
<1>1. IsZip(zip)
    BY NoneIsNoWord DEF ZipInv
<1>2. ZipFile!Opens("ranged")
    BY <1>1, TailHolds DEF ZipFile!Opens
<1>3. DOMAIN ZipFile!CdEntries = 1 .. Len(zip.files)
    BY <1>1, KeptOk
<1>4. ASSUME NEW i \in DOMAIN ZipFile!CdEntries
      PROVE  LET m == ZipFile!Entries("mmap")[i]
                 r == ZipFile!Entries("ranged")[i]
             IN /\ m.name = r.name /\ m.method = r.method
                /\ ZipFile!content("mmap", m) = ZipFile!content("ranged", r)
                /\ ZipFile!archive_data_start("mmap", m) = ZipFile!archive_data_start("ranged", r)
    <2> PICK m : m = ZipFile!Entries("mmap")[i]
        OBVIOUS
    <2> PICK r : r = ZipFile!Entries("ranged")[i]
        OBVIOUS
    <2> PICK e : e = ZipFile!CdEntry(Picked(zip.cd, Kept(zip))[i])
        OBVIOUS
    <2>1. /\ m.name = e.name /\ m.method = e.method /\ m.comp_size = e.comp_size /\ m.uncomp_size = e.uncomp_size
          /\ ZipFile!archive_data_start("mmap", m) = ZipFile!local_data_offset(e.local_offset)
        BY <1>1, <1>3, EntriesOk
    <2>2. /\ r.name = e.name /\ r.method = e.method /\ r.comp_size = e.comp_size /\ r.uncomp_size = e.uncomp_size
          /\ ZipFile!archive_data_start("ranged", r) = ZipFile!local_data_offset(e.local_offset)
        BY <1>1, <1>3, EntriesOk
    <2>3. ZipFile!content("mmap", m) = ZipFile!content("ranged", r)
        BY <2>1, <2>2 DEF ZipFile!content, ZipFile!read_range
    <2> QED
        BY <2>1, <2>2, <2>3
<1> QED
    BY <1>2, <1>4

(* A saturated field's value is found among the extra ones, whichever others there are. *)
LEMMA FieldTold ==
    ASSUME NEW h, NEW true, NEW saturated,
           saturated = {j \in 1 .. 3 : <<h.uncomp, h.comp, h.offset>>[j] = Saturated},
           \A j \in (1 .. 3) \ saturated : <<h.uncomp, h.comp, h.offset>>[j] = true[j],
           saturated # {} => h.extra = Picked(true, saturated),
           NEW f \in {"uncomp", "comp", "offset"}
    PROVE  ZipFile!Field(h, f) = true[ZipFile!Z64Order[f]]
PROOF
<1> DEFINE order == ZipFile!Z64Order
           fields == <<h.uncomp, h.comp, h.offset>>
           k == order[f]
<1>1. /\ DOMAIN order = {"uncomp", "comp", "offset"}
      /\ order["uncomp"] = 1 /\ order["comp"] = 2 /\ order["offset"] = 3
    BY DEF ZipFile!Z64Order
<1>2. k \in 1 .. 3 /\ fields[k] = h[f] /\ \A g \in DOMAIN order : fields[order[g]] = h[g]
    <2>1. fields[1] = h["uncomp"] /\ fields[2] = h["comp"] /\ fields[3] = h["offset"]
        OBVIOUS
    <2> HIDE DEF fields
    <2> QED
        BY <1>1, <2>1
<1> HIDE DEF fields, order
<1>3. saturated = {j \in 1 .. 3 : fields[j] = Saturated} /\ saturated \in SUBSET (1 .. 3)
    BY DEF fields
<1>4. CASE h[f] # Saturated
    <2>1. k \in (1 .. 3) \ saturated
        BY <1>2, <1>3, <1>4
    <2>2. fields[k] = true[k]
        BY <2>1 DEF fields
    <2> QED
        BY <1>2, <1>4, <2>2 DEF ZipFile!Field, order
<1>5. CASE h[f] = Saturated
    <2>1. k \in saturated
        BY <1>2, <1>3, <1>5
    <2>0. \A x \in saturated : \E p \in DOMAIN Ascending(saturated) : Ascending(saturated)[p] = x
        BY <1>3, AscendingOk
    <2>2. PICK p \in DOMAIN Ascending(saturated) : Ascending(saturated)[p] = k
        BY <2>0, <2>1
    <2>3. Cardinality({y \in saturated : y <= k}) = p
        <3>1. \A q \in DOMAIN Ascending(saturated) : Cardinality({y \in saturated : y <= Ascending(saturated)[q]}) = q
            BY <1>3, AscendingOk
        <3> QED
            BY <2>2, <3>1
    <2>4. ZipFile!Place(h, f) = p
        <3> DEFINE G == {g \in ZipFile!Wanted(h) : order[g] <= order[f]}
                   Y == {y \in saturated : y <= k}
                   to == [g \in G |-> order[g]]
        <3>1. \A g : g \in ZipFile!Wanted(h) <=> g \in DOMAIN order /\ h[g] = Saturated
            BY DEF ZipFile!Wanted, order
        <3>2. \A g \in G : g \in {"uncomp", "comp", "offset"} /\ order[g] \in Y
            <4> SUFFICES ASSUME NEW g \in G PROVE g \in {"uncomp", "comp", "offset"} /\ order[g] \in Y
                OBVIOUS
            <4>1. g \in DOMAIN order /\ h[g] = Saturated /\ order[g] <= k
                BY <3>1
            <4>2. order[g] \in 1 .. 3 /\ fields[order[g]] = Saturated
                BY <1>1, <1>2, <4>1
            <4> QED
                BY <1>1, <1>3, <4>1, <4>2
        <3>3. \A y \in Y : \E g \in G : order[g] = y
            <4> SUFFICES ASSUME NEW y \in Y PROVE \E g \in G : order[g] = y
                OBVIOUS
            <4>1. y \in 1 .. 3 /\ fields[y] = Saturated /\ y <= k
                BY <1>3
            <4>2. PICK g \in DOMAIN order : order[g] = y
                <5>1. y = 1 \/ y = 2 \/ y = 3
                    BY <4>1
                <5> QED
                    BY <1>1, <5>1
            <4>3. h[g] = Saturated
                BY <1>2, <4>1, <4>2
            <4>4. g \in ZipFile!Wanted(h)
                BY <3>1, <4>2, <4>3
            <4> QED
                BY <4>1, <4>2, <4>4
        <3>4. \A a, b \in G : order[a] = order[b] => a = b
            <4>1. \A a, b \in {"uncomp", "comp", "offset"} : order[a] = order[b] => a = b
                BY <1>1
            <4> QED
                BY <3>2, <4>1
        <3> HIDE DEF G, Y
        <3>5. to \in Bijection(G, Y)
            BY <3>2, <3>3, <3>4 DEF Bijection, Injection, Surjection, IsInjective
        <3>6. IsFiniteSet(Y)
            <4>1. Y \in SUBSET (1 .. 3)
                BY <1>3 DEF Y
            <4>2. IsFiniteSet(1 .. 3)
                BY IntervalFinite
            <4> QED
                BY <4>1, <4>2, FS_Subset
        <3>7. Cardinality(G) = Cardinality(Y)
            <4>1. IsFiniteSet(G)
                <5>1. G \in SUBSET {"uncomp", "comp", "offset"}
                    BY <3>2
                <5>2. IsFiniteSet({"uncomp"}) /\ IsFiniteSet({"comp"}) /\ IsFiniteSet({"offset"})
                    BY FS_Singleton
                <5>3. IsFiniteSet({"uncomp"} \cup ({"comp"} \cup {"offset"}))
                    BY <5>2, FS_Union
                <5>4. {"uncomp"} \cup ({"comp"} \cup {"offset"}) = {"uncomp", "comp", "offset"}
                    OBVIOUS
                <5>5. IsFiniteSet({"uncomp", "comp", "offset"})
                    BY <5>3, <5>4, Zenon
                <5> QED
                    BY <5>1, <5>5, FS_Subset
            <4>2. ExistsBijection(G, Y)
                BY <3>5 DEF ExistsBijection
            <4> QED
                BY <4>1, <4>2, FS_Bijection
        <3>8. ZipFile!Place(h, f) = Cardinality(G)
            BY CountsAlike DEF ZipFile!Place, G, order
        <3> QED
            BY <2>3, <3>7, <3>8 DEF Y
    <2>5. h.extra = Picked(true, saturated)
        BY <2>1
    <2>6. Picked(true, saturated)[p] = true[k]
        BY <2>2 DEF Picked
    <2> QED
        BY <1>5, <2>4, <2>5, <2>6 DEF ZipFile!Field, order
<1> QED
    BY <1>4, <1>5

LEMMA AttestedFollows == ZipInv /\ DistinctNames(zip) => AttestedOwn
PROOF
<1> SUFFICES ASSUME ZipInv, DistinctNames(zip), zip_pc = "opened", NEW i \in DOMAIN attested
             PROVE  /\ attested[i] = "verified" => ~Own(i).altered
                    /\ attested[i] = "mismatch" => Own(i).altered
    BY DEF AttestedOwn
<1>1. /\ IsZip(zip) /\ io_mode \in {"mmap", "ranged"} /\ ZipFile!parse_cd_headers
      /\ zip_entries = ZipFile!Entries(io_mode)
      /\ crcs = [j \in DOMAIN ZipFile!CdEntries |-> ZipFile!CdEntries[j].crc32]
    BY NoneIsNoWord DEF ZipInv, Decoded
<1> DEFINE h(j) == Picked(zip.cd, Kept(zip))[j]
           N == 1 .. Len(zip.files)
<1>2. DOMAIN ZipFile!CdEntries = N /\ DOMAIN zip_entries = N /\ N \in SUBSET Nat
    BY <1>1, KeptOk DEF ZipFile!Entries
<1>3. i \in N
    BY <1>2 DEF ZipInv
<1>4. /\ \A j \in N : h(j) = zip.cd[Ascending(Kept(zip))[j]] /\ Ascending(Kept(zip))[j] \in Kept(zip)
      /\ \A j, k \in N : Ascending(Kept(zip))[j] = Ascending(Kept(zip))[k] => j = k
      /\ Kept(zip) \subseteq DOMAIN zip.cd
    BY <1>1, KeptOk
<1>5. \A j \in N : zip_entries[j].name = h(j).name /\ ZipFile!CdEntries[j] = ZipFile!CdEntry(h(j))
    <2> SUFFICES ASSUME NEW j \in N PROVE zip_entries[j].name = h(j).name /\ ZipFile!CdEntries[j] = ZipFile!CdEntry(h(j))
        OBVIOUS
    <2>1. zip_entries[j].name = ZipFile!CdEntry(h(j)).name /\ ZipFile!CdEntries[j] = ZipFile!CdEntry(h(j))
        BY <1>1, EntriesOk
    <2> QED
        BY <2>1 DEF ZipFile!CdEntry
<1>6. \A j \in N : h(j).name = h(i).name => j = i
    BY <1>3, <1>4 DEF DistinctNames
<1> PICK e : e = zip_entries[i]
    OBVIOUS
<1>7. ZipFile!Expected(io_mode, e.name) = h(i).crc32
    <2>1. {j \in DOMAIN zip_entries : zip_entries[j].name = e.name} = {i}
        BY <1>2, <1>3, <1>5, <1>6
    <2>2. i \in Nat
        BY <1>2, <1>3
    <2>3. ZipFile!Min({i}) = i /\ ZipFile!Max({i}) = i
        BY <2>2 DEF ZipFile!Min, ZipFile!Max
    <2>4. crcs[i] = h(i).crc32
        <3>1. crcs[i] = ZipFile!CdEntries[i].crc32
            BY <1>1, <1>2, <1>3
        <3>2. ZipFile!CdEntries[i] = ZipFile!CdEntry(h(i))
            BY <1>3, <1>5
        <3>3. ZipFile!CdEntry(h(i)).crc32 = h(i).crc32
            BY DEF ZipFile!CdEntry
        <3> QED
            BY <3>1, <3>2, <3>3
    <2> HIDE DEF N, h
    <2> QED
        BY <2>1, <2>3, <2>4 DEF ZipFile!Expected
<1> DEFINE f == zip.files[i]
           fields == <<h(i).uncomp, h(i).comp, h(i).offset>>
           saturated == {j \in 1 .. 3 : fields[j] = Saturated}
<1>8. ZipFile!decodes(h(i))
    <2>1. Ascending(Kept(zip))[i] \in DOMAIN zip.cd
        BY <1>3, <1>4
    <2> QED
        BY <1>1, <1>3, <1>4, <2>1 DEF ZipFile!parse_cd_headers
<1>9. saturated = {} \/ h(i).extra # None
    <2> SUFFICES ASSUME ZipFile!Wanted(h(i)) = {} PROVE saturated = {}
        BY <1>8 DEF ZipFile!decodes
    <2>1. h(i)["uncomp"] # Saturated /\ h(i)["comp"] # Saturated /\ h(i)["offset"] # Saturated
        BY DEF ZipFile!Wanted, ZipFile!Z64Order
    <2>2. fields[1] = h(i)["uncomp"] /\ fields[2] = h(i)["comp"] /\ fields[3] = h(i)["offset"]
        OBVIOUS
    <2> HIDE DEF fields
    <2> QED
        BY <2>1, <2>2
<1>10. ArchivedAs(zip, h(i), f)
    BY <1>1, <1>3, KeptOk
<1>11. PICK uncomp \in {f.uncomp, f.uncomp + 1}, offset \in DOMAIN zip.local :
           LET true == <<uncomp, f.comp, offset>> IN
           /\ \A j \in (1 .. 3) \ saturated : fields[j] = true[j]
           /\ saturated # {} => h(i).extra = Picked(true, saturated)
           /\ zip.local[offset].sound /\ h(i).crc32 # 0 =>
                  LET data == offset + 30 + zip.local[offset].lengths IN
                  \/ data + f.comp > zip.size
                  \/ /\ <<data, f.comp>> \in DOMAIN zip.payload
                     /\ zip.payload[<<data, f.comp>>].crc32 = h(i).crc32 <=> ~f.altered
    BY <1>9, <1>10, Zenon DEF ArchivedAs
<1> DEFINE true == <<uncomp, f.comp, offset>>
           start == offset + 30 + zip.local[offset].lengths
<1>12. ZipFile!Field(h(i), "comp") = f.comp /\ ZipFile!Field(h(i), "offset") = offset
    <2> HIDE DEF h
    <2>1. \A g \in {"uncomp", "comp", "offset"} : ZipFile!Field(h(i), g) = true[ZipFile!Z64Order[g]]
        BY <1>11, FieldTold
    <2>2. ZipFile!Z64Order["comp"] = 2 /\ ZipFile!Z64Order["offset"] = 3
        BY DEF ZipFile!Z64Order
    <2>3. true[2] = f.comp /\ true[3] = offset
        OBVIOUS
    <2> HIDE DEF true
    <2> QED
        BY <2>1, <2>2, <2>3
<1>13. /\ e.comp_size = f.comp
       /\ ZipFile!archive_data_start(io_mode, e) = IF zip.local[offset].sound THEN start ELSE None
    <2>1. /\ e.comp_size = ZipFile!CdEntry(h(i)).comp_size
          /\ ZipFile!archive_data_start(io_mode, e) = ZipFile!local_data_offset(ZipFile!CdEntry(h(i)).local_offset)
        BY <1>1, <1>3, EntriesOk
    <2>2. ZipFile!CdEntry(h(i)).comp_size = f.comp /\ ZipFile!CdEntry(h(i)).local_offset = offset
        BY <1>12 DEF ZipFile!CdEntry
    <2>3. ZipFile!local_data_offset(offset) = IF zip.local[offset].sound THEN start ELSE None
        BY <1>11 DEF ZipFile!local_data_offset, ZipFile!LFH_FIXED
    <2> QED
        BY <2>1, <2>2, <2>3
<1> HIDE DEF true, fields, saturated, h, start
<1> DEFINE c == ZipFile!content(io_mode, e)
<1>14. ASSUME c # None
       PROVE  zip.local[offset].sound /\ ~(start + f.comp > zip.size)
              /\ c.crc32 = ZipFile!Payload(start, f.comp).crc32
    BY <1>13, <1>14 DEF ZipFile!content, ZipFile!read_range
<1>15. PICK reads \in BOOLEAN : attested[i] = ZipFile!integrity_check(e, reads)
    BY DEF ZipInv
<1> HIDE DEF c
<1>16. CASE h(i).crc32 = 0 \/ c = None \/ ~reads
    BY <1>7, <1>15, <1>16 DEF ZipFile!integrity_check, c
<1>17. CASE h(i).crc32 # 0 /\ c # None /\ reads
    <2>1. attested[i] = IF c.crc32 = h(i).crc32 THEN "verified" ELSE "mismatch"
        BY <1>7, <1>15, <1>17 DEF ZipFile!integrity_check, c
    <2>2. /\ <<start, f.comp>> \in DOMAIN zip.payload
          /\ zip.payload[<<start, f.comp>>].crc32 = h(i).crc32 <=> ~f.altered
        BY <1>11, <1>14, <1>17 DEF start
    <2>3. c.crc32 = zip.payload[<<start, f.comp>>].crc32
        BY <1>14, <1>17, <2>2 DEF ZipFile!Payload
    <2> QED
        BY <2>1, <2>2, <2>3 DEF Own
<1> QED
    BY <1>16, <1>17

(* What an archive lists, and what its entries are attested as, is told by it. *)
LEMMA ListingStays ==
    ASSUME zip' = zip
    PROVE  /\ ZipFile!CdEntries' = ZipFile!CdEntries /\ (ZipFile!parse_cd_headers' <=> ZipFile!parse_cd_headers)
           /\ \A way \in {"mmap", "ranged"} : ZipFile!Entries(way)' = ZipFile!Entries(way)
PROOF
<1>1. ZipFile!CdEntries' = ZipFile!CdEntries
    BY DEF ZipFile!CdEntries
<1>2. ZipFile!parse_cd_headers' <=> ZipFile!parse_cd_headers
    BY DEF ZipFile!parse_cd_headers
<1>3. \A off : ZipFile!local_data_offset(off)' = ZipFile!local_data_offset(off)
    BY DEF ZipFile!local_data_offset
<1>4. \A e : ZipFile!Resolved(e)' = ZipFile!Resolved(e)
    BY <1>3 DEF ZipFile!Resolved
<1>5. \A way \in {"mmap", "ranged"} : ZipFile!Entries(way)' = ZipFile!Entries(way)
    BY <1>1, <1>4 DEF ZipFile!Entries
<1> QED
    BY <1>1, <1>2, <1>5

LEMMA AttestedStays ==
    ASSUME UNCHANGED <<zip, io_mode, zip_entries, crcs>>, NEW i, NEW reads
    PROVE  ZipFile!integrity_check(zip_entries[i], reads)' = ZipFile!integrity_check(zip_entries[i], reads)
BY DEF ZipFile!integrity_check, ZipFile!content, ZipFile!read_range, ZipFile!archive_data_start, ZipFile!data_start,
       ZipFile!local_data_offset, ZipFile!Payload, ZipFile!Expected

LEMMA ReadZipStep ==
    ASSUME ZipInv, ReadZip
    PROVE  ZipInv'
PROOF
<1>1. ZipFile!ZipNext
    BY DEF ReadZip
<1>2. zip' = zip /\ io_mode' = io_mode
    BY <1>1 DEF ZipFile!ZipNext, ZipFile!OpenZip, ZipFile!OpenZipFails, ZipFile!Attest
<1>3. zip_pc \in {"open", "opened"} /\ IsZip(zip) /\ io_mode \in {"mmap", "ranged"}
    BY <1>1, NoneIsNoWord DEF ZipFile!ZipNext, ZipFile!OpenZip, ZipFile!OpenZipFails, ZipFile!Attest, ZipInv
<1>4. CASE ZipFile!OpenZip
    <2>1. /\ zip_pc' = "opened" /\ zip_entries' = ZipFile!Entries(io_mode) /\ attested' = attested
          /\ crcs' = [i \in DOMAIN ZipFile!CdEntries |-> ZipFile!CdEntries[i].crc32]
          /\ ZipFile!parse_cd_headers
        BY <1>4 DEF ZipFile!OpenZip, ZipFile!Opens
    <2>2. attested = <<>> /\ IsSeq(attested)
        BY <1>3, <1>4, NoneIsNoWord DEF ZipFile!OpenZip, ZipInv
    <2>3. Decoded'
        BY <1>2, <1>3, <2>1, ListingStays DEF Decoded
    <2> QED
        BY <1>2, <1>3, <2>1, <2>2, <2>3 DEF ZipInv
<1>5. CASE ZipFile!OpenZipFails
    <2>1. zip_pc' = "failed" /\ attested' = attested /\ IsSeq(attested)
        BY <1>3, <1>5, NoneIsNoWord DEF ZipFile!OpenZipFails, ZipInv
    <2> QED
        BY <1>2, <1>3, <2>1 DEF ZipInv
<1>6. CASE ZipFile!Attest
    <2> DEFINE n == Len(attested) + 1
    <2>1. /\ zip_pc = "opened" /\ Len(attested) < Len(zip_entries)
          /\ UNCHANGED <<zip, io_mode, zip_entries, crcs, zip_pc>>
        BY <1>6 DEF ZipFile!Attest
    <2>2. PICK reads \in BOOLEAN : attested' = Append(attested, ZipFile!integrity_check(zip_entries[n], reads))
        BY <1>6 DEF ZipFile!Attest
    <2>3. IsSeq(attested) /\ Decoded /\ \A i \in DOMAIN attested : \E r \in BOOLEAN : attested[i] = ZipFile!integrity_check(zip_entries[i], r)
        BY <2>1, NoneIsNoWord DEF ZipInv
    <2>4. Decoded'
        BY <1>2, <1>3, <2>1, <2>3, ListingStays DEF Decoded
    <2>5. DOMAIN zip_entries = 1 .. Len(zip_entries) /\ Len(zip_entries) \in Nat
        <3>1. zip_entries = ZipFile!Entries(io_mode)
            BY <2>3 DEF Decoded
        <3>2. DOMAIN zip_entries = 1 .. Len(zip.files) /\ Len(zip.files) \in Nat
            BY <1>3, <3>1, KeptOk DEF ZipFile!Entries
        <3>3. zip_entries = [i \in 1 .. Len(zip.files) |-> zip_entries[i]]
            BY <3>1, <3>2 DEF ZipFile!Entries
        <3> HIDE <3>1
        <3> QED
            BY <3>2, <3>3, SequenceOf
    <2> PICK t : t = ZipFile!integrity_check(zip_entries[n], reads)
        OBVIOUS
    <2>6. /\ IsSeq(attested') /\ DOMAIN attested' = 1 .. n /\ n \in Nat /\ attested'[n] = t
          /\ DOMAIN attested = 1 .. (n - 1) /\ \A i \in 1 .. (n - 1) : attested'[i] = attested[i]
        <3>1. attested \in Seq(Range(attested)) /\ attested' = Append(attested, t)
            BY <2>2, <2>3 DEF IsSeq
        <3>2. Longer(attested, attested')
            BY <2>3, <3>1, AppendLonger
        <3> QED
            BY <3>1, <3>2 DEF Longer
    <2>7. ASSUME NEW i \in DOMAIN attested'
          PROVE  \E r \in BOOLEAN : attested'[i] = ZipFile!integrity_check(zip_entries[i], r)'
        <3>1. CASE i = n
            BY <2>1, <2>6, <3>1, AttestedStays
        <3>2. CASE i # n
            <4>1. i \in DOMAIN attested /\ attested'[i] = attested[i]
                BY <2>6, <3>2
            <4>2. PICK r \in BOOLEAN : attested[i] = ZipFile!integrity_check(zip_entries[i], r)
                BY <2>3, <4>1
            <4> QED
                BY <2>1, <4>1, <4>2, AttestedStays
        <3> QED
            BY <3>1, <3>2
    <2>8. DOMAIN attested' \subseteq DOMAIN zip_entries'
        BY <2>1, <2>5, <2>6
    <2> QED
        BY <1>2, <1>3, <2>1, <2>4, <2>6, <2>7, <2>8 DEF ZipInv
<1> QED
    BY <1>1, <1>4, <1>5, <1>6 DEF ZipFile!ZipNext

LEMMA OpenArchiveStep ==
    ASSUME WellSourced, ZipInv, OpenArchive
    PROVE  ZipInv'
PROOF
<1>1. /\ turn \in DOMAIN sources /\ sources[turn].kind = "archive"
      /\ \E way \in {"mmap", "ranged"} : ZipFile!Begin(sources[turn].what.zip, way)
    BY DEF WellSourced, OpenArchive, Opening
<1>2. IsZip(sources[turn].what.zip)
    BY <1>1 DEF WellSourced, IsSource
<1>3. zip' = sources[turn].what.zip /\ io_mode' \in {"mmap", "ranged"} /\ zip_pc' = "open" /\ attested' = <<>>
    BY <1>1 DEF ZipFile!Begin
<1> QED
    BY <1>2, <1>3, SingleSeq DEF ZipInv

LEMMA ZipStep == WellSourced /\ ZipInv /\ [Next]_vars => ZipInv'
PROOF
<1> SUFFICES ASSUME WellSourced, ZipInv, [Next]_vars PROVE ZipInv'
    OBVIOUS
<1>1. CASE OpenArchive
    BY <1>1, OpenArchiveStep
<1>2. CASE ReadZip
    BY <1>2, ReadZipStep
<1>3. CASE UNCHANGED zipVars
    <2>1. UNCHANGED <<zip, io_mode, zip_entries, crcs>> /\ attested' = attested /\ zip_pc' = zip_pc
        BY <1>3 DEF zipVars
    <2>2. Decoded /\ zip_pc = "opened" => Decoded'
        BY <2>1, ListingStays, NoneIsNoWord DEF Decoded, ZipInv
    <2>3. \A i \in DOMAIN attested, r \in BOOLEAN : ZipFile!integrity_check(zip_entries[i], r)' = ZipFile!integrity_check(zip_entries[i], r)
        BY <2>1, AttestedStays
    <2> QED
        BY <2>1, <2>2, <2>3 DEF ZipInv
<1>4. CASE OpenTar \/ OpenFolder \/ ReadTar \/ ScanFolder
    BY <1>3, <1>4 DEF OpenTar, OpenFolder, ReadTar, ScanFolder
<1>5. CASE UNCHANGED readerVars
    BY <1>3, <1>5, ReaderUnchanged
<1> QED
    BY <1>1, <1>2, <1>4, <1>5, ReaderSteps

LEMMA ZipInvInit == Init => ZipInv
BY NoneIsNoWord DEF Init, SourcesInit, ZipInv

(* An archive that opens mapped opens ranged too, and both give every entry the
   same bytes at the same place: what the directory is found by always lies in
   the tail, and no local header is read otherwise. *)
THEOREM RangedAsMapped == Spec => []RangedAgrees
BY WellSourcedInit, WellSourcedStep, ZipInvInit, ZipStep, RangedFollows, PTL DEF Spec

(* Where no two of an archive's entries have one name, each is attested by its
   own digest over its own bytes, wherever its fields and its data are kept. *)
THEOREM EntriesAttested == Spec => [](DistinctNames(zip) => AttestedOwn)
PROOF
<1>1. ZipInv => (DistinctNames(zip) => AttestedOwn)
    BY AttestedFollows
<1> QED
    BY <1>1, WellSourcedInit, WellSourcedStep, ZipInvInit, ZipStep, PTL DEF Spec

-----------------------------------------------------------------------------
(* The names. *)

(* The first part in which a comes before b, or a ends. *)
Leads(a, b, i) ==
    /\ i \in 1 .. Len(b) /\ \A j \in 1 .. (i - 1) : j \in 1 .. Len(a) /\ a[j] = b[j]
    /\ i = Len(a) + 1 \/ (i \in 1 .. Len(a) /\ a[i] < b[i])

LEMMA BeforeIs ==
    ASSUME NEW a \in Seq(Nat), NEW b \in Seq(Nat)
    PROVE  Folder!NameBefore(a, b) <=> \E i \in Nat : Leads(a, b, i)
PROOF
<1>1. /\ Len(a) \in Nat /\ Len(b) \in Nat /\ DOMAIN a = 1 .. Len(a) /\ DOMAIN b = 1 .. Len(b)
      /\ \A i \in 1 .. Len(a) : a[i] \in Nat
      /\ \A i \in 1 .. Len(b) : b[i] \in Nat
    OBVIOUS
<1>2. ASSUME NEW n \in Nat, n <= Len(a), n <= Len(b)
      PROVE  SubSeq(a, 1, n) = SubSeq(b, 1, n) <=> \A j \in 1 .. n : a[j] = b[j]
    <2>1. \A j \in 1 .. n : SubSeq(a, 1, n)[j] = a[j] /\ SubSeq(b, 1, n)[j] = b[j]
        BY <1>1, <1>2
    <2>2. SubSeq(a, 1, n) \in Seq(Nat) /\ SubSeq(b, 1, n) \in Seq(Nat) /\ Len(SubSeq(a, 1, n)) = n /\ Len(SubSeq(b, 1, n)) = n
        BY <1>1, <1>2
    <2>3. (\A j \in 1 .. n : a[j] = b[j]) => SubSeq(a, 1, n) = SubSeq(b, 1, n)
        BY <2>1, <2>2, SeqEqual
    <2> QED
        BY <2>1, <2>3
<1>3. CASE a = b
    BY <1>1, <1>3 DEF Leads, Folder!NameBefore, Folder!IsStrictPrefix
<1>4. CASE a # b
    <2>1. ASSUME Folder!IsStrictPrefix(a, b) PROVE Leads(a, b, Len(a) + 1)
        <3>1. Len(a) <= Len(b) /\ \A j \in 1 .. Len(a) : a[j] = b[j]
            BY <1>1, <1>2, <2>1 DEF Folder!IsStrictPrefix, Folder!IsPrefix
        <3>2. Len(a) # Len(b)
            BY <1>1, <1>4, <3>1, SeqEqual
        <3>5. Len(a) \in Nat /\ Len(b) \in Nat /\ Len(a) <= Len(b)
            BY <3>1
        <3>3. Len(a) + 1 \in 1 .. Len(b)
            BY <3>2, <3>5
        <3>4. \A j \in 1 .. ((Len(a) + 1) - 1) : j \in 1 .. Len(a) /\ a[j] = b[j]
            BY <1>1, <3>1
        <3> QED
            BY <3>3, <3>4 DEF Leads
    <2>2. ASSUME NEW i \in (DOMAIN a) \cap (DOMAIN b), a[i] < b[i], SubSeq(a, 1, i - 1) = SubSeq(b, 1, i - 1)
          PROVE  Leads(a, b, i)
        <3>1. i - 1 \in Nat /\ i - 1 <= Len(a) /\ i - 1 <= Len(b)
            BY <1>1
        <3> QED
            BY <1>1, <1>2, <2>2, <3>1 DEF Leads
    <2>3. ASSUME NEW i \in Nat, Leads(a, b, i) PROVE Folder!NameBefore(a, b)
        <3>1. CASE i = Len(a) + 1
            <4>1. Len(a) <= Len(b) /\ \A j \in 1 .. Len(a) : a[j] = b[j]
                BY <1>1, <2>3, <3>1 DEF Leads
            <4> QED
                BY <1>1, <1>2, <1>4, <4>1 DEF Folder!NameBefore, Folder!IsStrictPrefix, Folder!IsPrefix
        <3>2. CASE i \in 1 .. Len(a) /\ a[i] < b[i]
            <4>1. i - 1 \in Nat /\ i - 1 <= Len(a) /\ i - 1 <= Len(b) /\ \A j \in 1 .. (i - 1) : a[j] = b[j]
                BY <1>1, <2>3, <3>2 DEF Leads
            <4> QED
                BY <1>1, <1>2, <2>3, <3>2, <4>1 DEF Folder!NameBefore, Leads
        <3> QED
            BY <2>3, <3>1, <3>2 DEF Leads
    <2>4. Len(a) + 1 \in Nat /\ (DOMAIN a) \cap (DOMAIN b) \subseteq Nat
        BY <1>1
    <2>5. Folder!NameBefore(a, b) => \E i \in Nat : Leads(a, b, i)
        BY <2>1, <2>2, <2>4 DEF Folder!NameBefore
    <2> QED
        BY <2>3, <2>5
<1> QED
    BY <1>3, <1>4

LEMMA NamesOrdered ==
    /\ \A a \in Seq(Nat) : ~Folder!NameBefore(a, a)
    /\ \A a, b, c \in Seq(Nat) : Folder!NameBefore(a, b) /\ Folder!NameBefore(b, c) => Folder!NameBefore(a, c)
    /\ \A a, b \in Seq(Nat) : a # b => Folder!NameBefore(a, b) \/ Folder!NameBefore(b, a)
PROOF
<1>1. ASSUME NEW a \in Seq(Nat) PROVE ~Folder!NameBefore(a, a)
    <2>1. Len(a) \in Nat /\ \A i \in 1 .. Len(a) : a[i] \in Nat
        OBVIOUS
    <2> QED
        BY <2>1, BeforeIs DEF Leads
<1>2. ASSUME NEW a \in Seq(Nat), NEW b \in Seq(Nat), NEW c \in Seq(Nat), Folder!NameBefore(a, b), Folder!NameBefore(b, c)
      PROVE  Folder!NameBefore(a, c)
    <2>1. PICK i \in Nat : Leads(a, b, i)
        BY <1>2, BeforeIs
    <2>2. PICK j \in Nat : Leads(b, c, j)
        BY <1>2, BeforeIs
    <2>3. /\ Len(a) \in Nat /\ Len(b) \in Nat /\ Len(c) \in Nat
          /\ \A k \in 1 .. Len(a) : a[k] \in Nat
          /\ \A k \in 1 .. Len(b) : b[k] \in Nat
          /\ \A k \in 1 .. Len(c) : c[k] \in Nat
        OBVIOUS
    <2>7. /\ i \in 1 .. Len(b) /\ \A k \in 1 .. (i - 1) : k \in 1 .. Len(a) /\ a[k] = b[k]
          /\ i = Len(a) + 1 \/ (i \in 1 .. Len(a) /\ a[i] < b[i])
        BY <2>1 DEF Leads
    <2>8. /\ j \in 1 .. Len(c) /\ \A k \in 1 .. (j - 1) : k \in 1 .. Len(b) /\ b[k] = c[k]
          /\ j = Len(b) + 1 \/ (j \in 1 .. Len(b) /\ b[j] < c[j])
        BY <2>2 DEF Leads
    <2>9. ASSUME NEW n \in 1 .. Len(c), n <= i, n <= j, n = Len(a) + 1 \/ (n \in 1 .. Len(a) /\ a[n] < c[n])
          PROVE  Folder!NameBefore(a, c)
        <3>1. \A k \in 1 .. (n - 1) : k \in 1 .. (i - 1) /\ k \in 1 .. (j - 1)
            BY <2>3, <2>9
        <3>2. \A k \in 1 .. (n - 1) : k \in 1 .. Len(a) /\ a[k] = c[k]
            BY <2>7, <2>8, <3>1
        <3>3. Leads(a, c, n) /\ n \in Nat
            BY <2>3, <2>9, <3>2 DEF Leads
        <3> QED
            BY <3>3, BeforeIs
    <2>4. CASE i < j
        <3>1. i \in 1 .. (j - 1)
            BY <2>3, <2>4, <2>7
        <3>2. b[i] = c[i] /\ i \in 1 .. Len(c)
            BY <2>3, <2>4, <2>7, <2>8, <3>1
        <3> QED
            BY <2>4, <2>7, <2>9, <3>2
    <2>5. CASE i = j
        <3>1. b[j] < c[j] /\ b[j] \in Nat /\ c[j] \in Nat
            BY <2>3, <2>5, <2>7, <2>8
        <3>2. i = Len(a) + 1 \/ (i \in 1 .. Len(a) /\ a[i] < c[i])
            BY <2>3, <2>5, <2>7, <3>1, SMTT(30)
        <3> QED
            BY <2>5, <2>8, <2>9, <3>2
    <2>6. CASE j < i
        <3>1. j \in 1 .. (i - 1)
            BY <2>3, <2>6, <2>8
        <3>2. a[j] = b[j] /\ j \in 1 .. Len(a) /\ j # Len(b) + 1
            BY <2>3, <2>6, <2>7, <3>1
        <3>3. a[j] < c[j]
            BY <2>8, <3>2
        <3> QED
            BY <2>6, <2>8, <2>9, <3>2, <3>3
    <2> QED
        BY <2>4, <2>5, <2>6
<1>3. ASSUME NEW a \in Seq(Nat), NEW b \in Seq(Nat), a # b
      PROVE  Folder!NameBefore(a, b) \/ Folder!NameBefore(b, a)
    <2>1. /\ Len(a) \in Nat /\ Len(b) \in Nat
          /\ \A k \in 1 .. Len(a) : a[k] \in Nat
          /\ \A k \in 1 .. Len(b) : b[k] \in Nat
        OBVIOUS
    <2> DEFINE apart == {i \in 1 .. (Len(a) + 1) : i <= Len(b) + 1 /\ (i \in 1 .. Len(a) /\ i \in 1 .. Len(b) => a[i] # b[i])}
    <2>0. \A i : i \in apart <=> i \in 1 .. (Len(a) + 1) /\ i <= Len(b) + 1
                                  /\ (i \in 1 .. Len(a) /\ i \in 1 .. Len(b) => a[i] # b[i])
        OBVIOUS
    <2> HIDE DEF apart
    <2>2. apart # {} /\ apart \in SUBSET Nat
        <3>0. apart \in SUBSET Nat
            BY <2>0, <2>1
        <3>1. CASE Len(a) <= Len(b)
            <4>1. Len(a) + 1 \in apart
                BY <2>0, <2>1, <3>1
            <4> QED
                BY <3>0, <4>1
        <3>2. CASE Len(b) < Len(a)
            <4>0. Len(b) + 1 \in 1 .. (Len(a) + 1) /\ Len(b) + 1 \notin 1 .. Len(b) /\ Len(b) + 1 <= Len(b) + 1
                BY <2>1, <3>2
            <4>1. Len(b) + 1 \in apart
                BY <2>0, <4>0
            <4> QED
                BY <3>0, <4>1
        <3> QED
            BY <2>1, <3>1, <3>2
    <2>3. PICK m \in apart : \A n \in apart : m <= n
        BY <2>2, LeastNatural
    <2>4. m \in 1 .. (Len(a) + 1) /\ m <= Len(b) + 1 /\ (m \in 1 .. Len(a) /\ m \in 1 .. Len(b) => a[m] # b[m])
        BY <2>0, <2>3
    <2>5. \A j \in 1 .. (m - 1) : j \in 1 .. Len(a) /\ j \in 1 .. Len(b) /\ a[j] = b[j]
        <3> SUFFICES ASSUME NEW j \in 1 .. (m - 1) PROVE j \in 1 .. Len(a) /\ j \in 1 .. Len(b) /\ a[j] = b[j]
            OBVIOUS
        <3>1. j \in Nat /\ m \in Nat /\ j < m
            BY <2>1, <2>4
        <3>2. j \notin apart
            BY <2>3, <3>1
        <3>3. j \in 1 .. Len(a) /\ j \in 1 .. Len(b) /\ j \in 1 .. (Len(a) + 1) /\ j <= Len(b) + 1
            BY <2>1, <2>4, <3>1
        <3> QED
            BY <2>0, <3>2, <3>3
    <2>6. CASE m = Len(a) + 1 /\ m = Len(b) + 1
        <3>1. a = b
            BY <2>1, <2>5, <2>6, SeqEqual
        <3> QED
            BY <1>3, <3>1
    <2>7. Leads(a, b, m) \/ Leads(b, a, m) \/ (m = Len(a) + 1 /\ m = Len(b) + 1)
        BY <2>1, <2>4, <2>5 DEF Leads
    <2>8. m \in Nat
        BY <2>1, <2>4
    <2> QED
        BY <2>6, <2>7, <2>8, BeforeIs
<1> QED
    BY <1>1, <1>2, <1>3

-----------------------------------------------------------------------------
(* The folder scan, as far as the names it lists go. *)
Names(es) == IsSeq(es) /\ \A e \in Range(es) : e.name \in Name

LEMMA NamesJoin ==
    ASSUME NEW s, Names(s), NEW T, NEW t \in Seq(T), \A e \in T : e.name \in Name
    PROVE  Names(s \o t)
PROOF
<1> DEFINE U == Range(s) \cup T
<1>1. s \in Seq(U) /\ t \in Seq(U) /\ \A e \in U : e.name \in Name
    BY DEF Names, IsSeq
<1> HIDE DEF U
<1>2. s \o t \in Seq(U)
    BY <1>1
<1>3. s \o t \in Seq(Range(s \o t)) /\ Range(s \o t) \subseteq U
    <2>1. \A k \in DOMAIN (s \o t) : (s \o t)[k] \in U
        BY <1>2
    <2> QED
        BY <1>2, <2>1, SeqOfRange DEF Range
<1> QED
    BY <1>1, <1>3 DEF Names, IsSeq

LEMMA NamesAdd ==
    ASSUME NEW s, Names(s), NEW e, e.name \in Name
    PROVE  Names(Append(s, e))
BY AppendRange DEF Names, IsSeq

(* Of an archive's members, what is chosen of them. *)
LEMMA ChosenOk ==
    ASSUME NEW s, IsSeq(s), NEW S \in SUBSET (DOMAIN s)
    PROVE  Folder!Picked(s, S) \in Seq({s[k] : k \in S})
PROOF
<1>1. Folder!Picked(s, S) = Picked(s, S)
    BY DEF Folder!Picked, Folder!Ascending, Folder!InOrder, Folder!Cardinality, Picked, Ascending, InOrder, Cardinality
<1>2. Len(s) \in Nat /\ DOMAIN s = 1 .. Len(s)
    BY DEF IsSeq
<1>3. /\ Cardinality(S) \in Nat /\ DOMAIN Ascending(S) = 1 .. Cardinality(S)
      /\ \A k \in DOMAIN Ascending(S) : Ascending(S)[k] \in S
    BY <1>2, AscendingOk
<1>4. Picked(s, S) \in [1 .. Cardinality(S) -> {s[k] : k \in S}]
    BY <1>3 DEF Picked
<1> QED
    BY <1>1, <1>3, <1>4

Inners(t) == {m \in UNION {Range(t.zips[z].members) : z \in DOMAIN t.zips} : m.name \in Nat /\ m.zip \in DOMAIN t.zips}
Frame(t) == [blob : Nat, prefix : Name, remaining : Int, pending : Seq(Inners(t))]

FolderInv ==
    scan_pc # None =>
        /\ IsTree(tree) /\ Names(entries) /\ IsSeq(blobs)
        /\ todo \in Seq(Range(tree.files)) /\ (scan_pc = "expand" => todo # <<>>)
        /\ stack \in Seq(Frame(tree)) /\ (scan_pc = "walk" => stack = <<>>)
        /\ \A k \in DOMAIN stack : k < Len(stack) \/ call # None => stack[k].pending # <<>>
        /\ call # None => call.zip \in DOMAIN tree.zips /\ call.prefix \in Name /\ call.remaining \in Int

LEMMA TreeOk ==
    ASSUME IsTree(tree)
    PROVE  /\ \A f \in Range(tree.files) : f.path \in Name /\ f.zip \in (DOMAIN tree.zips) \cup {None}
           /\ tree.depth \in Int
           /\ \A z \in DOMAIN tree.zips :
                 /\ IsSeq(tree.zips[z].members)
                 /\ \A m \in Range(tree.zips[z].members) : m.name \in Nat /\ m.zip \in (DOMAIN tree.zips) \cup {None}
BY DEF IsTree, IsSeq

LEMMA NameLonger == \A p \in Name, n \in Nat : Append(p, n) \in Name
BY DEF Name

(* The members that an archive opens, and the ones it lists. *)
LEMMA MembersOk ==
    ASSUME IsTree(tree), NEW z \in DOMAIN tree.zips, NEW remaining \in Int
    PROVE  /\ Folder!Inner(z, remaining) \in Seq(Inners(tree))
           /\ \E T : Folder!Opaque(z, remaining) \in Seq(T) /\ \A m \in T : m.name \in Nat
PROOF
<1> DEFINE ms == tree.zips[z].members
           inner == {i \in Folder!FilesOf(z) : Folder!IsInner(ms[i], remaining)}
           opaque == {i \in Folder!FilesOf(z) : ~Folder!IsInner(ms[i], remaining)}
<1>1. IsSeq(ms) /\ \A i \in DOMAIN ms : ms[i] \in Range(ms) /\ ms[i].name \in Nat /\ ms[i].zip \in (DOMAIN tree.zips) \cup {None}
    BY TreeOk DEF Range
<1>2. Folder!Inner(z, remaining) = Folder!Picked(ms, inner) /\ Folder!Opaque(z, remaining) = Folder!Picked(ms, opaque)
    BY DEF Folder!Inner, Folder!Opaque, Folder!Members
<1>3. inner \in SUBSET (DOMAIN ms) /\ opaque \in SUBSET (DOMAIN ms)
    BY DEF Folder!FilesOf, Folder!Members
<1>4. {ms[k] : k \in inner} \in SUBSET Inners(tree)
    <2>1. \A k \in inner : ms[k].zip # None
        BY DEF Folder!IsInner
    <2> HIDE DEF inner
    <2> QED
        BY <1>1, <1>3, <2>1 DEF Inners
<1>5. \A m \in {ms[k] : k \in opaque} : m.name \in Nat
    <2> HIDE DEF opaque
    <2> QED
        BY <1>1, <1>3
<1> HIDE DEF ms, inner, opaque
<1>6. Folder!Inner(z, remaining) \in Seq({ms[k] : k \in inner}) /\ Folder!Opaque(z, remaining) \in Seq({ms[k] : k \in opaque})
    BY <1>1, <1>2, <1>3, ChosenOk
<1> QED
    BY <1>4, <1>5, <1>6

LEMMA FrontOk ==
    ASSUME NEW S, NEW s \in Seq(S), s # <<>>
    PROVE  /\ Len(s) \in Nat /\ Len(s) \in DOMAIN s /\ s[Len(s)] \in S
           /\ SubSeq(s, 1, Len(s) - 1) \in Seq(S) /\ Len(SubSeq(s, 1, Len(s) - 1)) = Len(s) - 1
           /\ \A k \in DOMAIN SubSeq(s, 1, Len(s) - 1) :
                  k \in DOMAIN s /\ k < Len(s) /\ SubSeq(s, 1, Len(s) - 1)[k] = s[k]
PROOF
<1>1. Len(s) \in Nat /\ Len(s) > 0 /\ DOMAIN s = 1 .. Len(s) /\ \A k \in 1 .. Len(s) : s[k] \in S
    OBVIOUS
<1> DEFINE f == SubSeq(s, 1, Len(s) - 1)
<1>2. f \in Seq(S) /\ Len(f) = Len(s) - 1 /\ \A k \in 1 .. (Len(s) - 1) : f[k] = s[k]
    BY <1>1
<1>3. DOMAIN f = 1 .. (Len(s) - 1)
    BY <1>2
<1> HIDE DEF f
<1> QED
    BY <1>1, <1>2, <1>3 DEF f

(* The calls that wait. *)
LEMMA StackOk ==
    ASSUME FolderInv, scan_pc # None, stack # <<>>
    PROVE  /\ Folder!Top \in Frame(tree) /\ Folder!Top = stack[Len(stack)] /\ Len(stack) \in DOMAIN stack
           /\ Folder!Under \in Seq(Frame(tree)) /\ Len(Folder!Under) = Len(stack) - 1 /\ Len(stack) \in Nat
           /\ \A k \in DOMAIN Folder!Under : k \in DOMAIN stack /\ k < Len(stack) /\ Folder!Under[k] = stack[k]
PROOF
<1>1. stack \in Seq(Frame(tree))
    BY DEF FolderInv
<1>2. Folder!Top = stack[Len(stack)] /\ Folder!Under = SubSeq(stack, 1, Len(stack) - 1)
    BY DEF Folder!Top, Folder!Under, Folder!Last, Folder!Front
<1> QED
    BY <1>1, <1>2, FrontOk

(* The item at the head is done with. *)
LEMMA PoppedOk ==
    ASSUME NEW t, NEW s \in Seq(Frame(t)), s # <<>>, \A k \in DOMAIN s : s[k].pending # <<>>,
           NEW popped, popped = Append(SubSeq(s, 1, Len(s) - 1), [s[Len(s)] EXCEPT !.pending = Tail(@)])
    PROVE  /\ popped \in Seq(Frame(t)) /\ popped # <<>>
           /\ \A k \in DOMAIN popped : k < Len(popped) => popped[k].pending # <<>>
PROOF
<1> DEFINE f == SubSeq(s, 1, Len(s) - 1)
           top == s[Len(s)]
           e == [top EXCEPT !.pending = Tail(@)]
<1>1. /\ Len(s) \in DOMAIN s /\ top \in Frame(t) /\ f \in Seq(Frame(t))
      /\ \A k \in DOMAIN f : k \in DOMAIN s /\ f[k] = s[k]
    BY FrontOk
<1>2. e \in Frame(t)
    <2>1. top.pending \in Seq(Inners(t)) /\ top.pending # <<>>
        BY <1>1 DEF Frame
    <2> HIDE DEF top
    <2>2. Tail(top.pending) \in Seq(Inners(t))
        BY <2>1
    <2> QED
        BY <1>1, <2>2 DEF Frame
<1> HIDE DEF f, e, Frame
<1>3. popped = Append(f, e)
    BY DEF f, e
<1>4. popped \in Seq(Frame(t)) /\ Len(popped) = Len(f) + 1 /\ Len(f) \in Nat
      /\ \A k \in 1 .. Len(f) : k \in DOMAIN f /\ popped[k] = f[k]
    BY <1>1, <1>2, <1>3
<1> QED
    BY <1>1, <1>4

LEMMA SortedOk ==
    ASSUME NEW s, Names(s)
    PROVE  Names(Folder!SortedByName(s))
PROOF
<1> DEFINE D == DOMAIN s
           before == {p \in D \X D : Folder!Precedes(s, p[1], p[2])}
           sorted == InOrder(D, before)
<1>1. Len(s) \in Nat /\ D = 1 .. Len(s) /\ \A k \in D : s[k] \in Range(s) /\ s[k].name \in Seq(Nat) /\ s[k].name \in Name
    BY DEF Names, IsSeq, Name, Range
<1>2. Folder!SortedByName(s) = [k \in D |-> s[sorted[k]]]
    BY DEF Folder!SortedByName, Folder!InOrder, Folder!Cardinality, InOrder, Cardinality
<1>3. IsFiniteSet(D) /\ Cardinality(D) = Len(s)
    BY <1>1, FS_Interval
<1>4. /\ \A x \in D : <<x, x>> \notin before
      /\ \A x, y, z \in D : <<x, y>> \in before /\ <<y, z>> \in before => <<x, z>> \in before
      /\ \A x, y \in D : x # y => <<x, y>> \in before \/ <<y, x>> \in before
    <2>1. \A x, y \in D : <<x, y>> \in before <=>
              Folder!NameBefore(s[x].name, s[y].name) \/ (s[x].name = s[y].name /\ x < y)
        BY DEF Folder!Precedes
    <2> HIDE DEF before
    <2>2. \A x \in D : <<x, x>> \notin before
        BY <1>1, <2>1, NamesOrdered
    <2>3. ASSUME NEW x \in D, NEW y \in D, NEW z \in D, <<x, y>> \in before, <<y, z>> \in before
          PROVE  <<x, z>> \in before
        BY <1>1, <2>1, <2>3, NamesOrdered
    <2>4. ASSUME NEW x \in D, NEW y \in D, x # y PROVE <<x, y>> \in before \/ <<y, x>> \in before
        <3>1. x \in Nat /\ y \in Nat
            BY <1>1
        <3> QED
            BY <1>1, <2>1, <2>4, <3>1, NamesOrdered
    <2> QED
        BY <2>2, <2>3, <2>4
<1> HIDE DEF before
<1>5. \A k \in D : sorted[k] \in D
    BY <1>1, <1>3, <1>4, InOrderOk
<1> HIDE DEF sorted
<1>6. Folder!SortedByName(s) \in [1 .. Len(s) -> Range(s)]
    BY <1>1, <1>2, <1>5
<1> PICK r : r = Folder!SortedByName(s)
    OBVIOUS
<1>7. r \in Seq(Range(s)) /\ DOMAIN r = 1 .. Len(s) /\ \A k \in DOMAIN r : r[k] \in Range(s)
    BY <1>1, <1>6
<1>8. IsSeq(r) /\ Range(r) \subseteq Range(s)
    BY <1>7, SeqOfRange DEF IsSeq, Range
<1> QED
    BY <1>8 DEF Names

LEMMA ScanStep ==
    ASSUME FolderInv, Folder!ScanNext
    PROVE  FolderInv'
PROOF
<1>1. scan_pc # None /\ tree' = tree /\ scan_pc \in {"walk", "expand"}
    BY NoneIsNoWord DEF Folder!ScanNext, Folder!UnreadableDir, Folder!PassOver, Folder!LooseFile, Folder!TooLargeToRead,
       Folder!ReadZip, Folder!Opened, Folder!OverBudget, Folder!Rejected, Folder!InnerUnreadable, Folder!InnerRead,
       Folder!Return, Folder!Finish, Folder!Walking, Folder!Expanding, Folder!Looping
<1>2. /\ IsTree(tree) /\ Names(entries) /\ IsSeq(blobs)
      /\ todo \in Seq(Range(tree.files)) /\ (scan_pc = "expand" => todo # <<>>)
      /\ stack \in Seq(Frame(tree)) /\ (scan_pc = "walk" => stack = <<>>)
      /\ \A k \in DOMAIN stack : k < Len(stack) \/ call # None => stack[k].pending # <<>>
      /\ call # None => call.zip \in DOMAIN tree.zips /\ call.prefix \in Name /\ call.remaining \in Int
    BY <1>1 DEF FolderInv
<1>3. /\ tree.depth \in Int
      /\ todo # <<>> => /\ Head(todo).path \in Name /\ Head(todo).zip \in (DOMAIN tree.zips) \cup {None}
                        /\ Tail(todo) \in Seq(Range(tree.files))
    BY <1>2, TreeOk
<1>4. todo # <<>> => Names(Append(entries, Folder!Loose(Folder!File)))
    BY <1>2, <1>3, NamesAdd DEF Folder!Loose, Folder!File
<1>5. CASE Folder!UnreadableDir \/ Folder!TooLargeToRead \/ Folder!OverBudget
    BY <1>1, <1>2, <1>5 DEF Folder!UnreadableDir, Folder!TooLargeToRead, Folder!OverBudget, FolderInv
<1>6. CASE Folder!PassOver
    BY <1>1, <1>2, <1>3, <1>6 DEF Folder!PassOver, Folder!Walking, FolderInv
<1>7. CASE Folder!LooseFile
    BY <1>1, <1>2, <1>3, <1>4, <1>7 DEF Folder!LooseFile, Folder!KeepLoose, Folder!Walking, FolderInv
<1>8. CASE Folder!ReadZip
    <2>1. /\ call' = [zip |-> Folder!File.zip, prefix |-> Folder!File.path, remaining |-> tree.depth - 1]
          /\ scan_pc' = "expand" /\ scan_pc = "walk" /\ todo # <<>> /\ Folder!File.zip # None
          /\ UNCHANGED <<tree, todo, entries, blobs, stack>>
        BY <1>8 DEF Folder!ReadZip, Folder!Walking, Folder!Candidate
    <2>2. call'.zip \in DOMAIN tree.zips /\ call'.prefix \in Name /\ call'.remaining \in Int
        BY <1>3, <2>1 DEF Folder!File
    <2>3. DOMAIN stack = {}
        BY <1>2, <2>1
    <2> QED
        BY <1>2, <2>1, <2>2, <2>3 DEF FolderInv
<1>9. CASE Folder!Opened
    <2> DEFINE blob == Len(blobs')
               list == Folder!Opaque(call.zip, call.remaining)
               listed == [i \in DOMAIN list |-> Folder!nested_entry(call.prefix, list[i], blob)]
               frame == [blob |-> blob, prefix |-> call.prefix, remaining |-> call.remaining,
                         pending |-> Folder!Inner(call.zip, call.remaining)]
    <2>1. /\ call # None /\ scan_pc = "expand" /\ blobs' = Append(blobs, call.zip) /\ call' = None
          /\ entries' = entries \o listed /\ stack' = Append(stack, frame)
          /\ UNCHANGED <<tree, todo, scan_pc>>
        BY <1>9 DEF Folder!Opened, Folder!Expanding
    <2>2. call.zip \in DOMAIN tree.zips /\ call.prefix \in Name /\ call.remaining \in Int
        BY <1>2, <2>1
    <2>3. IsSeq(blobs') /\ blob \in Nat
        BY <1>2, <2>1, AppendRange DEF IsSeq
    <2>4. frame \in Frame(tree)
        BY <1>2, <2>2, <2>3, MembersOk DEF Frame
    <2>5. PICK T : list \in Seq(T) /\ \A m \in T : m.name \in Nat
        BY <1>2, <2>2, MembersOk
    <2>6. Names(entries')
        <3> DEFINE E == {Folder!nested_entry(call.prefix, m, blob) : m \in T}
        <3>1. \A e \in E : e.name \in Name
            <4> SUFFICES ASSUME NEW m \in T PROVE Folder!nested_entry(call.prefix, m, blob).name \in Name
                OBVIOUS
            <4>1. Folder!nested_entry(call.prefix, m, blob).name = Append(call.prefix, m.name)
                BY DEF Folder!nested_entry
            <4> QED
                BY <2>2, <2>5, <4>1, NameLonger
        <3> HIDE DEF list, blob
        <3>2. listed \in Seq(E)
            BY <2>5
        <3> HIDE DEF E, listed
        <3> QED
            BY <1>2, <2>1, <3>1, <3>2, NamesJoin
    <2> HIDE DEF frame, listed, blob, list, Frame
    <2>7. /\ stack' \in Seq(Frame(tree)) /\ Len(stack') = Len(stack) + 1 /\ Len(stack) \in Nat
          /\ \A k \in 1 .. Len(stack) : k \in DOMAIN stack /\ stack'[k] = stack[k]
        BY <1>2, <2>1, <2>4
    <2>8. \A k \in DOMAIN stack' : k < Len(stack') => stack'[k].pending # <<>>
        BY <1>2, <2>1, <2>7
    <2> QED
        BY <1>2, <2>1, <2>3, <2>6, <2>7, <2>8 DEF FolderInv
<1>10. ASSUME Folder!KeepOpaque, stack # <<>>, \A k \in DOMAIN stack : stack[k].pending # <<>>
       PROVE  /\ Names(entries') /\ stack' \in Seq(Frame(tree)) /\ stack' # <<>>
              /\ \A k \in DOMAIN stack' : k < Len(stack') => stack'[k].pending # <<>>
    <2>1. Folder!Top \in Frame(tree) /\ Folder!Top.pending # <<>> /\ Folder!Top = stack[Len(stack)]
        BY <1>1, <1>10, StackOk
    <2>2. Head(Folder!Top.pending) \in Inners(tree) /\ Folder!Top.prefix \in Name
        BY <2>1 DEF Frame
    <2>3. Names(entries')
        <3>1. Folder!nested_entry(Folder!Top.prefix, Head(Folder!Top.pending), Folder!Top.blob).name \in Name
            BY <2>2, NameLonger DEF Folder!nested_entry, Inners
        <3> QED
            BY <1>2, <1>10, <3>1, NamesAdd DEF Folder!KeepOpaque
    <2>4. stack' = Append(SubSeq(stack, 1, Len(stack) - 1), [stack[Len(stack)] EXCEPT !.pending = Tail(@)])
        BY <1>10, <2>1 DEF Folder!KeepOpaque, Folder!Popped, Folder!Under, Folder!Front
    <2> QED
        BY <1>2, <1>10, <2>3, <2>4, PoppedOk
<1>11. CASE Folder!Rejected
    <2>1. call # None /\ scan_pc = "expand" /\ call' = None /\ UNCHANGED <<tree, blobs>>
        BY <1>11 DEF Folder!Rejected, Folder!Expanding
    <2>2. CASE stack = <<>>
        BY <1>2, <1>3, <1>4, <1>11, <2>1, <2>2 DEF Folder!Rejected, Folder!KeepLoose, FolderInv
    <2>3. CASE stack # <<>>
        <3>1. Folder!KeepOpaque /\ UNCHANGED <<todo, scan_pc>>
            BY <1>11, <2>3 DEF Folder!Rejected
        <3>2. \A k \in DOMAIN stack : stack[k].pending # <<>>
            BY <1>2, <2>1
        <3> QED
            BY <1>2, <1>10, <2>1, <2>3, <3>1, <3>2 DEF FolderInv
    <2> QED
        BY <2>2, <2>3
<1>12. CASE Folder!InnerUnreadable \/ Folder!InnerRead
    <2>1. /\ scan_pc = "expand" /\ call = None /\ stack # <<>> /\ Folder!Top.pending # <<>>
          /\ UNCHANGED <<tree, todo, blobs, scan_pc>>
        BY <1>12 DEF Folder!InnerUnreadable, Folder!InnerRead, Folder!Looping
    <2>2. /\ Folder!Top \in Frame(tree) /\ Folder!Top = stack[Len(stack)] /\ Len(stack) \in DOMAIN stack
        BY <1>1, <2>1, StackOk
    <2>3. \A k \in DOMAIN stack : stack[k].pending # <<>>
        <3>1. \A k \in DOMAIN stack : k < Len(stack) \/ k = Len(stack)
            BY <1>2
        <3> QED
            BY <1>2, <2>1, <2>2, <3>1
    <2>4. CASE Folder!InnerUnreadable
        BY <1>2, <1>10, <2>1, <2>3, <2>4 DEF Folder!InnerUnreadable, FolderInv
    <2>5. CASE Folder!InnerRead
        <3>1. Head(Folder!Top.pending) \in Inners(tree) /\ Folder!Top.prefix \in Name /\ Folder!Top.remaining \in Int
            BY <2>1, <2>2 DEF Frame
        <3>2. call'.zip \in DOMAIN tree.zips /\ call'.prefix \in Name /\ call'.remaining \in Int
            BY <2>5, <3>1, NameLonger DEF Folder!InnerRead, Inners
        <3> QED
            BY <1>2, <2>1, <2>3, <2>5, <3>2 DEF Folder!InnerRead, FolderInv
    <2> QED
        BY <1>12, <2>4, <2>5
<1>13. CASE Folder!Return
    <2>1. scan_pc = "expand" /\ call = None /\ stack # <<>> /\ UNCHANGED <<tree, entries, blobs, call>>
        BY <1>13 DEF Folder!Return, Folder!Looping
    <2>2. /\ Folder!Under \in Seq(Frame(tree)) /\ Len(stack) \in Nat
          /\ \A k \in DOMAIN Folder!Under : k \in DOMAIN stack /\ k < Len(stack) /\ Folder!Under[k] = stack[k]
        BY <1>1, <2>1, StackOk
    <2>3. CASE Folder!Under = <<>>
        <3>1. stack' = <<>> /\ todo' = Tail(todo) /\ scan_pc' = "walk"
            BY <1>13, <2>3 DEF Folder!Return
        <3> QED
            BY <1>2, <1>3, <2>1, <3>1 DEF FolderInv
    <2>4. CASE Folder!Under # <<>>
        <3>1. /\ stack' = Append(SubSeq(Folder!Under, 1, Len(Folder!Under) - 1),
                                 [Folder!Under[Len(Folder!Under)] EXCEPT !.pending = Tail(@)])
              /\ UNCHANGED <<todo, scan_pc>>
            BY <1>13, <2>4 DEF Folder!Return, Folder!Front, Folder!Last
        <3>2. \A k \in DOMAIN Folder!Under : Folder!Under[k].pending # <<>>
            BY <1>2, <2>2
        <3>3. stack' \in Seq(Frame(tree)) /\ \A k \in DOMAIN stack' : k < Len(stack') => stack'[k].pending # <<>>
            BY <2>2, <2>4, <3>1, <3>2, PoppedOk
        <3> QED
            BY <1>2, <2>1, <3>1, <3>3 DEF FolderInv
    <2> QED
        BY <2>3, <2>4
<1>14. CASE Folder!Finish
    BY <1>1, <1>2, <1>14, SortedOk DEF Folder!Finish, FolderInv
<1> QED
    BY <1>5, <1>6, <1>7, <1>8, <1>9, <1>11, <1>12, <1>13, <1>14 DEF Folder!ScanNext

LEMMA OpenFolderStep ==
    ASSUME WellSourced, OpenFolder
    PROVE  FolderInv'
PROOF
<1>1. turn \in DOMAIN sources /\ sources[turn].kind = "folder" /\ Folder!Begin(sources[turn].what)
    BY DEF WellSourced, OpenFolder, Opening
<1> PICK t : t = sources[turn].what
    OBVIOUS
<1>2. IsTree(t)
    BY <1>1 DEF WellSourced, IsSource
<1>3. /\ tree' = t /\ todo' = t.files /\ entries' = <<>> /\ blobs' = <<>> /\ stack' = <<>> /\ call' = None
      /\ scan_pc' = "walk"
    BY <1>1 DEF Folder!Begin
<1>4. t.files \in Seq(Range(t.files))
    BY <1>2 DEF IsTree
<1>5. Names(<<>>) /\ IsSeq(<<>>)
    BY SingleSeq DEF Names, Range
<1> QED
    BY <1>2, <1>3, <1>4, <1>5 DEF FolderInv

LEMMA FolderStep == WellSourced /\ FolderInv /\ [Next]_vars => FolderInv'
PROOF
<1> SUFFICES ASSUME WellSourced, FolderInv, [Next]_vars PROVE FolderInv'
    OBVIOUS
<1>1. CASE OpenFolder
    BY <1>1, OpenFolderStep
<1>2. CASE ScanFolder
    BY <1>2, ScanStep DEF ScanFolder
<1>3. CASE UNCHANGED scanVars
    BY <1>3 DEF scanVars, FolderInv
<1>4. CASE OpenTar \/ OpenArchive \/ ReadTar \/ ReadZip
    BY <1>3, <1>4 DEF OpenTar, OpenArchive, ReadTar, ReadZip
<1>5. CASE UNCHANGED readerVars
    BY <1>3, <1>5, ReaderUnchanged
<1> QED
    BY <1>1, <1>2, <1>4, <1>5, ReaderSteps

-----------------------------------------------------------------------------
(* Comparisons.  A source is served once its reader is through with it. *)
ServedInv == command = "serve" => Served

LEMMA ServedStep == ServedInv /\ [Next]_vars => ServedInv'
PROOF
<1> SUFFICES ASSUME ServedInv, [Next]_vars, command' = "serve" PROVE Served'
    BY DEF ServedInv
<1>1. CASE OpenSource
    <2>1. CASE Recognise
        <3>1. Served /\ UNCHANGED <<reader, readerVars>>
            BY <2>1 DEF Recognise
        <3> QED
            BY <3>1, ReaderUnchanged DEF Served, tarVars, zipVars, scanVars
    <2>2. CASE OpenTar \/ OpenArchive \/ OpenFolder
        BY <2>2 DEF OpenTar, OpenArchive, OpenFolder, Opening
    <2>3. CASE ReadTar \/ ReadZip \/ ScanFolder
        BY <2>3 DEF ReadTar, ReadZip, ScanFolder, Reading, ownVars
    <2>4. CASE SourceFails \/ UnlockFails
        BY <2>4 DEF SourceFails, UnlockFails
    <2> QED
        BY <1>1, <2>1, <2>2, <2>3, <2>4 DEF OpenSource
<1>2. CASE GrepNext
    BY <1>2 DEF GrepNext, ApplyPresets, PresetFails, BuildQuery, QueryFails, ResolveSources, ResolveFails, AnnounceRules,
                RefuseFlags, BuildContext, ContextFails, SearchSource, ExportFails, EmitResults, EmitFails, Summarise,
                WriteReport, ReportFails, Resolve, Fails
<1>3. CASE DiffNext
    BY <1>3 DEF DiffNext, RejectUnsupported, OpenSides, SideRefused, KeepSideA, BeginCompare, ComparePath, CompareFails,
                EmitDiff, EmitDiffFails, ExportChanges, ExportRefused, ExportChangesFails, Fails
<1>4. CASE UNCHANGED vars
    <2>1. UNCHANGED <<command, reader>> /\ UNCHANGED tarVars /\ UNCHANGED zipVars /\ UNCHANGED scanVars
        BY <1>4, VarsUnchanged, ReaderUnchanged DEF ownVars
    <2> QED
        BY <2>1 DEF ServedInv, Served, tarVars, zipVars, scanVars
<1> QED
    BY <1>1, <1>2, <1>3, <1>4 DEF Next

(* Entries under their names, directories by them. *)
Shows(view) == Names(view) /\ \A i \in DOMAIN view : view[i].dir = is_dir(view[i].name)

LEMMA SingleName == \A n \in Nat : <<n>> \in Name /\ <<n, Slash>> \in Name
BY DEF Name, Slash

LEMMA ListedOk ==
    ASSUME WellSourced, TarInv, ZipInv, FolderInv, Served
    PROVE  \E m \in Nat : DOMAIN Listed = 1 .. m /\ \A i \in 1 .. m : Listed[i] \in Name
PROOF
<1>1. CASE reader = "tar" /\ tar_pc = "listed"
    <2>1. tar_entries \in Seq(Member)
        BY <1>1, NoneIsNoWord DEF TarInv
    <2>2. Len(tar_entries) \in Nat /\ DOMAIN tar_entries = 1 .. Len(tar_entries)
          /\ \A i \in DOMAIN tar_entries : tar_entries[i] \in Member
        BY <2>1
    <2>3. \A i \in DOMAIN tar_entries : tar_entries[i].name \in Nat
        BY <2>2 DEF Member
    <2>4. Listed = [i \in DOMAIN tar_entries |->
                       IF tar_entries[i].type = "dir" THEN <<tar_entries[i].name, Slash>> ELSE <<tar_entries[i].name>>]
        BY <1>1 DEF Listed
    <2> QED
        BY <2>2, <2>3, <2>4, SingleName
<1>2. CASE reader = "archive" /\ zip_pc = "opened"
    <2>1. /\ IsZip(zip) /\ io_mode \in {"mmap", "ranged"} /\ zip_entries = ZipFile!Entries(io_mode)
        BY <1>2, NoneIsNoWord DEF ZipInv, Decoded
    <2>2. /\ Len(zip.files) \in Nat /\ DOMAIN ZipFile!CdEntries = 1 .. Len(zip.files)
          /\ \A i \in 1 .. Len(zip.files) : /\ Ascending(Kept(zip))[i] \in Kept(zip)
                                            /\ Picked(zip.cd, Kept(zip))[i] = zip.cd[Ascending(Kept(zip))[i]]
          /\ Kept(zip) \subseteq DOMAIN zip.cd
        BY <2>1, KeptOk
    <2>3. ASSUME NEW i \in 1 .. Len(zip.files) PROVE i \in DOMAIN zip_entries /\ zip_entries[i].name \in Nat
        <3>1. Picked(zip.cd, Kept(zip))[i].name \in Nat
            BY <2>1, <2>2 DEF IsZip
        <3>2. ZipFile!CdEntry(Picked(zip.cd, Kept(zip))[i]).name \in Nat
            BY <3>1 DEF ZipFile!CdEntry
        <3> QED
            BY <2>1, <3>2, EntriesOk
    <2>4. DOMAIN zip_entries = 1 .. Len(zip.files)
        BY <2>1, <2>2 DEF ZipFile!Entries
    <2>5. Listed = [i \in DOMAIN zip_entries |-> <<zip_entries[i].name>>]
        BY <1>2 DEF Listed
    <2> QED
        BY <2>2, <2>3, <2>4, <2>5, SingleName
<1>3. CASE reader = "folder" /\ scan_pc = "done"
    <2>1. IsSeq(entries) /\ \A e \in Range(entries) : e.name \in Name
        BY <1>3, NoneIsNoWord DEF FolderInv, Names
    <2>2. Len(entries) \in Nat /\ DOMAIN entries = 1 .. Len(entries) /\ \A i \in DOMAIN entries : entries[i].name \in Name
        BY <2>1 DEF IsSeq, Range
    <2>3. Listed = [i \in DOMAIN entries |-> entries[i].name]
        BY <1>3 DEF Listed
    <2> QED
        BY <2>2, <2>3
<1> QED
    BY <1>1, <1>2, <1>3 DEF Served

LEMMA ViewOk ==
    ASSUME WellSourced, TarInv, ZipInv, FolderInv, ServedInv, command = "serve"
    PROVE  Shows(View)
PROOF
<1>1. Served /\ IsInside(Inside)
    BY InsideOk DEF ServedInv
<1>2. \E m \in Nat : DOMAIN View = 1 .. m /\ View = [i \in 1 .. m |-> View[i]] /\ \A i \in 1 .. m : View[i].name \in Name
    <2>1. CASE Backup # None
        <3>1. /\ Len(Backup.view) \in Nat /\ DOMAIN Backup.view = 1 .. Len(Backup.view)
              /\ \A i \in DOMAIN Backup.view : Backup.view[i].name \in Name
            <4>1. Backup.view \in Seq(Range(Backup.view)) /\ \A e \in Range(Backup.view) : e.name \in Name
                BY <1>1, <2>1 DEF IsInside, Backup
            <4> QED
                BY <4>1 DEF Range
        <3>2. View = [i \in DOMAIN Backup.view |-> Shown(Backup.view[i].name, Backup.view[i])]
            BY <2>1 DEF View
        <3> QED
            BY <3>1, <3>2 DEF Shown
    <2>2. CASE Backup = None
        <3>1. PICK m \in Nat : DOMAIN Listed = 1 .. m /\ \A i \in 1 .. m : Listed[i] \in Name
            BY <1>1, ListedOk
        <3>2. View = [i \in DOMAIN Listed |-> Shown(Listed[i], Inside.about[i])]
            BY <2>2 DEF View
        <3> QED
            BY <3>1, <3>2 DEF Shown
    <2> QED
        BY <2>1, <2>2
<1> PICK m \in Nat : DOMAIN View = 1 .. m /\ View = [i \in 1 .. m |-> View[i]] /\ \A i \in 1 .. m : View[i].name \in Name
    BY <1>2
<1>3. IsSeq(View)
    BY SequenceOf DEF IsSeq
<1>4. \A e \in Range(View) : e.name \in Name
    BY DEF Range
<1> QED
    BY <1>3, <1>4, ViewShown DEF Shows, Names

(* Of several entries with one name one is compared: the last, by name or as
   what the name leads to. *)
Chosen(view) == {i \in DOMAIN view : is_selected(view[i])}

LEMMA ComparableOk ==
    ASSUME NEW view, Shows(view)
    PROVE  /\ NamesIn(view) \in SUBSET Name /\ IsFiniteSet(NamesIn(view))
           /\ comparable(view) \in SUBSET (DOMAIN view)
           /\ \A i \in comparable(view) : Get(view, view[i].name) = view[i]
           /\ \A n \in NamesIn(view) : Get(view, n).name = n
           /\ \A n \in NamesIn(view) : view[Max({i \in DOMAIN view : view[i].name = n})] = Get(view, n)
           /\ Held(view) = {[path |-> n, content |-> Get(view, n).content] : n \in NamesIn(view)}
PROOF
<1> DEFINE C == comparable(view)
<1>1. /\ Len(view) \in Nat /\ DOMAIN view = 1 .. Len(view)
      /\ \A i \in DOMAIN view : view[i].name \in Name
    <2>1. view \in Seq(Range(view)) /\ \A e \in Range(view) : e.name \in Name
        BY DEF Shows, Names, IsSeq
    <2> QED
        BY <2>1 DEF Range
<1>2. C = {i \in Chosen(view) : \A j \in Chosen(view) : j > i => view[j].name # view[i].name}
    BY DEF comparable, Chosen
<1>3. Chosen(view) \in SUBSET (DOMAIN view)
    BY DEF Chosen
<1>4. C \in SUBSET (DOMAIN view)
    BY <1>2, <1>3
<1>5. NamesIn(view) = {view[i].name : i \in C}
    BY DEF NamesIn
<1>6. ASSUME NEW i \in C, NEW j \in DOMAIN view, view[j].name = view[i].name
      PROVE  j \in Chosen(view) /\ j <= i
    <2>1. i \in DOMAIN view /\ is_selected(view[i])
        BY <1>2, <1>4 DEF Chosen
    <2>2. view[j].dir = view[i].dir
        BY <1>6, <2>1 DEF Shows
    <2>3. j \in Chosen(view)
        BY <1>6, <2>1, <2>2 DEF Chosen, is_selected
    <2>4. ~(j > i)
        BY <1>2, <1>6, <2>3
    <2>5. i \in Nat /\ j \in Nat
        BY <1>1, <2>1
    <2> QED
        BY <2>3, <2>4, <2>5
<1> HIDE DEF C
<1>7. \A i, j \in C : view[i].name = view[j].name => i = j
    <2> SUFFICES ASSUME NEW i \in C, NEW j \in C, view[i].name = view[j].name PROVE i = j
        OBVIOUS
    <2>1. i \in DOMAIN view /\ j \in DOMAIN view
        BY <1>4
    <2>2. i <= j /\ j <= i
        BY <1>6, <2>1
    <2> QED
        BY <1>1, <2>1, <2>2
<1>8. \A n : Get(view, n) = view[CHOOSE i \in C : view[i].name = n]
    BY DEF Get, C
<1>9. ASSUME NEW i \in C PROVE Get(view, view[i].name) = view[i]
    <2> PICK n : n = view[i].name
        OBVIOUS
    <2> PICK c : c = CHOOSE k \in C : view[k].name = n
        OBVIOUS
    <2>1. c \in C /\ view[c].name = n
        OBVIOUS
    <2>2. c = i
        BY <1>7, <2>1
    <2> QED
        BY <1>8, <2>2
<1>10. \A n \in NamesIn(view) : Get(view, n).name = n
    BY <1>5, <1>9
<1>11. ASSUME NEW n \in NamesIn(view) PROVE view[Max({i \in DOMAIN view : view[i].name = n})] = Get(view, n)
    <2> PICK i \in C : view[i].name = n
        BY <1>5
    <2> DEFINE S == {j \in DOMAIN view : view[j].name = n}
    <2>1. i \in S /\ S \in SUBSET Nat
        BY <1>1, <1>4
    <2>2. \A j \in S : i >= j
        BY <1>1, <1>4, <1>6
    <2> HIDE DEF S
    <2> PICK x : x = Max(S)
        OBVIOUS
    <2>3. x = CHOOSE y \in S : \A z \in S : y >= z
        BY DEF Max
    <2>4. x \in S /\ \A z \in S : x >= z
        BY <2>1, <2>2, <2>3
    <2>5. x = i
        BY <2>1, <2>2, <2>4
    <2>6. Max(S) = i
        BY <2>5
    <2> QED
        BY <1>9, <2>6 DEF S
<1>12. Held(view) = {[path |-> n, content |-> Get(view, n).content] : n \in NamesIn(view)}
    <2>1. Held(view) = {[path |-> view[i].name, content |-> view[i].content] : i \in C}
        BY <1>2 DEF Held, Chosen, is_selected
    <2>2. \A i \in C : Get(view, view[i].name).content = view[i].content
        BY <1>9
    <2> QED
        BY <1>5, <2>1, <2>2
<1>13. NamesIn(view) \in SUBSET Name
    BY <1>1, <1>4, <1>5
<1>14. IsFiniteSet(NamesIn(view))
    <2>1. IsFiniteSet(C)
        BY <1>1, <1>4, IntervalFinite, FS_Subset
    <2> DEFINE f == [i \in C |-> view[i].name]
    <2>2. f \in Surjection(C, NamesIn(view))
        BY <1>5 DEF Surjection
    <2> HIDE DEF f
    <2> QED
        BY <2>1, <2>2, FS_Surjection
<1> QED
    BY <1>4, <1>9, <1>10, <1>11, <1>12, <1>13, <1>14 DEF C

(* The names on either side, in order. *)
AllNames == NamesIn(side_a) \cup NamesIn(View)
Ordered == InOrder(AllNames, {p \in AllNames \X AllNames : Folder!NameBefore(p[1], p[2])})

Verdicts ==
    [n \in AllNames |->
        IF n \notin NamesIn(View) THEN "removed"
        ELSE IF n \notin NamesIn(side_a) THEN "added"
        ELSE IF differs(Get(side_a, n), Get(View, n)) THEN "modified" ELSE "unchanged"]

LEMMA OrderedOk ==
    ASSUME Shows(side_a), Shows(View)
    PROVE  /\ IsFiniteSet(AllNames) /\ Cardinality(AllNames) \in Nat
           /\ IsSeq(Ordered) /\ Len(Ordered) = Cardinality(AllNames) /\ DOMAIN Ordered = 1 .. Cardinality(AllNames)
           /\ \A k \in DOMAIN Ordered : Ordered[k] \in AllNames
           /\ \A n \in AllNames : \E k \in DOMAIN Ordered : Ordered[k] = n
PROOF
<1>1. IsFiniteSet(AllNames) /\ AllNames \in SUBSET Seq(Nat)
    BY ComparableOk, FS_Union DEF AllNames, Name
<1> PICK all : all = AllNames
    OBVIOUS
<1> DEFINE before == {p \in all \X all : Folder!NameBefore(p[1], p[2])}
           held == InOrder(all, before)
<1>2. \A a, b \in all : <<a, b>> \in before <=> Folder!NameBefore(a, b)
    OBVIOUS
<1>3. Ordered = held
    BY DEF Ordered
<1> HIDE DEF before
<1>4. /\ \A x \in all : <<x, x>> \notin before
      /\ \A x, y, z \in all : <<x, y>> \in before /\ <<y, z>> \in before => <<x, z>> \in before
      /\ \A x, y \in all : x # y => <<x, y>> \in before \/ <<y, x>> \in before
    BY <1>1, <1>2, NamesOrdered
<1>5. IsFiniteSet(all)
    BY <1>1
<1>6. /\ Cardinality(all) \in Nat
      /\ held \in Seq(all) /\ Len(held) = Cardinality(all)
      /\ DOMAIN held = 1 .. Cardinality(all)
      /\ \A k \in 1 .. Cardinality(all) : held[k] \in all
      /\ \A j, k \in 1 .. Cardinality(all) : held[j] = held[k] => j = k
      /\ \A x \in all : \E k \in 1 .. Cardinality(all) : held[k] = x
    BY <1>4, <1>5, InOrderOk
<1> HIDE DEF held
<1>7. IsSeq(held)
    BY <1>6, SeqOfRange DEF IsSeq
<1> QED
    BY <1>3, <1>5, <1>6, <1>7

(* What is compared, and how it compares, does not change on the way. *)
LEMMA ViewStays ==
    ASSUME UNCHANGED <<sources, turn, reader, readerVars>>
    PROVE  View' = View
PROOF
<1>1. /\ UNCHANGED <<sources, turn, reader, tar_entries, zip_entries, entries>>
    BY ReaderUnchanged DEF tarVars, zipVars, scanVars
<1>2. Inside' = Inside /\ Backup' = Backup /\ Listed' = Listed
    BY <1>1 DEF Inside, Backup, Listed
<1> QED
    BY <1>2 DEF View

LEMMA OrderStays ==
    ASSUME UNCHANGED <<sources, turn, reader, readerVars>>, UNCHANGED <<cli, mode, side_a>>
    PROVE  /\ View' = View /\ AllNames' = AllNames /\ Ordered' = Ordered /\ Verdicts' = Verdicts
           /\ (Shows(side_a) => Shows(side_a)') /\ (Shows(View) => Shows(View)')
           /\ \A n : by_path(n)' = by_path(n)
PROOF
<1>1. View' = View
    BY ViewStays
<1>2. filter' = filter
    BY DEF filter, PathsOf
<1>3. \A v, i : is_selected(v[i])' <=> is_selected(v[i])
    BY <1>2 DEF is_selected
<1>4. \A v : comparable(v)' = comparable(v)
    BY <1>3 DEF comparable
<1>5. \A v : NamesIn(v)' = NamesIn(v)
    BY <1>4 DEF NamesIn
<1>6. \A v, n : Get(v, n)' = Get(v, n)
    BY <1>4 DEF Get
<1>7. \A a, b : differs(a, b)' <=> differs(a, b)
    BY DEF differs
<1> PICK a, v : a = side_a /\ v = View
    OBVIOUS
<1>8. a = side_a /\ v = View /\ a = side_a' /\ v = View'
    BY <1>1
<1>9. /\ NamesIn(side_a) = NamesIn(a) /\ NamesIn(View) = NamesIn(v)
      /\ NamesIn(side_a)' = NamesIn(a)' /\ NamesIn(View)' = NamesIn(v)'
      /\ \A n : /\ Get(side_a, n) = Get(a, n) /\ Get(View, n) = Get(v, n)
                /\ Get(side_a, n)' = Get(a, n)' /\ Get(View, n)' = Get(v, n)'
    BY <1>8
<1>10. AllNames' = AllNames
    BY <1>5, <1>9 DEF AllNames
<1>11. Ordered' = Ordered
    BY <1>10 DEF Ordered
<1>12. \A n : differs(Get(side_a, n), Get(View, n))' <=> differs(Get(side_a, n), Get(View, n))
    <2> SUFFICES ASSUME NEW n PROVE differs(Get(side_a, n), Get(View, n))' <=> differs(Get(side_a, n), Get(View, n))
        OBVIOUS
    <2> PICK x, y : x = Get(side_a, n) /\ y = Get(View, n)
        OBVIOUS
    <2>1. x = Get(side_a, n)' /\ y = Get(View, n)'
        BY <1>6, <1>9
    <2>2. differs(Get(side_a, n), Get(View, n))' <=> differs(x, y)'
        BY <2>1
    <2> QED
        BY <1>7, <2>2
<1>13. Verdicts' = Verdicts
    BY <1>5, <1>9, <1>10, <1>12 DEF Verdicts
<1>14. \A n : by_path(n)' = by_path(n)
    BY <1>1 DEF by_path
<1> QED
    BY <1>1, <1>10, <1>11, <1>13, <1>14 DEF Shows, Names, IsSeq

(* Each name once and in order: those compared have their verdicts, the others wait. *)
Compared ==
    /\ Shows(side_a) /\ Shows(View)
    /\ IsSeq(verdicts) /\ IsSeq(paths) /\ Len(verdicts) + Len(paths) = Len(Ordered)
    /\ \A k \in DOMAIN verdicts : verdicts[k].path = Ordered[k] /\ verdicts[k].change = Verdicts[Ordered[k]]
    /\ \A k \in DOMAIN paths : paths[k] = Ordered[Len(verdicts) + k]

Printed == [what |-> "results", holds |-> Out!write_diff(verdicts, cli.format)]

(* Before the export no file is said to be passed over; after it, those are whose
   path is too long. *)
NonePassedOver == \A k \in DOMAIN said : said[k].what # "too long"

PassedOver ==
    /\ \A e \in TooLong : \E k \in DOMAIN said : said[k].what = "too long" /\ e.name \in said[k].paths
    /\ \A k \in DOMAIN said : said[k].what = "too long" => said[k].paths \subseteq {e.name : e \in TooLong}

DiffInv ==
    cli.name = "diff" =>
        /\ command \in {"diff", "open", "serve", "compare", "changes"} => NonePassedOver
        /\ command \in {"diff", "open", "serve"} => written = <<>> /\ verdicts = <<>>
        /\ turn = 2 /\ command \in {"open", "serve"} => Shows(side_a)
        /\ command = "compare" => written = <<>> /\ Compared
        /\ command = "changes" => written = <<Printed>>
        /\ command = "done" => written # <<>>
        /\ written # <<>> => /\ Compared /\ paths = <<>>
                             /\ written = <<Printed>> \/ written = Append(<<Printed>>, [what |-> "export"])
        /\ command = "done" /\ cli.sink =>
               \/ exported = Contents(Sent) /\ PassedOver
               \/ [what |-> "refused"] \in Range(said)

LEMMA AppendedOk ==
    ASSUME NEW s, IsSeq(s), NEW x, NEW t, t = Append(s, x)
    PROVE  /\ Len(s) \in Nat /\ DOMAIN s = 1 .. Len(s) /\ DOMAIN t = 1 .. Len(s) + 1 /\ t[Len(s) + 1] = x
           /\ \A i \in 1 .. Len(s) : t[i] = s[i]
BY AppendRange DEF IsSeq

LEMMA GrownBy ==
    ASSUME IsSeq(said), NEW x, said' = Append(said, x)
    PROVE  /\ Len(said) \in Nat /\ DOMAIN said = 1 .. Len(said) /\ DOMAIN said' = 1 .. Len(said) + 1
           /\ said'[Len(said) + 1] = x
           /\ \A i \in 1 .. Len(said) : said'[i] = said[i]
PROOF
<1> PICK t : t = said'
    OBVIOUS
<1> QED
    BY AppendedOk

LEMMA NoneStays ==
    ASSUME NonePassedOver, IsSeq(said)
    PROVE  /\ UNCHANGED said => NonePassedOver'
           /\ \A x : said' = Append(said, x) /\ x.what # "too long" => NonePassedOver'
PROOF
<1>1. UNCHANGED said => NonePassedOver'
    BY DEF NonePassedOver
<1>2. ASSUME NEW x, said' = Append(said, x), x.what # "too long" PROVE NonePassedOver'
    <2> PICK n : n = Len(said)
        OBVIOUS
    <2>1. /\ n \in Nat /\ DOMAIN said = 1 .. n /\ DOMAIN said' = 1 .. n + 1 /\ said'[n + 1] = x
          /\ \A i \in 1 .. n : said'[i] = said[i]
        BY <1>2, GrownBy
    <2>2. \A k \in 1 .. n + 1 : k \in 1 .. n \/ k = n + 1
        BY <2>1
    <2> QED
        BY <1>2, <2>1, <2>2 DEF NonePassedOver
<1> QED
    BY <1>1, <1>2

LEMMA ComparedStays ==
    ASSUME UNCHANGED <<sources, turn, reader, readerVars>>, UNCHANGED <<cli, mode, side_a>>, Compared,
           UNCHANGED <<paths, verdicts>>
    PROVE  Compared'
PROOF
<1>1. /\ Ordered' = Ordered /\ Verdicts' = Verdicts
      /\ (Shows(side_a) => Shows(side_a)') /\ (Shows(View) => Shows(View)')
    BY OrderStays
<1> QED
    BY <1>1 DEF Compared

LEMMA FilesStay ==
    ASSUME UNCHANGED <<sources, turn, reader, readerVars>>, UNCHANGED <<cli, mode, side_a>>, UNCHANGED verdicts
    PROVE  Sent' = Sent /\ TooLong' = TooLong
PROOF
<1>1. View' = View /\ \A n : by_path(n)' = by_path(n)
    BY OrderStays
<1>2. Changed' = Changed
    BY DEF Changed
<1>3. Files' = Files
    BY <1>1, <1>2 DEF Files
<1>4. TooLong' = TooLong
    BY <1>3 DEF TooLong
<1> PICK first : first = Files \ TooLong
    OBVIOUS
<1>5. Beside(first)' = Beside(first)
    BY <1>1 DEF Beside
<1>6. first = (Files \ TooLong)'
    BY <1>3, <1>4
<1> QED
    BY <1>4, <1>5, <1>6 DEF Sent

(* The comparison begins with all the names. *)
LEMMA BeginStep ==
    ASSUME WellSourced, TarInv, ZipInv, FolderInv, ServedInv, ScopeInv, DiffInv, BeginCompare
    PROVE  DiffInv'
PROOF
<1>1. /\ command = "serve" /\ cli.name = "diff" /\ turn = 2 /\ command' = "compare" /\ paths' = Ordered
      /\ UNCHANGED <<sources, turn, reader, readerVars>> /\ UNCHANGED <<cli, mode, side_a>>
      /\ UNCHANGED <<verdicts, written, said>>
    BY DEF BeginCompare, Ordered, AllNames, SameSource, Quietly, grepVars
<1>2. written = <<>> /\ verdicts = <<>> /\ Shows(side_a) /\ Shows(View)
    BY <1>1, ViewOk DEF DiffInv
<1>3. Ordered' = Ordered /\ Verdicts' = Verdicts /\ Shows(side_a)' /\ Shows(View)'
    BY <1>1, <1>2, OrderStays
<1>4. IsSeq(Ordered) /\ Len(Ordered) \in Nat
    BY <1>2, OrderedOk
<1>5. IsSeq(verdicts') /\ Len(verdicts') = 0 /\ DOMAIN verdicts' = {} /\ written' = <<>>
    BY <1>1, <1>2, SingleSeq
<1>6. \A k \in DOMAIN Ordered : Ordered[k] = Ordered[0 + k]
    <2>1. DOMAIN Ordered \subseteq Nat
        BY <1>4 DEF IsSeq
    <2> QED
        BY <2>1
<1>7. Compared'
    BY <1>1, <1>3, <1>4, <1>5, <1>6 DEF Compared
<1>8. NonePassedOver'
    BY <1>1, NoneStays DEF DiffInv, ScopeInv
<1> QED
    BY <1>1, <1>5, <1>7, <1>8 DEF DiffInv

LEMMA ComparePathStep ==
    ASSUME DiffInv, ScopeInv, cli.name = "diff", ComparePath
    PROVE  DiffInv'
PROOF
<1>1. /\ command = "compare" /\ paths # <<>> /\ command' = "compare"
      /\ verdicts' = Append(verdicts, [path |-> Current, change |-> Verdict,
                                       inside |-> cli.inspect /\ Verdict = "modified"])
      /\ paths' = Tail(paths)
      /\ UNCHANGED <<sources, turn, reader, readerVars>> /\ UNCHANGED <<cli, mode, side_a>>
      /\ UNCHANGED <<written, said>>
    BY DEF ComparePath, SameSource, Quietly, grepVars
<1>2. written = <<>> /\ Compared
    BY <1>1 DEF DiffInv
<1>3. Ordered' = Ordered /\ Verdicts' = Verdicts /\ Shows(side_a)' /\ Shows(View)'
    BY <1>1, <1>2, OrderStays DEF Compared
<1> PICK n, m, d : n = Len(verdicts) /\ m = Len(paths) /\ d = [path |-> Current, change |-> Verdict, inside |-> cli.inspect /\ Verdict = "modified"]
    OBVIOUS
<1>4. /\ n \in Nat /\ DOMAIN verdicts = 1 .. n
      /\ m \in Nat /\ m > 0 /\ DOMAIN paths = 1 .. m /\ n + m = Len(Ordered)
    BY <1>1, <1>2 DEF Compared, IsSeq
<1>5. /\ IsSeq(verdicts') /\ Len(verdicts') = n + 1 /\ DOMAIN verdicts' = 1 .. (n + 1)
      /\ \A k \in 1 .. n : verdicts'[k] = verdicts[k]
      /\ verdicts'[n + 1] = d
    BY <1>1, <1>2, <1>4, AppendRange DEF Compared, IsSeq
<1>6. /\ paths' \in Seq(Range(paths)) /\ Len(paths') = m - 1 /\ DOMAIN paths' = 1 .. (m - 1)
      /\ \A k \in 1 .. (m - 1) : paths'[k] = paths[k + 1]
    BY <1>1, <1>2 DEF Compared, IsSeq
<1>7. IsSeq(paths')
    BY <1>6, SeqOfRange DEF IsSeq
<1>8. Current = Ordered[n + 1]
    <2>1. Current = paths[1]
        BY <1>1, <1>2 DEF Current, Compared, IsSeq
    <2>2. 1 \in DOMAIN paths
        BY <1>4
    <2> QED
        BY <1>2, <2>1, <2>2 DEF Compared
<1>9. Current \in AllNames /\ n + 1 \in DOMAIN Ordered
    <2>1. Len(Ordered) = Cardinality(AllNames) /\ DOMAIN Ordered = 1 .. Cardinality(AllNames)
          /\ \A k \in DOMAIN Ordered : Ordered[k] \in AllNames /\ Cardinality(AllNames) \in Nat
        BY <1>2, OrderedOk DEF Compared
    <2>2. n + 1 \in DOMAIN Ordered
        BY <1>4, <2>1
    <2> QED
        BY <1>8, <2>1, <2>2
<1>10. d.path = Ordered[n + 1] /\ d.change = Verdicts[Ordered[n + 1]]
    <2>1. Verdict = Verdicts[Current]
        BY <1>9 DEF Verdict, Verdicts, InA, InB, Both, AllNames
    <2> QED
        BY <1>8, <2>1
<1>11. \A k \in DOMAIN verdicts' : verdicts'[k].path = Ordered[k] /\ verdicts'[k].change = Verdicts[Ordered[k]]
    <2> SUFFICES ASSUME NEW k \in DOMAIN verdicts'
                 PROVE  verdicts'[k].path = Ordered[k] /\ verdicts'[k].change = Verdicts[Ordered[k]]
        OBVIOUS
    <2>1. k = n + 1 \/ k \in 1 .. n
        BY <1>4, <1>5
    <2>2. k \in 1 .. n => verdicts[k].path = Ordered[k] /\ verdicts[k].change = Verdicts[Ordered[k]]
        BY <1>2, <1>4 DEF Compared
    <2> QED
        BY <1>5, <1>10, <2>1, <2>2
<1>12. \A k \in DOMAIN paths' : paths'[k] = Ordered[(n + 1) + k]
    <2> SUFFICES ASSUME NEW k \in DOMAIN paths' PROVE paths'[k] = Ordered[(n + 1) + k]
        OBVIOUS
    <2>1. k \in 1 .. (m - 1) /\ m \in Nat /\ n \in Nat
        BY <1>4, <1>6
    <2>2. k + 1 \in 1 .. m /\ n + (k + 1) = (n + 1) + k
        BY <2>1
    <2>3. k + 1 \in DOMAIN paths /\ paths'[k] = paths[k + 1]
        BY <1>4, <1>6, <2>1, <2>2
    <2>4. paths[k + 1] = Ordered[n + (k + 1)]
        BY <1>2, <2>3 DEF Compared
    <2> QED
        BY <2>2, <2>3, <2>4
<1>13. Len(verdicts') + Len(paths') = Len(Ordered)
    <2>1. n \in Nat /\ m \in Nat /\ n + m = Len(Ordered) /\ (n + 1) + (m - 1) = n + m
        BY <1>4
    <2>2. Len(verdicts') = n + 1 /\ Len(paths') = m - 1
        BY <1>5, <1>6
    <2> QED
        BY <2>1, <2>2
<1>14. Compared'
    BY <1>3, <1>5, <1>7, <1>11, <1>12, <1>13 DEF Compared
<1>15. NonePassedOver'
    BY <1>1, NoneStays DEF DiffInv, ScopeInv
<1> QED
    BY <1>1, <1>2, <1>14, <1>15 DEF DiffInv

LEMMA PrintedStays == ASSUME UNCHANGED <<cli, verdicts>> PROVE Printed' = Printed
BY DEF Printed, Out!write_diff, Out!Picked, Out!Ascending, Out!InOrder, Out!Cardinality, Out!counts, Out!Changes

(* What was printed stays as it was, whatever comes after. *)
LEMMA EndStays ==
    ASSUME DiffInv, cli.name = "diff", UNCHANGED <<sources, turn, reader, readerVars>>, UNCHANGED <<cli, mode, side_a>>,
           UNCHANGED <<paths, verdicts, written>>, command \in {"compare", "changes", "done", "failed"},
           command' = "failed" \/ (command' = "done" /\ command = "changes" /\ [what |-> "refused"] \in Range(said'))
    PROVE  DiffInv'
PROOF
<1>1. Compared => Compared'
    BY ComparedStays
<1>2. Printed' = Printed
    BY PrintedStays
<1>3. command = "changes" => written # <<>>
    BY DEF DiffInv
<1> QED
    BY <1>1, <1>2, <1>3 DEF DiffInv

LEMMA EmitStep ==
    ASSUME DiffInv, ScopeInv, cli.name = "diff", EmitDiff
    PROVE  DiffInv'
PROOF
<1>1. /\ command = "compare" /\ paths = <<>>
      /\ written' = Append(written, Printed)
      /\ command' = IF cli.sink THEN "changes" ELSE "done"
      /\ UNCHANGED <<sources, turn, reader, readerVars>> /\ UNCHANGED <<cli, mode, side_a>>
      /\ UNCHANGED <<paths, verdicts, exported>>
    BY DEF EmitDiff, Printed, SameSource, Report, diffVars
<1>2. written = <<>> /\ Compared
    BY <1>1 DEF DiffInv
<1>7. NonePassedOver'
    <2> PICK x : x = [what |-> "verdicts", counts |-> Out!counts(verdicts)]
        OBVIOUS
    <2>1. said' = Append(said, x) /\ x.what # "too long"
        BY DEF EmitDiff, Say
    <2> QED
        BY <1>1, <2>1, NoneStays DEF DiffInv, ScopeInv
<1>3. Compared'
    BY <1>1, <1>2, ComparedStays
<1>4. Printed' = Printed
    BY <1>1, PrintedStays
<1> PICK r : r = Printed
    OBVIOUS
<1>5. written' = <<r>> /\ Printed' = r
    BY <1>1, <1>2, <1>4
<1>6. written' = <<Printed>>' /\ written' # <<>>
    BY <1>5
<1>8. command' = "done" /\ cli.sink' => FALSE
    BY <1>1
<1> QED
    BY <1>1, <1>3, <1>6, <1>7, <1>8 DEF DiffInv

LEMMA ExportStep ==
    ASSUME DiffInv, ScopeInv, cli.name = "diff", ExportChanges
    PROVE  DiffInv'
PROOF
<1>1. /\ command = "changes" /\ command' = "done"
      /\ exported' = Contents(Sent)
      /\ written' = Append(written, [what |-> "export"])
      /\ said' = IF TooLong = {} THEN said
                 ELSE Append(said, [what |-> "too long", paths |-> {e.name : e \in TooLong}])
      /\ UNCHANGED <<sources, turn, reader, readerVars>> /\ UNCHANGED <<cli, mode, side_a>>
      /\ UNCHANGED <<paths, verdicts>>
    BY DEF ExportChanges, SameSource, Report
<1>2. written = <<Printed>> /\ Compared /\ paths = <<>>
    <2>1. written = <<Printed>> /\ (written # <<>> => Compared /\ paths = <<>>)
        BY <1>1 DEF DiffInv
    <2> QED
        BY <2>1
<1>3. Compared' /\ Sent' = Sent /\ TooLong' = TooLong
    BY <1>1, <1>2, ComparedStays, FilesStay
<1>4. Printed' = Printed
    BY <1>1, PrintedStays
<1> PICK r : r = Printed
    OBVIOUS
<1>5. written' = Append(<<r>>, [what |-> "export"]) /\ Printed' = r
    BY <1>1, <1>2, <1>4
<1>6. written' = Append(<<Printed>>, [what |-> "export"])' /\ written' # <<>>
    BY <1>5, SingleSeq, AppendRange DEF IsSeq
<1>7. exported' = Contents(Sent)'
    BY <1>1, <1>3
<1>9. PassedOver'
    <2>1. NonePassedOver /\ IsSeq(said)
        BY <1>1 DEF DiffInv, ScopeInv
    <2> PICK names, x : names = {e.name : e \in TooLong} /\ x = [what |-> "too long", paths |-> names]
        OBVIOUS
    <2>2. TooLong' = TooLong /\ names = {e.name : e \in TooLong'}
        BY <1>3
    <2>3. CASE TooLong = {}
        BY <1>1, <2>1, <2>2, <2>3 DEF PassedOver, NonePassedOver
    <2>4. CASE TooLong # {}
        <3> PICK n : n = Len(said)
            OBVIOUS
        <3>1. /\ n \in Nat /\ DOMAIN said = 1 .. n /\ DOMAIN said' = 1 .. n + 1 /\ said'[n + 1] = x
              /\ \A i \in 1 .. n : said'[i] = said[i]
            <4>1. said' = Append(said, x)
                BY <1>1, <2>4
            <4> QED
                BY <2>1, <4>1, GrownBy
        <3>2. n + 1 \in 1 .. n + 1 /\ \A k \in 1 .. n + 1 : k \in 1 .. n \/ k = n + 1
            <4>1. n \in Nat
                BY <3>1
            <4> QED
                BY ONLY <4>1
        <3>3. x.what = "too long" /\ x.paths = names
            OBVIOUS
        <3> QED
            BY <2>1, <2>2, <3>1, <3>2, <3>3 DEF PassedOver, NonePassedOver
    <2> QED
        BY <2>3, <2>4
<1>8. command' = "done" /\ paths' = <<>> /\ Compared'
    BY <1>1, <1>2, <1>3
<1> QED
    BY <1>6, <1>7, <1>8, <1>9 DEF DiffInv

LEMMA ShowsStay == ASSUME side_a' = side_a, Shows(side_a) PROVE Shows(side_a)'
BY DEF Shows, Names, IsSeq

LEMMA DiffStep == WellSourced /\ TarInv /\ ZipInv /\ FolderInv /\ ServedInv /\ ScopeInv /\ DiffInv /\ [Next]_vars => DiffInv'
PROOF
<1> SUFFICES ASSUME WellSourced, TarInv, ZipInv, FolderInv, ServedInv, ScopeInv, DiffInv, [Next]_vars PROVE DiffInv'
    OBVIOUS
<1>1. CASE cli.name # "diff"
    <2>1. cli'.name = cli.name
        <3>1. CASE ApplyPresets
            BY <3>1, PresetsOk
        <3>2. CASE ~ApplyPresets
            <4>1. cli' = cli
                BY <3>2, OwnSteps DEF OwnStep, OpenSides, SearchSource, KeepSideA, Stays, Quietly, Report, grepVars
            <4> QED
                BY <4>1
        <3> QED
            BY <3>1, <3>2
    <2> QED
        BY <1>1, <2>1 DEF DiffInv
<1>2. CASE cli.name = "diff"
    <2>0. /\ command \in {"diff", "open", "serve", "compare", "changes", "done", "failed"} /\ turn \in Nat
          /\ command \in Early => turn = 1
        BY <1>2 DEF WellSourced, Stages
    <2>1. CASE OpenSource /\ UNCHANGED <<grepVars, diffVars>>
        <3>1. UNCHANGED <<cli, written, said, side_a, verdicts>>
            BY <2>1 DEF grepVars, diffVars
        <3>2. command = "open" /\ command' \in {"open", "serve", "failed"} /\ turn' = turn
            BY <2>1 DEF OpenSource, OpenTar, OpenArchive, OpenFolder, Opening, ReadTar, ReadZip, ScanFolder, Reading,
                        ownVars, SourceFails, Recognise, UnlockFails
        <3>3. Shows(side_a) => Shows(side_a)'
            BY <3>1, ShowsStay
        <3>4. NonePassedOver'
            BY <1>2, <3>1, <3>2, NoneStays DEF DiffInv, ScopeInv
        <3> QED
            BY <3>1, <3>2, <3>3, <3>4 DEF DiffInv
    <2>2. CASE GrepNext
        BY <1>2, <2>0, <2>2 DEF GrepNext, ApplyPresets, PresetFails, BuildQuery, QueryFails, ResolveSources, ResolveFails,
                AnnounceRules, RefuseFlags, BuildContext, ContextFails, SearchSource, ExportFails, EmitResults, EmitFails,
                Summarise, WriteReport, ReportFails
    <2>3. CASE RejectUnsupported \/ SideRefused
        <3>1. /\ command \in {"diff", "open"} /\ command' = "failed"
              /\ UNCHANGED <<cli, written, verdicts>>
            BY <2>3 DEF RejectUnsupported, SideRefused, Fails, Quietly, grepVars, diffVars
        <3> QED
            BY <3>1 DEF DiffInv
    <2>4. CASE OpenSides
        <3>1. /\ command = "diff" /\ command' = "open" /\ turn' = turn
              /\ UNCHANGED <<cli, written, verdicts>>
            BY <2>4 DEF OpenSides, Report
        <3>2. turn = 1
            BY <2>0, <3>1 DEF Early
        <3>3. NonePassedOver'
            <4> PICK x : x = [what |-> "different clocks"]
                OBVIOUS
                <4>1. x.what # "too long" /\ (said' = said \/ said' = Append(said, x))
                BY <2>4 DEF OpenSides
            <4> QED
                BY <1>2, <3>1, <4>1, NoneStays DEF DiffInv, ScopeInv
        <3> QED
            BY <3>1, <3>2, <3>3 DEF DiffInv
    <2>5. CASE KeepSideA
        <3>1. /\ command = "serve" /\ turn = 1 /\ side_a' = View /\ command' = "open" /\ View' = View'
              /\ UNCHANGED <<cli, written, verdicts, said>>
            BY <2>5 DEF KeepSideA, Quietly, grepVars
        <3>2. Shows(View)
            BY <3>1, ViewOk
        <3> PICK v : v = View
            OBVIOUS
        <3>3. side_a' = v /\ Shows(v)
            BY <3>1, <3>2
        <3>4. Shows(side_a)'
            BY <3>3 DEF Shows, Names, IsSeq
        <3>5. NonePassedOver'
            BY <1>2, <3>1, NoneStays DEF DiffInv, ScopeInv
        <3> QED
            BY <3>1, <3>4, <3>5 DEF DiffInv
    <2>6. CASE BeginCompare
        BY <2>6, BeginStep
    <2>7. CASE ComparePath
        BY <1>2, <2>7, ComparePathStep
    <2>8. CASE CompareFails \/ EmitDiffFails \/ ExportChangesFails
        <3>1. /\ command \in {"compare", "changes"} /\ command' = "failed"
              /\ UNCHANGED <<sources, turn, reader, readerVars>> /\ UNCHANGED <<cli, mode, side_a>>
              /\ UNCHANGED <<paths, verdicts, written>>
            BY <2>8 DEF CompareFails, EmitDiffFails, ExportChangesFails, Fails, Quietly, grepVars, diffVars
        <3> QED
            BY <1>2, <3>1, EndStays
    <2>9. CASE EmitDiff
        BY <1>2, <2>9, EmitStep
    <2>10. CASE ExportChanges
        BY <1>2, <2>10, ExportStep
    <2>11. CASE ExportRefused
        <3>1. /\ command = "changes" /\ command' = "done" /\ said' = Append(said, [what |-> "refused"])
              /\ UNCHANGED <<sources, turn, reader, readerVars>> /\ UNCHANGED <<cli, mode, side_a>>
              /\ UNCHANGED <<paths, verdicts, written>>
            BY <2>11 DEF ExportRefused, Say, SameSource, Report, diffVars
        <3>2. [what |-> "refused"] \in Range(said')
            BY <3>1, AppendRange DEF ScopeInv, IsSeq
        <3> QED
            BY <1>2, <3>1, <3>2, EndStays
    <2>12. CASE UNCHANGED vars
        <3>1. /\ UNCHANGED <<command, sources, turn, reader, readerVars>> /\ UNCHANGED <<cli, mode, side_a>>
              /\ UNCHANGED <<paths, verdicts, written, said, exported>>
            BY <2>12, VarsUnchanged DEF ownVars, grepVars, diffVars
        <3>2. /\ Compared => Compared'
              /\ Shows(side_a) => Shows(side_a)'
              /\ Sent' = Sent /\ TooLong' = TooLong
            BY <3>1, ComparedStays, FilesStay, ShowsStay
        <3>3. Printed' = Printed
            BY <3>1, PrintedStays
        <3> PICK r : r = Printed
            OBVIOUS
        <3>4. /\ written = <<Printed>> => written' = <<Printed>>'
              /\ written = Append(<<Printed>>, [what |-> "export"]) => written' = Append(<<Printed>>, [what |-> "export"])'
            BY <3>1, <3>3
        <3>5. [what |-> "refused"] \in Range(said) => [what |-> "refused"] \in Range(said')
            BY <3>1
        <3>6. exported = Contents(Sent) => exported' = Contents(Sent)'
            BY <3>1, <3>2
        <3>7. (NonePassedOver => NonePassedOver') /\ (PassedOver => PassedOver')
            BY <3>1, <3>2 DEF NonePassedOver, PassedOver
        <3> QED
            BY <3>1, <3>2, <3>4, <3>5, <3>6, <3>7 DEF DiffInv
    <2> QED
        BY <2>1, <2>2, <2>3, <2>4, <2>5, <2>6, <2>7, <2>8, <2>9, <2>10, <2>11, <2>12 DEF Next, DiffNext
<1> QED
    BY <1>1, <1>2

(* At its end a comparison has a verdict on every name, and one. *)
LEMMA AllCompared ==
    ASSUME Compared, paths = <<>>
    PROVE  /\ Len(verdicts) = Cardinality(AllNames) /\ DOMAIN verdicts = 1 .. Len(verdicts) /\ Len(verdicts) \in Nat
           /\ \A k \in DOMAIN verdicts : /\ verdicts[k].path \in AllNames
                                         /\ verdicts[k].change = Verdicts[verdicts[k].path]
           /\ \A n \in AllNames : \E k \in DOMAIN verdicts : verdicts[k].path = n
           /\ \A n : n \in Gone <=> n \in AllNames /\ Verdicts[n] = "removed"
           /\ \A n : n \in Changed <=> n \in AllNames /\ Verdicts[n] \in {"added", "modified"}
PROOF
<1>1. /\ Len(Ordered) = Cardinality(AllNames) /\ Len(Ordered) \in Nat /\ DOMAIN Ordered = 1 .. Len(Ordered)
      /\ \A k \in DOMAIN Ordered : Ordered[k] \in AllNames
      /\ \A n \in AllNames : \E k \in DOMAIN Ordered : Ordered[k] = n
    BY OrderedOk DEF Compared
<1>2. Len(verdicts) = Len(Ordered) /\ DOMAIN verdicts = DOMAIN Ordered
    <2>1. Len(paths) = 0 /\ Len(verdicts) + Len(paths) = Len(Ordered) /\ Len(verdicts) \in Nat
          /\ DOMAIN verdicts = 1 .. Len(verdicts)
        BY DEF Compared, IsSeq
    <2> QED
        BY <1>1, <2>1
<1>3. \A k \in DOMAIN verdicts : verdicts[k].path = Ordered[k] /\ verdicts[k].change = Verdicts[Ordered[k]]
    BY DEF Compared
<1>4. /\ \A k \in DOMAIN verdicts : verdicts[k].path \in AllNames /\ verdicts[k].change = Verdicts[verdicts[k].path]
      /\ \A n \in AllNames : \E k \in DOMAIN verdicts : verdicts[k].path = n
    BY <1>1, <1>2, <1>3
<1>5. \A n : n \in Gone <=> n \in AllNames /\ Verdicts[n] = "removed"
    BY <1>4 DEF Gone
<1>6. \A n : n \in Changed <=> n \in AllNames /\ Verdicts[n] \in {"added", "modified"}
    BY <1>4 DEF Changed
<1> QED
    BY <1>1, <1>2, <1>4, <1>5, <1>6

(* What a name leads to in B bears that name. *)
LEMMA ByPathOk ==
    ASSUME Shows(View), NEW n \in {View[i].name : i \in DOMAIN View}
    PROVE  by_path(n) \in Range(View) /\ by_path(n).name = n
PROOF
<1> DEFINE S == {i \in DOMAIN View : View[i].name = n}
<1>1. Len(View) \in Nat /\ DOMAIN View = 1 .. Len(View)
    BY DEF Shows, Names, IsSeq
<1>2. S # {} /\ S \in SUBSET (0 .. Len(View))
    BY <1>1
<1>3. \A i \in S : View[i] \in Range(View) /\ View[i].name = n
    BY DEF Range
<1>4. by_path(n) = View[Max(S)]
    BY DEF by_path
<1> HIDE DEF S
<1>5. PICK m \in S : \A k \in S : k <= m
    BY <1>1, <1>2, GreatestNatural
<1>6. \A k \in S : m >= k
    BY <1>1, <1>2, <1>5
<1>7. Max(S) \in S
    BY <1>5, <1>6 DEF Max
<1> QED
    BY <1>3, <1>4, <1>7

(* What was removed is taken out, what was exported put in: what is left of A is
   in B as it was, and what is missing is named. *)
LEMMA ExportRebuilds ==
    ASSUME Compared, paths = <<>>, mode = "hash", exported = Contents(Sent), PassedOver
    PROVE  /\ Except(Rebuilt, LeftOut) = Except(Held(View), LeftOut)
           /\ LeftOutAloud
           /\ \A x \in exported : x.path \in PathsIn(Held(View)) \/ \E i \in DOMAIN View : x.path \in View[i].sidecars
PROOF
<1> DEFINE A(n) == Get(side_a, n).content
           B(n) == Get(View, n).content
           F(n, c) == [path |-> n, content |-> c]
           known == {View[i].name : i \in DOMAIN View}
<1>1. /\ Held(side_a) = {F(n, A(n)) : n \in NamesIn(side_a)}
      /\ Held(View) = {F(n, B(n)) : n \in NamesIn(View)}
      /\ \A n \in NamesIn(View) : by_path(n) = Get(View, n) /\ Get(View, n).name = n
      /\ NamesIn(View) \subseteq known
    <2>1. Shows(side_a) /\ Shows(View)
        BY DEF Compared
    <2>2. /\ Held(side_a) = {F(n, A(n)) : n \in NamesIn(side_a)}
          /\ Held(View) = {F(n, B(n)) : n \in NamesIn(View)}
          /\ \A n \in NamesIn(View) : by_path(n) = Get(View, n) /\ Get(View, n).name = n
        BY <2>1, ComparableOk DEF by_path
    <2>3. comparable(View) \subseteq DOMAIN View
        BY <2>1, ComparableOk
    <2> QED
        BY <2>2, <2>3 DEF NamesIn
<1>2. /\ \A n : n \in Gone <=> n \in AllNames /\ Verdicts[n] = "removed"
      /\ \A n : n \in Changed <=> n \in AllNames /\ Verdicts[n] \in {"added", "modified"}
    BY AllCompared
<1>3. \A n \in AllNames :
          Verdicts[n] = IF n \notin NamesIn(View) THEN "removed"
                        ELSE IF n \notin NamesIn(side_a) THEN "added"
                        ELSE IF A(n) # B(n) THEN "modified" ELSE "unchanged"
    BY DEF Verdicts, differs
<1>4. \A n : n \in AllNames <=> n \in NamesIn(side_a) \/ n \in NamesIn(View)
    BY DEF AllNames
<1>5. \A n : n \in Gone <=> n \in NamesIn(side_a) /\ n \notin NamesIn(View)
    BY <1>2, <1>3, <1>4
<1>6. \A n : n \in Changed <=> n \in NamesIn(View) /\ (n \in NamesIn(side_a) => A(n) # B(n))
    BY <1>2, <1>3, <1>4
<1>7. \A n \in known : by_path(n) \in Range(View) /\ by_path(n).name = n
    BY ByPathOk DEF Compared
<1>8. Files = {by_path(n) : n \in Changed} /\ \A n \in Changed : n \in known
    BY <1>1, <1>6 DEF Files
<1>9. \A e \in Files : e \in Range(View) /\ e.name \in Changed /\ by_path(e.name) = e
    BY <1>7, <1>8
<1>10. \A n : n \in {e.name : e \in TooLong} <=> n \in Changed /\ n \in cli.too_long
    BY <1>7, <1>8, <1>9 DEF TooLong
<1>11. \A x \in exported : \E e \in Sent : x = F(e.name, e.content)
    BY DEF Contents
<1>12. \A e \in Sent : e.name \in NamesIn(View) => e = Get(View, e.name)
    <2>1. \A e \in Beside(Files \ TooLong) : \E n \in known : e = by_path(n)
        BY DEF Beside
    <2>2. \A e \in Files : \E n \in known : e = by_path(n)
        BY <1>8
    <2>3. \A e \in Sent : \E n \in known : e = by_path(n)
        BY <2>1, <2>2 DEF Sent
    <2> QED
        BY <1>1, <1>7, <2>3
<1>13. \A n \in Changed : n \notin cli.too_long => F(n, B(n)) \in exported
    <2> SUFFICES ASSUME NEW n \in Changed, n \notin cli.too_long PROVE F(n, B(n)) \in exported
        OBVIOUS
    <2>1. by_path(n) \in Files /\ by_path(n).name = n /\ by_path(n) = Get(View, n)
        BY <1>1, <1>6, <1>8
    <2>2. by_path(n) \in Sent
        BY <2>1 DEF Sent, TooLong
    <2> QED
        BY <2>1, <2>2 DEF Contents
<1>14. \A n, c : F(n, c).path = n
    OBVIOUS
<1>15. \A x \in exported : x.path \in NamesIn(View) => x \in Held(View)
    <2> SUFFICES ASSUME NEW x \in exported, x.path \in NamesIn(View) PROVE x \in Held(View)
        OBVIOUS
    <2>1. PICK e \in Sent : x = F(e.name, e.content)
        BY <1>11
    <2>2. e.name \in NamesIn(View) /\ e.content = B(e.name)
        BY <1>12, <1>14, <2>1
    <2> QED
        BY <1>1, <2>1, <2>2
<1>16. PathsIn(Held(View)) = NamesIn(View)
    <2>1. \A f \in Held(View) : f.path \in NamesIn(View)
        BY <1>1, <1>14
    <2>2. \A n \in NamesIn(View) : F(n, B(n)) \in Held(View) /\ F(n, B(n)).path = n
        BY <1>1, <1>14
    <2> HIDE DEF F
    <2> QED
        BY <2>1, <2>2 DEF PathsIn
<1> HIDE DEF A, B, F
<1>17. \A n, c, b : F(n, c) = F(n, b) => c = b
    BY DEF F
<1>18. \A f, g \in Held(View) : f.path = g.path => f = g
    BY <1>1, <1>14
<1>19. PathsIn(Held(View) \ Held(side_a)) = Changed
    <2>1. ASSUME NEW n \in Changed PROVE F(n, B(n)) \in Held(View) /\ F(n, B(n)) \notin Held(side_a)
        <3>1. n \in NamesIn(View) /\ (n \in NamesIn(side_a) => A(n) # B(n))
            BY <1>6, <2>1
        <3>2. ASSUME F(n, B(n)) \in Held(side_a) PROVE FALSE
            <4>1. PICK k \in NamesIn(side_a) : F(n, B(n)) = F(k, A(k))
                BY <1>1, <3>2
            <4>2. k = n
                BY <1>14, <4>1
            <4> QED
                BY <1>17, <3>1, <4>1, <4>2
        <3> QED
            BY <1>1, <3>1, <3>2
    <2>2. ASSUME NEW f \in Held(View), f \notin Held(side_a) PROVE f.path \in Changed
        <3>1. PICK n \in NamesIn(View) : f = F(n, B(n))
            BY <1>1
        <3>2. ~(n \in NamesIn(side_a) /\ A(n) = B(n))
            BY <1>1, <2>2, <3>1
        <3> QED
            BY <1>6, <1>14, <3>1, <3>2
    <2> QED
        BY <1>14, <2>1, <2>2 DEF PathsIn
<1>20. \A n : n \in LeftOut <=> n \in Changed /\ n \in cli.too_long
    BY <1>19 DEF LeftOut
<1>21. ASSUME NEW f \in Held(side_a), f.path \notin Gone, \A x \in exported : x.path # f.path, f.path \notin LeftOut
       PROVE  f \in Held(View)
    <2>1. PICK n \in NamesIn(side_a) : f = F(n, A(n))
        BY <1>1
    <2>2. f.path = n /\ n \in NamesIn(View)
        BY <1>5, <1>14, <1>21, <2>1
    <2>3. n \notin Changed
        BY <1>13, <1>14, <1>20, <1>21, <2>2
    <2>4. A(n) = B(n)
        BY <1>6, <2>1, <2>2, <2>3
    <2> QED
        BY <1>1, <2>1, <2>2, <2>4
<1>22. ASSUME NEW f \in Held(View), f.path \notin LeftOut PROVE f \in Rebuilt
    <2>1. PICK n \in NamesIn(View) : f = F(n, B(n)) /\ f.path = n
        BY <1>1, <1>14
    <2>2. CASE n \in Changed
        <3>1. f \in exported
            BY <1>13, <1>20, <1>22, <2>1, <2>2
        <3> QED
            BY <1>16, <2>1, <3>1 DEF Rebuilt
    <2>3. CASE n \notin Changed
        <3>1. f \in Held(side_a) /\ n \notin Gone
            BY <1>1, <1>5, <1>6, <2>1, <2>3
        <3>2. ASSUME NEW x \in exported, x.path = n PROVE x = f /\ x.path \in NamesIn(View)
            BY <1>15, <1>18, <2>1, <3>2
        <3> QED
            BY <1>16, <2>1, <3>1, <3>2 DEF Rebuilt
    <2> QED
        BY <2>2, <2>3
<1>23. Except(Rebuilt, LeftOut) = Except(Held(View), LeftOut)
    BY <1>15, <1>16, <1>21, <1>22 DEF Except, Rebuilt
<1>24. LeftOutAloud
    <2>1. LeftOut = {e.name : e \in TooLong}
        BY <1>10, <1>20
    <2>2. \A n \in LeftOut : \E e \in TooLong : e.name = n
        BY <2>1
    <2> QED
        BY <2>1, <2>2 DEF LeftOutAloud, PassedOver
<1>25. ASSUME NEW x \in exported
       PROVE  x.path \in PathsIn(Held(View)) \/ \E i \in DOMAIN View : x.path \in View[i].sidecars
    <2>1. PICK e \in Sent : x.path = e.name
        BY <1>11, <1>14
    <2>2. CASE e \in Files
        BY <1>6, <1>9, <1>16, <2>1, <2>2
    <2>3. CASE e \in Beside(Files \ TooLong)
        <3>1. PICK f \in Files : \E n \in f.sidecars : n \in known /\ e = by_path(n)
            <4> DEFINE declared == UNION {g.sidecars : g \in Files \ TooLong}
            <4>1. PICK n \in declared \cap known : e = by_path(n)
                BY <2>3 DEF Beside
            <4> QED
                BY <4>1
        <3> PICK n \in f.sidecars : n \in known /\ e = by_path(n)
            BY <3>1
        <3>2. e.name = n
            BY <1>7
        <3>3. f \in Range(View)
            BY <1>9
        <3> QED
            BY <2>1, <3>2, <3>3 DEF Range
    <2> QED
        BY <2>2, <2>3 DEF Sent
<1> QED
    BY <1>23, <1>24, <1>25

(* Every name is among the files that are printed, or on both sides and unchanged. *)
LEMMA AllPrinted ==
    ASSUME Compared, paths = <<>>, cli.format \in {"txt", "csv", "json"}, NEW n \in AllNames
    PROVE  LET files == Out!write_diff(verdicts, cli.format).files IN
           \/ \E k \in DOMAIN files : files[k].path = n
           \/ cli.format = "txt" /\ n \in NamesIn(side_a) /\ n \in NamesIn(View)
PROOF
<1> DEFINE S == {k \in DOMAIN verdicts : verdicts[k].change # "unchanged"}
<1>1. PICK k \in DOMAIN verdicts : verdicts[k].path = n /\ verdicts[k].change = Verdicts[n]
    BY AllCompared
<1>2. CASE cli.format \in {"csv", "json"}
    <2>1. Out!write_diff(verdicts, cli.format).files = verdicts
        BY <1>2 DEF Out!write_diff
    <2> QED
        BY <1>1, <2>1
<1>3. CASE cli.format = "txt" /\ k \in S
    <2>1. Out!write_diff(verdicts, cli.format).files = Out!Picked(verdicts, S)
        BY <1>3 DEF Out!write_diff
    <2>2. Out!Picked(verdicts, S) = Picked(verdicts, S)
        BY DEF Out!Picked, Out!Ascending, Out!InOrder, Out!Cardinality, Picked, Ascending, InOrder, Cardinality
    <2>3. S \in SUBSET (1 .. Len(verdicts)) /\ Len(verdicts) \in Nat
        BY AllCompared
    <2> HIDE DEF S
    <2>4. \E j \in DOMAIN Ascending(S) : Ascending(S)[j] = k
        <3>1. PICK m \in Nat : S \in SUBSET (1 .. m)
            BY <2>3
        <3> HIDE DEF S
        <3>2. \A x \in S : \E j \in DOMAIN Ascending(S) : Ascending(S)[j] = x
            BY ONLY <3>1, AscendingOk
        <3> QED
            BY <1>3, <3>2
    <2>5. \E j \in DOMAIN Picked(verdicts, S) : Picked(verdicts, S)[j] = verdicts[k]
        BY <2>4 DEF Picked
    <2> QED
        BY <1>1, <2>1, <2>2, <2>5
<1>4. CASE cli.format = "txt" /\ k \notin S
    <2>1. Verdicts[n] = "unchanged"
        BY <1>1, <1>4
    <2> QED
        BY <1>4, <2>1 DEF Verdicts
<1> QED
    BY <1>2, <1>3, <1>4

LEMMA ResultsHeld ==
    ASSUME written = <<Printed>> \/ written = Append(<<Printed>>, [what |-> "export"])
    PROVE  Holds("results") = Out!write_diff(verdicts, cli.format)
PROOF
<1> PICK r : r = Printed
    OBVIOUS
<1>1. r.what = "results" /\ r.holds = Out!write_diff(verdicts, cli.format)
    BY DEF Printed
<1>2. Written("results") = {1} /\ written[1] = r
    <2>1. CASE written = <<Printed>>
        BY <1>1, <2>1 DEF Written
    <2>2. CASE written = Append(<<Printed>>, [what |-> "export"])
        <3> PICK e : e = [what |-> "export"]
            OBVIOUS
        <3>1. written = Append(<<r>>, e) /\ e.what # "results"
            BY <2>2
        <3>2. Len(<<r>>) = 1 /\ <<r>>[1] = r
            OBVIOUS
        <3>3. DOMAIN written = 1 .. 1 + 1 /\ written[1] = r /\ written[1 + 1] = e
            BY <3>1, <3>2, SingleSeq, AppendRange DEF IsSeq
        <3>4. DOMAIN written = {1, 2} /\ written[2] = e
            BY <3>3
        <3> QED
            BY <1>1, <3>1, <3>3, <3>4 DEF Written
    <2> QED
        BY <2>1, <2>2
<1>3. Max({1}) = 1
    BY DEF Max
<1> QED
    BY <1>1, <1>2, <1>3 DEF Holds

LEMMA HeldNames ==
    ASSUME NEW view, Shows(view)
    PROVE  /\ \A f \in Held(view) : f.path \in NamesIn(view)
           /\ \A n \in NamesIn(view) : \E f \in Held(view) : f.path = n
PROOF
<1> DEFINE F(n) == [path |-> n, content |-> Get(view, n).content]
<1>1. Held(view) = {F(n) : n \in NamesIn(view)}
    BY ComparableOk
<1>2. \A n : F(n).path = n
    OBVIOUS
<1> HIDE DEF F
<1> QED
    BY <1>1, <1>2

LEMMA RebuildFollows == WellSourced /\ DiffInv => ChangesRebuildB
PROOF
<1> SUFFICES ASSUME WellSourced, DiffInv, cli.name = "diff"
             PROVE  ChangesRebuildB
    BY DEF ChangesRebuildB
<1>1. command = "done" /\ mode = "hash" /\ cli.sink /\ [what |-> "refused"] \notin Range(said) =>
          /\ Except(Rebuilt, LeftOut) = Except(Held(View), LeftOut)
          /\ LeftOutAloud
          /\ \A x \in exported : x.path \in PathsIn(Held(View)) \/ \E i \in DOMAIN View : x.path \in View[i].sidecars
    BY ExportRebuilds DEF DiffInv
<1>2. ASSUME Written("results") # {}
      PROVE  LET names == {f.path : f \in Held(side_a) \cup Held(View)} IN
             /\ {verdicts[k].path : k \in DOMAIN verdicts} = names
             /\ Len(verdicts) = Cardinality(names)
             /\ \A n \in names :
                    \/ \E k \in DOMAIN Holds("results").files : Holds("results").files[k].path = n
                    \/ /\ cli.format = "txt"
                       /\ \A side \in {side_a, View} : \E f \in Held(side) : f.path = n
    <2>1. /\ Compared /\ paths = <<>>
          /\ written = <<Printed>> \/ written = Append(<<Printed>>, [what |-> "export"])
        BY <1>2 DEF DiffInv, Written
    <2>2. Holds("results") = Out!write_diff(verdicts, cli.format)
        BY <2>1, ResultsHeld
    <2>3. cli.format \in {"txt", "csv", "json"}
        BY DEF WellSourced, IsArguments
    <2>4. /\ \A f \in Held(side_a) : f.path \in NamesIn(side_a)
          /\ \A n \in NamesIn(side_a) : \E f \in Held(side_a) : f.path = n
          /\ \A f \in Held(View) : f.path \in NamesIn(View)
          /\ \A n \in NamesIn(View) : \E f \in Held(View) : f.path = n
        BY <2>1, HeldNames DEF Compared
    <2>5. {f.path : f \in Held(side_a) \cup Held(View)} = AllNames
        BY <2>4 DEF AllNames
    <2>6. {verdicts[k].path : k \in DOMAIN verdicts} = AllNames /\ Len(verdicts) = Cardinality(AllNames)
        BY <2>1, AllCompared
    <2>7. ASSUME NEW n \in AllNames
          PROVE  \/ \E k \in DOMAIN Holds("results").files : Holds("results").files[k].path = n
                 \/ /\ cli.format = "txt"
                    /\ \A side \in {side_a, View} : \E f \in Held(side) : f.path = n
        BY <2>1, <2>2, <2>3, <2>4, AllPrinted
    <2> QED
        BY <2>5, <2>6, <2>7
<1> QED
    BY <1>1, <1>2 DEF ChangesRebuildB

(* Whatever two sources are compared: of every name on either side there is one
   verdict before anything is said of any, the results name each that changed,
   and an exact comparison with its export turns the one side into the other,
   a file that is there twice taken as it was last written, but for the changed
   files it names as having too long a path; what it exports besides is a sidecar
   that an entry of B has. *)
THEOREM ComparisonRebuilds == Spec => []ChangesRebuildB
PROOF
<1>1. Init => TarInv
    BY NoneIsNoWord DEF Init, SourcesInit, TarInv
<1>2. Init => FolderInv
    BY DEF Init, SourcesInit, FolderInv
<1>3. Init => ServedInv
    BY DEF Init, ServedInv
<1>4. Init => ScopeInv
    BY SingleSeq DEF Init, SourcesInit, GrepInit, ScopeInv, ScopeExact, IsSeq
<1>5. Init => DiffInv
    BY DEF Init, SourcesInit, GrepInit, DiffInit, DiffInv, NonePassedOver
<1>6. WellSourced /\ TarInv /\ [Next]_vars => TarInv'
    BY TarStep
<1> QED
    BY <1>1, <1>2, <1>3, <1>4, <1>5, <1>6, WellSourcedInit, WellSourcedStep, ZipInvInit, ZipStep, FolderStep,
       ServedStep, ScopeStep, DiffStep, RebuildFollows, PTL DEF Spec

-----------------------------------------------------------------------------
(* The base64 text of a needle and of what it stands among, three bytes of
   which are four characters. *)

Phased(phase, needle) == [i \in 1 .. phase |-> ZeroByte] \o needle

LEMMA PhasedOk ==
    ASSUME NEW phase \in 0 .. 2, NEW needle \in Seq(Byte)
    PROVE  /\ Phased(phase, needle) \in Seq(Byte) /\ Len(Phased(phase, needle)) = phase + Len(needle)
           /\ \A j \in 1 .. Len(needle) : Phased(phase, needle)[phase + j] = needle[j]
PROOF
<1> DEFINE zeros == [i \in 1 .. phase |-> ZeroByte]
<1>1. ZeroByte \in Byte
    BY DEF ZeroByte, Byte
<1>2. zeros \in Seq(Byte) /\ Len(zeros) = phase
    BY <1>1
<1> HIDE DEF zeros
<1>3. Phased(phase, needle) = zeros \o needle
    BY DEF Phased, zeros
<1> QED
    BY <1>2, <1>3

(* Before the needle stand q groups of three bytes and `phase` bytes more; digit k
   of its row is one of its own, and character i one of its own alone. *)
Grouped(before, q, phase) == q \in Nat /\ phase \in 0 .. 2 /\ Len(before) = 3 * q + phase
OwnDigit(k, phase, needle) == k \in Nat /\ 4 * phase < k /\ k <= 4 * (phase + Len(needle))
OwnCharacter(i, phase, needle) == i \in Nat /\ 4 * phase < 3 * i - 2 /\ 3 * i <= 4 * (phase + Len(needle))

(* Where the needle's digits stand in the text. *)
LEMMA DigitsShift ==
    ASSUME NEW before \in Seq(Byte), NEW needle \in Seq(Byte), NEW after \in Seq(Byte),
           NEW phase, NEW q, Grouped(before, q, phase), NEW k, OwnDigit(k, phase, needle), NEW u, u = k + 12 * q
    PROVE  Digit(before \o needle \o after, u) = Digit(Phased(phase, needle), k)
PROOF
<1> USE DEF Grouped, OwnDigit
<1> DEFINE text == before \o needle \o after
           at == (k - 1) \div 4
<1>1. /\ text \in Seq(Byte) /\ Len(text) = Len(before) + Len(needle) + Len(after)
      /\ \A j \in 1 .. Len(needle) : text[Len(before) + j] = needle[j]
    <2>1. before \o needle \in Seq(Byte) /\ Len(before \o needle) = Len(before) + Len(needle)
        OBVIOUS
    <2>2. \A j \in 1 .. Len(needle) : (before \o needle)[Len(before) + j] = needle[j]
        OBVIOUS
    <2>3. \A j \in 1 .. Len(before \o needle) : text[j] = (before \o needle)[j]
        BY <2>1
    <2>4. text \in Seq(Byte) /\ Len(text) = Len(before \o needle) + Len(after)
        BY <2>1
    <2> QED
        BY <2>1, <2>2, <2>3, <2>4
<1>2. /\ at \in Nat /\ phase <= at /\ at < phase + Len(needle)
      /\ (k + 12 * q - 1) \div 4 = at + 3 * q /\ (k + 12 * q - 1) % 4 = (k - 1) % 4
    OBVIOUS
<1>3. at - phase + 1 \in 1 .. Len(needle)
    BY <1>2
<1>4. text[at + 3 * q + 1] = needle[at - phase + 1]
    <2>1. at + 3 * q + 1 = Len(before) + (at - phase + 1)
        BY <1>2
    <2>2. PICK j : j = at - phase + 1
        OBVIOUS
    <2>3. text[Len(before) + j] = needle[j]
        BY <1>1, <1>3, <2>2
    <2> QED
        BY <2>1, <2>2, <2>3
<1>5. Phased(phase, needle)[at + 1] = needle[at - phase + 1]
    <2>1. at + 1 = phase + (at - phase + 1)
        BY <1>2
    <2>2. PICK j : j = at - phase + 1
        OBVIOUS
    <2>3. Phased(phase, needle)[phase + j] = needle[j]
        BY <1>3, <2>2, PhasedOk
    <2> QED
        BY <2>1, <2>2, <2>3
<1>6. Len(Phased(phase, needle)) = phase + Len(needle)
    BY PhasedOk
<1>7. k + 12 * q <= 4 * Len(text)
    <2>1. Len(text) >= 3 * q + phase + Len(needle)
        BY <1>1
    <2> QED
        BY <2>1, <1>1
<1> HIDE DEF text, at
<1>8. Digit(text, u) = text[at + 3 * q + 1][((k - 1) % 4) + 1]
    <2>1. u <= 4 * Len(text) /\ (u - 1) \div 4 = at + 3 * q /\ (u - 1) % 4 = (k - 1) % 4
        BY <1>2, <1>7
    <2>2. Digit(text, u) = text[(u - 1) \div 4 + 1][((u - 1) % 4) + 1]
        BY <2>1 DEF Digit
    <2> QED
        BY <2>1, <2>2
<1>9. Digit(Phased(phase, needle), k) = Phased(phase, needle)[at + 1][((k - 1) % 4) + 1]
    BY <1>6 DEF Digit, at
<1> QED
    BY <1>4, <1>5, <1>8, <1>9 DEF text

(* So many characters hold four digits of each byte. *)
LEMMA Thirds ==
    ASSUME NEW m \in Nat
    PROVE  LET l == (4 * m + 2) \div 3
           IN  l \in Nat /\ 4 * m <= 3 * l /\ 3 * l <= 4 * m + 2 /\ (m % 3 = 0 => 3 * l = 4 * m)
PROOF
<1> QED
    OBVIOUS

LEMMA CharactersShift ==
    ASSUME NEW before \in Seq(Byte), NEW needle \in Seq(Byte), NEW after \in Seq(Byte), NEW urlsafe,
           NEW phase, NEW q, Grouped(before, q, phase), NEW i, OwnCharacter(i, phase, needle), NEW j, j = i + 4 * q
    PROVE  encode_no_pad(before \o needle \o after, urlsafe)[j] = encode_no_pad(Phased(phase, needle), urlsafe)[i]
PROOF
<1> DEFINE text == before \o needle \o after
           padded == Phased(phase, needle)
<1> USE DEF Grouped, OwnCharacter
<1>1. Len(text) = 3 * q + phase + Len(needle) + Len(after) /\ Len(needle) \in Nat /\ Len(after) \in Nat
    <2>1. before \o needle \in Seq(Byte) /\ Len(before \o needle) = Len(before) + Len(needle)
        OBVIOUS
    <2> QED
        BY <2>1
<1>2. Len(padded) = phase + Len(needle)
    BY PhasedOk
<1> HIDE DEF text, padded
<1>3. i \in 1 .. ((4 * Len(padded) + 2) \div 3)
    <2>1. PICK m \in Nat : m = Len(padded)
        BY <1>1, <1>2
    <2> QED
        BY <1>1, <1>2, <2>1, Thirds
<1>4. i + 4 * q \in 1 .. ((4 * Len(text) + 2) \div 3)
    <2>1. PICK m \in Nat : m = Len(text)
        BY <1>1
    <2>2. 3 * (i + 4 * q) <= 4 * m
        BY <1>1, <2>1
    <2> QED
        BY <2>1, <2>2, Thirds
<1>5. \A d \in 0 .. 2 : Digit(text, 3 * (i + 4 * q) - d) = Digit(padded, 3 * i - d)
    <2> TAKE d \in 0 .. 2
    <2> DEFINE k == 3 * i - d
    <2>1. OwnDigit(k, phase, needle) /\ 3 * (i + 4 * q) - d = k + 12 * q
        BY <1>1 DEF OwnDigit
    <2>2. PICK u : u = 3 * (i + 4 * q) - d
        OBVIOUS
    <2> HIDE DEF k
    <2> HIDE DEF Grouped
    <2>3. Digit(before \o needle \o after, u) = Digit(Phased(phase, needle), k)
        BY <2>1, <2>2, DigitsShift
    <2> QED
        BY <2>2, <2>3 DEF k, text, padded
<1>6. /\ Digit(text, 3 * (i + 4 * q) - 2) = Digit(padded, 3 * i - 2)
      /\ Digit(text, 3 * (i + 4 * q) - 1) = Digit(padded, 3 * i - 1)
      /\ Digit(text, 3 * (i + 4 * q)) = Digit(padded, 3 * i)
    BY <1>5
<1>7. encode_no_pad(padded, urlsafe)[i]
          = Character(urlsafe, <<Digit(padded, 3 * i - 2), Digit(padded, 3 * i - 1), Digit(padded, 3 * i)>>)
    BY <1>3 DEF encode_no_pad
<1>8. encode_no_pad(text, urlsafe)[j]
          = Character(urlsafe, <<Digit(text, 3 * j - 2), Digit(text, 3 * j - 1), Digit(text, 3 * j)>>)
    BY <1>4 DEF encode_no_pad
<1>9. encode_no_pad(text, urlsafe)[j] = encode_no_pad(padded, urlsafe)[i]
    BY <1>6, <1>7, <1>8
<1> QED
    BY <1>9 DEF text, padded

IsPiece(s, from, to, size) ==
    s \in Seq(Range(s)) /\ from \in Nat \ {0} /\ size \in Nat /\ to = from + size - 1 /\ to <= Len(s)

LEMMA PieceOk ==
    ASSUME NEW s, NEW from, NEW to, NEW size, IsPiece(s, from, to, size)
    PROVE  /\ SubSeq(s, from, to) \in [1 .. size -> Range(s)]
           /\ Len(SubSeq(s, from, to)) = size
           /\ \A i \in 1 .. size : SubSeq(s, from, to)[i] = s[from + i - 1]
PROOF
<1> DEFINE piece == SubSeq(s, from, to)
<1>1. to - from + 1 = size /\ to \in Int
    BY DEF IsPiece
<1>2. piece = [i \in 1 .. (to - from + 1) |-> s[from + i - 1]]
    BY <1>1 DEF IsPiece
<1> HIDE DEF piece
<1>3. piece = [i \in 1 .. size |-> s[from + i - 1]]
    BY <1>1, <1>2
<1>4. Len(piece) = size /\ (\A i \in 1 .. size : piece[i] = s[from + i - 1]) /\ piece \in [1 .. size -> Range(s)]
    <2>1. \A i \in 1 .. size : from + i - 1 \in DOMAIN s
        BY <1>1 DEF IsPiece
    <2> QED
        BY <1>3, <2>1 DEF Range, IsPiece
<1> QED
    BY <1>4 DEF piece

(* What of the padded needle's encoding depends on nothing but the needle. *)
LEMMA FragmentOccurs ==
    ASSUME NEW before \in Seq(Byte), NEW needle \in Seq(Byte), NEW after \in Seq(Byte), NEW urlsafe,
           NEW phase, NEW q, Grouped(before, q, phase),
           NEW encoded, encoded = encode_no_pad(Phased(phase, needle), urlsafe),
           Len(encoded) > lead(phase) + trail(phase, needle)
    PROVE  Occurs(SubSeq(encoded, lead(phase) + 1, Len(encoded) - trail(phase, needle)),
                  encode_no_pad(before \o needle \o after, urlsafe))
PROOF
<1>1. phase \in 0 .. 2 /\ q \in Nat /\ Len(before) = 3 * q + phase
    BY DEF Grouped
<1>2. PICK w \in Nat : w = phase + Len(needle)
    BY <1>1
<1>3. PICK l \in Nat : l = (4 * w + 2) \div 3 /\ 4 * w <= 3 * l /\ 3 * l <= 4 * w + 2 /\ (w % 3 = 0 => 3 * l = 4 * w)
    BY Thirds
<1>4. DOMAIN encoded = 1 .. l /\ encoded = [i \in 1 .. l |-> encoded[i]]
    <2>1. Len(Phased(phase, needle)) = w
        BY <1>1, <1>2, PhasedOk
    <2> QED
        BY <1>3, <2>1 DEF encode_no_pad
<1>5. encoded \in Seq(Range(encoded)) /\ Len(encoded) = l
    BY <1>4, SequenceOf
<1>6. PICK first \in 0 .. 3 : first = lead(phase) /\ 4 * phase <= 3 * first
    BY <1>1 DEF lead
<1>7. PICK last \in Nat : last = Len(encoded) - trail(phase, needle) /\ 3 * last <= 4 * w /\ first < last /\ last <= l
    <2>1. trail(phase, needle) = IF w % 3 = 0 THEN 0 ELSE 1
        BY <1>2 DEF trail
    <2>2. PICK cut : cut = trail(phase, needle)
        OBVIOUS
    <2>3. cut \in 0 .. 1 /\ (cut = 0 => w % 3 = 0) /\ first + cut < l
        BY <1>5, <1>6, <2>1, <2>2
    <2>4. l - cut \in Nat /\ 3 * (l - cut) <= 4 * w /\ first < l - cut /\ l - cut <= l
        BY <1>3, <2>3
    <2> QED
        BY <1>5, <2>2, <2>4
<1>8. PICK text : text = encode_no_pad(before \o needle \o after, urlsafe)
    OBVIOUS
<1>9. PICK m \in Nat : m = Len(before \o needle \o after) /\ m >= 3 * q + w
    <2>1. before \o needle \in Seq(Byte) /\ Len(before \o needle) = Len(before) + Len(needle)
        OBVIOUS
    <2> QED
        BY <1>1, <1>2, <2>1
<1>10. PICK k \in Nat : k = (4 * m + 2) \div 3 /\ 4 * m <= 3 * k
    BY Thirds
<1>11. DOMAIN text = 1 .. k /\ text = [i \in 1 .. k |-> text[i]]
    BY <1>8, <1>9, <1>10 DEF encode_no_pad
<1>12. text \in Seq(Range(text)) /\ Len(text) = k
    BY <1>11, SequenceOf
<1>13. PICK size \in Nat : size = last - first
    BY <1>7
<1>14. PICK at \in Nat : at = 4 * q + first
    BY <1>1
<1>15. 4 * q + last <= k
    <2>1. 4 * m <= 3 * k
        BY <1>10
    <2>2. 3 * last <= 4 * w
        BY <1>7
    <2>3. m >= 3 * q + w /\ q \in Nat
        BY <1>1, <1>9
    <2> QED
        BY <2>1, <2>2, <2>3
<1>16. at + size <= k /\ at \in 0 .. (k - size)
    <2>1. at + size = 4 * q + last
        BY <1>1, <1>7, <1>13, <1>14
    <2> QED
        BY <1>15, <2>1
<1>17. PICK fragment : fragment = SubSeq(encoded, first + 1, last)
    OBVIOUS
<1>18. /\ fragment \in [1 .. size -> Range(encoded)] /\ Len(fragment) = size
       /\ \A i \in 1 .. size : fragment[i] = encoded[first + 1 + i - 1]
    <2>1. PICK from \in Nat \ {0} : from = first + 1
        OBVIOUS
    <2>2. IsPiece(encoded, from, last, size)
        BY <1>5, <1>7, <1>13, <2>1, SMTT(30) DEF IsPiece
    <2>3. fragment = SubSeq(encoded, from, last)
        BY <1>17, <2>1
    <2>4. /\ fragment \in [1 .. size -> Range(encoded)] /\ Len(fragment) = size
          /\ \A i \in 1 .. size : fragment[i] = encoded[from + i - 1]
        <3>1. fragment \in [1 .. size -> Range(encoded)]
            BY <2>2, <2>3, PieceOk
        <3>2. Len(fragment) = size
            BY <2>2, <2>3, PieceOk
        <3>3. \A i \in 1 .. size : fragment[i] = encoded[from + i - 1]
            BY <2>2, <2>3, PieceOk
        <3> QED
            BY <3>1, <3>2, <3>3
    <2> QED
        BY <2>1, <2>4
<1>19. PICK piece : piece = SubSeq(text, at + 1, at + size)
    OBVIOUS
<1>20. /\ piece \in [1 .. size -> Range(text)]
       /\ \A i \in 1 .. size : piece[i] = text[at + 1 + i - 1]
    <2>1. PICK from \in Nat \ {0} : from = at + 1
        OBVIOUS
    <2>2. PICK to \in Nat : to = at + size
        OBVIOUS
    <2>3. IsPiece(text, from, to, size)
        BY <1>12, <1>16, <2>1, <2>2 DEF IsPiece
    <2>4. piece = SubSeq(text, from, to)
        BY <1>19, <2>1, <2>2
    <2>5. /\ piece \in [1 .. size -> Range(text)]
          /\ \A i \in 1 .. size : piece[i] = text[from + i - 1]
        <3>1. SubSeq(text, from, to) \in [1 .. size -> Range(text)]
            BY <2>3, PieceOk
        <3>2. \A i \in 1 .. size : SubSeq(text, from, to)[i] = text[from + i - 1]
            BY <2>3, PieceOk
        <3> QED
            BY <2>4, <3>1, <3>2
    <2> QED
        BY <2>1, <2>5
<1>21. \A i \in 1 .. size : piece[i] = fragment[i]
    <2> TAKE i \in 1 .. size
    <2>1. PICK c \in Nat : c = first + i
        OBVIOUS
    <2>2. first + 1 + i - 1 = c /\ at + 1 + i - 1 = c + 4 * q /\ first < c /\ c <= last
        BY <1>1, <1>7, <1>13, <1>14, <2>1
    <2>3. OwnCharacter(c, phase, needle)
        <3>1. 3 * last <= 4 * w /\ 4 * phase <= 3 * first /\ phase \in Nat
            BY <1>1, <1>6, <1>7
        <3>2. 4 * phase < 3 * c - 2 /\ 3 * c <= 4 * w
            BY <2>2, <3>1
        <3> QED
            BY <1>2, <3>2 DEF OwnCharacter
    <2>4. PICK j : j = c + 4 * q
        OBVIOUS
    <2>5. text[j] = encoded[c]
        BY <1>8, <2>3, <2>4, CharactersShift
    <2> QED
        BY <1>18, <1>20, <2>2, <2>4, <2>5
<1>22. piece = fragment
    BY <1>18, <1>20, <1>21
<1>23. Occurs(fragment, text)
    BY <1>12, <1>16, <1>18, <1>19, <1>22 DEF Occurs
<1> QED
    BY <1>6, <1>7, <1>8, <1>17, <1>23

Fragment(phase, needle, urlsafe) ==
    LET encoded == encode_no_pad(Phased(phase, needle), urlsafe)
    IN SubSeq(encoded, lead(phase) + 1, Len(encoded) - trail(phase, needle))

Leaves(phase, needle, urlsafe) ==
    Len(encode_no_pad(Phased(phase, needle), urlsafe)) > lead(phase) + trail(phase, needle)

LEMMA FragmentsAre ==
    ASSUME NEW needle, needle # <<>>, NEW urlsafe
    PROVE  fragments(needle, urlsafe) = {Fragment(p, needle, urlsafe) : p \in {p \in 0 .. 2 : Leaves(p, needle, urlsafe)}}
BY DEF fragments, Fragment, Leaves, Phased

LEMMA EncodedLength ==
    ASSUME NEW phase \in 0 .. 2, NEW needle \in Seq(Byte), NEW urlsafe,
           NEW encoded, encoded = encode_no_pad(Phased(phase, needle), urlsafe)
    PROVE  /\ encoded \in Seq(Range(encoded)) /\ Len(encoded) \in Nat
           /\ 4 * (phase + Len(needle)) <= 3 * Len(encoded) /\ 3 * Len(encoded) <= 4 * (phase + Len(needle)) + 2
PROOF
<1>1. PICK w \in Nat : w = phase + Len(needle)
    OBVIOUS
<1>2. PICK l \in Nat : l = (4 * w + 2) \div 3 /\ 4 * w <= 3 * l /\ 3 * l <= 4 * w + 2
    BY Thirds
<1>3. Len(Phased(phase, needle)) = w
    BY <1>1, PhasedOk
<1>4. DOMAIN encoded = 1 .. l /\ encoded = [i \in 1 .. l |-> encoded[i]]
    BY <1>2, <1>3 DEF encode_no_pad
<1>5. encoded \in Seq(Range(encoded)) /\ Len(encoded) = l
    BY <1>4, SequenceOf
<1> QED
    BY <1>1, <1>2, <1>5

(* Two bytes leave a fragment whatever the phase. *)
LEMMA TwoBytesLeave ==
    ASSUME NEW phase \in 0 .. 2, NEW needle \in Seq(Byte), Len(needle) >= 2, NEW urlsafe
    PROVE  Leaves(phase, needle, urlsafe)
PROOF
<1>1. PICK l \in Nat : l = Len(encode_no_pad(Phased(phase, needle), urlsafe)) /\ 4 * (phase + Len(needle)) <= 3 * l
    BY EncodedLength
<1>2. trail(phase, needle) \in 0 .. 1
    BY DEF trail
<1>3. (phase = 0 => lead(phase) = 0) /\ (phase = 1 => lead(phase) = 2) /\ (phase = 2 => lead(phase) = 3)
    BY DEF lead
<1>4. PICK n \in Nat : n = Len(needle) /\ n >= 2
    OBVIOUS
<1>5. 4 * (phase + n) <= 3 * l
    BY <1>1, <1>4
<1>6. l > lead(phase) + trail(phase, needle)
    BY <1>2, <1>3, <1>4, <1>5
<1> QED
    BY <1>1, <1>6 DEF Leaves

(* One byte leaves a fragment too short to say much. *)
LEMMA OneByteLeaves ==
    ASSUME NEW needle \in Seq(Byte), Len(needle) = 1, NEW urlsafe
    PROVE  Leaves(0, needle, urlsafe) /\ Len(Fragment(0, needle, urlsafe)) = 1
PROOF
<1>1. PICK encoded : encoded = encode_no_pad(Phased(0, needle), urlsafe)
    OBVIOUS
<1>2. encoded \in Seq(Range(encoded)) /\ Len(encoded) = 2
    <2>1. PICK phase \in 0 .. 2 : phase = 0
        OBVIOUS
    <2>2. /\ encoded \in Seq(Range(encoded)) /\ Len(encoded) \in Nat
          /\ 4 * (phase + Len(needle)) <= 3 * Len(encoded) /\ 3 * Len(encoded) <= 4 * (phase + Len(needle)) + 2
        BY <1>1, <2>1, EncodedLength
    <2>3. PICK l \in Nat, n \in Nat : l = Len(encoded) /\ n = Len(needle) /\ n = 1
        BY <2>2
    <2>4. 4 * (phase + n) <= 3 * l /\ 3 * l <= 4 * (phase + n) + 2
        BY <2>2, <2>3
    <2>5. l = 2
        BY <2>1, <2>3, <2>4
    <2> QED
        BY <2>2, <2>3, <2>5
<1>3. lead(0) = 0 /\ trail(0, needle) = 1
    BY DEF lead, trail
<1>4. Fragment(0, needle, urlsafe) = SubSeq(encoded, 1, 1)
    <2>1. lead(0) + 1 = 1 /\ Len(encoded) - trail(0, needle) = 1
        BY <1>2, <1>3
    <2>2. Fragment(0, needle, urlsafe) = SubSeq(encoded, lead(0) + 1, Len(encoded) - trail(0, needle))
        BY <1>1 DEF Fragment
    <2> QED
        BY <2>1, <2>2
<1>5. IsPiece(encoded, 1, 1, 1)
    BY <1>2 DEF IsPiece
<1>6. Len(SubSeq(encoded, 1, 1)) = 1
    BY <1>5, PieceOk
<1> QED
    BY <1>1, <1>2, <1>3, <1>4, <1>6 DEF Leaves

(* EncodedFound, of all that may stand before and after the pattern. *)
FoundAnywhere ==
    command = "resolve" /\ cli.base64 =>
        IF Len(cli.pattern) >= 2
        THEN \A before, after \in Seq(Byte) : \E f \in fragment_set :
                 Occurs(f, encode_no_pad(before \o cli.pattern \o after, cli.urlsafe))
        ELSE \E k \in DOMAIN said : said[k].what = "short fragments"

LEMMA AppendLast ==
    ASSUME NEW s, IsSeq(s), NEW x
    PROVE  Len(s) + 1 \in DOMAIN Append(s, x) /\ Append(s, x)[Len(s) + 1] = x
PROOF
<1>1. s \in Seq(Range(s) \cup {x}) /\ x \in Range(s) \cup {x}
    BY DEF IsSeq
<1>2. Append(s, x) \in Seq(Range(s) \cup {x}) /\ Len(Append(s, x)) = Len(s) + 1 /\ Append(s, x)[Len(s) + 1] = x
    BY <1>1, AppendProperties
<1> QED
    BY <1>1, <1>2

LEMMA BuildStep ==
    ASSUME WellSourced, IsSeq(said), BuildQuery
    PROVE  FoundAnywhere'
PROOF
<1> SUFFICES ASSUME cli.base64
             PROVE  IF Len(cli.pattern) >= 2
                    THEN \A before, after \in Seq(Byte) : \E f \in fragment_set' :
                             Occurs(f, encode_no_pad(before \o cli.pattern \o after, cli.urlsafe))
                    ELSE \E k \in DOMAIN said' : said'[k].what = "short fragments"
    BY DEF FoundAnywhere, BuildQuery
<1>1. PICK needle \in Seq(Byte), urlsafe \in {cli.urlsafe} : needle = cli.pattern
    <2>1. cli.name = "grep"
        BY DEF WellSourced, Stages, BuildQuery
    <2> QED
        BY <2>1 DEF WellSourced, IsArguments
<1>2. needle # <<>> /\ fragment_set' = fragments(needle, urlsafe)
    BY <1>1 DEF BuildQuery, base64_allowed, fragments
<1>3. fragment_set' = {Fragment(p, needle, urlsafe) : p \in {p \in 0 .. 2 : Leaves(p, needle, urlsafe)}}
    BY <1>2, FragmentsAre
<1>4. ASSUME Len(needle) >= 2, NEW before \in Seq(Byte), NEW after \in Seq(Byte)
      PROVE  \E f \in fragment_set' : Occurs(f, encode_no_pad(before \o needle \o after, urlsafe))
    <2>1. PICK q \in Nat, phase \in 0 .. 2 : Len(before) = 3 * q + phase
        <3>1. PICK b \in Nat : b = Len(before)
            OBVIOUS
        <3>2. b = 3 * (b \div 3) + (b % 3) /\ b \div 3 \in Nat /\ b % 3 \in 0 .. 2
            OBVIOUS
        <3> QED
            BY <3>1, <3>2
    <2>2. Grouped(before, q, phase)
        BY <2>1 DEF Grouped
    <2>3. Leaves(phase, needle, urlsafe)
        BY <1>4, TwoBytesLeave
    <2>4. Fragment(phase, needle, urlsafe) \in fragment_set'
        BY <1>3, <2>3
    <2>5. Occurs(Fragment(phase, needle, urlsafe), encode_no_pad(before \o needle \o after, urlsafe))
        BY <2>2, <2>3, FragmentOccurs DEF Fragment, Leaves
    <2> QED
        BY <2>4, <2>5
<1>5. ASSUME ~(Len(needle) >= 2)
      PROVE  \E k \in DOMAIN said' : said'[k].what = "short fragments"
    <2>1. Len(needle) = 1
        <3>1. PICK n \in Nat : n = Len(needle) /\ n # 0
            BY <1>2, EmptySeq
        <3>2. ~(n >= 2)
            BY <1>5, <3>1
        <3>3. n = 1
            BY <3>1, <3>2
        <3> QED
            BY <3>1, <3>3
    <2>2. Leaves(0, needle, urlsafe) /\ Len(Fragment(0, needle, urlsafe)) = 1
        BY <2>1, OneByteLeaves
    <2>3. Fragment(0, needle, urlsafe) \in fragment_set' /\ Len(Fragment(0, needle, urlsafe)) < 4
        <3>1. 0 \in {p \in 0 .. 2 : Leaves(p, needle, urlsafe)}
            BY <2>2
        <3>2. PICK f : f = Fragment(0, needle, urlsafe)
            OBVIOUS
        <3>3. f \in fragment_set'
            BY <1>3, <3>1, <3>2
        <3>4. 1 < 4
            OBVIOUS
        <3> QED
            BY <2>2, <3>2, <3>3, <3>4
    <2>4. said' = Append(said, [what |-> "short fragments"])
        BY <2>3 DEF BuildQuery
    <2>5. PICK line : line = [what |-> "short fragments"]
        OBVIOUS
    <2>6. said' = Append(said, line)
        BY <2>4, <2>5
    <2>7. Len(said) + 1 \in DOMAIN said' /\ said'[Len(said) + 1] = line
        BY <2>6, AppendLast
    <2>8. line.what = "short fragments"
        BY <2>5
    <2> QED
        BY <2>7, <2>8
<1> QED
    BY <1>1, <1>4, <1>5

LEMMA ResolvingStays ==
    ASSUME [Next]_vars, command' = "resolve", ~BuildQuery
    PROVE  UNCHANGED <<command, cli, fragment_set, said>>
PROOF
<1>1. CASE OpenSource /\ UNCHANGED <<grepVars, diffVars>>
    <2>1. command' = command
        BY <1>1 DEF OpenSource, OpenTar, OpenArchive, OpenFolder, Opening, ReadTar, ReadZip, ScanFolder, ownVars,
                    SourceFails, Recognise, UnlockFails
    <2> QED
        BY <1>1, <2>1 DEF grepVars
<1>2. CASE GrepNext /\ UNCHANGED diffVars
    <2>1. ~(ApplyPresets \/ SearchSource \/ AnnounceRules \/ EmitResults \/ Summarise \/ WriteReport)
        BY DEF ApplyPresets, SearchSource, AnnounceRules, EmitResults, Summarise, WriteReport
    <2>2. ~(PresetFails \/ QueryFails \/ ResolveFails \/ RefuseFlags \/ ContextFails \/ ExportFails \/ EmitFails \/ ReportFails)
        BY DEF PresetFails, QueryFails, ResolveFails, RefuseFlags, ContextFails, ExportFails, EmitFails, ReportFails, Fails
    <2>3. ~(ResolveSources \/ BuildContext)
        BY DEF ResolveSources, Resolve, BuildContext
    <2> QED
        BY <1>2, <2>1, <2>2, <2>3 DEF GrepNext
<1>3. CASE DiffNext
    <2>1. ~(RejectUnsupported \/ OpenSides \/ SideRefused \/ KeepSideA \/ BeginCompare)
        BY DEF RejectUnsupported, OpenSides, SideRefused, KeepSideA, BeginCompare, Fails
    <2>2. ~(ComparePath \/ CompareFails \/ EmitDiff \/ EmitDiffFails \/ ExportChanges \/ ExportRefused \/ ExportChangesFails)
        BY DEF ComparePath, CompareFails, EmitDiff, EmitDiffFails, ExportChanges, ExportRefused, ExportChangesFails, Fails
    <2> QED
        BY <1>3, <2>1, <2>2 DEF DiffNext
<1>4. CASE UNCHANGED vars
    BY <1>4, VarsUnchanged DEF ownVars, grepVars
<1> QED
    BY <1>1, <1>2, <1>3, <1>4 DEF Next

LEMMA FoundStep == WellSourced /\ ScopeInv /\ FoundAnywhere /\ [Next]_vars => FoundAnywhere'
PROOF
<1> SUFFICES ASSUME WellSourced, ScopeInv, FoundAnywhere, [Next]_vars
             PROVE  FoundAnywhere'
    OBVIOUS
<1>1. CASE BuildQuery
    BY <1>1, BuildStep DEF ScopeInv
<1>2. CASE ~BuildQuery /\ command' = "resolve"
    <2>1. UNCHANGED <<command, cli, fragment_set, said>>
        BY <1>2, ResolvingStays
    <2> QED
        BY <2>1 DEF FoundAnywhere
<1>3. CASE command' # "resolve"
    BY <1>3 DEF FoundAnywhere
<1> QED
    BY <1>1, <1>2, <1>3

LEMMA FoundFollows == FoundAnywhere => EncodedFound
PROOF
<1>1. Around \subseteq Seq(Byte)
    <2>1. \A n \in Nat : [1 .. n -> Bytes] \subseteq Seq(Byte)
        BY CommandAssumption
    <2>2. Around \subseteq Seq(Byte)
        <3>1. \A x \in Around : \E m \in 0 .. 2 : x \in [1 .. m -> Bytes]
            BY DEF Around, BoundedSeq, SeqOf
        <3>2. ASSUME NEW x \in Around PROVE x \in Seq(Byte)
            <4>1. PICK m \in 0 .. 2 : x \in [1 .. m -> Bytes]
                BY <3>1
            <4>2. m \in Nat
                BY <4>1
            <4> QED
                BY <2>1, <4>1, <4>2
        <3> QED
            BY <3>2
    <2> QED
        BY <2>2
<1> QED
    BY <1>1 DEF FoundAnywhere, EncodedFound

(* Whatever stands around a pattern of two bytes or more, however much of it
   there is, the base64 text of the whole holds a fragment that is looked for;
   of a single byte, of which that is not so, the operator is warned. *)
THEOREM NeedleFoundEncoded == Spec => []FoundAnywhere
PROOF
<1>1. Init => FoundAnywhere
    BY DEF Init, FoundAnywhere
<1>2. Init => ScopeInv
    BY SingleSeq DEF Init, SourcesInit, GrepInit, ScopeInv, ScopeExact, IsSeq
<1> QED
    BY <1>1, <1>2, WellSourcedInit, WellSourcedStep, ScopeStep, FoundStep, PTL DEF Spec

(* The same of the bytes that are tried: fragments(). *)
THEOREM FragmentsFind == Spec => []EncodedFound
BY NeedleFoundEncoded, FoundFollows, PTL

=============================================================================
