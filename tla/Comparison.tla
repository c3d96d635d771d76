----------------------------- MODULE Comparison -----------------------------
(***************************************************************************)
(* The diff command: cmd/run/diff.rs over ops/diff.  Both sides are opened *)
(* as sources, B while A stays open, their files are paired by name and    *)
(* compared one pair after the other, and what B has anew may be exported. *)
(***************************************************************************)
EXTENDS GrepDriver

VARIABLES
    mode,     \* CompareMode
    side_a,   \* the entries of A, which stays open
    paths,    \* the names not compared yet, in order
    verdicts, \* DiffReport
    exported  \* what the export report says was written: [path, content]

diffVars == <<mode, side_a, paths, verdicts, exported>>

DiffInit == mode = None /\ side_a = <<>> /\ paths = <<>> /\ verdicts = <<>> /\ exported = {}

Report == UNCHANGED <<cli, fragment_set, records, decryptions, stats, searched>>
SameSource == UNCHANGED <<operand, sources, turn, reader, facts, readerVars>>

-----------------------------------------------------------------------------
(* --type, --exclude-media and keys are refused. *)
RejectUnsupported ==
    /\ command = "diff" /\ cli.unsupported
    /\ Fails /\ Quietly /\ UNCHANGED diffVars

Mixed == operand.paths[1].is_dir # operand.paths[2].is_dir

CompareMode ==
    CASE cli.exact -> "hash"
      [] ~cli.exact /\ Mixed -> "size"
      [] OTHER -> "meta"

(* with_diff_side(): a directory without --dir-mode is refused in its turn. *)
Side(n) ==
    IF Unstated(n) THEN [kind |-> "refused", inside |-> None] ELSE SourcesOf(n)[1]

OpenSides ==
    /\ command = "diff" /\ ~cli.unsupported
    /\ mode' = CompareMode
    /\ said' = IF CompareMode = "size" THEN Append(said, [what |-> "different clocks"]) ELSE said
    /\ sources' = <<Side(1), Side(2)>>
    /\ command' = "open"
    /\ UNCHANGED <<operand, turn, reader, facts, readerVars, written, side_a, paths, verdicts, exported>>
    /\ Report

SideRefused ==
    /\ command = "open" /\ reader = None /\ turn <= Len(sources)
    /\ sources[turn].kind = "refused"
    /\ Fails /\ Quietly /\ UNCHANGED diffVars

KeepSideA ==
    /\ command = "serve" /\ cli.name = "diff" /\ turn = 1
    /\ side_a' = View
    /\ command' = "open"
    /\ Close
    /\ UNCHANGED <<mode, paths, verdicts, exported>> /\ Quietly

-----------------------------------------------------------------------------
(* diff_sources() *)

is_selected(e) == ~e.dir /\ EntryFilter!select(filter, e.name) = "search"

(* A BTreeMap by name: of several entries with one name the last stays. *)
comparable(view) ==
    LET chosen == {i \in DOMAIN view : is_selected(view[i])}
    IN {i \in chosen : \A j \in chosen : j > i => view[j].name # view[i].name}

NamesIn(view) == {view[i].name : i \in comparable(view)}

Get(view, name) == view[CHOOSE i \in comparable(view) : view[i].name = name]

BeginCompare ==
    /\ command = "serve" /\ cli.name = "diff" /\ turn = 2
    /\ LET names == NamesIn(side_a) \cup NamesIn(View)
       IN paths' = InOrder(names, {p \in names \X names : Folder!NameBefore(p[1], p[2])})
    /\ command' = "compare"
    /\ SameSource /\ Quietly /\ UNCHANGED <<mode, side_a, verdicts, exported>>

(* Mutant: what has the same size and time is not hashed. *)
DiffersInHaste(a, b) == a.size # b.size \/ a.mtime # b.mtime

differs(a, b) ==
    CASE mode = "meta" -> a.size # b.size \/ a.mtime # b.mtime
      [] mode = "size" -> a.size # b.size
      [] mode = "hash" -> a.content # b.content

(* Both are read to be hashed, and again to be looked into. *)
IsRead(a, b) == mode = "hash" \/ (cli.inspect /\ differs(a, b))

Current == Head(paths)
InA == Current \in NamesIn(side_a)
InB == Current \in NamesIn(View)
Both == InA /\ InB
Readable(a, b) == IsRead(a, b) => a.reads /\ b.reads

Verdict ==
    CASE InA /\ ~InB -> "removed"
      [] InB /\ ~InA -> "added"
      [] Both -> IF differs(Get(side_a, Current), Get(View, Current)) THEN "modified" ELSE "unchanged"

ComparePath ==
    /\ command = "compare" /\ paths # <<>>
    /\ Both => Readable(Get(side_a, Current), Get(View, Current))
    /\ verdicts' = Append(verdicts, [path |-> Current, change |-> Verdict,
                                     inside |-> cli.inspect /\ Verdict = "modified"])
    /\ paths' = Tail(paths)
    /\ UNCHANGED command /\ SameSource /\ Quietly /\ UNCHANGED <<mode, side_a, exported>>

(* One file that cannot be read ends the comparison, and nothing is reported. *)
CompareFails ==
    /\ command = "compare" /\ paths # <<>>
    /\ Both /\ ~Readable(Get(side_a, Current), Get(View, Current))
    /\ Fails /\ Quietly /\ UNCHANGED diffVars

EmitDiff ==
    /\ command = "compare" /\ paths = <<>>
    /\ written' = Append(written, [what |-> "results", holds |-> Out!write_diff(verdicts, cli.format)])
    /\ Say([what |-> "verdicts", counts |-> Out!counts(verdicts)])
    /\ command' = IF cli.sink THEN "changes" ELSE "done"
    /\ SameSource /\ Report /\ UNCHANGED diffVars

EmitDiffFails ==
    /\ command = "compare" /\ paths = <<>>
    /\ Fails /\ Quietly /\ UNCHANGED diffVars

-----------------------------------------------------------------------------
(* export_changes() *)

Changed == {verdicts[k].path : k \in {j \in DOMAIN verdicts : verdicts[j].change \in {"added", "modified"}}}

(* A HashMap over all the entries of B: the last of a name stays. *)
by_path(name) == View[Max({i \in DOMAIN View : View[i].name = name})]

Files == {by_path(n) : n \in Changed}

(* write_one(): a file whose path would be too long is neither read nor written;
   beside each of the others go its sidecars, changed or not, where B has them. *)
TooLong == {e \in Files : e.name \in cli.too_long}
Beside(files) ==
    {by_path(n) : n \in (UNION {e.sidecars : e \in files}) \cap {View[i].name : i \in DOMAIN View}}
Sent == (Files \ TooLong) \cup Beside(Files \ TooLong)

Contents(files) == {[path |-> e.name, content |-> e.content] : e \in files}

(* Every file passed over is named, and the command ends well all the same. *)
ExportChanges ==
    /\ command = "changes" /\ ~OverCap(Files)
    /\ \A e \in Sent : e.reads
    /\ exported' = Contents(Sent)
    /\ written' = Append(written, [what |-> "export"])
    /\ said' = IF TooLong = {} THEN said
               ELSE Append(said, [what |-> "too long", paths |-> {e.name : e \in TooLong}])
    /\ command' = "done"
    /\ SameSource /\ Report /\ UNCHANGED <<mode, side_a, paths, verdicts>>

(* Refused as a whole, which is said and is no error. *)
ExportRefused ==
    /\ command = "changes" /\ OverCap(Files)
    /\ Say([what |-> "refused"])
    /\ command' = "done"
    /\ SameSource /\ Report /\ UNCHANGED <<diffVars, written>>

(* A file cannot be read or written. *)
ExportChangesFails ==
    /\ command = "changes" /\ ~OverCap(Files)
    /\ Fails /\ Quietly /\ UNCHANGED diffVars

DiffNext ==
    \/ RejectUnsupported \/ OpenSides \/ SideRefused \/ KeepSideA
    \/ BeginCompare \/ ComparePath \/ CompareFails \/ EmitDiff \/ EmitDiffFails
    \/ ExportChanges \/ ExportRefused \/ ExportChangesFails

=============================================================================
