---------------------------- MODULE ObjectPaths -----------------------------
(***************************************************************************)
(* Where a byte of a binary property list stands: the object that owns it, *)
(* and the key path found to that object by a walk from the root, or, in   *)
(* an NSKeyedArchiver archive, by a walk along the UIDs of its $objects.   *)
(* Both walks are recursive functions; here each keeps its stack.          *)
(*                                                                         *)
(* Objects, and the places in $objects, are counted from 1.  An object is  *)
(* decoded already; what cannot be decoded is a scalar.                    *)
(***************************************************************************)
EXTENDS Naturals, Sequences, SequencesExt, FiniteSets

CONSTANTS
    Bplists,        \* see BplistAssumption
    Absent,         \* None
    Index(_),       \* the segment "[i]"
    Unnamed(_),     \* the segment "#k", for a key that is no string
    MAX_WALK_DEPTH, \* how deep either walk descends
    MAX_NK_DEPTH

Kinds == {"dict", "array", "string", "uid", "scalar"}

ASSUME BplistAssumption ==
    /\ Absent \notin Nat /\ MAX_WALK_DEPTH \in Nat /\ MAX_NK_DEPTH \in Nat
    /\ \A b \in Bplists :
          /\ b.count \in Nat              \* num_objects, as the trailer claims it
          /\ b.fit \in Nat                \* entries the offset table has room for
          /\ b.top \in Nat /\ b.table \in Nat
          /\ b.objects \in Seq(Range(b.objects)) /\ Len(b.objects) = b.fit
          /\ \A n \in DOMAIN b.objects :
                /\ b.objects[n].kind \in Kinds
                /\ b.objects[n].start \in Nat
                /\ b.objects[n].keys \in Seq(Nat) /\ b.objects[n].kids \in Seq(Nat)
                /\ b.objects[n].uid \in Nat

VARIABLES
    list,    \* the file, or the blob, that is looked into
    offset,  \* of the match
    stage,   \* "idle", "parse", "tops", "logical", "root", "plain" or "told"
    target,  \* the object that owns the byte
    entry,   \* the entry of $top whose objects are walked
    frames,  \* the calls of the walk: [oid, at], `at` the child it is at
    path,    \* the segments to the object on top
    visited, \* objects
    told     \* the answer

listVars == <<list, offset>>
walkVars == <<frames, path, visited>>
pathVars == <<listVars, stage, target, entry, walkVars, told>>

-----------------------------------------------------------------------------
(* Objects *)

Scalar == [kind |-> "scalar", start |-> 0, text |-> Absent, uid |-> 0, keys |-> <<>>, kids |-> <<>>]

Obj(oid) == IF oid \in 1 .. list.count THEN list.objects[oid] ELSE Scalar

IsKind(oid, kind) == Obj(oid).kind = kind

string_value(oid) == IF IsKind(oid, "string") THEN Obj(oid).text ELSE Absent
uid_value(oid) == IF IsKind(oid, "uid") THEN Obj(oid).uid ELSE Absent

(* The pairs of a dictionary whose key is that string. *)
Named(oid, name) == {i \in DOMAIN Obj(oid).keys : IsKind(oid, "dict") /\ string_value(Obj(oid).keys[i]) = name}

(* The loops over the pairs keep the last of that name. *)
Field(oid, name) ==
    IF Named(oid, name) = {} THEN Absent
    ELSE Obj(oid).kids[CHOOSE i \in Named(oid, name) : \A j \in Named(oid, name) : j <= i]

Parses == list.count <= list.fit /\ list.top \in 1 .. list.count

(* The object with the largest start that is not behind the byte; of two with
   one start, the later. *)
object_at_offset ==
    LET Before(o) == list.objects[o].start <= offset
        Later(o, p) == \/ list.objects[o].start > list.objects[p].start
                       \/ list.objects[o].start = list.objects[p].start /\ o >= p
    IN  IF \A o \in 1 .. list.count : ~Before(o) THEN Absent
        ELSE CHOOSE o \in 1 .. list.count : Before(o) /\ \A p \in 1 .. list.count : Before(p) => Later(o, p)

-----------------------------------------------------------------------------
(* Archives *)

Tops == Obj(Field(list.top, "$top"))
Objects == Obj(Field(list.top, "$objects")).kids

AllStrings(oid) == \A i \in DOMAIN Obj(oid).keys : string_value(Obj(oid).keys[i]) # Absent

(* NskeyedCtx::build() *)
IsArchive ==
    /\ IsKind(list.top, "dict") /\ AllStrings(list.top)
    /\ string_value(Field(list.top, "$archiver")) = "NSKeyedArchiver"
    /\ IsKind(Field(list.top, "$objects"), "array")
    /\ IsKind(Field(list.top, "$top"), "dict") /\ AllStrings(Field(list.top, "$top"))
    /\ \A i \in DOMAIN Tops.kids : IsKind(Tops.kids[i], "uid")

oid_for_uid(uid) == IF uid \in DOMAIN Objects THEN Objects[uid] ELSE Absent

(* The object a reference of NS.keys or NS.objects stands for. *)
Deref(oid) == oid_for_uid(uid_value(oid))

IsNsDictionary(oid) == IsKind(Field(oid, "NS.keys"), "array") /\ IsKind(Field(oid, "NS.objects"), "array")
IsNsArray(oid) == Named(oid, "NS.keys") = {} /\ IsKind(Field(oid, "NS.objects"), "array")

Name(oid, key) == IF string_value(oid) = Absent THEN Unnamed(key) ELSE string_value(oid)

(* What lies one segment below an object: `key` is the object of its name. *)
NsDictionary(oid) ==
    LET ks == Obj(Field(oid, "NS.keys")).kids
        vs == Obj(Field(oid, "NS.objects")).kids
    IN  [i \in DOMAIN ks \cap DOMAIN vs |->
            [key |-> Deref(ks[i]), seg |-> Name(Deref(ks[i]), ks[i]), child |-> Deref(vs[i])]]
Array(kids) == [i \in DOMAIN kids |-> [key |-> Absent, seg |-> Index(i - 1), child |-> kids[i]]]
NsArray(oid) ==
    LET refs == Obj(Field(oid, "NS.objects")).kids IN Array([i \in DOMAIN refs |-> Deref(refs[i])])
Dict(oid) ==
    [i \in DOMAIN Obj(oid).keys |->
        [key |-> Obj(oid).keys[i], seg |-> Name(Obj(oid).keys[i], Obj(oid).keys[i]), child |-> Obj(oid).kids[i]]]

LogicalEdges[oid \in Nat \cup {Absent}] ==
    IF IsNsDictionary(oid) THEN NsDictionary(oid)
    ELSE IF IsNsArray(oid) THEN NsArray(oid)
    ELSE <<>>
PlainEdges[oid \in Nat \cup {Absent}] ==
    IF IsKind(oid, "dict") THEN Dict(oid)
    ELSE IF IsKind(oid, "array") THEN Array(Obj(oid).kids)
    ELSE <<>>

(* A scalar that its Foundation object holds itself, without a UID. *)
Wraps(oid, inner) ==
    /\ ~IsNsDictionary(oid) /\ ~IsNsArray(oid)
    /\ \E name \in {"NS.string", "NS.data", "NS.value"} : \E i \in Named(oid, name) : Obj(oid).kids[i] = inner

Call(oid) == [oid |-> oid, at |-> 1]

-----------------------------------------------------------------------------
(* The beginning *)

Unplaced == [what |-> "none"]

(* `trail` is a history field: the objects the path runs through. *)
Place(what, segments, oids) == [what |-> what, path |-> segments, trail |-> oids]

Tell(answer) ==
    /\ told' = answer
    /\ stage' = "told"
    /\ UNCHANGED <<listVars, target, entry, walkVars>>

ParseFails ==
    /\ stage = "parse" /\ ~Parses
    /\ Tell(Unplaced)

(* A byte of the offset table or of the trailer, or one before every object. *)
TellRegion ==
    /\ stage = "parse" /\ Parses
    /\ \/ offset >= list.table /\ Tell([what |-> "table"])
       \/ offset < list.table /\ object_at_offset = Absent /\ Tell(Unplaced)

BeginWalk ==
    /\ stage = "parse" /\ Parses
    /\ offset < list.table /\ object_at_offset # Absent
    /\ target' = object_at_offset
    /\ stage' = IF IsArchive THEN "tops" ELSE "root"
    /\ UNCHANGED <<listVars, entry, walkVars, told>>

(* What an entry of $top stands for. *)
TopObject == Deref(Tops.kids[entry])
TopPath == <<string_value(Tops.keys[entry])>>

AtTop == stage = "tops" /\ entry \in DOMAIN Tops.keys

TellTop ==
    /\ AtTop /\ TopObject = target
    /\ Tell(Place("archive", TopPath, <<TopObject>>))

(* The `?` of oid_for_uid() ends find_path(), whatever the other entries hold. *)
DanglingTop ==
    /\ AtTop /\ TopObject = Absent
    /\ stage' = "root"
    /\ UNCHANGED <<listVars, target, entry, walkVars, told>>

WalkTop ==
    /\ AtTop /\ TopObject \notin {Absent, target}
    /\ IF TopObject \in visited
       THEN /\ entry' = entry + 1
            /\ UNCHANGED <<stage, walkVars>>
       ELSE /\ frames' = <<Call(TopObject)>>
            /\ path' = TopPath
            /\ visited' = visited \cup {TopObject}
            /\ stage' = "logical"
            /\ UNCHANGED entry
    /\ UNCHANGED <<listVars, target, told>>

NoMoreTops ==
    /\ stage = "tops" /\ entry \notin DOMAIN Tops.keys
    /\ stage' = "root"
    /\ UNCHANGED <<listVars, target, entry, walkVars, told>>

(* path_to() has a set of visited objects of its own. *)
EnterRoot ==
    /\ stage = "root" /\ list.top # target
    /\ frames' = <<Call(list.top)>>
    /\ path' = <<>>
    /\ visited' = {list.top}
    /\ stage' = "plain"
    /\ UNCHANGED <<listVars, target, entry, told>>

TellRoot ==
    /\ stage = "root" /\ list.top = target
    /\ Tell(Place("key", <<>>, <<list.top>>))

-----------------------------------------------------------------------------
(* The walks *)

Current == Last(frames)
Edges == IF stage = "logical" THEN LogicalEdges[Current.oid] ELSE PlainEdges[Current.oid]
Walking == stage \in {"logical", "plain"}
AtChild == Walking /\ Current.at \in DOMAIN Edges
Edge == Edges[Current.at]

(* A call for the child would be as deep as there are frames. *)
TooDeep == Len(frames) > (IF stage = "logical" THEN MAX_NK_DEPTH ELSE MAX_WALK_DEPTH)

KeyHit == Edge.key = target
(* walk() looks at the depth first, walk_logical() compares before the call. *)
ChildHit == Edge.child = target /\ (stage = "plain" => ~TooDeep)

Answer(segments) ==
    Place(IF stage = "logical" THEN "archive" ELSE "key", segments, [n \in DOMAIN frames |-> frames[n].oid])

TellKey == AtChild /\ KeyHit /\ Tell(Answer(Append(path, Edge.seg)))

TellChild == AtChild /\ ~KeyHit /\ ChildHit /\ Tell(Answer(Append(path, Edge.seg)))

Skipped == Edge.child = Absent \/ TooDeep \/ Edge.child \in visited

Advance(stack) == [stack EXCEPT ![Len(stack)].at = @ + 1]

(* A reference that leads nowhere, an object met before, the depth. *)
SkipChild ==
    /\ AtChild /\ ~KeyHit /\ ~ChildHit /\ Skipped
    /\ frames' = Advance(frames)
    /\ UNCHANGED <<listVars, stage, target, entry, path, visited, told>>

Descend ==
    /\ AtChild /\ ~KeyHit /\ ~ChildHit /\ ~Skipped
    /\ frames' = Append(frames, Call(Edge.child))
    /\ path' = Append(path, Edge.seg)
    /\ visited' = visited \cup {Edge.child}
    /\ UNCHANGED <<listVars, stage, target, entry, told>>

AtEnd == Walking /\ ~AtChild

(* The wrapper's path stands for the scalar inside. *)
TellWrapped == AtEnd /\ stage = "logical" /\ Wraps(Current.oid, target) /\ Tell(Answer(path))

(* Mutant of Return: the segment of the finished call stays. *)
ReturnKeepingPath ==
    /\ AtEnd /\ ~(stage = "logical" /\ Wraps(Current.oid, target))
    /\ Len(frames) > 1
    /\ frames' = Advance(Front(frames))
    /\ path' = path
    /\ UNCHANGED <<listVars, stage, target, entry, visited, told>>

Return ==
    /\ AtEnd /\ ~(stage = "logical" /\ Wraps(Current.oid, target))
    /\ Len(frames) > 1
    /\ frames' = Advance(Front(frames))
    /\ path' = Front(path)
    /\ UNCHANGED <<listVars, stage, target, entry, visited, told>>

(* Mutant of EndLogical: only the first entry of $top is walked. *)
EndLogicalOnly ==
    /\ AtEnd /\ stage = "logical" /\ ~Wraps(Current.oid, target)
    /\ Len(frames) = 1
    /\ frames' = <<>> /\ path' = <<>>
    /\ entry' = entry
    /\ stage' = "root"
    /\ UNCHANGED <<listVars, target, visited, told>>

(* The first call returns: on to the next entry of $top, what was visited there
   remembered. *)
EndLogical ==
    /\ AtEnd /\ stage = "logical" /\ ~Wraps(Current.oid, target)
    /\ Len(frames) = 1
    /\ frames' = <<>> /\ path' = <<>>
    /\ entry' = entry + 1
    /\ stage' = "tops"
    /\ UNCHANGED <<listVars, target, visited, told>>

(* Of an object that was not found the empty path is told, "$". *)
EndPlain ==
    /\ AtEnd /\ stage = "plain"
    /\ Len(frames) = 1
    /\ Tell(Place("key", <<>>, <<>>))

WalkNext ==
    \/ ParseFails \/ TellRegion \/ BeginWalk
    \/ TellTop \/ DanglingTop \/ WalkTop \/ NoMoreTops
    \/ EnterRoot \/ TellRoot
    \/ TellKey \/ TellChild \/ SkipChild \/ Descend \/ TellWrapped \/ Return
    \/ EndLogical \/ EndPlain

(* An inspection of the byte at `o` of the list `b`. *)
ListInit(b, o) ==
    /\ list = b /\ offset = o
    /\ stage = "parse" /\ target = Absent /\ entry = 1
    /\ frames = <<>> /\ path = <<>> /\ visited = {}
    /\ told = Unplaced

PathSpec == (\E b \in Bplists, o \in Nat : ListInit(b, o)) /\ [][WalkNext]_pathVars

-----------------------------------------------------------------------------
(* Properties *)

Placed == stage = "told" /\ told.what \in {"archive", "key"}

(* The segment runs from one object to the next. *)
Leads(edges, seg, child) == \E i \in DOMAIN edges : edges[i].seg = seg /\ edges[i].child = child

(* The object is below `oid` by that segment, or is the name of what is. *)
Below(edges, seg) ==
    \E i \in DOMAIN edges : edges[i].seg = seg /\ target \in {edges[i].child, edges[i].key}

(* A key path that is told leads, segment by segment, to the object that owns
   the byte, to the name it is stored under, or to the Foundation object that
   wraps it: from the root, or from the entry of $top that is its first segment.
   Only "$" may be told of an object that was not found. *)
KeyPathLeads ==
    Placed =>
        LET at == told.trail
            Down == IF told.what = "archive" THEN LogicalEdges ELSE PlainEdges
            named == IF told.what = "archive" THEN 1 ELSE 0  \* segments above at[1]
        IN  \/ told.what = "key" /\ at = <<>> /\ told.path = <<>>
            \/ /\ at # <<>>
               /\ IF told.what = "archive"
                  THEN \E i \in DOMAIN Tops.keys : /\ told.path[1] = string_value(Tops.keys[i])
                                                   /\ at[1] = Deref(Tops.kids[i])
                  ELSE at[1] = list.top
               /\ \A n \in 1 .. Len(at) - 1 : Leads(Down[at[n]], told.path[n + named], at[n + 1])
               /\ LET rest == Len(told.path) - (Len(at) - 1 + named) IN
                  \/ rest = 1 /\ Below(Down[Last(at)], Last(told.path))
                  \/ rest = 0 /\ (Last(at) = target \/ (told.what = "archive" /\ Wraps(Last(at), target)))

(* What is below a set of objects. *)
Reach(from, Down) ==
    LET step[n \in 0 .. list.count] ==
            IF n = 0 THEN from
            ELSE LET above == step[n - 1]
                 IN  above \cup UNION {{Down[oid][i].child : i \in DOMAIN Down[oid]} : oid \in above}
    IN  step[list.count]

Held(from, Down) ==
    LET under == Reach(from, Down)
    IN  under \cup UNION {{Down[oid][i].key : i \in DOMAIN Down[oid]} : oid \in under}

(* No way down is longer than the walk may go, whichever it takes. *)
Shallow(from, Down, depth) == Cardinality({oid \in Reach(from, Down) : Down[oid] # <<>>}) <= depth

(* Every object that hangs below the root is told its key path, and in an archive
   every object the archived graph holds its logical one: an object shared by two
   containers, a circle or a sibling that was tried first costs no object its
   place, as long as the depth caps are not in reach and every entry of $top leads
   somewhere. *)
EveryObjectFound ==
    stage = "told" /\ Parses /\ offset < list.table /\ target # Absent =>
        LET tops == {Deref(Tops.kids[i]) : i \in DOMAIN Tops.kids}
            graph == Reach(tops, LogicalEdges)
        IN  /\ (/\ IsArchive /\ Absent \notin tops /\ Shallow(tops, LogicalEdges, MAX_NK_DEPTH)
                /\ target \in Held(tops, LogicalEdges) \/ \E oid \in graph : Wraps(oid, target))
               => told.what = "archive"
            /\ target \in Held({list.top}, PlainEdges) /\ Shallow({list.top}, PlainEdges, MAX_WALK_DEPTH)
               => told.what = "archive" \/ (told.what = "key" /\ told.trail # <<>>)

=============================================================================
