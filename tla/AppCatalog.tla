----------------------------- MODULE AppCatalog -----------------------------
(***************************************************************************)
(* Where an application's data lie: AppCatalog::build() and                *)
(* containers_for() of ops/apps/catalog.rs with the resolvers ios_ffs.rs,  *)
(* ios_backup.rs and android.rs, the container metadata of                 *)
(* platform/ios/containers.rs and the entitlements of                      *)
(* platform/ios/references.rs.                                             *)
(*                                                                         *)
(* An identifier is a segment with one piece of text per dotted component. *)
(* The path /a/b begins with an empty segment, the path a/b does not.      *)
(***************************************************************************)
EXTENDS OutputPaths, FiniteSetsExt

CONSTANTS
    Words,        \* the names the program looks for in paths
    Word,         \* and the piece of text each of them is
    Number,       \* pieces of text that are all digits
    Common,       \* stopwords and fragments too short to tell a vendor
    Metadata,     \* the contents that parse as container metadata, and what they say
    References,   \* the contents that parse as MCM databases, and their records
    Directory,    \* the content of a directory entry
    Acquisitions, \* what may be opened
    Identifiers   \* what may be asked for

NoParent == <<>>

ASSUME WordAssumption ==
    /\ Word \in [Words -> Char]
    /\ \A v, w \in Words : Word[v] = Word[w] => v = w
    /\ Number \subseteq Char
    /\ Common \subseteq Char

VARIABLES
    acquisition, \* the source, and what its device held (for the properties)
    id,          \* the application asked for
    with_groups, \* not --no-groups
    stage,       \* "none" (no catalogue), or what is done next
    platform,    \* as detected
    containers,  \* as resolved
    at,          \* the entry the resolver is at
    tally,       \* files and bytes charged to each container
    records,     \* the signing records of MobileContainerManager
    unread,      \* the entries that could not be read
    selection    \* the containers of the application

catalogVars == <<acquisition, id, with_groups, stage, platform, containers, at, tally, records,
                 unread, selection>>

entries == acquisition.entries

-----------------------------------------------------------------------------
(* Shapes of paths *)

Named(w) == <<Word[w]>>
IsDirectory(e) == e.body = Directory

(* name.contains("/a/b/"): something stands before and behind. *)
PassesThrough(path, words) ==
    \E i \in 2 .. Len(path) - Len(words) :
        \A k \in DOMAIN words : path[i + k - 1] = Named(words[k])

(* AppDomain-<id> and the like. *)
Domains == [AppDomain |-> "AppData", AppDomainPlugin |-> "Extension",
            AppDomainGroup |-> "AppGroup", SysSharedContainerDomain |-> "AppGroup"]

AppDomain(segment, w) == segment # <<>> /\ Head(segment) = Word[w]
IsAppScoped(path) == \E w \in DOMAIN Domains : AppDomain(Head(path), w)

(* The storage roots of Android; "#" is the number of a user. *)
Mounts == {<<"sdcard">>, <<"storage", "emulated", "#">>, <<"data", "media", "#">>}
Stores == [data |-> "external_data", obb |-> "obb", media |-> "media"]

AndroidRoots ==
    {[root |-> <<"data", "data">>, kind |-> "data"],
     [root |-> <<"data", "user", "#">>, kind |-> "data"],
     [root |-> <<"data", "user_de", "#">>, kind |-> "user_de"]}
    \cup {[root |-> mount \o <<"Android", dir>>, kind |-> Stores[dir]] :
             mount \in Mounts, dir \in DOMAIN Stores}

Fits(segment, w) ==
    IF w = "#" THEN Len(segment) = 1 /\ segment[1] \in Number ELSE segment = Named(w)

IsAbsolute(path) == path[1] = <<>>
Relative(path) == IF IsAbsolute(path) THEN Tail(path) ELSE path

match_root(body) ==
    {r \in AndroidRoots : /\ Len(r.root) < Len(body)
                          /\ \A k \in DOMAIN r.root : Fits(body[k], r.root[k])}

-----------------------------------------------------------------------------
(* What a container is *)

Container(identifier, kind, prefix, guid, parent) ==
    [id |-> identifier, kind |-> kind, prefix |-> prefix, guid |-> guid, parent |-> parent,
     link |-> "none"]

NoGuid == <<>>

(* By the root it lies under; the directory is named by its GUID. *)
classify(dir) ==
    IF PassesThrough(dir, <<"PluginKitPlugin">>) THEN "Extension"
    ELSE IF PassesThrough(dir, <<"AppGroup">>) THEN "AppGroup"
    ELSE IF PassesThrough(dir, <<"Bundle", "Application">>) THEN "Bundle"
    ELSE "AppData"

IosContainer(dir, meta) ==
    Container(meta.identifier, classify(dir), dir, <<Head(Last(dir))>>, meta.parent)

(* The package stands behind the root, and has a dot. *)
AndroidContainers(path) ==
    {Container(Relative(path)[Len(r.root) + 1], r.kind,
               SubSeq(path, 1, Len(r.root) + 1 + (IF IsAbsolute(path) THEN 1 ELSE 0)),
               NoGuid, NoParent) :
        r \in {r \in match_root(Relative(path)) : Len(Relative(path)[Len(r.root) + 1]) > 1}}

BackupContainers(path) ==
    {Container(Tail(Head(path)), Domains[w], <<Head(path)>>, NoGuid, NoParent) :
        w \in {w \in DOMAIN Domains : AppDomain(Head(path), w)}}

Places == {containers[k].prefix : k \in DOMAIN containers}

-----------------------------------------------------------------------------
(* Which containers are the application's *)

(* Mutant of is_app_or_extension: the name alone decides. *)
is_named_below(c) ==
    \/ c.kind \notin {"Extension", "AppGroup"} /\ c.id = id
    \/ c.kind = "Extension" /\ IsPrefix(id, c.id)

(* A declared parent wins over the shape of the name. *)
is_app_or_extension(c) ==
    \/ c.kind \notin {"Extension", "AppGroup"} /\ c.id = id
    \/ c.kind = "Extension" /\ c.parent # NoParent /\ c.parent = id
    \/ c.kind = "Extension" /\ c.parent = NoParent /\ IsPrefix(id, c.id)

Lowered(segment) == ToSet(LowerSegment(segment))
vendor_tokens == Lowered(id) \ Common

(* What the entitlements say, and only if they say nothing, the names. *)
Entitled == id \in DOMAIN records /\ records[id].recorded

GroupLinks ==
    IF Entitled
    THEN [groups |-> records[id].groups, link |-> "ContainerManager"]
    ELSE [groups |-> {containers[k].id : k \in {k \in DOMAIN containers :
                                           Lowered(containers[k].id) \cap vendor_tokens # {}}},
          link |-> "VendorHeuristic"]

IsGroup(c) == c.kind = "AppGroup" /\ c.id \in GroupLinks.groups

containers_for ==
    LET own    == SelectSeq(containers, is_app_or_extension)
        groups == IF with_groups THEN SelectSeq(containers, IsGroup) ELSE <<>>
    IN  own \o [k \in DOMAIN groups |-> [groups[k] EXCEPT !.link = GroupLinks.link]]

(* The folder of a container in the exported tree. *)
export_label(c) ==
    CASE platform = "IosBackup" -> c.prefix
      [] platform = "Android"   -> <<c.id, Named(c.kind)>>
      [] c.kind = "AppGroup"    -> <<c.id, Named(c.kind) \o c.guid>>
      [] OTHER                  -> <<id, Named(c.kind) \o c.guid>>

-----------------------------------------------------------------------------

CatalogInit ==
    /\ acquisition \in Acquisitions
    /\ id \in Identifiers
    /\ with_groups \in BOOLEAN
    /\ stage = "detect"
    /\ platform = "Unknown"
    /\ containers = <<>>
    /\ at = 1
    /\ tally = <<>>
    /\ records = <<>>
    /\ unread = {}
    /\ selection = <<>>

(* The layout with the strongest signal, the earlier of equals. *)
Signals(P(_)) == Cardinality({k \in DOMAIN entries : P(entries[k].path)})

IsFfs(path) == PassesThrough(path, <<"Containers", "Data">>) \/ PassesThrough(path, <<"Containers", "Bundle">>)
IsBackup(path) == ~IsFfs(path) /\ IsAppScoped(path)
IsAndroid(path) == PassesThrough(path, <<"data", "data">>) \/ PassesThrough(path, <<"data", "user">>)

detect ==
    LET ffs     == Signals(IsFfs)
        backup  == Signals(IsBackup)
        android == Signals(IsAndroid)
        most    == Max({ffs, backup, android})
    IN  IF most = 0 THEN "Unknown"
        ELSE IF most = ffs THEN "IosFfs"
        ELSE IF most = backup THEN "IosBackup"
        ELSE "Android"

Detect ==
    /\ stage = "detect"
    /\ platform' = detect
    /\ stage' = "resolve"
    /\ UNCHANGED <<acquisition, id, with_groups, containers, at, tally, records, unread, selection>>

Resolving == stage = "resolve" /\ at <= Len(entries)

(* iOS: read a container's metadata; a directory seen again is overwritten. *)
IsMetadata(e) == Len(e.path) > 1 /\ Last(e.path) = Named("metadata.plist")

Inserted(c) ==
    IF c.prefix \in Places
    THEN [k \in DOMAIN containers |-> IF containers[k].prefix = c.prefix THEN c ELSE containers[k]]
    ELSE Append(containers, c)

ReadMetadata ==
    LET e == entries[at]
    IN  /\ Resolving
        /\ platform = "IosFfs"
        /\ IsMetadata(e)
        /\ containers' = IF e.body \in DOMAIN Metadata
                         THEN Inserted(IosContainer(Front(e.path), Metadata[e.body]))
                         ELSE containers
        /\ at' = at + 1
        /\ UNCHANGED <<acquisition, id, with_groups, stage, platform, tally, records, unread, selection>>

(* A metadata file that cannot be read loses its container, without a word. *)
FailMetadata ==
    /\ Resolving
    /\ platform = "IosFfs"
    /\ IsMetadata(entries[at])
    /\ unread' = unread \cup {at}
    /\ at' = at + 1
    /\ UNCHANGED <<acquisition, id, with_groups, stage, platform, containers, tally, records, selection>>

(* Android and backups: each place once, from the path alone. *)
ByPath(path) ==
    CASE platform = "Android"   -> AndroidContainers(path)
      [] platform = "IosBackup" -> BackupContainers(path)
      [] OTHER                  -> {}

ResolvePath ==
    LET found == {c \in ByPath(entries[at].path) : c.prefix \notin Places}
    IN  /\ Resolving
        /\ ~(platform = "IosFfs" /\ IsMetadata(entries[at]))
        /\ containers' = containers \o SetToSeq(found)
        /\ at' = at + 1
        /\ UNCHANGED <<acquisition, id, with_groups, stage, platform, tally, records, unread, selection>>

(* The containers of an FFS come out of a hash map, in any order. *)
Orders(list) == {[k \in DOMAIN list |-> list[p[k]]] : p \in SetToSeqs(DOMAIN list)}

FinishResolve ==
    /\ stage = "resolve"
    /\ at > Len(entries)
    /\ containers' \in (IF platform = "IosFfs" THEN Orders(containers) ELSE {containers})
    /\ stage' = "tally"
    /\ UNCHANGED <<acquisition, id, with_groups, platform, at, tally, records, unread, selection>>

(* longest_container(): from the parent directory upwards. *)
Ancestors(path) == {n \in 1 .. Len(path) - 1 : SubSeq(path, 1, n) \in Places}

(* Mutant of ChargedTo: the outermost container pays. *)
ChargedToOutermost(c, e) ==
    /\ ~IsDirectory(e)
    /\ Ancestors(e.path) # {}
    /\ c.prefix = SubSeq(e.path, 1, Min(Ancestors(e.path)))

ChargedTo(c, e) ==
    /\ ~IsDirectory(e)
    /\ Ancestors(e.path) # {}
    /\ c.prefix = SubSeq(e.path, 1, Max(Ancestors(e.path)))

Charge(c) == {k \in DOMAIN entries : ChargedTo(c, entries[k])}
SizeOf(ks) == MapThenSumSet(LAMBDA k : entries[k].size, ks)

Tally ==
    /\ stage = "tally"
    /\ tally' = [k \in DOMAIN containers |->
                    [file_count |-> Cardinality(Charge(containers[k])),
                     total_size |-> SizeOf(Charge(containers[k]))]]
    /\ stage' = "references"
    /\ UNCHANGED <<acquisition, id, with_groups, platform, containers, at, records, unread, selection>>

(* The first database of that name, and the log beside it. *)
DbPath == <<Named("Library"), Named("MobileContainerManager"), Named("references.sqlite3")>>
IsDatabase(e) == ~IsDirectory(e) /\ IsSuffix(DbPath, e.path)
Database == SelectInSeq(entries, IsDatabase)
WalName == Append(Front(entries[Database].path), Named("references.sqlite3") \o Named("-wal"))
Log == SelectInSeq(entries, LAMBDA e : e.path = WalName)

(* parse_records(): an unreadable database leaves no records. *)
parse_records(body) == IF body \in DOMAIN References THEN References[body] ELSE <<>>

(* Mutant of Replayable: the database without its log. *)
ReplayableNever == FALSE

(* The log's content stands for the image that its replay gives. *)
Replayable == Log # 0 /\ entries[Log].body \in DOMAIN References

NoDatabase == platform # "IosFfs" \/ Database = 0

ReadReferences ==
    /\ stage = "references"
    /\ records' = IF NoDatabase THEN <<>>
                  ELSE parse_records(entries[IF Replayable THEN Log ELSE Database].body)
    /\ stage' = "select"
    /\ UNCHANGED <<acquisition, id, with_groups, platform, containers, at, tally, unread, selection>>

(* Reading the database fails, or reading its log: the main image is used. *)
FailDatabase ==
    /\ stage = "references"
    /\ ~NoDatabase
    /\ records' = <<>>
    /\ unread' = unread \cup {Database}
    /\ stage' = "select"
    /\ UNCHANGED <<acquisition, id, with_groups, platform, containers, at, tally, selection>>

FailLog ==
    /\ stage = "references"
    /\ ~NoDatabase
    /\ Log # 0
    /\ records' = parse_records(entries[Database].body)
    /\ unread' = unread \cup {Log}
    /\ stage' = "select"
    /\ UNCHANGED <<acquisition, id, with_groups, platform, containers, at, tally, selection>>

(* The installed binary is not data; without containers the export ends. *)
Select ==
    /\ stage = "select"
    /\ selection' = SelectSeq(containers_for, LAMBDA c : c.kind # "Bundle")
    /\ stage' = IF selection' = <<>> THEN "refused" ELSE "selected"
    /\ UNCHANGED <<acquisition, id, with_groups, platform, containers, at, tally, records, unread>>

CatalogNext ==
    \/ Detect
    \/ ReadMetadata
    \/ FailMetadata
    \/ ResolvePath
    \/ FinishResolve
    \/ Tally
    \/ ReadReferences
    \/ FailDatabase
    \/ FailLog
    \/ Select

=============================================================================
