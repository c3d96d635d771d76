---------------------------- MODULE MCAppExport -----------------------------
(***************************************************************************)
(* Plans without a catalogue: up to MaxFiles entries, in any order and     *)
(* with repetitions (an archive may hold a name twice), out of paths       *)
(* chosen so that destinations meet in every way they can.  Plans with     *)
(* one: small acquisitions of every layout, on which an application has a  *)
(* namesake, extensions declared and not, groups granted and not, a        *)
(* container inside another, several users.                                *)
(***************************************************************************)
EXTENDS AppExport

CONSTANTS A, a, c, colon, us, dot, unnamed, dev, lib,   \* characters
          Bytes,                                        \* the content of a file
          Corrupt,                                      \* and of a damaged one
          MaxFiles

(* Pieces of text are one-element tuples. *)
Text(w) == <<w>>

MCWords == {"Containers", "Data", "Application", "PluginKitPlugin", "Shared", "AppGroup", "Bundle",
            "metadata.plist", "Library", "MobileContainerManager", "references.sqlite3", "-wal",
            "AppDomain", "AppDomainPlugin", "AppDomainGroup", "SysSharedContainerDomain",
            "data", "user", "user_de", "sdcard", "Android", "storage", "emulated", "media", "obb",
            "external_data", "AppData", "Extension"}
MCWord == [w \in MCWords |-> Text(w)]

Others == {"com", "acme", "chat", "geo", "ext", "group", "family", "HomeDomain", "mobile", "f",
           "g1", "g2", "g3", "g4", "0", "10"}

MCChar == {A, a, c, colon, us, dot, unnamed, dev, lib} \cup {Text(w) : w \in MCWords \cup Others}
MCLower == [ch \in MCChar |-> IF ch = A THEN a ELSE IF ch = Text("Data") THEN Text("data") ELSE ch]
MCNumber == {Text("0"), Text("10")}
MCCommon == {Text("com")}

Seg(words) == [k \in DOMAIN words |-> Text(words[k])]
At(words) == [k \in DOMAIN words |-> Seg(<<words[k]>>)]

-----------------------------------------------------------------------------
(* Two domains whose roots overlap: /dev/lib/a and /c/a both land on
   <<dev, lib, a>>. *)
OverlappingRoots ==
    << [prefix |-> <<<<dev>>>>, label |-> <<<<dev>>>>],
       [prefix |-> <<<<c>>>>, label |-> <<<<dev>>, <<lib>>>>],
       [prefix |-> <<<<dev>>, <<lib>>>>, label |-> <<<<dot>>, <<dev>>, <<lib>>>>] >>
MCRootLists == {OverlappingRoots}

PlanPaths == { <<<<dev>>, <<lib>>, <<a>>>>,               \* a
               <<<<c>>, <<A>>>>,                          \* A, same place but for case
               <<<<c>>, <<a, dot>>>>,                     \* "a.", trimmed to a
               <<<<c>>, <<a, <<"~", 1>>>>>>,              \* a file really called a~1
               <<<<c>>, <<c, colon>>>>,                   \* c: becomes c_
               <<<<dev>>, <<lib>>, <<c, us>>>>,           \* c_
               <<<<us>>, <<a>>>> }                        \* under no root

(* Two entries of an archive have two starts, except where none is known. *)
PlanEntries == [path : PlanPaths, start : {0, 7}, size : {1}, body : {Bytes}]

MCFileLists ==
    UNION {[1 .. n -> {e \in PlanEntries : e.start = 7 => Len(e.path) = 2}] : n \in 1 .. MaxFiles}

-----------------------------------------------------------------------------
(* Applications *)
chat == Seg(<<"com", "acme", "chat">>)
chatExt == Seg(<<"com", "acme", "chat", "ext">>)
geo == Seg(<<"com", "acme", "chat", "geo">>)           \* not a part of chat
geoExt == Seg(<<"com", "acme", "chat", "geo", "ext">>)
acmeGroup == Seg(<<"group", "acme">>)
familyGroup == Seg(<<"group", "family">>)              \* shares no word with chat

MCIdentifiers == {chat, geo}

File(path, body, size) == [path |-> path, start |-> 0, size |-> size, body |-> body]
Plain(path, size) == File(path, Bytes, size)
Meta(identifier, parent) == [identifier |-> identifier, parent |-> parent]

MCMetadata ==
    [chat_plist    |-> Meta(chat, NoParent),
     geo_plist     |-> Meta(geo, NoParent),
     widget_plist  |-> Meta(chatExt, NoParent),
     child_plist   |-> Meta(chatExt, chat),
     geoext_plist  |-> Meta(geoExt, geo),
     acme_plist    |-> Meta(acmeGroup, NoParent),
     family_plist  |-> Meta(familyGroup, NoParent)]

Granted(groups) == [recorded |-> TRUE, groups |-> groups]
Placeholder == [recorded |-> FALSE, groups |-> {}]

(* The log of the first replaces the placeholder in its main file. *)
MCReferences ==
    [before |-> (chat :> Placeholder) @@ (geo :> Granted({acmeGroup})),
     after  |-> (chat :> Granted({familyGroup})) @@ (geo :> Granted({acmeGroup})),
     barred |-> (chat :> Granted({})) @@ (geo :> Granted({acmeGroup}))]

MCBody == {Bytes, Corrupt, Directory} \cup DOMAIN MCMetadata \cup DOMAIN MCReferences

Acquisition(list, held, candid) == [entries |-> list, holds |-> held, candid |-> candid]
Has(own, groups) == [own |-> own, groups |-> groups]
PathsOf(list) == {list[k].path : k \in DOMAIN list}

(* iOS file systems. *)
Place(kind, guid) == At(<<"mobile", "Containers">> \o kind \o <<guid>>)
Data(guid) == Place(<<"Data", "Application">>, guid)
Plugin(guid) == Place(<<"Data", "PluginKitPlugin">>, guid)
Group(guid) == Place(<<"Shared", "AppGroup">>, guid)
Installed(guid) == Place(<<"Bundle", "Application">>, guid)

(* A container: its metadata, and a file two directories down. *)
Filled(dir, meta, size) ==
    <<File(dir \o At(<<"metadata.plist">>), meta, 1), Plain(dir \o At(<<"Library", "f">>), size)>>

Stray == <<Plain(At(<<"mobile", "data", "data", "f">>), 1), File(At(<<"mobile", "Data">>) \o <<<<>>>>, Directory, 0)>>

OfChat == Filled(Data("g1"), "chat_plist", 2)
OfGeo == Filled(Data("g2"), "geo_plist", 3)
ChatWidget == Filled(Plugin("g3"), "widget_plist", 4)
GeoWidget == Filled(Plugin("g4"), "geoext_plist", 5)

Namesakes ==
    Acquisition(OfChat \o GeoWidget \o Stray \o OfGeo \o ChatWidget,
                (chat :> Has(PathsOf(OfChat \o ChatWidget), {})) @@
                (geo :> Has(PathsOf(OfGeo \o GeoWidget), {})), TRUE)

AcmeShare == Filled(Group("g2"), "acme_plist", 3)
FamilyShare == Filled(Group("g3"), "family_plist", 4)
Binary == Filled(Installed("g4"), "chat_plist", 9)
Mcm == At(<<"mobile", "Library", "MobileContainerManager">>)
Main(body) == <<File(Append(Mcm, Seg(<<"references.sqlite3">>)), body, 1)>>
Wal(body) == <<File(Append(Mcm, Seg(<<"references.sqlite3", "-wal">>)), body, 1)>>

Sharing(db, granted, candid) ==
    Acquisition(OfChat \o AcmeShare \o db \o Binary \o FamilyShare,
                (chat :> Has(PathsOf(OfChat), granted)) @@
                (geo :> Has({}, PathsOf(AcmeShare))), candid)

(* One container lies inside another's directory. *)
Inner == Data("g1") \o At(<<"Library", "PluginKitPlugin", "g3">>)
NestedWidget == Filled(Inner, "child_plist", 4)
Nested ==
    Acquisition(OfChat \o NestedWidget,
                (chat :> Has(PathsOf(OfChat \o NestedWidget), {})) @@ (geo :> Has({}, {})), TRUE)

(* The same directory recorded twice; metadata that tells nothing. *)
Damaged ==
    Acquisition(Filled(Data("g1"), "geo_plist", 2) \o Filled(Data("g1"), "chat_plist", 2)
                   \o Filled(Plugin("g3"), Corrupt, 1),
                (chat :> Has({}, {})) @@ (geo :> Has({}, {})), FALSE)

(* A backup. *)
InDomain(domain, identifier, size) == <<Plain(<<Seg(<<domain>>) \o identifier, Seg(<<"Library">>), Seg(<<"f">>)>>, size)>>
BackupOfChat == InDomain("AppDomain", chat, 2) \o InDomain("AppDomainPlugin", chatExt, 3)
BackupGroup == InDomain("AppDomainGroup", acmeGroup, 4)
SystemGroup == InDomain("SysSharedContainerDomain", familyGroup, 5)
Backup ==
    Acquisition(BackupOfChat \o InDomain("HomeDomain", <<>>, 1) \o BackupGroup \o SystemGroup
                   \o <<Plain(<<Seg(<<"AppDomain">>) \o chat, Seg(<<"f">>)>>, 1)>>,
                (chat :> Has(PathsOf(BackupOfChat) \cup {<<Seg(<<"AppDomain">>) \o chat, Seg(<<"f">>)>>},
                               PathsOf(BackupGroup))) @@
                (geo :> Has({}, PathsOf(BackupGroup))), TRUE)

(* Android, from the root directory or relative to it. *)
Below(lead, root, package, size) ==
    <<Plain(lead \o At(root) \o <<package, Seg(<<"f">>)>>, size)>>
DeviceOfChat(lead) ==
    Below(lead, <<"data", "data">>, chat, 1) \o Below(lead, <<"data", "user", "10">>, chat, 2)
    \o Below(lead, <<"data", "user_de", "0">>, chat, 3)
    \o Below(lead, <<"storage", "emulated", "0", "Android", "data">>, chat, 4)
    \o Below(lead, <<"sdcard", "Android", "obb">>, chat, 5)
    \o Below(lead, <<"data", "media", "0", "Android", "media">>, chat, 6)
DeviceOfGeo(lead) == Below(lead, <<"data", "data">>, geo, 7)
Device(lead) ==
    Acquisition(DeviceOfChat(lead) \o <<Plain(lead \o At(<<"data", "data", "f">>), 1)>> \o DeviceOfGeo(lead),
                (chat :> Has(PathsOf(DeviceOfChat(lead)), {})) @@
                (geo :> Has(PathsOf(DeviceOfGeo(lead)), {})), TRUE)

Elsewhere ==
    Acquisition(<<Plain(At(<<"mobile", "f">>), 1)>>, (chat :> Has({}, {})) @@ (geo :> Has({}, {})), TRUE)

MCAcquisitions ==
    {Namesakes, Nested, Damaged, Backup, Device(<<<<>>>>), Elsewhere,
     Sharing(Main("before") \o Wal("after"), PathsOf(FamilyShare), TRUE),
     Sharing(Wal(Bytes) \o Main("barred"), {}, TRUE),
     Sharing(Main("before"), PathsOf(AcmeShare), FALSE),
     Sharing(Main(Bytes), PathsOf(AcmeShare), FALSE)}

(* An extracted Android file system in a folder: its paths are relative. *)
RelativeAcquisitions == {Device(<<>>)}
NoFileLists == {}

MCPaths == PlanPaths \cup UNION {PathsOf(q.entries) : q \in MCAcquisitions \cup RelativeAcquisitions}

(* All basenames that fold to `a` share one hash, so the flat layout meets
   collisions too. *)
MCPathHash == [p \in MCPaths |-> 0]

=============================================================================
