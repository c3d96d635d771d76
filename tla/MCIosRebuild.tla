---------------------------- MODULE MCIosRebuild ----------------------------
(***************************************************************************)
(* Small backups: files of two domains mounted at the same place, an app's *)
(* container, a group container and an unknown domain; databases with one  *)
(* sidecar, or a sidecar without its database; rows out of order;          *)
(* directories, one in a domain without files, and a symlink; rows that    *)
(* cannot be read, blobs that are absent, altered, torn, stored flat or    *)
(* twice; keys that are absent, corrupt or of a class not recovered.       *)
(***************************************************************************)
EXTENDS IosRebuild

CONSTANTS Weak, Weaker, Own, Unguessed

MCDefaultPasswords == <<Weaker, Weak>>
MCPasswords == {Own, Weak}

(* Domains 1 and 2 share a mount point. *)
MCKind == <<"fixed", "fixed", "container", "system_group", "unrecognised">>
MCFixedPath == [d \in {1, 2} |-> 1]

(* Path 1 is a database; 2 and 3 are its log and its shared memory. *)
MCSidecarPaths == <<<<2, 3>>>>

(* No place is too long; the second variant of the database; a file without
   variants and the log. *)
MCOverLong ==
    {{}, {<<<<"mount", 1>>, 1, 1>>}, {<<<<"container", 3>>, 1, 0>>, <<<<"mount", 1>>, 2, 0>>}}

Mb(key, class, digest) == [key |-> key, class |-> class, digest |-> digest]
Row(id, d, p, flags, mb) ==
    [file_id |-> id, name |-> <<d, p>>, flags |-> flags, typed |-> TRUE, mb |-> mb]

Good == Mb("good", 1, "sha1")
Plain == Mb(Absent, 0, "sha1")

(* Rows common to the backups; ids are in no order of the names. *)
RowsOf(mb) ==
    <<Row(1, 3, 1, "file", mb), Row(2, 1, 1, "file", mb), Row(3, 2, 1, "file", mb),
      Row(4, 1, 2, "dir", mb)>>

(* A row of each kind that may go wrong or be left out. *)
Oddities(mb) ==
    {Row(5, 5, 1, "file", mb), Row(5, 5, 1, "dir", Absent), Row(5, 4, 1, "link", mb),
     Row(5, 4, 1, "other", mb), Row(5, 4, 0, "dir", Absent), Row(5, 1, 3, "file", Absent),
     Row(5, 1, 0, "file", mb), [Row(5, 1, 3, "file", mb) EXCEPT !.typed = FALSE],
     Row(5, 1, 3, "file", [mb EXCEPT !.digest = Absent]), Row(5, 2, 2, "dir", mb),
     Row(5, 2, 2, "file", mb)}
KeyOddities == {Row(5, 2, 3, "file", Mb(Absent, 1, "sha1")), Row(5, 2, 3, "file", Mb("corrupt", 1, "sha1")),
                Row(5, 2, 3, "file", Mb("good", 2, "sha1"))}

Sharded(ids, state) == [x \in {<<i, "sharded">> : i \in ids} |-> state]
With(stored, x, state) == [y \in DOMAIN stored \cup {x} |-> IF y = x THEN state ELSE stored[y]]

(* Where the blobs are: as they should be, some absent, flat, twice, or damaged. *)
StoredSets ==
    {Sharded({1, 2, 3, 5}, "intact"), Sharded({1, 3, 5}, "intact"), Sharded({1, 2, 3}, "intact"),
     With(Sharded({1, 3, 5}, "intact"), <<2, "flat">>, "intact"),
     With(Sharded({1, 2, 3, 5}, "intact"), <<2, "flat">>, "intact"),
     With(Sharded({1, 2, 3, 5}, "intact"), <<2, "flat">>, "altered"),
     With(Sharded({1, 2, 3, 5}, "intact"), <<2, "sharded">>, "altered"),
     With(Sharded({1, 2, 3, 5}, "intact"), <<2, "sharded">>, "torn")}

Backup(encrypted, password, classes, class, rows, stored) ==
    [manifest |-> "readable", encrypted |-> encrypted, password |-> password, classes |-> classes,
     manifest_class |-> class, rows |-> rows, stored |-> stored]

PlainBackups ==
    {Backup(FALSE, Absent, {}, 0, Append(RowsOf(Plain), r), s) : r \in Oddities(Plain), s \in StoredSets}
EncryptedBackups ==
    {Backup(TRUE, Weak, {1}, 1, <<r>> \o RowsOf(Good), s) :
        r \in Oddities(Good) \cup KeyOddities, s \in StoredSets}
OtherBackups ==
    {Backup(TRUE, p, {1}, 1, RowsOf(Good), Sharded({1, 2, 3}, "intact")) : p \in {Weaker, Own, Unguessed}}
    \cup {Backup(TRUE, Weak, c, 1, RowsOf(Good), Sharded({1, 2, 3}, "intact")) : c \in {{}, {2}, {1, 2}}}
    \cup {Backup(FALSE, Absent, {}, 0, rows, Sharded({1}, "intact")) : rows \in {<<>>, <<Row(1, 4, 1, "dir", Absent)>>}}
    (* A log of one domain where the other's database and its log go. *)
    \cup {Backup(FALSE, Absent, {}, 0,
                 <<Row(1, 2, 2, "file", Plain), Row(2, 1, 2, "file", Plain), Row(3, 2, 1, "file", Plain)>>, s) :
             s \in {Sharded({1, 2, 3}, "intact"), With(Sharded({1, 2, 3}, "intact"), <<1, "flat">>, "altered"),
                    With(Sharded({1, 2, 3}, "intact"), <<3, "sharded">>, "altered")}}
    \cup {[Backup(FALSE, Absent, {}, 0, <<>>, <<>>) EXCEPT !.manifest = "unreadable"]}

MCBackups == PlainBackups \cup EncryptedBackups \cup OtherBackups

=============================================================================
