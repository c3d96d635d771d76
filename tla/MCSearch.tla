------------------------------ MODULE MCSearch ------------------------------
(***************************************************************************)
(* Small sources and flag combinations for the search: every way out of    *)
(* classify_entry() is taken by some entry under some setting.             *)
(***************************************************************************)
EXTENDS Search

CONSTANTS notes, photo, db, folder, w1, w2

Media == [name |-> "jpeg", category |-> "media"]
Sqlite == [name |-> "sqlite", category |-> "database"]
MCTypes == {Media, Sqlite}

MCPaths == {notes, photo, db, folder}
MCExtType == [p \in MCPaths |-> IF p = photo THEN Media ELSE Untyped]
MCPathHits == {notes, db}

Text == [magic |-> Untyped, plain |-> <<3, 8, 9>>, base64 |-> <<5>>]
Picture == [magic |-> Media, plain |-> <<2>>, base64 |-> <<>>]
Ciphertext == [magic |-> Untyped, plain |-> <<7>>, base64 |-> <<>>]
Database == [magic |-> Sqlite, plain |-> <<4>>, base64 |-> <<4, 6>>]
MCContents == {Text, Picture, Ciphertext, Database, NoContent}

File(path, body) ==
    [path |-> path, dir |-> FALSE, size |-> 2, start |-> 10, kind |-> "zip",
     compressed |-> FALSE, body |-> body, secret |-> "none", inner |-> NoContent]

Notes == File(notes, Text)
Photo == [File(photo, Picture) EXCEPT !.compressed = TRUE, !.size = 5]
Misnamed == [File(photo, Text) EXCEPT !.kind = "loose"]
Folder == [File(folder, NoContent) EXCEPT !.dir = TRUE]
Locked == [File(db, Ciphertext) EXCEPT !.secret = "opens", !.inner = Database, !.kind = "ranged"]
Album == [Locked EXCEPT !.inner = Picture, !.start = 30]
Sealed == [File(db, Ciphertext) EXCEPT !.secret = "fails", !.compressed = TRUE]
Plain == [File(db, Database) EXCEPT !.kind = "ranged", !.start = 20]

NoFilter == [include |-> <<>>, exclude |-> <<>>, types |-> {}, skip_media |-> FALSE]
ByGlobs == [NoFilter EXCEPT !.include = <<{notes, photo, db}>>, !.exclude = <<{photo}, {photo, db}>>]
Databases == [NoFilter EXCEPT !.types = {"database"}]
NoMedia == [NoFilter EXCEPT !.skip_media = TRUE, !.exclude = <<{notes}>>]
OnlyNotes == [NoFilter EXCEPT !.include = <<{notes}>>]

Setup(filter, match_path, base64, secrets, prefers_prefix) ==
    [filter |-> filter, match_path |-> match_path, base64 |-> base64, secrets |-> secrets,
     prefers_prefix |-> prefers_prefix, terminal |-> FALSE]

(* Standard error is a terminal: the progress line is drawn. *)
OnTerminal(setting) == [setting EXCEPT !.terminal = TRUE]

MCSettings == {
    Setup(NoFilter, FALSE, TRUE, TRUE, FALSE),
    Setup(Databases, FALSE, TRUE, TRUE, TRUE),
    Setup(Databases, FALSE, FALSE, FALSE, TRUE),
    Setup(NoMedia, FALSE, FALSE, FALSE, TRUE),
    Setup(NoMedia, FALSE, TRUE, TRUE, FALSE),
    Setup(ByGlobs, FALSE, FALSE, FALSE, FALSE),
    Setup(OnlyNotes, TRUE, FALSE, TRUE, TRUE),
    OnTerminal(Setup(NoMedia, FALSE, FALSE, TRUE, FALSE)),
    OnTerminal(Setup(OnlyNotes, TRUE, FALSE, FALSE, FALSE)) }

MCEntryLists == { <<Folder, Notes, Locked>>, <<Photo, Sealed, Notes>>, <<Plain, Misnamed, Album>>,
                  <<Locked, Sealed, Plain, Photo>> }

MatchPathSettings == {Setup(NoFilter, TRUE, FALSE, FALSE, FALSE)}

=============================================================================
