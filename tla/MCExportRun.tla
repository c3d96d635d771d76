---------------------------- MODULE MCExportRun ----------------------------
(***************************************************************************)
(* Small sources for one export: a database with a sidecar, its twin but   *)
(* for case in an overlapping container, a file whose name no file system  *)
(* takes, on Linux and on a host that folds case and counts path lengths.  *)
(***************************************************************************)
EXTENDS ExportRun

CONSTANTS
    x, X, l, d, c, r, wal, colon, us, dot, unnamed, reportjson,  \* names
    Db, Db2, Wal, Text, Report                                         \* contents

MCChar == {x, X, l, d, c, r, wal, colon, us, dot, unnamed, reportjson}

MCLower == [ch \in MCChar |-> IF ch = X THEN x ELSE ch]
FoldNothing == [ch \in MCChar |-> ch]
FoldAscii == MCLower

OneByte == [ch \in MCChar |-> 1]

(* Two containers share the output subtree r. *)
Roots == << [prefix |-> <<<<d>>>>, label |-> <<<<r>>>>],
              [prefix |-> <<<<c>>>>, label |-> <<<<r>>>>] >>
MCRootLists == {Roots}

File(path, body, size) == [path |-> path, start |-> 0, size |-> size, body |-> body]

Main == File(<<<<d>>, <<x>>>>, Db, 2)
Its == File(<<<<d>>, <<x, wal>>>>, Wal, 1)
Twin == File(<<<<c>>, <<X>>>>, Db2, 1)
Long == File(<<<<d>>, <<l, l, l, l, l>>>>, Text, 1)
Deep == File(<<<<d>>, <<l>>, <<l>>>>, Text, 1)
Another == File(<<<<c>>, <<x, wal>>>>, Text, 1)
Folder == File(<<<<d>>, <<X>>, <<l>>>>, Text, 1)

All == {Main, Its, Twin, Long, Deep, Another, Folder}

MCPaths == {f.path : f \in All}

(* Only the two databases share a hash. *)
MCPathHash ==
    [p \in MCPaths |-> CASE p \in {Main.path, Twin.path} -> 0
                         [] OTHER                       -> 2]

SubLists(list) ==
    {[k \in DOMAIN ix |-> list[ix[k]]] :
        ix \in {SetToSortSeq(S, LAMBDA i, j : i < j) : S \in SUBSET DOMAIN list}}

(* Everything, or an acquisition that lacks some of it; one with a directory
   where a file wants to be, if the file system folds case. *)
Acquisition == <<Twin, Main, Its, Long>>
Later == <<Main, Its, Long>>
Crowded == <<Folder, Main, Deep>>

MCSources == {Acquisition, Later, Crowded}
MCFileLists == SubLists(Acquisition) \cup {Crowded, <<Folder, Main>>}

(* The database beside a file of another container with its sidecar's name. *)
NeighbourSources == {<<Another, Main, Its>>}

MCSidecar == <<wal>>
MCReportName == <<reportjson>>

Linux == [fold |-> FoldNothing, windows |-> FALSE, max_component |-> 4, max_path_len |-> 5,
          directories |-> << <<<<d>>, <<l>>, <<us>>>>, <<<<l>>>> >>]

(* Its directory record meets a file. *)
OnWindows == [Linux EXCEPT !.fold = FoldAscii, !.windows = TRUE, !.max_path_len = 7,
                           !.directories = << <<<<d>>, <<l>>, <<l>>>> >>]

Plain == [Linux EXCEPT !.max_component = 9, !.max_path_len = 9, !.directories = <<>>]

MCHosts == {Linux, OnWindows}
PlainHost == {Plain}
=============================================================================
