# mf-scan: specifications

mf-scan searches, compares and exports forensic acquisitions: ZIP and tar
archives, folders, iOS backups, with databases decrypted and write-ahead logs
replayed in memory. Its users rely on three things: that nothing is lost in
silence, that what is said of a file is true of that file's own bytes, and that
a report never vouches for what is not there. The modules in this directory
model the parts of the program on which these depend. TLC checks them on small
instances, TLAPS proves the theorems listed below for all of them.

File names below are relative to `src/src/` of the repository.

## 1. The system

### Components

| component | code | state it keeps | operations | correct when |
|---|---|---|---|---|
| operand resolution | `cmd/support/sources.rs` | list of sources, the `BackupFacts` cell | `resolve_sources`, `with_operand_source` | every archive of a case folder is opened once, in order, by the right reader |
| tar source | `core/source/tar.rs` | offset, pending GNU/PAX overrides, members | `parse_entries`, `take_name`, `gunzip`, `content` | members come out whole, under their own names, up to the first damaged one |
| zip sources | `core/source/zip.rs`, `ranged.rs` | entries, recorded CRCs, mapped file or file and offsets | `parse_entries`, `find_cd_location`, `data_start`, `integrity_check` | mapped and ranged access agree; a digest is compared with its own entry's |
| folder source, nested archives | `core/source/folder.rs`, `nested.rs` | entries, arena of inner archives, budget left | `collect`, `expand` | each file is listed once; memory stays within the budget |
| iOS backup source | `platform/ios/backup/` | password or keys recovered, rows, index of blobs, counters | detection, `unlock`, walk, `content`, digest check | each listed file served as itself or accounted for |
| iOS backup rebuild | `ops/rebuild.rs`, `cmd/run/ios_backup.rs`, `platform/ios/domains.rs` | roots, reports, DIR | `info`, `rebuild`, `--dry-run` | a finished rebuild is whole |
| entry filter | `core/filter.rs`, `engine/mod.rs` | none | `select`, `accept_type`, `may_skip_by_type` | cheap and late decisions agree |
| parallel search | `ops/search/` | thread pool, per-entry results, statistics | `search_source`, `classify_entry`, the fold | the report is the one a sequential search would give |
| progress reporter | `cmd/support/progress.rs` | two relaxed counters, a stop flag | `tick` thread, `Drop` | the line never claims more than there is, and goes away |
| decryption | `decrypt/`, `cmd/support/decryption.rs` | profiles, secret store | `build_decryption_context`, `try_decrypt`, `decrypt_db`, `decrypt_crypt` | the key that fits is found, what is called verified is the original, nothing the operator gave is dropped without a word |
| SQLite reader | `formats/sqlite/` | stack, pages seen, record put together | `read_table_with_rowid`, `read_schema`, `for_each_leaf_cell`, `cell_record` | all readable rows, each once, each value under its own column |
| write-ahead log replay | `formats/sqlite/wal.rs`, `platform/ios/references.rs` | page image | `checkpoint` | the result is a committed state of the database |
| export planning | `report/export.rs` (`plan`, `plan_tree`) | claimed destinations | `disambiguate` | no two files share a destination, and renames are reported |
| export execution | `report/export.rs`, `cmd/support/exporting.rs` | DIR, the report | `export_files`, `export_from_manifest`, `write_one` | the report is present only over a tree it describes |
| source comparison | `cmd/run/diff.rs`, `ops/diff/` | side A open, names to pair, verdicts | `run_diff`, `diff_sources`, `export_changes` | every name has one verdict, and A with the verdicts and the export gives B |
| application catalogue | `ops/apps/`, `platform/ios/containers.rs`, `references.rs` | platform, containers, tallies, signing records | `detect`, `resolve`, `tally`, `containers_for`, `app export` | every place of an application is found, nothing of another's, each file is charged where it is written |
| grep driver, presets | `cmd/run/grep.rs`, `app.rs`, `preset/`, `ops/search/base64.rs` | arguments, filter of a source, records and totals over the sources | `run_grep`, `widen_filter_for_apps`, `with_searched_source` | each source is searched exactly within its own scope, totals account for every entry |
| reports | `report/output.rs`, `core/models.rs` | none | `render_*`, `ScanReport` | what is written tells all that was found, of the right archive and app |
| inspectors | `formats/inspect/` | stacks, key path, objects visited | `inspect` of SQLite, plist, archives of objects, JSON, XML, CSV | a place that is told is the place of the byte, and a byte that has one is told it |
| shared types and utilities | `core/`, `cmd/cli/`, `formats/inspect/media/` | none | | pure functions of their input |

### How they interact

A command resolves its operand into sources and opens them one at a time
(`Sources`). A source is a list of entries and a way to read each; an iOS backup
may be found behind one (`IosBackup`). Search classifies the entries on a pool
of threads, which share two counters with a progress thread and nothing else;
every thread may ask the decryption context to open a database. Exports plan all
destinations first, then write file by file, with sidecars beside their
databases, and end with `export-report.json`; the manifest of one export can be
the input of another run, on another source. `app export` takes its files and
roots from the application catalogue. Facts about a backup that the
command has to print at the end travel through one shared cell (`BackupFacts`).
`grep` widens its filter for each source by the containers found in it, adds up
records, statistics and decryptions, and writes when all sources are done;
`diff` keeps side A open while it opens B. A hit is placed by the inspector of
its format, on the file's bytes, after the search of the file.

### What is hard here

* Concurrency: the search pool and the relaxed counters; SQLite writing while
  its two files are captured.
* Partial failure: any read of an entry may fail by itself, at any of several
  reads of the same entry; a rebuild or an export may stop midway.
* Crash and restart: a killed export given again into the same DIR; a log torn
  by a crash.
* Order: parallel lists that must stay aligned (rows and keys, entries and
  digests), overrides that wait for the next header, plans in which a rename
  takes a name that a later file wants.
* Damaged data: pointers of a b-tree or of an overflow chain that lead anywhere,
  references among the objects of an archive that run in circles, texts that end
  midway, pages of an encrypted database that do not authenticate.
* Limits: the arena's budget, the hit cap, path-length guards, offsets in the
  last bytes of an archive.

`PROJECT.json` lists each of these hazards at its line with the properties that
cover it, or the reason why none does.

## 2. Modules

### Exports

* `OutputPaths`: segments, sanitising, the key under which destinations are
  compared (ASCII lower case). A name is a sequence of characters and of suffix
  marks `~n`.
* `UniqueNaming`: the promise of a plan, without its algorithm: names are handed
  out one at a time, none twice, none taken back.
* `ExportPlan`: `plan()` and `plan_tree()`. `layout` computes every wanted
  destination, `claim` runs `disambiguate()` with one action per branch of its
  loop, `planned` is the result. `claimed` is the code's hash set. It
  implements `UniqueNaming` (`Naming == INSTANCE UniqueNaming WITH ...`).
* `AppCatalog`: `AppCatalog::build()` and `containers_for()`. `stage` follows
  the code: detect the layout, resolve containers entry by entry (on iOS each by
  reading its metadata, which may fail), tally, read the entitlements with their
  log (either may fail), select. A path is a sequence of segments, an identifier
  a segment with one piece of text per dotted component. `acquisition.holds`
  says what the device held of each application, for the properties only, and
  `candid` that each container names its owner.
* `AppExport` EXTENDS `AppCatalog` and `ExportPlan`: every plan there is, those
  that bring their files and roots along (`PlanInit`) and those of `app export`
  (`AppInit`), where `Gather` hands both over.
* `ExportRun` EXTENDS `ExportPlan`: `export_files()`, `export_from_manifest()`,
  `write_one()` with the path guard, the sidecars and the read-back,
  `create_directories` of a rebuild, the report. `disk` is what lies in DIR,
  keyed as the destination's file system folds names. `AbortIo` is a read or
  write that fails and may leave part of a file, `AbortBlocked` a path the file
  system refuses, `Rerun` a killed command that is given again, `Reingest` the
  second command that reads the first one's manifest.

### Search

* `EntryFilter`: the filter's operators, a glob being the set of paths it
  matches.
* `ScanReport`: the promise: one report, that of a sequential search.
* `Search`: `search_source()`. Each worker claims an entry and goes through
  `classify_entry()`; each early return and each of the three fallible reads is
  an action. The fold runs after the pool has joined. The reporter loads `done`
  and `total` one at a time and may see older values than were stored, up to
  the last one it saw (relaxed ordering keeps each location's modification
  order and promises no more); it sees the stop flag late.

### Sources

* `MemberListing`: the promise of a listing: the members in order, up to the
  first damaged one.
* `TarReader`, `ZipReader`, `FolderScan`: the three readers. Offsets and sizes
  are numbers, names and contents values. `TarReader` steps header by header.
  `ZipReader` has the end record search, the ZIP64 fields, the central directory
  and the local headers, once mapped and once through a tail read and ranged
  reads. `FolderScan` has the recursion of `expand()` as an explicit stack.
* `Sources`: `resolve_sources()` and the loop over sources, which composes the
  three by INSTANCE, and the cell with the facts about a backup.

### Commands

`GrepDriver` EXTENDS `Sources`, `Comparison` EXTENDS `GrepDriver`, `Commands`
EXTENDS `Comparison`: one state machine from the operand to the written report.

* `EncodedNeedle`: the fragments that `--base64` looks for. A byte is four
  base-4 digits, a character of base64 three.
* `GrepDriver`: `run_grep()`: presets, arguments refused early and late, the
  pattern, the filter widened by the containers of a source, the search of the
  source as one step (`scanned` is what it looked into, for the properties), the
  merge of statistics, results, export, report. `command` is where the code is.
* `Comparison`: `run_diff()`: both sides opened, their names paired, one pair
  compared at each step in one of the three modes, the verdicts and the export,
  which passes over a file with too long a path, names it and ends well, and
  writes beside each other file its sidecars.
* `Reports`: which fields each format tells of a record.
* `Commands`: grep or diff from their arguments to their end; its properties
  relate what was written to what the sources hold.

### Backups and databases

* `IosBackup`: recognition, `unlock` with the loop over default passwords, class
  keys, the walk over `Files`, the index, `content()` and the digest check,
  plain and encrypted.
* `IosRebuild` EXTENDS `IosBackup`: `info`, `rebuild` and dry runs, roots,
  reports, directories, the provenance line. `destinations` is the plan as far
  as it was used, `too_long` what `check_export_path` refuses: such a file is put
  on `skipped` and the command goes on. The sidecars of a written database wait
  in `pending` and are written beside it one by one, whatever stands there.
* `Decryption`: the context, put together from profiles in the order of their
  directory, key dumps named and key dumps found beside an archive; then each
  entry: the first profile that matches, one candidate secret after the other,
  SQLCipher page by page, WhatsApp offset by offset. A page carries the key,
  salt, parameters and number under which it was sealed; `hmac_ok` and `Text`
  compare them with those in use.
* `SqliteReader`: `read_table_with_rowid()`: the header, the schema's tree, the
  table's tree, the overflow chain of each record, the columns by position.
  `stack` and `seen` are the code's, `links` is the bound on a chain. A file
  carries what it was before it was damaged, for the properties only.
* `SqlitePlaces` EXTENDS `SqliteReader`: table, row and column of a byte of a
  database: once the schema has been read, `Locate` finds the tree that holds
  the page, and the cell.
* `ObjectPaths`: a byte of a binary property list. `object_at_offset` finds the
  object, then `path_to()` or, in an archive of objects, `find_path()` and
  `walk_logical()` look for it from the root. The recursion is a stack of
  frames, `path` and `visited` are the code's, `TooDeep` its two caps.
* `DocumentPaths`: the scanners of JSON, XML property lists, XML and CSV over a
  sequence of tokens. `nest` and `trace` stand for the calls and their path,
  `word` for what else each scanner keeps between two tokens.
* `CommittedStore`: the promise of a database with a log: what is read is what
  was committed.
* `WalReplay`: `checkpoint()` of `wal.rs`, over an external model of SQLite's
  writer and checkpointer, which change the two files while they are captured.

### Instances and proofs

`MC*.tla` give the constants their values, the `.cfg` files choose among them;
`SmallSources` and `SmallFormats` write the small inputs: sources, and
databases, lists and texts. `MCFormats` EXTENDS both `SmallFormats` and
`WalReplay`: one run for everything that reads a file format.

`ExportProofs`, `SearchProofs`, `IosRebuildProofs`, `FormatProofs` (of
`SqliteReader`, `ObjectPaths` and `WalReplay`), `DecryptionProofs`,
`CommandProofs` (of `Commands` with all that it is made of) and `ReportProofs`
(of what a search there ends with) hold the theorems, `OrderingProofs` the
lemmas that several of them cite. `Ordering` has what the
models use for a set listed in a given order (`InOrder`) and for a sequence
filtered (`Picked`), in a form that can be reasoned about: the order is a set of
pairs, and what has k - 1 others before it comes k-th.

Operators named `...Twice`, `...Silently`, `...Stuck`, `...Trusting` and the
like are forms of the definition they stand before with a plausible bug; no
specification uses them. They show that each property can fail: replacing the
definition by its mutant makes TLC report the property listed with it in
`PROJECT.json`.

## 3. Runs

Passing runs, with their bounds:

* `app_export`. Plans without a catalogue: all lists of up to three files, with repetitions, out of seven
  paths, in both layouts. The paths meet in every way that paths can: by case,
  by trimming, by sanitising, through overlapping roots, by a file really called
  `a~1`, and under no root. Three files are enough for a rename to take the
  name a third file wants and for a suffix to be taken twice, which is all the
  loop distinguishes. Plans with one: ten acquisitions, on which two
  applications, one named like a part of the other, have extensions with a
  parent declared and without, groups granted, barred and only guessed, an
  entitlement that is in the log alone, a container inside another, one directory
  recorded twice, several users and storage roots; with and without groups, with
  every read of metadata, database or log failing. A container and its rival,
  one level of nesting and one log are all that the rules compare. Shows
  `EveryPlaceFound`, `NothingOfOthers`, `FoldersMatchTally`,
  `DistinctDestinations`, `ImplementsNaming` and the types.
* `export_run`. A database, its `-wal`, its twin but for case and an over-long
  name, or files and directories in each other's way; any selection, two size
  caps, both layouts, on Linux and on a host that folds case and counts path
  lengths; every write may fail, end short or be corrupted in silence; one kill
  and re-run; then a re-ingestion from the same source or from another. One kill
  is enough: what a later attempt meets is DIR as left at an arbitrary point,
  which one kill already produces. Shows that a report is there only over a
  complete tree that agrees with it (`ReportMeansComplete`,
  `ReportMatchesDisk`), that each sidecar a source has is recorded under the
  output name of its database (`DatabaseComplete`; that it is still on disk there
  is part of `ReportMatchesDisk`) and that a replay repeats the first export.
* `search`. Two threads, the reporter and the main thread, four sources of three
  or four entries, nine combinations of flags, two of them with the line on a
  terminal; every read may fail. Two threads suffice for results to arrive in
  any order and for both to be inside the counter's update; threads share
  nothing else. Shows, for all schedules, the sequential report
  (`ImplementsScanReport`), exact progress and coverage, a complete audit trail,
  an honest line, and that every thread ends.
* `commands`. About 4,400 operands are listed and searched in a plain way: tar
  files of up to three members written in nine ways, cut at every byte, damaged
  in each header, or gzipped; ZIP archives with every combination of ZIP64
  fields, end records and comments, mapped and ranged; folders with archives
  three deep under five budgets; case folders. Three members let an override
  pass over a header it is not for and reach one it is not for; three levels let
  a level fail below one that succeeded. Up to three small sources are then
  searched in one command under each filter, preset, format and limit, with
  backups and containers of one app in different places, entries that cannot be
  read or decrypted, and exports over the size cap; and pairs of sources are
  compared in each mode, with reads that fail, changed files whose paths are too
  long for the export and databases with a log beside them. A name that occurs twice is in
  the compared tar files only; a ZIP archive with one belongs to the violation
  run. Three sources put a backup before, between and after others, two give a
  widened filter a source to leak into. Patterns of one and two bytes stand
  after, before and between up to two others: every phase and every remainder
  modulo three occurs. Shows `ImplementsListing`, `RangedAgrees`, `AttestedOwn`,
  `EveryFileOnce` (which includes the arena and its budget), `ScopeExact`,
  `ReportTellsAll` (with `BackupAnnounced`), `EncodedFound`, `ChangesRebuildB`.
* `ios_backup`. About two hundred backups with every kind of row, blob and key
  that may go wrong, passwords supplied, default or unknown, reads that fail at
  one moment and not at the next, writes that fail; two
  domains at one mount point, so that files are renamed; databases with
  sidecars, one of which goes where the other domain has a file; and places too
  long, a renamed database's, or a database's and a log's. Two files of one name,
  a database and its log are all that the planner and the sidecars relate.
  Shows `FilesAccounted`, `OwnContent`, `VerifiedIsOriginal`, `UnlockIsHonest`
  and that a finished rebuild is whole but for what its report lists
  (`RebuildComplete`).
* `formats`. One job at a time:
  - A database of eight pages and two tables, rows in their leaf and on one and
    two overflow pages, a schema row that fits or spills; whole, cut behind any
    page, or with any one page damaged, alone or with the root of its table:
    children that are ancestors, shared, absent or of another kind, chains that
    end early, run in a circle or cross. Two damaged pages are enough for a
    cycle over two levels and for a chain into a page that the walk visits too.
    Its table is read, or any byte of it placed. `WholeTreeWalked`,
    `IntactRowsRead`, `ColumnsAligned`.
  - Every byte of a list with shared objects, of lists and archives deeper than
    the caps (five and four here, 128 and 64 in the code), of archives with circles,
    shared and wrapped objects and two entries of `$top`; and of a small list
    and a small archive with any one object damaged. `KeyPathLeads`.
  - Every token of documents nested up to five deep, with empty containers and
    literals in every place, written in JSON, XML and as property lists, of JSON
    texts with one token lost or exchanged, with keys that hold escapes and
    characters beyond ASCII, and of CSV tables of three lines with quoted
    commas, line ends and quotes and with white space around the headers. `PlaceIsRight` and
    `EveryPlaceTold`, which speak of databases too.
  - Three transactions over two pages and two generations of a log: the smallest
    instance in which a transaction of several frames is abandoned over
    another's frames, in a log whose tail is of the generation before.
    `ImplementsStore`, `CutLogIsAPast`.

  `InspectionEnds`: each of the first three comes to its end.
* `decryption`. Up to three secrets in every order, among them an undecodable
  one, one of a wrong length, a wrong key and one with a salt of its own;
  databases of three pages, whole, cut, reordered, doubled, damaged in text or
  MAC, under other parameters, with pages of another database; backups at each
  offset; command lines with every kind of profile, dump and directory that may
  go wrong. Three secrets let a right one come after two that fail in different
  ways; three pages let two later ones be exchanged. Shows `VerifiedIsWritten`
  and `RightKeyWins`: the secrets it speaks of are those of every dump, so that
  a dump dropped without a word violates it.

Runs in which TLC finds a documented statement violated by the code:

* `export_sidecar_overwrites`: a sidecar is written beside its database without
  asking the plan; in a tree layout it may overwrite another file while that
  file's record still says verified.
* `android_relative`: `detect()` looks for `/data/data/` with a slash in front,
  `match_root()` for `data/data` at the start of the name. The names of a folder
  are relative, so an extracted Android file system is not recognised and every
  `app` command on it finds nothing. One in an archive whose names begin with a
  slash works, and `app_export` has it.
* `zip_attests_by_name`: in an archive that holds one name twice, an intact
  entry is reported as a mismatch.
* `sqlite_key_column`: a column called `key` is taken for a constraint, and every
  column after it is read one slot off.
* `plist_empty_element`: an array element without content (`<true/>`, `<dict/>`)
  does not advance the index of its array in an XML property list; whatever
  stands after it is told an index too small. `formats` has such elements at the
  end of an array only.

Divergences met while modelling that no run keeps: `ios-backup rebuild
--manifest FILE` writes no manifest (`cmd/run/ios_backup.rs:92` never reads the
option; `cmd/cli/ios_backup.rs:99` and `docs/ios-backup.md:52` say it does); the
private directories of one package for several users (`/data/data/pkg`,
`/data/user/10/pkg`) share the output folder `pkg/data`, where `README.md:44`
promises one subfolder per container (the planner then renames what collides);
`containers_for` is said to return a stable order (`ops/apps/catalog.rs:110`),
but on an iOS file system the containers come out of a hash map
(`platform/ios/containers.rs:151`); under `--match-path` an entry
of a ranged archive has no archive offset (`ops/search/classify.rs:371`, its
comment at 354 says otherwise); matches in deflated or decrypted content have an
`archive_offset` where `core/models.rs:342` and `docs/architecture.md:214` say
they have none; several backups in one grep run share one `BackupFacts` cell, so
only the last one's provenance is printed (`cmd/support/sources.rs:413`);
`formats/sqlite/record.rs:113` says that a cycle aborts the read, but a chain
may close a short circle and still fill the record; a tree export that selects a
database and its `-wal` lists the `-wal` twice (`report/export.rs:689`, the kind
of miscount that the comment at 1053 calls a defect); when every file is skipped
as too long, DIR does not exist and the report with the skips cannot be written
(`cmd/support/exporting.rs:222`; `docs/output-and-offsets.md:293` says every
export writes one); `verified: false` is said to be about the key
(`decrypt/cipher/mod.rs:28`), but a damaged later page gives it too.

Of the commands: the globs by which an app widens the filter are not in the run
information that is reported, though `cmd/run/grep.rs:360` calls it every filter
in effect; a `_fast.yml` that cannot be parsed is passed over like one that is
absent (`cmd/run/grep.rs:223` speaks of absence only); `cmd/run/diff.rs:11` says
that `--inspect` and `--archive-depth` are rejected, but both work; labels of
two case folders under `-r` can coincide, and the record of a decryption names
no archive at all; of two backups in one run only the last is announced, and
none if the run fails after it; `--report` and `-o` with one path overwrite each
other; an export over the size cap is refused aloud, but the exit status is that
of success; CSV has no column for the app; a tar file and a ZIP archive of the
same tree are compared by size and time although their clocks differ; a needle
of one byte is missed in one of its base64 phases (the operator is warned).

Of the inspectors: `path_to(..).unwrap_or_default()` tells `$` of an object that
hangs nowhere, though `formats/inspect/mod.rs:85` says that a byte that cannot
be placed gives none; an entry of `$top` that leads nowhere ends the search and
hides the entries after it (`formats/inspect/nskeyed.rs:199`); an object met at
the depth cap is not looked for again on a shorter path; past its depth cap the
JSON scanner gives up the rest of the text, not only the value
(`formats/inspect/json.rs:94`); keys with a dot or a bracket render like paths;
a byte of a cell's overflow pointer is told as the spilled column.

### Fairness

* `MCFormats`: weak fairness of a reader's or scanner's next step: one
  sequential thread without waits.
* Search: weak fairness of each worker's, the main thread's and the reporter's
  next step (threads are scheduled), strong fairness of seeing the stop flag:
  a store becomes visible in finite time, though the reporter may look between
  too early and too late any finite number of times.
* `AppExport`, `ExportRun`, `Decryption`, `IosRebuild`, `Commands`: none; their
  properties are about safety.
* `WalReplay`: none. The writer may stop at any moment.

## 4. Theorems

All from the assumptions the modules state on their constants (TLC evaluates
them in the runs), for any number of files, entries, pages and threads. Each
rests on an inductive invariant, which is named here because the property itself
is in no case inductive.

* `ExportProofs`, the plan: `TypeCorrect`, `UniqueDestinations`
  (`DistinctDestinations`), `PlanImplementsNaming` (`ImplementsNaming`).
  A step compares the new name with `claimed`, not with the names given. The
  invariant `Ledger` says that `claimed` is exactly the set of keys of the
  settled items, that settled items are distinct, and that the suffix loop's
  candidate belongs to the item being settled. The roots are a constant's or the
  catalogue's; of their labels `RootList` says that they are paths when
  sanitised: `sanitise_label` drops segments by `SelectSeq`, whose recursive
  definition the provers cannot unfold.
* `ExportProofs`, the run: `RunInvariant`, `ReportIsComplete`
  (`ReportMeansComplete`), `DatabasesAreComplete` (`DatabaseComplete`), for every
  host, first or repeated run, replay and number of crashes. `Progress` says that each job
  before the present one is `Handled` (written with its sidecars, or recorded as
  skipped), that of the present database the sidecars the loop has passed are
  recorded, and that until the last step no file on disk is a whole report: a
  command that is given again was killed before it wrote one.
* `ExportProofs`, two runs: `ReplayIsFaithful` (`ReplayFaithful`). The runs meet
  different sources, so neither can be compared with the other directly. `IsDue`
  says what must be copied in terms of files, destinations and host only;
  `CopyInv` that a run records nothing else and skips only what the guard stops,
  `FirstInv` that what the first run recorded was what was due. A name that
  occurs twice in a source breaks it, for a sidecar is looked up by name and a
  file of the first run is not: hence the two hypotheses.
* `SearchProofs`: `ProgressIsExact` (`ProgressExact`) and `LineIsHonest`
  (`LineHonest`). `PoolInv` relates each worker's place to the entry it holds
  and says no two hold one; `CountInv` says that `done` is the cardinality of
  the selected entries with a result. From there the count cannot pass the
  total. `LineInv` adds that what the reporter has seen of a counter lies
  between 0 and its present value, and that the line is gone once the thread has
  been joined.
* `SearchProofs`: `CoverageIsExact` (`CoverageExact`) and `AuditIsComplete`
  (`AuditComplete`). `HandInv` says what a worker may conclude from where it is
  in `classify_entry()`, `SlotInv` that every result `Settles` its entry, which
  fixes its class, bytes and outcome up to the reads that failed. `FoldInv`,
  `AuditInv` and `StatsInv` say of the fold that its tallies and its trail are
  those of the entries folded so far, each tally being the cardinality of the
  entries of its class; a skip by a glob is charged to the first that matches.
* `SearchProofs`: `SearchImplementsReport` (`ImplementsScanReport`), a step
  refinement of `ScanReport` for every source, flags and number of threads.
  `ReadInv` says which bytes a worker has at hand: the entry's own until it was
  decrypted, its plaintext when it is typed and scanned. Hence `ShowsInv`: a
  result `Shows` its entry, that is, all of its evidence or nothing, and nothing
  only where a filter says so or the class is one of failure. A decision by the
  header agrees with one by the content because `HeaderFirst` asks that nothing
  be decrypted. `HitsListed` compares the two orders: the code sorts the hits of
  both patterns by offset and keeps their order at one offset, the evidence is
  listed by offset and encoding, and `SameOrder` (`OrderingProofs`) says that
  two sets whose members correspond with their order are listed alike. It
  assumes that a pattern is found from left to right, at one place once
  (`LeftToRight`), which is what `find_iter` promises; without it two hits
  of one pattern could stand at one offset. `ReportInv` adds the tallies: shown,
  withheld and failed entries together are those folded.
* `IosRebuildProofs`: `UnlockHonest` (`UnlockIsHonest`). The invariant has three
  parts: `Skipped` (the defaults before the one being tried do not unlock),
  `Recorded` (a recorded default is the one that unlocked and none was
  supplied), `Opened` (past the unlocking, the source of the keys is named).
* `IosRebuildProofs`: `FilesAreAccounted` (`FilesAccounted`), `ContentIsOwn`
  (`OwnContent`), `VerifiedHonest` (`VerifiedIsOriginal`), `RebuildIsComplete`
  (`RebuildComplete`). `WalkInv` says that the rows walked so far are told apart
  into served and missing ones, and that the entries and the index beside them
  come out of one sort, which is a permutation (`InOrderOk`) because names are
  distinct; `PlanInv` that nothing is planned or printed before, and each domain
  has its root. The tree is not the list of the files reported, for a sidecar may
  go over another file: a record speaks for its file while none after it has the
  same place (`Standing`). `TreeInv` says that the entries reached have places of
  their own, each `Accounted` for as written or as skipped; that each record is
  `FileOk`, its file being there while it stands; that each place in the tree has a
  standing record; and at the end every directory. Whole, in
  `RebuildIsComplete`, therefore means: each file is where it was planned, or
  listed as too long, or gone under a sidecar that the report records too.
* `FormatProofs`: `WalksWholeTree` (`WholeTreeWalked`), for every file, sound or
  damaged, from `FileAssumption`. That visited pages are closed under children
  is not inductive, for children wait on the stack. `TreeInv` says that the root
  and the children of visited pages are visited or on the stack, and that both
  lie in every closed set; when the stack is empty the first gives that the
  visited pages are closed, the second that they are the least such set.
* `FormatProofs`: `KeyPathsLead` (`KeyPathLeads`), for every list and archive,
  whatever its references. The code keeps one vector of segments and takes the
  last off when a call returns. `StackIsTrail` says that at each step the objects
  on the stack of calls are those along that vector, from a top object on.
* `DecryptionProofs`: `VerifiedHonest` (`VerifiedIsWritten`), for every command
  line, dump and file, from `CaseAssumption`, which includes `IsGenuine`: a MAC
  is not forged. `OpeningInv` says that while `verified` holds, the pages so far
  are the first ones written; it needs the page number under the MAC, without
  which pages could be exchanged.
* `DecryptionProofs`: `RightKeyFound` (`RightKeyWins`), from the same.
  `StoreInv` says that after each step of `build_decryption_context()` the store
  holds the secrets of all dumps up to there, unusable ones passed over;
  `TurnInv` that all secrets before the present candidate do not match or do not
  open the entry, and all offsets before the present one neither.
* `FormatProofs`: `WalInvariant`, `CutLogIsRead` (`CutLogIsAPast`) and
  `ReaderImplementsStore` (`ImplementsStore`), from `WalAssumption`, for any
  number of pages, transactions and generations of the log. The
  difficulty is the old frames behind the end of the log, which were valid once:
  `FrameInv` says of each what its checksum was chained to when it was written,
  `TxnInv` that the frames of the open transaction follow the last commit,
  `LogInv` that nothing behind it both verifies and commits; `PastInv` that each
  past database is the frames up to its commit over an earlier one, `MainInv`
  that the main file is right for every page that no frame a checkpoint may have
  reached speaks of. That a log verifies is said of each frame by itself, so that
  no induction over it is needed.

* `CommandProofs`, all for every set of command lines over any number of
  sources. `CommandAssumption` says what such a command line is, and through
  `IsOperand` what the files under it are: `IsTar` that the first members of a
  tar file are written one behind the other, at most one header that tells a
  name or a size before each, and that behind the last whole one the file ends
  or a header does not stand; `IsZip` that a value of the directory is in its
  own field or, if that is saturated, among the ZIP64 ones in their order, that
  a digest was taken of the bytes, and that a comment is shorter than 64 KiB.
  TLC evaluates them for the sources of the run `commands`, the cut and the
  damaged ones among them. `WellSourced` says that each resolved source is such
  a file, and that the reader at work is the one of the source in turn.
  * `WalkListsMembers` (`ImplementsListing`). The position alone does not tell
    where the walk is: a text's header and the header it speaks of are read in
    two steps with the override pending between. `TarInv` says that the walk
    stands at the start of a member with nothing pending (`AtStart`), or behind
    a text with exactly that text's name and size pending (`AtTold`).
  * `RangedAsMapped` (`RangedAgrees`) and `EntriesAttested` (`AttestedOwn`).
    `ZipInv` says that the entries and digests kept are those of the directory
    (`Decoded`), and that what is attested was computed from them. The lemmas
    then follow the search for the end record in the tail, whose offsets are
    absolute, and the ZIP64 fields, read only for the saturated ones. The second
    theorem needs that names are distinct: a digest is looked up by name, and
    `zip_attests_by_name` is the counterexample otherwise.
  * `ScopeIsExact` (`ScopeExact`). `ScopeInv` adds that a source is searched
    when those before it are, and that what was said stays said: the filter is
    widened for each source anew, so it may be compared with this source's
    containers alone.
  * `ComparisonRebuilds` (`ChangesRebuildB`). `DiffInv` ties the verdicts to the
    names in order: those given are those of the names so far, the paths left
    are the rest, and nothing is printed until none is left; and that files are
    named as passed over only by the export itself, at the end. B is then rebuilt
    but for the changed files so named, and what is exported besides is a sidecar
    that an entry of B has: `by_path` serves of a name the entry that was
    compared, also where it serves a sidecar (`ExportRebuilds`). `FolderInv` is
    there for the names of a folder's entries: the last segment of each tells
    a directory, at every depth of nesting.
  * `NeedleFoundEncoded` and `FragmentsFind` (`EncodedFound`). `FoundAnywhere`
    is the property for text of any length around the pattern. Byte and
    character are related by arithmetic: character k of the encoding depends on
    the bytes k * 3 / 4 and the one behind it, so shifting the pattern by three
    bytes shifts its characters by four, and the phase is the length before it
    modulo three; the characters that depend on bytes outside the pattern are
    those that `lead` and `trail` cut off.
* `ReportProofs`: `ReportIsWhole` (`ReportTellsAll`), from the same assumptions
  and the invariants of `CommandProofs` up to `ScopeInv`. The property compares
  what is written at the end with every entry of every source, so all that is
  kept on the way must be tied to the sources searched so far. `SearchedInv`
  says which these are, and that each was searched under its own containers;
  `Counted` that each counter is the number of entries that should meet with
  that fate (`Standings`) in them, and `matched` that of `Places`, the entries
  with a hit; `RecordsInv` that the records are those places listed in order,
  each `Told` with its path, archive, app and hits; `FactsInv` that the facts of
  a backup are those of the last source that is one; `SaidInv` and `WrittenInv` that the audit
  trail and the results were made from these and nothing else. A source adds
  places that all come behind those before it (`Joins`), so its records are
  appended (`ListsJoin`, with `AscendingGrows` of `OrderingProofs`) and its
  tallies added (`PlacesAdd`); a step that fails adds nothing. The
  theorem assumes of containers that two of them are apart or one lies within
  the other (`IsInside`), as trees of one file system are: only then is the
  nearest one, which the code takes, unique.

Only model-checked:

* All liveness (`InspectionEnds`, that every thread of `Search` ends): out of the
  prover's reach.
* `EveryFileOnce`: what a folder should hold is defined by recursion over the
  depth of nesting, and what such a definition yields for every input needs
  induction over data, which the provers cannot do. For the same reason
  `ReportIsWhole` is silent on the tallies by glob and by type, which are folds.
* `IntactRowsRead`, `ColumnsAligned`: what was written is compared by following
  a chain of overflow pages, again by recursion. `WholeTreeWalked`, of the pages
  they lie on, is proved.
* The properties of `AppExport`: what a device held is given with each
  acquisition of the instance, and the tallies are sums by a fold.
* `PlaceIsRight`, `EveryPlaceTold`: they compare a scanner with the whole text,
  again by recursion over it.
* `ReportMatchesDisk` does not hold for all constants: `export_sidecar_overwrites`
  is its counterexample; `export_run` shows it for sources in which no other
  file's destination is that of a sidecar.

## 5. Abstractions and limits

* Contents are values; ciphers, CRCs, digests and inflate are functions that
  give equal results exactly on equal inputs. A WAL checksum is the list of what
  it covers.
* A glob is the set of paths it matches. Parsing of numbers and names in tar and
  ZIP headers is read or unreadable.
* `path_hash` is an arbitrary function, since its 40 bits may collide.
* A log that was cut below the point to which a checkpoint had copied mixes pages
  of two states, and so does a main file read alone in the middle of a
  checkpoint: nothing in the files tells. `CutLogIsAPast` excludes them.
* `VerifiedIsOriginal` is claimed where both layouts of a blob hold the same
  bytes; with a stale second copy and a read that fails once it does not hold.
* In `AppCatalog` a name is matched by whole segments where the code searches
  for text between slashes. The first eight characters of the GUIDs of one
  application's containers are taken as distinct. `NothingOfOthers` is claimed
  where no container of another application lies inside a selected one, since an
  export takes whole prefixes. A log stands for the image its replay gives,
  which is `WalReplay`'s.
* Of the path guard, what it refuses is modelled (`too_long`, chosen for each
  run); the portability warnings it gives elsewhere are left out. `grep --export`
  is one step that is written or not. A file skipped by `ios-backup rebuild` is
  listed in `export-report.json` only, while `export`, `app export` and `diff`
  name it on stderr too (`cmd/run/ios_backup.rs:137`). A sidecar written by
  `rebuild` may replace another file, as in `export_sidecar_overwrites`.
* The sidecars of an export are not part of its `--max-size` total. A file and a
  folder whose names differ in case abort an export on a folding file system.
* In `TarReader`, a GNU long name and a PAX path on the same member leave the
  second to the next member; no known writer emits both. Old GNU sparse headers
  and overflow of base-256 sizes are left out. A file called `.tar` that is none
  opens as an empty source.
* In `ZipReader`, an end record beyond the tail read (longest comment and an
  extensible ZIP64 sector over 31 bytes) is not reached in ranged access; the
  mapped reader fails as a whole on one bad local header.
* In `SqliteReader` a record is a sequence of values and an overflow page holds
  one. Rows of a table of several pages come in the order of the stack, which is
  not that of row ids. A schema text that spills is read as `parse_cell` reads
  it, with the bytes behind the cell: these are `Junk`, and that they spell the
  name of a column is not modelled. A WITHOUT ROWID table reads as empty.
* In `Decryption`, a file cut between two pages still verifies, as each page is
  authenticated by itself; a page put back in an older sealed state is not
  modelled. Without HMAC the first candidate of the right length wins,
  unverified. Of two profiles for one path the directory's order decides.
  Access group and label are matched as account and service are.
* An inner archive is in memory once before it is charged to the arena.
* An unrecognised domain goes to `unknown_backup_domains/`, as in the code; the
  documentation names another folder.

* In `GrepDriver` and `Comparison` the search of one source is one step and hits
  are a number; `Search` has its inside. Containers are what `AppCatalog`
  resolves, given as sets of paths. A hash is the content it is of.
* In `ObjectPaths` an object is decoded already, of any width; what cannot be
  decoded is a scalar. Objects are numbered from one. Class names, and archives
  nested in data objects, are left out.
* In `DocumentPaths` a string or literal of JSON, an event of the XML reader and
  a character of CSV is one token each. No token of a literal hides a delimiter,
  and entity references inside keys, which the code drops, do not occur.
  `PlaceAsWritten` speaks of the text before the first damage.
* A key of JSON is told as `read_key()` does: byte by byte, a character behind a
  backslash by `decode_escape()`. A key with `\u` or with a character beyond
  ASCII is therefore told as other text than was written; `PlaceAsWritten` asks
  nothing of that segment, only of those around it. Headers of CSV are told
  without the white space around them. Bytes that are no UTF-8 do not occur.
* A length or count that was damaged reserves memory before it is checked
  (`formats/sqlite/record.rs:123`, `formats/inspect/plist.rs:480`), and a schema
  text with `)` before its first `(` is sliced as it is
  (`formats/sqlite/schema.rs:78`): either may end the process. Here such a cell is
  skipped and such an object is a scalar; the properties speak of reads that
  come to an end otherwise.
* The schemas of `SqliteReader` hold no quoted comma in a default value and no
  virtual column, which would shift the columns behind them as one called `key`
  does.
* In `SqlitePlaces` a byte is known by its page, cell and value. `EveryRowTold`
  is claimed of undamaged files whose schema rows do not spill.

Not modelled: detection and dispatch of formats, the comparison of two contents
(`value_diff`, `table_diff`) and the places in plain text, media detection,
argument parsing, layout and colour (pure functions and formatting), the parsers
of keychain dumps, profiles and preset files and the arithmetic of ciphers
(data), and of the catalogue the listings of `app grep` and `app paths`.

## 6. Plan

1. Application catalogue: the listings, display names, and theorems about
   `FoldersMatchTally` (the innermost ancestor is unique).
2. `EntryFilter`: `wildcard_match` itself, against the set of paths it stands for.
3. Theorems: `IntactRowsRead`, if the walk keeps the cells of a chain in a
   variable.
4. The comparison of two contents, and archives nested in data objects.
