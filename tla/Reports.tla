------------------------------- MODULE Reports -------------------------------
(***************************************************************************)
(* What the results and the reports hold: src/src/report.  Each format     *)
(* leaves something out: only JSON tells the full path of an archive and   *)
(* describes the run, only txt and JSON name the app, txt lists of a       *)
(* comparison only what changed.  Layout, colour and the matched line,     *)
(* which is shown where it looks like text, are left out.                  *)
(***************************************************************************)
EXTENDS Naturals, Sequences, FiniteSets, SequencesExt, Ordering

CONSTANT Absent   \* a field that has no value

JsonView(r) ==
    [archive |-> r.archive_path, path |-> r.path, app |-> r.bundle_id, decrypted |-> r.decrypted, hits |-> r.hits]

CsvView(r) == [archive |-> r.archive, path |-> r.path, decrypted |-> r.decrypted, hits |-> r.hits]

(* The label joins the path like a folder. *)
Joined(r) == IF r.archive = Absent THEN r.path ELSE <<r.archive>> \o r.path

write_txt(r, path_match) ==
    IF path_match THEN [path |-> Joined(r)]
    ELSE [path |-> Joined(r), app |-> r.bundle_id, decrypted |-> r.decrypted, hits |-> r.hits]

Rendered(view(_), records) == [k \in DOMAIN records |-> view(records[k])]

write_results(records, format, path_match, run, stats) ==
    CASE format = "txt" -> [results |-> Rendered(LAMBDA r : write_txt(r, path_match), records)]
      [] format = "csv" -> [results |-> Rendered(CsvView, records)]
      [] format = "json" -> [run |-> run, stats |-> stats, results |-> Rendered(JsonView, records)]

write_counts(counts) == [results |-> counts]

write_scan_report(run, stats, decryptions, backup) ==
    [run |-> run, stats |-> stats, decryptions |-> decryptions, backup |-> backup]

(* At the end of a run, of the audit trail: nothing where nothing was tried. *)
report_decryptions(decryptions) ==
    IF decryptions = <<>> THEN <<>>
    ELSE <<[what |-> "decryptions",
            failed |-> Cardinality({k \in DOMAIN decryptions : decryptions[k].outcome = "fails"})]>>

-----------------------------------------------------------------------------
Changes == {"added", "removed", "modified", "unchanged"}

counts(files) == [c \in Changes |-> Cardinality({k \in DOMAIN files : files[k].change = c})]

write_diff(files, format) ==
    CASE format = "txt" -> [files |-> Picked(files, {k \in DOMAIN files : files[k].change # "unchanged"}),
                             summary |-> counts(files)]
      [] format = "csv" -> [files |-> files]
      [] format = "json" -> [files |-> files, summary |-> counts(files)]

=============================================================================
