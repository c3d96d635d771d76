----------------------------- MODULE EntryFilter -----------------------------
(***************************************************************************)
(* src/src/core/filter.rs: which entries a search looks at.  A glob is the *)
(* set of the paths it matches.                                            *)
(***************************************************************************)
EXTENDS Naturals, Sequences

CONSTANTS
    Paths,    \* the entry names that occur
    Types     \* the detected types: [name, category]

Untyped == [name |-> "untyped", category |-> "untyped"]   \* detect_type(): None
TypeInfo == Types \cup {Untyped}

ASSUME FilterAssumption ==
    /\ Types \subseteq [name : STRING, category : STRING]
    /\ Untyped \notin Types

Filter == [include : Seq(SUBSET Paths), exclude : Seq(SUBSET Paths),
           types : SUBSET STRING, skip_media : BOOLEAN]

Matching(globs, path) == {k \in DOMAIN globs : path \in globs[k]}

(* select(): "search", "not_included" or "not_path". *)
select(filter, path) ==
    IF filter.include # <<>> /\ Matching(filter.include, path) = {} THEN "not_included"
    ELSE IF Matching(filter.exclude, path) # {} THEN "not_path"
    ELSE "search"

(* The --not-path glob a skip is attributed to: the first that matches. *)
SkippingGlob(filter, path) ==
    CHOOSE k \in Matching(filter.exclude, path) :
        \A j \in Matching(filter.exclude, path) : k <= j

may_skip_by_type(filter) == filter.types # {} \/ filter.skip_media

(* accept_type(): "search", "media" or "type". *)
accept_type(filter, info) ==
    IF filter.types # {}
    THEN IF info # Untyped /\ {info.name, info.category} \cap filter.types # {}
         THEN "search" ELSE "type"
    ELSE IF filter.skip_media /\ info.category = "media" THEN "media"
    ELSE "search"

=============================================================================
