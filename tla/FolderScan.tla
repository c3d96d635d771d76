----------------------------- MODULE FolderScan -----------------------------
(***************************************************************************)
(* FolderSource (core/source/folder.rs) with the archives found in the     *)
(* folder opened to a depth (core/source/nested.rs).                       *)
(*                                                                         *)
(* A tree lists what the walk comes to, in the order of the paths; a name  *)
(* is a sequence of naturals, one for each part, in the order of the       *)
(* parts.  `zip` is what a file named *.zip holds, or None for any other   *)
(* name; `tree.zips` tells of each such content whether it parses, its     *)
(* size and its members.                                                   *)
(***************************************************************************)
EXTENDS Naturals, Sequences, FiniteSets, SequencesExt, Ordering

CONSTANT None

VARIABLES tree,
          todo,     \* what the walk has yet to come to
          entries,  \* listed so far: sorted at the end
          blobs,    \* the archives opened, in memory
          budget,   \* what is left of the arena
          stack,    \* the calls of expand() that wait for an inner one
          call,     \* the archive that expand() is called with, or None
          scan_pc

scanVars == <<tree, todo, entries, blobs, budget, stack, call, scan_pc>>

Loose(f) == [name |-> f.path, location |-> "loose"]

nested_entry(prefix, m, blob) ==
    [name |-> Append(prefix, m.name), location |-> "nested", archive |-> blob, member |-> m.at]

(* Lexicographic, part by part. *)
NameBefore(a, b) ==
    \/ IsStrictPrefix(a, b)
    \/ \E i \in DOMAIN a \cap DOMAIN b :
           a[i] < b[i] /\ SubSeq(a, 1, i - 1) = SubSeq(b, 1, i - 1)

(* Of entries with one name the one found first stays first. *)
Precedes(s, i, j) == NameBefore(s[i].name, s[j].name) \/ (s[i].name = s[j].name /\ i < j)

SortedByName(s) ==
    LET sorted == InOrder(DOMAIN s, {p \in (DOMAIN s) \X (DOMAIN s) : Precedes(s, p[1], p[2])})
    IN  [k \in DOMAIN s |-> s[sorted[k]]]

-----------------------------------------------------------------------------
Begin(t) ==
    /\ tree' = t /\ todo' = t.files
    /\ entries' = <<>> /\ blobs' = <<>> /\ budget' = t.arena
    /\ stack' = <<>> /\ call' = None /\ scan_pc' = "walk"

Walking == scan_pc = "walk" /\ todo # <<>>

File == Head(todo)

SizeOf(z) == tree.zips[z].size

KeepLoose ==
    /\ entries' = Append(entries, Loose(File)) /\ todo' = Tail(todo)

(* read_dir fails: no part of the folder is scanned. *)
UnreadableDir ==
    /\ Walking /\ File.kind = "unreadable_dir"
    /\ scan_pc' = "failed"
    /\ UNCHANGED <<tree, todo, entries, blobs, budget, stack, call>>

PassOver ==
    /\ Walking /\ File.kind = "symlink"
    /\ todo' = Tail(todo)
    /\ UNCHANGED <<tree, entries, blobs, budget, stack, call, scan_pc>>

Candidate == File.kind = "file" /\ tree.depth >= 1 /\ File.zip # None

LooseFile ==
    /\ Walking /\ File.kind = "file" /\ (Candidate => SizeOf(File.zip) <= budget /\ ~File.reads)
    /\ KeepLoose
    /\ UNCHANGED <<tree, blobs, budget, stack, call, scan_pc>>

(* The size on disk is compared with the budget before the file is read. *)
TooLargeToRead ==
    /\ Walking /\ Candidate /\ SizeOf(File.zip) > budget
    /\ scan_pc' = "failed"
    /\ UNCHANGED <<tree, todo, entries, blobs, budget, stack, call>>

ReadZip ==
    /\ Walking /\ Candidate /\ SizeOf(File.zip) <= budget /\ File.reads
    /\ call' = [zip |-> File.zip, prefix |-> File.path, remaining |-> tree.depth - 1]
    /\ scan_pc' = "expand"
    /\ UNCHANGED <<tree, todo, entries, blobs, budget, stack>>

-----------------------------------------------------------------------------
(* expand(): parse, charge, list what is opaque, put off the inner archives. *)

Parses == tree.zips[call.zip].parses
Members(z) == tree.zips[z].members
IsInner(m, remaining) == m.zip # None /\ remaining >= 1

FilesOf(z) == {i \in DOMAIN Members(z) : ~Members(z)[i].dir}

Opaque(z, remaining) == Picked(Members(z), {i \in FilesOf(z) : ~IsInner(Members(z)[i], remaining)})
Inner(z, remaining) == Picked(Members(z), {i \in FilesOf(z) : IsInner(Members(z)[i], remaining)})

Expanding == scan_pc = "expand" /\ call # None

Opened ==
    /\ Expanding /\ Parses /\ SizeOf(call.zip) <= budget
    /\ budget' = budget - SizeOf(call.zip)
    /\ blobs' = Append(blobs, call.zip)
    /\ LET blob == Len(blobs')
           list == Opaque(call.zip, call.remaining)
       IN /\ entries' = entries \o [i \in DOMAIN list |-> nested_entry(call.prefix, list[i], blob)]
          /\ stack' = Append(stack, [blob |-> blob, prefix |-> call.prefix,
                                     remaining |-> call.remaining,
                                     pending |-> Inner(call.zip, call.remaining)])
    /\ call' = None
    /\ UNCHANGED <<tree, todo, scan_pc>>

(* The budget is no bad file: the error goes through every caller. *)
OverBudget ==
    /\ Expanding /\ Parses /\ SizeOf(call.zip) > budget
    /\ scan_pc' = "failed"
    /\ UNCHANGED <<tree, todo, entries, blobs, budget, stack, call>>

Top == Last(stack)
Under == Front(stack)
Popped == Append(Under, [Top EXCEPT !.pending = Tail(@)])

(* Mutant: an inner archive that does not open is dropped. *)
DropInner == stack' = Popped /\ UNCHANGED entries

KeepOpaque ==
    /\ entries' = Append(entries, nested_entry(Top.prefix, Head(Top.pending), Top.blob))
    /\ stack' = Popped

(* What does not parse is one opaque file where it was found. *)
Rejected ==
    /\ Expanding /\ ~Parses
    /\ call' = None
    /\ IF stack = <<>> THEN KeepLoose /\ scan_pc' = "walk" /\ UNCHANGED stack
       ELSE KeepOpaque /\ UNCHANGED <<todo, scan_pc>>
    /\ UNCHANGED <<tree, blobs, budget>>

(* The item stays at the head until its own call has come back. *)
Looping == scan_pc = "expand" /\ call = None /\ stack # <<>>

InnerUnreadable ==
    /\ Looping /\ Top.pending # <<>> /\ ~Head(Top.pending).reads
    /\ KeepOpaque
    /\ UNCHANGED <<tree, todo, blobs, budget, call, scan_pc>>

InnerRead ==
    /\ Looping /\ Top.pending # <<>> /\ Head(Top.pending).reads
    /\ call' = [zip |-> Head(Top.pending).zip, prefix |-> Append(Top.prefix, Head(Top.pending).name),
                remaining |-> Top.remaining - 1]
    /\ UNCHANGED <<tree, todo, entries, blobs, budget, stack, scan_pc>>

(* The loop is over: the item above, or the file in the walk, is done with. *)
Return ==
    /\ Looping /\ Top.pending = <<>>
    /\ IF Under = <<>>
       THEN stack' = <<>> /\ todo' = Tail(todo) /\ scan_pc' = "walk"
       ELSE /\ stack' = Append(Front(Under), [Last(Under) EXCEPT !.pending = Tail(@)])
            /\ UNCHANGED <<todo, scan_pc>>
    /\ UNCHANGED <<tree, entries, blobs, budget, call>>

Finish ==
    /\ scan_pc = "walk" /\ todo = <<>>
    /\ entries' = SortedByName(entries)
    /\ scan_pc' = "done"
    /\ UNCHANGED <<tree, todo, blobs, budget, stack, call>>

ScanNext ==
    \/ UnreadableDir \/ PassOver \/ LooseFile \/ TooLargeToRead \/ ReadZip
    \/ Opened \/ OverBudget \/ Rejected \/ InnerUnreadable \/ InnerRead \/ Return \/ Finish

=============================================================================
