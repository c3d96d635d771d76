----------------------------- MODULE WalReplay ------------------------------
(***************************************************************************)
(* Reading a database captured in the middle of its write-ahead log:       *)
(* checkpoint() of formats/sqlite/wal.rs and the lookup in                 *)
(* platform/ios/references.rs, against the SQLite library that wrote the   *)
(* two files.  The writer is external; it is the environment of the reader *)
(* and follows the file format the source's comment describes.             *)
(***************************************************************************)
EXTENDS Integers, Sequences, FiniteSets, FiniteSetsExt, Functions

CONSTANTS MaxPages,       \* bound: pages of the database
          MaxTxns,        \* bound: transactions begun
          MaxGenerations, \* bound: generations of the log
          NoImage         \* checkpoint() returns None

(* Of the constants; assumed where they are given. *)
WalAssumption ==
    /\ MaxPages \in Nat \ {0}
    /\ MaxTxns \in Nat
    /\ MaxGenerations \in Nat \ {0}
    /\ NoImage \notin Seq(-1 .. MaxTxns)

(* The content of a page is the number of the transaction that wrote it; 0 is
   the initial content, Torn what is on disk before a write has landed. *)
Torn == -1
Data == Torn .. MaxTxns
Databases == UNION {[1 .. n -> Data] : n \in 1 .. MaxPages}

(* A frame: its page number, the database size if it commits (else 0), the
   salts and checksum in its header, and its page of data.  Header and data are
   distinct writes, so the data may be torn.  A checksum is the list of all
   that it was computed from: the log's generation, then what each frame adds. *)
Added(page, size, data) == <<page, size, data>>
Frame == [page : 1 .. MaxPages, size : 0 .. MaxPages, salt : 1 .. MaxGenerations,
          sum : Seq(Nat \X Nat \X Nat), data : Data]

VARIABLES main,       \* the main database file
          salt,       \* the log: the salts in its header (0: no header yet)
          log_frames, \* and its frames, stale ones at the end included
          committed,  \* the frames of the log that are committed
          txn,        \* the open transaction
          begun,      \* transactions begun so far
          limit,      \* the running checkpointer copies up to this frame (0: none)
          copied,     \* the pages it has copied
          backfilled, \* frames that are all in the main file
          reached,    \* frames of which some page may be in the main file
          past        \* after how many frames the log has held which database

logVars == <<main, salt, log_frames, committed, txn, begun, limit, copied, backfilled, reached, past>>

-----------------------------------------------------------------------------
(* The reader.  `log` is a record of the log's salts and frames. *)

(* The rolling checksum before frame i: the header's, then the last frame's. *)
Running(log, i) == IF i = 1 THEN <<<<log.salt, 0, 0>>>> ELSE log.frames[i - 1].sum

Verifies(log, i) ==
    LET f == log.frames[i]
    IN /\ f.salt = log.salt
       /\ f.sum = Append(Running(log, i), Added(f.page, f.size, f.data))

(* The loop ends at the first frame that does not verify. *)
Valid(log, n) == \A i \in 1 .. n : Verifies(log, i)

(* `committed` holds the frames up to the last that gives a database size. *)
Commits(log, i) == log.frames[i].size # 0 /\ Valid(log, i)
LastCommit(log) ==
    {i \in DOMAIN log.frames : Commits(log, i) /\ \A j \in i + 1 .. Len(log.frames) : ~Commits(log, j)}

ImageSizeGrowsOnly(log, last) == Max({log.frames[i].size : i \in 1 .. last})
ImageSize(log, last) == log.frames[last].size

PageImageWithPending(file, log, last, p) ==
    LET writes == {i \in DOMAIN log.frames : log.frames[i].page = p /\ Valid(log, i)}
    IN IF writes # {} THEN log.frames[Max(writes)].data
       ELSE IF p \in DOMAIN file THEN file[p] ELSE 0

(* A page's last frame wins; a page the log lacks comes from the main file. *)
PageImage(file, log, last, p) ==
    LET writes == {i \in 1 .. last : log.frames[i].page = p}
    IN IF writes # {} THEN log.frames[Max(writes)].data
       ELSE IF p \in DOMAIN file THEN file[p] ELSE 0

checkpoint(file, log) ==
    LET images == {[p \in 1 .. ImageSize(log, last) |-> PageImage(file, log, last, p)] : last \in LastCommit(log)}
    IN IF log.salt = 0 \/ images = {} THEN NoImage ELSE CHOOSE image \in images : TRUE

(* A log that adds nothing leaves the reader on the main file. *)
Readable(file, log) ==
    LET image == checkpoint(file, log) IN IF image = NoImage THEN file ELSE image

log == [salt |-> salt, frames |-> log_frames]
CutAt(n) == [log EXCEPT !.frames = SubSeq(@, 1, n)]

-----------------------------------------------------------------------------
(* The writer. *)
Created == <<0>>
NoTxn == [size |-> 0, pages |-> {}, left |-> {}, outcome |-> <<>>]

(* A transaction changes some pages; it writes every page it appends. *)
Changes(old, size) == {ps \in SUBSET (1 .. size) : ps # {} /\ ((Len(old) + 1) .. size) \subseteq ps}
Result(old, size, pages, id) == [p \in 1 .. size |-> IF p \in pages THEN id ELSE old[p]]

LogInit ==
    /\ main = Created
    /\ salt = 0
    /\ log_frames = <<>>
    /\ committed = 0
    /\ txn = NoTxn
    /\ begun = 0
    /\ limit = 0
    /\ copied = {}
    /\ backfilled = 0
    /\ reached = 0
    /\ past = [n \in {0} |-> main]

Latest == past[committed]

Begin ==
    /\ salt # 0
    /\ txn = NoTxn
    /\ begun < MaxTxns
    /\ begun' = begun + 1
    /\ \E size \in 1 .. MaxPages : \E pages \in Changes(Latest, size) :
          txn' = [size |-> size, pages |-> pages, left |-> pages,
                  outcome |-> Result(Latest, size, pages, begun + 1)]
    /\ UNCHANGED <<main, salt, log_frames, committed, limit, copied, backfilled, reached, past>>

(* The frames of the open transaction that are in the log. *)
InFlight == Cardinality(txn.pages) - Cardinality(txn.left)

PutAt(list, n, frame) == [i \in 1 .. Max({n, Len(list)}) |-> IF i = n THEN frame ELSE list[i]]

(* The next frame, over whatever is there; the last one carries the size. *)
WriteFrame ==
    /\ txn # NoTxn
    /\ txn.left # {}
    /\ LET n == committed + InFlight + 1
           size == IF Cardinality(txn.left) = 1 THEN txn.size ELSE 0
           frame(p) == [page |-> p, size |-> size, salt |-> salt, data |-> Torn,
                        sum |-> Append(Running(log, n), Added(p, size, begun))]
       IN \E p \in txn.left :
             /\ log_frames' = PutAt(log_frames, n, frame(p))
             /\ txn' = [txn EXCEPT !.left = @ \ {p}]
    /\ UNCHANGED <<main, salt, committed, begun, limit, copied, backfilled, reached, past>>

Pending == {i \in (committed + 1) .. (committed + InFlight) : log_frames[i].data = Torn}

(* The data of frames lands in any order; with the last, the transaction is
   committed. *)
Land(i) ==
    /\ i \in Pending
    /\ log_frames' = [log_frames EXCEPT ![i].data = begun]
    /\ IF txn.left = {} /\ Pending = {i}
       THEN /\ committed' = committed + InFlight
            /\ past' = [n \in DOMAIN past \cup {committed'} |->
                           IF n = committed' THEN txn.outcome ELSE past[n]]
            /\ txn' = NoTxn
       ELSE UNCHANGED <<committed, past, txn>>
    /\ UNCHANGED <<main, salt, begun, limit, copied, backfilled, reached>>

(* The transaction is rolled back, or its process dies: its frames stay. *)
Abandon ==
    /\ txn # NoTxn
    /\ txn' = NoTxn
    /\ UNCHANGED <<main, salt, log_frames, committed, begun, limit, copied, backfilled, reached, past>>

(* A checkpointer copies pages into the main file, as of some commit that every
   reader has reached, in any order and beside the writer.  If another was
   running, it has died. *)
StartCheckpoint ==
    /\ limit' \in {n \in DOMAIN past : n > backfilled}
    /\ copied' = {}
    /\ reached' = Max({reached, limit'})
    /\ UNCHANGED <<main, salt, log_frames, committed, txn, begun, backfilled, past>>

InLog == {log_frames[i].page : i \in (backfilled + 1) .. limit} \cap DOMAIN past[limit]

CopyPage(p) ==
    /\ limit # 0
    /\ p \in InLog \ copied
    /\ copied' = copied \cup {p}
    /\ main' = [q \in 1 .. Max({Len(main), p}) |->
                    IF q = p THEN past[limit][p] ELSE IF q \in DOMAIN main THEN main[q] ELSE 0]
    /\ UNCHANGED <<salt, log_frames, committed, txn, begun, limit, backfilled, reached, past>>

(* Only a checkpoint of the whole log sets the size of the main file. *)
EndCheckpoint ==
    /\ limit # 0
    /\ InLog \subseteq copied
    /\ backfilled' = limit
    /\ limit' = 0
    /\ copied' = {}
    /\ main' = IF limit = committed THEN SubSeq(main, 1, Len(Latest)) ELSE main
    /\ UNCHANGED <<salt, log_frames, committed, txn, begun, reached, past>>

(* A log that is all in the main file is started over from its first frame,
   with new salts; the old frames are still behind the header. *)
Restart ==
    /\ txn = NoTxn
    /\ limit = 0
    /\ backfilled = committed
    /\ salt = 0 \/ committed > 0
    /\ salt < MaxGenerations
    /\ salt' = salt + 1
    /\ committed' = 0
    /\ backfilled' = 0
    /\ reached' = 0
    /\ past' = [n \in {0} |-> Latest]
    /\ UNCHANGED <<main, log_frames, txn, begun, limit, copied>>

LogNext ==
    \/ Begin \/ WriteFrame \/ Abandon
    \/ \E i \in 1 .. Len(log_frames) : Land(i)
    \/ StartCheckpoint \/ EndCheckpoint
    \/ \E p \in 1 .. MaxPages : CopyPage(p)
    \/ Restart

LogSpec == LogInit /\ [][LogNext]_logVars

-----------------------------------------------------------------------------
(* Whenever the two files are captured, "the state SQLite itself would read"
   (wal.rs:5) is what the reader gets: at each step of the writer and of a
   checkpoint beside it, the reader's database stays as it is or takes one whole
   transaction.  Frames of a transaction that never landed, of an abandoned one and
   of an earlier generation of the log are never in it. *)
Store == INSTANCE CommittedStore WITH
             db <- Readable(main, log),
             outcome <- txn.outcome,
             NoTxn <- <<>>

ImplementsStore == Store!Spec

(* A capture that lost the end of the log still gives a database that once was
   committed, the one after the last commit it holds, provided it holds every
   frame a checkpoint has begun to copy (wal.rs:36, "how a truncated or torn
   capture is handled here too"). *)
CutLogIsAPast ==
    \A n \in reached .. Len(log_frames) :
        Readable(main, CutAt(n)) = past[Max({m \in DOMAIN past : m <= n})]

=============================================================================
