------------------------------ MODULE NamesHost ------------------------------
(***************************************************************************)
(* Transactional replay: the in-memory reducer, the SQLite store, and the  *)
(* host that drives both (crates/coppice-names-sqlite/src/lib.rs;          *)
(* docs/decisions/0005, docs/SPECIFICATION.md section 12).  A batch of     *)
(* blocks is one SQLite transaction; with the store's own adapter each     *)
(* block is a savepoint inside it.  The process can stop, and a statement  *)
(* can fail, at any step.                                                  *)
(*                                                                         *)
(* The host is not part of this repository.  It is modelled from the       *)
(* calls the store's tests make and the decision record: it applies a      *)
(* block to the reducer, hands the store the delta, and after a failure    *)
(* reloads the reducer from the stored core snapshot when that belongs to  *)
(* the stored tip, or replays the blocks the wallet has scanned.           *)
(***************************************************************************)
EXTENDS NamesStore

CONSTANT adapter        \* which adapter writes the blocks

ASSUME AdapterAssumption == adapter \in {"sqlite", "wallet"}

VARIABLES
    disk,       \* the committed database, None before the first open
    conn,       \* the identity it was opened with, None while closed
    tx,         \* the open transaction's view of it, None outside one
    savepoint,  \* the view before the block in progress (SAVEPOINT)
    delta,      \* the reducer's delta not yet handed to the store
    torn,       \* a statement failed after others had run
    rewind,     \* the wallet's rewind in progress
    up          \* the reducer is loaded

storeVars == <<disk, conn, tx, savepoint, delta, torn, rewind, up>>
hostVars  == <<vars, storeVars>>

SInit == /\ Init
         /\ disk = None /\ conn = None /\ tx = None /\ savepoint = None
         /\ delta = None /\ torn = FALSE /\ rewind = None /\ up = FALSE

Open(id) ==
    /\ conn = None
    /\ IF disk = None THEN disk' = NewStore(id)
       ELSE identity_matches(disk.identity, id) /\ UNCHANGED disk
    /\ conn' = id
    /\ UNCHANGED <<vars, tx, savepoint, delta, torn, rewind, up>>

\* with_transaction, or the wallet's transaction and WalletNamesTransaction::new.
BeginTransaction(id) ==
    /\ conn # None /\ tx = None
    /\ IF adapter = "sqlite" THEN id = conn
       ELSE wallet_identity_matches(disk.identity, id)
    /\ tx' = disk
    /\ UNCHANGED <<vars, disk, conn, savepoint, delta, torn, rewind, up>>

\* Between two calls of the batch, with the reducer loaded.
Idle == /\ up /\ tx # None /\ block = None
        /\ savepoint = None /\ delta = None /\ rewind = None /\ ~torn

ScanIndex(height) == height - activation_height + 1

CaughtUp(s) ==
    IF s.scan = << >> THEN s.tip = None
    ELSE /\ s.tip # None
         /\ ScanIndex(s.tip.height) = Len(s.scan)
         /\ s.tip.hash = s.scan[Len(s.scan)].hash

\* A block's header covers the hash of its parent, so the two hashes differ.
OfChain(b) == b.hash # b.prev_hash

\* with_block_savepoint opens the savepoint; a block the wallet has not seen
\* is scanned in the same savepoint.
SBeginBlock(b) ==
    /\ Idle /\ OfChain(b)
    /\ IF CaughtUp(tx) THEN tx' = [tx EXCEPT !.scan = Append(@, b)]
       ELSE /\ b = tx.scan[ScanIndex(next_height)]
            /\ tx' = tx
    /\ savepoint' = IF adapter = "sqlite" THEN tx ELSE None
    /\ BeginBlock(b, {})
    /\ UNCHANGED <<disk, conn, delta, torn, rewind, up>>

SApplyTransaction == ApplyTransaction /\ UNCHANGED storeVars

SEndBlock ==
    /\ EndBlock
    /\ delta' = delta_from_undo(reducer_tip, Tip(block.height, block.hash), undo)
    /\ UNCHANGED <<disk, conn, tx, savepoint, torn, rewind, up>>

StoreDelta ==
    /\ delta # None /\ ~torn
    /\ DeltaAccepted(tx, delta)
    /\ tx' = IF adapter = "sqlite" THEN apply_delta(tx, delta)
             ELSE wallet_apply_delta(tx, delta)
    /\ delta' = None
    /\ UNCHANGED <<vars, disk, conn, savepoint, torn, rewind, up>>

\* The block's closure returned Ok.
ReleaseSavepoint ==
    /\ savepoint # None /\ block = None /\ delta = None /\ ~torn
    /\ savepoint' = None
    /\ UNCHANGED <<vars, disk, conn, tx, delta, torn, rewind, up>>

\* A storage error, or a check that refuses the delta, in mid-delta.
DeltaFails ==
    /\ delta # None /\ ~torn
    /\ tx' \in IF DeltaAccepted(tx, delta) THEN PartlyApplied(tx, delta) ELSE {tx}
    /\ torn' = TRUE
    /\ UNCHANGED <<vars, disk, conn, savepoint, delta, rewind, up>>

\* Mutant: the savepoint is released, not rolled back.
SavepointRestored_released == tx

SavepointRestored == savepoint

\* The block's closure returned an error, before or after its delta went in:
\* its writes are undone and the host takes the block back from the reducer;
\* the batch before it stays.
BlockFails ==
    /\ savepoint # None /\ block = None
    /\ tx' = SavepointRestored
    /\ savepoint' = None /\ delta' = None /\ torn' = FALSE
    /\ RollbackTip(previous_hash)
    /\ UNCHANGED <<disk, conn, rewind, up>>

Commit ==
    /\ Idle
    /\ tx # disk
    /\ disk' = tx /\ tx' = None
    /\ UNCHANGED <<vars, conn, savepoint, delta, torn, rewind, up>>

FreshMemory ==
    /\ next_height' = activation_height /\ tip_height' = None
    /\ previous_hash' = ActivationParentHash
    /\ db' = rebuild_derived_indexes([commits |-> EmptyMap, heads |-> EmptyMap])
    /\ history' = << >>
    /\ block' = None /\ pos' = 0 /\ undo' = None

BatchLost ==
    /\ tx' = None /\ savepoint' = None /\ delta' = None
    /\ torn' = FALSE /\ rewind' = None /\ up' = FALSE
    /\ FreshMemory

\* The batch's closure returned an error, or panicked: nothing of it stays.
AbortBatch == tx # None /\ BatchLost /\ UNCHANGED <<disk, conn>>

\* The process stops; SQLite recovers the last commit.
Crash == conn # None /\ BatchLost /\ conn' = None /\ UNCHANGED disk

-----------------------------------------------------------------------------
(***************************************************************************)
(* Snapshots, finalization, rewinds.                                       *)
(***************************************************************************)
Image == [tip |-> reducer_tip, next_height |-> next_height,
          commits |-> db.commits, heads |-> db.heads, history |-> history]

PutSnapshot ==
    /\ Idle /\ tx.tip # None
    /\ tx' = put_core_snapshot(tx, Image)
    /\ UNCHANGED <<vars, disk, conn, savepoint, delta, torn, rewind, up>>

SnapshotCurrent(s) == s.core_snapshot # None /\ s.core_snapshot.tip = s.tip

LoadImage(image) ==
    /\ next_height' = image.next_height /\ tip_height' = image.tip.height
    /\ previous_hash' = image.tip.hash
    /\ db' = rebuild_derived_indexes([commits |-> image.commits, heads |-> image.heads])
    /\ history' = image.history
    /\ block' = None /\ pos' = 0 /\ undo' = None

\* Without a snapshot of the stored tip the wallet's adapter resets the rows;
\* a store of its own is discarded and made anew.
Resume ==
    /\ tx # None /\ ~up
    /\ up' = TRUE
    /\ IF SnapshotCurrent(tx) THEN LoadImage(tx.core_snapshot) /\ tx' = tx
       ELSE /\ FreshMemory
            /\ tx' = IF adapter = "wallet" THEN reset_for_replay(tx)
                     ELSE [NewStore(tx.identity) EXCEPT !.scan = tx.scan]
    /\ UNCHANGED <<disk, conn, savepoint, delta, torn, rewind>>

\* finalize_through in a transaction of its own, and the reducer's journals.
\* Only the store's adapter has it; a wallet that embeds the store calls it on
\* the connection it initialized.
Finalize(height) ==
    /\ conn # None /\ tx = None /\ up
    /\ disk.tip # None /\ height <= disk.tip.height
    /\ finalize_safe(disk, conn, height)
    /\ disk' = finalize_through(disk, height)
    /\ FinalizeThrough(height)
    /\ UNCHANGED <<conn, tx, savepoint, delta, torn, rewind, up>>

ScanThrough(s, height) ==
    [s EXCEPT !.scan = SubSeq(@, 1, ScanIndex(height))]

\* The chain replaced its last block: reducer and store give it back.
ReorganizeTip(expected_hash) ==
    /\ adapter = "sqlite" /\ Idle
    /\ Journaled_tip(tx) /\ CaughtUp(tx)
    /\ tx.tip.hash = expected_hash
    /\ RestorableRows(tx.rollback_blocks[tx.tip.height])
    /\ tx' = ScanThrough(rollback_tip(tx), tx.tip.height - 1)
    /\ RollbackTip(expected_hash)
    /\ UNCHANGED <<disk, conn, savepoint, delta, torn, rewind, up>>

\* The wallet rewinds its own tables to a height and then the extension's:
\* rollback_to_height_or_reset, a loop over the tips above that height.
WalletRewind(height) ==
    /\ adapter = "wallet" /\ Idle
    /\ height < activation_height - 1 + Len(tx.scan)
    /\ tx' = ScanThrough(tx, height)
    /\ rewind' = [height |-> height, original_tip |-> tx.tip]
    /\ UNCHANGED <<vars, disk, conn, savepoint, delta, torn, up>>

Above == tx.tip # None /\ tx.tip.height > rewind.height

RewindStep ==
    /\ rewind # None /\ Above
    /\ Journaled_tip(tx)
    /\ RestorableRows(tx.rollback_blocks[tx.tip.height])
    /\ tx' = wallet_rollback_tip(tx)
    /\ RollbackTip(previous_hash)
    /\ UNCHANGED <<disk, conn, savepoint, delta, torn, rewind, up>>

\* rollback_to_height returned.  The last tip also loses its snapshot.
RewindEnd ==
    /\ rewind # None /\ ~Above
    /\ tx' = forget_wallet_commits(ClearStaleSnapshot(tx, rewind.original_tip),
                                   rewind.height)
    /\ rewind' = None
    /\ UNCHANGED <<vars, disk, conn, savepoint, delta, torn, up>>

\* A journal is missing: the replayable view goes, the rewind goes on.
RewindReset ==
    /\ rewind # None /\ Above
    /\ ~Journaled_tip(tx)
    /\ tx' = forget_wallet_commits(reset_for_replay(tx), rewind.height)
    /\ rewind' = None
    /\ FreshMemory
    /\ UNCHANGED <<disk, conn, savepoint, delta, torn, up>>

CommitsIn(b) ==
    {<<b.transactions[i].operation.commitment,
       [height |-> b.height, tx_index |-> b.transactions[i].tx_index,
        txid |-> b.transactions[i].txid]>> :
       i \in {k \in DOMAIN b.transactions :
                /\ b.transactions[k].operation # None
                /\ b.transactions[k].operation.kind = "Commit"}}

\* The wallet recognises one of its COMMITs in the block just applied.
RecordWalletCommit ==
    /\ adapter = "wallet" /\ Idle
    /\ tx.scan # << >> /\ CaughtUp(tx)
    /\ \E p \in CommitsIn(tx.scan[Len(tx.scan)]) :
          /\ WalletCommitAccepted(tx, p[1], p[2])
          /\ tx' = record_wallet_commit(tx, p[1], p[2])
    /\ UNCHANGED <<vars, disk, conn, savepoint, delta, torn, rewind, up>>

-----------------------------------------------------------------------------
ReplayScanned == /\ tx # None /\ ~CaughtUp(tx)
                 /\ \E i \in DOMAIN tx.scan : SBeginBlock(tx.scan[i])

\* What the host does of its own accord besides: it opens the store, finishes
\* what it began, and commits.
HostStep == \/ \E id \in Identities : Open(id) \/ BeginTransaction(id)
            \/ Resume
            \/ SApplyTransaction \/ SEndBlock \/ StoreDelta \/ ReleaseSavepoint
            \/ (torn /\ (IF adapter = "sqlite" THEN BlockFails ELSE AbortBatch))
            \/ RewindStep \/ RewindEnd \/ RewindReset
            \/ Commit

\* ReplayScanned by its guards and the block it starts: what fairness is about.
ReplayStarts ==
    /\ Idle /\ ~CaughtUp(tx)
    /\ next_height # None /\ ScanIndex(next_height) \in DOMAIN tx.scan
    /\ block' = tx.scan[ScanIndex(next_height)]
    /\ block'.prev_hash = previous_hash

SNext == \/ HostStep
         \/ ReplayScanned
         \/ \E b \in Block : SBeginBlock(b)
         \/ DeltaFails \/ BlockFails \/ AbortBatch \/ Crash
         \/ PutSnapshot \/ RecordWalletCommit
         \/ \E height \in Height :
               Finalize(height) \/ WalletRewind(height)
         \/ \E hash \in Hashes : ReorganizeTip(hash)

\* A running host goes on: fairness of its own steps, none of the faults, of
\* new blocks, snapshots, finalization and rewinds.
SFairness == WF_hostVars(HostStep) /\ WF_block(ReplayStarts)

SSpec == SInit /\ [][SNext]_hostVars /\ SFairness

-----------------------------------------------------------------------------
\* No call of the batch is half done.
Settled == block = None /\ delta = None /\ rewind = None /\ ~torn

\* The databases a reader may meet: the committed one, and the open one
\* between two calls.
Views == ({disk} \cup (IF Settled THEN {tx} ELSE {})) \ {None}

Records(s) == [heads |-> s.heads, commits |-> s.pending_commits]

\* The records a fresh reducer computes from a list of blocks: the reference
\* the rows are compared with.
BlockEffect(d, b) ==
    LET started == prune_commits(compact_claimable(mark_expired(
                      [db |-> d, undo |-> [heads |-> EmptyMap, commits |-> EmptyMap]],
                      b.height), b.height), b.height)
        after[i \in 0 .. Len(b.transactions)] ==
            IF i = 0 THEN started
            ELSE apply_transaction(after[i - 1], b.height, b.transactions[i])
    IN  after[Len(b.transactions)].db

Replayed(blocks) ==
    LET after[i \in 0 .. Len(blocks)] ==
            IF i = 0 THEN rebuild_derived_indexes([commits |-> EmptyMap, heads |-> EmptyMap])
            ELSE BlockEffect(after[i - 1], blocks[i])
    IN  after[Len(blocks)]

\* Whatever was stored, failed, rolled back and replayed before, the rows are
\* those a full replay of the scanned blocks up to the stored tip gives
\* (docs/decisions/0005: bootstrap authority is replay).
RowsAreReplay ==
    \A s \in Views :
        LET n == IF s.tip = None THEN 0 ELSE ScanIndex(s.tip.height)
            d == Replayed(SubSeq(s.scan, 1, n))
        IN  n <= Len(s.scan) /\ Records(s) = [heads |-> d.heads, commits |-> d.commits]

\* The rows are the reducer's records.  In the open transaction between two
\* calls, and in the committed database between two transactions, the stored
\* tip is the reducer's tip and head and COMMIT rows are the records it holds,
\* after deltas, rollbacks, rewinds, resets, failed blocks and restarts.
RowsAreRecords ==
    LET s == IF tx # None THEN tx ELSE disk
    IN  (up /\ Settled) =>
            /\ s.tip = reducer_tip
            /\ Records(s) = [heads |-> db.heads, commits |-> db.commits]

\* A delta of the reducer is never refused by a store with complete coverage
\* (apply_delta): its previous values are the stored ones, its records pass
\* validate_head, and no journal row of another branch is in the way.
DeltaTaken ==
    (delta # None /\ ~torn /\ tx.identity.coverage.kind = "Complete")
        => DeltaAccepted(tx, delta)

\* No commit, whichever step the process stopped at, leaves Names rows of a
\* branch the wallet does not have: the stored tip is a block of the scan
\* stored with it, and so is every journaled block.
OnScannedBranch ==
    \A s \in Views :
        LET scanned(height, hash) == /\ ScanIndex(height) \in DOMAIN s.scan
                                     /\ s.scan[ScanIndex(height)].hash = hash
        IN  /\ s.tip # None => scanned(s.tip.height, s.tip.hash)
            /\ \A h \in DOMAIN s.rollback_blocks :
                  scanned(h, s.rollback_blocks[h].hash)

\* The journals reach from the tip down to the finalized height with no gap,
\* so a reorganization above it never meets MissingRollbackJournal.
JournalsReachBack ==
    \A s \in Views :
        /\ (s.finalized_height # None /\ s.finalized_height >= activation_height) =>
              s.tip # None /\ s.finalized_height <= s.tip.height
        /\ s.tip # None =>
              DOMAIN s.rollback_blocks =
                  {h \in Height : /\ h \in activation_height .. s.tip.height
                                  /\ s.finalized_height # None => h > s.finalized_height}

\* A snapshot the host would load describes the rows beside it (ADR 0005: the
\* same commit publishes the Core checkpoint and the indexed records).
SnapshotIsOfRows ==
    \A s \in Views :
        SnapshotCurrent(s) =>
            [heads |-> s.core_snapshot.heads, commits |-> s.core_snapshot.commits]
                = Records(s)

\* With the wallet's adapter a stored snapshot is never of a branch the wallet
\* has left: a rewind that moves the tip clears it (rollback_to_height).
SnapshotOnBranch ==
    \A s \in Views :
        (adapter = "wallet" /\ s.core_snapshot # None) =>
            LET t == s.core_snapshot.tip
            IN  /\ ScanIndex(t.height) \in DOMAIN s.scan
                /\ s.scan[ScanIndex(t.height)].hash = t.hash

\* The location recorded for a COMMIT of the wallet is where the scanned chain
\* has it, although the record outlives the COMMIT's own row and survives a
\* reset (record_wallet_commit, rollback_to_height_or_reset).
WalletCommitsCanonical ==
    \A s \in Views : \A c \in DOMAIN s.wallet_commits :
        LET ref == s.wallet_commits[c]
        IN  /\ ScanIndex(ref.height) \in DOMAIN s.scan
            /\ <<c, ref>> \in CommitsIn(s.scan[ScanIndex(ref.height)])

\* Whatever identity a caller opens with, a transaction that leaves the tip in
\* place takes no journal within the retention the database was created with
\* (finalize_through, initialize_or_validate_metadata).
RetentionKept ==
    [][(disk # None /\ disk.tip # None /\ disk'.tip = disk.tip) =>
          \A h \in DOMAIN disk.rollback_blocks :
              h > disk.tip.height - disk.identity.minimum_rollback_blocks
                => h \in DOMAIN disk'.rollback_blocks]_hostVars

\* The committed rows catch up with the committed scan again and again,
\* whatever faults, rewinds and restarts came before: a host that keeps taking
\* its own steps never ends up with a delta the store refuses, a rewind that
\* cannot go on, or a reset it cannot replay from.
CatchesUp == []<>(disk # None /\ CaughtUp(disk))
=============================================================================
