---------------------------- MODULE NamesReducer ----------------------------
(***************************************************************************)
(* The canonical replay reducer (crates/coppice-names/src/reducer.rs): the *)
(* authoritative COMMIT and head records, the four derived indexes that    *)
(* drive expiry, compaction, pruning and spend detection, and the journal  *)
(* of undo records behind rollback.                                        *)
(*                                                                         *)
(* apply_block holds `&mut self' to its end.  It is split here into        *)
(* BeginBlock (every check, then the block-start lifecycle), one           *)
(* ApplyTransaction step per transaction and EndBlock; while a block is in *)
(* progress no other operation is enabled, exactly as in the code.         *)
(*                                                                         *)
(* A BTreeMap is a function on its key set.  An index that maps a key to   *)
(* a nonempty bucket of values is the set of its <<key, value>> pairs.     *)
(***************************************************************************)
EXTENDS Schedule

CONSTANTS
    None,                       \* Option::None
    Uas, Txids, Hashes, Fields, Commitments, Proofs,
    ActivationParentHash,
    VerifyReveal(_, _),         \* ProofVerifier::verify_reveal
    VerifyRefresh(_, _)         \* ProofVerifier::verify_refresh

Option(S) == S \cup {None}

CommitRef == [height : Height, tx_index : Height, txid : Txids]
StateRef  == [height : Height, tx_index : Height, txid : Txids,
              action_index : Height]

Action == [action_index : Height, nullifier : Fields, commitment : Fields]

\* The decoded bulletin of a transaction: one of three operations, or none.
Operation ==
    [kind : {"Commit"}, commitment : Commitments]
      \cup
    [kind : {"Reveal"}, name : NameIds, commit : CommitRef, ua : Uas,
     action_index : Height, successor_future_nf : Fields, proof : Proofs]
      \cup
    [kind : {"Refresh"}, name : NameIds, predecessor : StateRef, ua : Uas,
     action_index : Height, successor_future_nf : Fields, proof : Proofs]

Transaction == [tx_index : Height, txid : Txids, actions : Seq(Action),
                operation : Option(Operation)]

Block == [height : Height, hash : Hashes, prev_hash : Hashes,
          transactions : Seq(Transaction)]

ReferencedCommit == [reference : CommitRef, commitment : Commitments]

\* The record of an accepted name; the map key stands for the name itself.
HeadRecord == [ua : Uas, producer : StateRef, commitment : Fields,
               future_nf : Fields, producer_epoch : Height, expiry_height : Height,
               terminal_height : Option(Height)]

ASSUME ValuesAssumption ==
    /\ None \notin Height
    /\ None \notin HeadRecord
    /\ None \notin Commitments
    /\ None \notin Block
    /\ None \notin Operation
    /\ ActivationParentHash \in Hashes

VARIABLES
    next_height,    \* Option(Height): None once the tip is the last u32
    tip_height,     \* Option(Height): None before the first block
    previous_hash,
    db,             \* commits, heads and the four derived indexes
    history,        \* the retained undo records, oldest first
    block,          \* the block being applied, None between two calls
    pos,            \* the number of its transactions already applied
    undo            \* the undo record being filled for that block

chainVars == <<next_height, tip_height, previous_hash>>
callVars  == <<block, pos, undo>>
vars      == <<next_height, tip_height, previous_hash, db, history,
               block, pos, undo>>

-----------------------------------------------------------------------------
(***************************************************************************)
(* Maps, and the two primitives every change of a record goes through: the *)
(* journal keeps the first value it is told of (`or_insert_with'), and a   *)
(* replacement moves the record's index entries with the record.           *)
(***************************************************************************)
Get(map, key) == IF key \in DOMAIN map THEN map[key] ELSE None

\* The map after each key of changes took its new value (None: removed).
Updated(map, changes) ==
    LET new(k) == IF k \in DOMAIN changes THEN changes[k] ELSE map[k]
    IN  [k \in {k \in DOMAIN map \cup DOMAIN changes : new(k) # None} |-> new(k)]

\* Mutant: `insert' where the code has `or_insert_with'.
Journaled_last_value(journal, map, keys) ==
    [k \in DOMAIN journal \cup keys |->
        IF k \in keys THEN Get(map, k) ELSE journal[k]]

Journaled(journal, map, keys) ==
    [k \in DOMAIN journal \cup keys |->
        IF k \in DOMAIN journal THEN journal[k] ELSE Get(map, k)]

EmptyMap == [k \in {} |-> None]

\* w is the pair of the maps and the undo record under construction.
remember_head(w, names) ==
    [db |-> w.db,
     undo |-> [w.undo EXCEPT !.heads = Journaled(@, w.db.heads, names)]]

remember_commit(w, refs) ==
    [db |-> w.db,
     undo |-> [w.undo EXCEPT !.commits = Journaled(@, w.db.commits, refs)]]

ByNf(heads, names) == {<<heads[n].future_nf, n>> : n \in names}
ByExpiry(heads, names) ==
    {<<heads[n].expiry_height, n>> :
        n \in {m \in names : heads[m].terminal_height = None}}
ByTerminal(heads, names) ==
    {<<heads[n].terminal_height, n>> :
        n \in {m \in names : heads[m].terminal_height # None}}
ByHeight(refs) == {<<r.height, r>> : r \in refs}

ReplaceHeads(d, changes) ==
    LET old == DOMAIN d.heads \cap DOMAIN changes
        new == {n \in DOMAIN changes : changes[n] # None}
    IN  [commits            |-> d.commits,
         commits_by_height  |-> d.commits_by_height,
         heads              |-> Updated(d.heads, changes),
         heads_by_future_nf |->
             (d.heads_by_future_nf \ ByNf(d.heads, old)) \cup ByNf(changes, new),
         active_heads_by_expiry |->
             (d.active_heads_by_expiry \ ByExpiry(d.heads, old))
                 \cup ByExpiry(changes, new),
         terminal_heads_by_height |->
             (d.terminal_heads_by_height \ ByTerminal(d.heads, old))
                 \cup ByTerminal(changes, new)]

ReplaceCommits(d, changes) ==
    LET old == DOMAIN d.commits \cap DOMAIN changes
        new == {r \in DOMAIN changes : changes[r] # None}
    IN  [commits            |-> Updated(d.commits, changes),
         commits_by_height  |->
             (d.commits_by_height \ ByHeight(old)) \cup ByHeight(new),
         heads              |-> d.heads,
         heads_by_future_nf |-> d.heads_by_future_nf,
         active_heads_by_expiry   |-> d.active_heads_by_expiry,
         terminal_heads_by_height |-> d.terminal_heads_by_height]

\* Mutant: the old entry of the expiry index stays.
replace_head_keeps_entry(w, changes) ==
    [db |-> [ReplaceHeads(w.db, changes) EXCEPT
               !.active_heads_by_expiry = @ \cup w.db.active_heads_by_expiry],
     undo |-> w.undo]

replace_head(w, changes) ==
    [db |-> ReplaceHeads(w.db, changes), undo |-> w.undo]
replace_commit(w, changes) ==
    [db |-> ReplaceCommits(w.db, changes), undo |-> w.undo]

rebuild_derived_indexes(d) ==
    [commits                  |-> d.commits,
     commits_by_height        |-> ByHeight(DOMAIN d.commits),
     heads                    |-> d.heads,
     heads_by_future_nf       |-> ByNf(d.heads, DOMAIN d.heads),
     active_heads_by_expiry   |-> ByExpiry(d.heads, DOMAIN d.heads),
     terminal_heads_by_height |-> ByTerminal(d.heads, DOMAIN d.heads)]

\* The values an index lists at a height of the range ..=height.  A height
\* below zero (a failed checked_sub) lists nothing.
Through(index, height) == {p[2] : p \in {q \in index : q[1] <= height}}

-----------------------------------------------------------------------------
(***************************************************************************)
(* Lifecycle of a head.                                                    *)
(***************************************************************************)
terminal_at(head, height) ==
    IF head.terminal_height # None THEN head.terminal_height
    ELSE IF height >= head.expiry_height THEN head.expiry_height ELSE None

is_claimable(head, height) ==
    /\ terminal_at(head, height) # None
    /\ height >= terminal_at(head, height) + cooldown_blocks

lifecycle(head, height) ==
    IF terminal_at(head, height) = None THEN "Active"
    ELSE IF is_claimable(head, height) THEN "Missing" ELSE "Cooldown"

mark_expired(w, height) ==
    LET expired == Through(w.db.active_heads_by_expiry, height)
        present == expired \cap DOMAIN w.db.heads
    IN  replace_head(remember_head(w, expired),
            [n \in present |-> [w.db.heads[n] EXCEPT
                                  !.terminal_height = w.db.heads[n].expiry_height]])

\* Mutants: the cooldown lasts one block longer, one block less.
compact_claimable_late(w, height) ==
    LET claimable == Through(w.db.terminal_heads_by_height,
                             height - cooldown_blocks - 1)
    IN  replace_head(remember_head(w, claimable), [n \in claimable |-> None])

compact_claimable_early(w, height) ==
    LET claimable == Through(w.db.terminal_heads_by_height,
                             height - cooldown_blocks + 1)
    IN  replace_head(remember_head(w, claimable), [n \in claimable |-> None])

compact_claimable(w, height) ==
    LET claimable == Through(w.db.terminal_heads_by_height,
                             height - cooldown_blocks)
    IN  replace_head(remember_head(w, claimable), [n \in claimable |-> None])

prune_commits(w, height) ==
    LET expired == Through(w.db.commits_by_height, height - commit_ttl_blocks)
    IN  replace_commit(remember_commit(w, expired), [r \in expired |-> None])

-----------------------------------------------------------------------------
(***************************************************************************)
(* The three operations.  Each returns the pair w it was given, changed    *)
(* when every clause holds; the id of the first failed clause is reporting *)
(* and is left out.                                                        *)
(***************************************************************************)
HasAction(tx, index) ==
    /\ index + 1 \in DOMAIN tx.actions
    /\ tx.actions[index + 1].action_index = index

NewHead(height, tx) ==
    LET op == tx.operation
    IN  [ua              |-> op.ua,
         producer        |-> [height |-> height, tx_index |-> tx.tx_index,
                              txid |-> tx.txid,
                              action_index |-> op.action_index],
         commitment      |-> tx.actions[op.action_index + 1].commitment,
         future_nf       |-> op.successor_future_nf,
         producer_epoch  |-> epoch(height),
         expiry_height   |-> expiry(height),
         terminal_height |-> None]

InstallHead(w, name, head) ==
    replace_head(remember_head(w, {name}), [n \in {name} |-> head])

RevealStatement(height, tx, commitment) ==
    LET op == tx.operation
        action == tx.actions[op.action_index + 1]
    IN  [name_id |-> op.name, inclusion_epoch |-> epoch(height),
         commitment |-> commitment, commit_ref |-> op.commit, ua |-> op.ua,
         action_index |-> op.action_index,
         action_nullifier |-> action.nullifier,
         action_commitment |-> action.commitment,
         successor_future_nf |-> op.successor_future_nf]

\* Mutant: a head that is still there does not reject the REVEAL.
RevealAccepted_over_head(d, height, tx) ==
    LET op == tx.operation
    IN  /\ accepts_operation(op.name, height)
        /\ accepts_commit(op.commit.height, height)
        /\ op.commit \in DOMAIN d.commits
        /\ HasAction(tx, op.action_index)
        /\ VerifyReveal(RevealStatement(height, tx, d.commits[op.commit]),
                        op.proof)
        /\ expiry_fits(height)

RevealAccepted(d, height, tx) ==
    LET op == tx.operation
    IN  /\ op.name \notin DOMAIN d.heads
        /\ accepts_operation(op.name, height)
        /\ accepts_commit(op.commit.height, height)
        /\ op.commit \in DOMAIN d.commits
        /\ HasAction(tx, op.action_index)
        /\ VerifyReveal(RevealStatement(height, tx, d.commits[op.commit]),
                        op.proof)
        /\ expiry_fits(height)

apply_reveal(w, height, tx) ==
    IF RevealAccepted(w.db, height, tx)
      THEN InstallHead(w, tx.operation.name, NewHead(height, tx))
      ELSE w

RefreshStatement(height, tx, predecessor) ==
    LET op == tx.operation
        action == tx.actions[op.action_index + 1]
    IN  [name_id |-> op.name, predecessor_ref |-> op.predecessor,
         predecessor_commitment |-> predecessor.commitment,
         predecessor_future_nf |-> predecessor.future_nf,
         predecessor_epoch |-> predecessor.producer_epoch,
         inclusion_epoch |-> epoch(height), ua |-> op.ua,
         action_index |-> op.action_index,
         action_nullifier |-> action.nullifier,
         action_commitment |-> action.commitment,
         successor_future_nf |-> op.successor_future_nf]

RefreshAccepted(d, height, tx) ==
    LET op == tx.operation
        predecessor == d.heads[op.name]
    IN  /\ op.name \in DOMAIN d.heads
        /\ height >= activation_height
        /\ lifecycle(predecessor, height) = "Active"
        /\ predecessor.producer = op.predecessor
        /\ predecessor.producer_epoch < epoch(height)
        /\ accepts_operation(op.name, height)
        /\ HasAction(tx, op.action_index)
        /\ tx.actions[op.action_index + 1].nullifier = predecessor.future_nf
        /\ VerifyRefresh(RefreshStatement(height, tx, predecessor), op.proof)
        /\ expiry_fits(height)

apply_refresh(w, height, tx) ==
    IF RefreshAccepted(w.db, height, tx)
      THEN InstallHead(w, tx.operation.name, NewHead(height, tx))
      ELSE w

\* A COMMIT is always stored, under the position of its transaction.
apply_commit(w, height, tx) ==
    LET ref == [height |-> height, tx_index |-> tx.tx_index, txid |-> tx.txid]
    IN  replace_commit(remember_commit(w, {ref}),
                       [r \in {ref} |-> tx.operation.commitment])

apply_operation(w, height, tx) ==
    IF tx.operation = None THEN w
    ELSE CASE tx.operation.kind = "Commit"  -> apply_commit(w, height, tx)
           [] tx.operation.kind = "Reveal"  -> apply_reveal(w, height, tx)
           [] tx.operation.kind = "Refresh" -> apply_refresh(w, height, tx)

\* Mutant: only transactions without a bulletin are searched for spends.
Nullifiers_without_bulletin(tx) ==
    {tx.actions[i].nullifier : i \in {k \in DOMAIN tx.actions : tx.operation = None}}

Nullifiers(tx) == {tx.actions[i].nullifier : i \in DOMAIN tx.actions}

\* Mutant: a spend ends a head again that is already terminal.
apply_transaction_restarts_cooldown(w, height, tx) ==
    LET spent == {p[2] : p \in {q \in w.db.heads_by_future_nf :
                                  q[1] \in Nullifiers(tx)}}
        after == apply_operation(w, height, tx)
        heads == after.db.heads
        current == {n \in spent : /\ n \in DOMAIN heads
                                  /\ heads[n].producer = w.db.heads[n].producer}
    IN  replace_head(remember_head(after, current),
            [n \in current |-> [heads[n] EXCEPT !.terminal_height = height]])

\* The heads an authenticated nullifier spends are found before the operation
\* runs; the ones still current after it become terminal at this height.
apply_transaction(w, height, tx) ==
    LET spent == {p[2] : p \in {q \in w.db.heads_by_future_nf :
                                  q[1] \in Nullifiers(tx)}}
        after == apply_operation(w, height, tx)
        heads == after.db.heads
        current == {n \in spent : /\ n \in DOMAIN heads
                                  /\ heads[n].producer = w.db.heads[n].producer}
        ending == {n \in current : heads[n].terminal_height = None}
    IN  replace_head(remember_head(after, current),
            [n \in ending |-> [heads[n] EXCEPT !.terminal_height = height]])

-----------------------------------------------------------------------------
(***************************************************************************)
(* apply_block_detailed.                                                   *)
(***************************************************************************)
Init == /\ next_height = activation_height
        /\ tip_height = None
        /\ previous_hash = ActivationParentHash
        /\ db = [commits |-> EmptyMap, heads |-> EmptyMap,
                 commits_by_height |-> {}, heads_by_future_nf |-> {},
                 active_heads_by_expiry |-> {}, terminal_heads_by_height |-> {}]
        /\ history = << >>
        /\ block = None /\ pos = 0 /\ undo = None

\* Transaction indexes increase strictly; actions are numbered 0..n-1.
Canonical(b) ==
    /\ \A i, j \in DOMAIN b.transactions :
          i < j => b.transactions[i].tx_index < b.transactions[j].tx_index
    /\ \A i \in DOMAIN b.transactions :
          \A k \in DOMAIN b.transactions[i].actions :
             b.transactions[i].actions[k].action_index = k - 1

RevealReferences(b) ==
    {b.transactions[i].operation.commit :
        i \in {k \in DOMAIN b.transactions :
                 /\ b.transactions[k].operation # None
                 /\ b.transactions[k].operation.kind = "Reveal"}}

\* Evidence for a COMMIT is admitted only for a REVEAL of this block, inside
\* the COMMIT's lifetime, and never against another value for the same place.
EvidenceAdmissible(b, referenced_commits) ==
    /\ \A e \in referenced_commits :
          /\ e.reference \in RevealReferences(b)
          /\ e.reference.height >= activation_height
          /\ e.reference.height < b.height
          /\ b.height - e.reference.height < commit_ttl_blocks
          /\ e.reference \in DOMAIN db.commits
               => db.commits[e.reference] = e.commitment
    /\ \A e, f \in referenced_commits :
          e.reference = f.reference => e.commitment = f.commitment

supplied(referenced_commits) ==
    [r \in {e.reference : e \in referenced_commits} |->
        (CHOOSE e \in referenced_commits : e.reference = r).commitment]

new_undo(b) == [height |-> b.height, hash |-> b.hash,
                previous_hash |-> previous_hash,
                previous_next_height |-> next_height,
                previous_tip_height |-> tip_height,
                commits |-> EmptyMap, heads |-> EmptyMap]

\* Mutant: evidence is installed without a journal entry.
insert_supplied_unjournaled(w, changes) == replace_commit(w, changes)

insert_supplied(w, changes) ==
    replace_commit(remember_commit(w, DOMAIN changes), changes)

\* A call that fails one of the checks returns its error and changes nothing.
BeginBlock(b, referenced_commits) ==
    /\ block = None
    /\ b.height = next_height
    /\ b.prev_hash = previous_hash
    /\ Canonical(b)
    /\ EvidenceAdmissible(b, referenced_commits)
    /\ LET w1 == mark_expired([db |-> db, undo |-> new_undo(b)], b.height)
           w2 == compact_claimable(w1, b.height)
           w3 == prune_commits(w2, b.height)
           w4 == insert_supplied(w3, supplied(referenced_commits))
       IN  db' = w4.db /\ undo' = w4.undo
    /\ block' = b /\ pos' = 0
    /\ UNCHANGED <<chainVars, history>>

ApplyTransaction ==
    /\ block # None
    /\ pos < Len(block.transactions)
    /\ LET w == apply_transaction([db |-> db, undo |-> undo], block.height,
                                  block.transactions[pos + 1])
       IN  db' = w.db /\ undo' = w.undo
    /\ pos' = pos + 1
    /\ UNCHANGED <<chainVars, history, block>>

EndBlock ==
    /\ block # None
    /\ pos = Len(block.transactions)
    /\ next_height' = IF block.height < U32Max THEN block.height + 1 ELSE None
    /\ tip_height' = block.height
    /\ previous_hash' = block.hash
    /\ history' = Append(history, undo)
    /\ block' = None /\ pos' = 0 /\ undo' = None
    /\ UNCHANGED db

-----------------------------------------------------------------------------
(***************************************************************************)
(* Rollback, finalization, snapshots.                                      *)
(***************************************************************************)
\* Mutant: the COMMITs of the removed block stay.
Restored_heads_only(d, u) == ReplaceHeads(d, u.heads)

\* The records put back, as a function of the maps and an undo record.
Restored(d, u) == ReplaceHeads(ReplaceCommits(d, u.commits), u.heads)

RollbackTip(expected_hash) ==
    /\ block = None
    /\ history # << >>
    /\ LET u == history[Len(history)]
       IN  /\ u.hash = expected_hash
           /\ previous_hash = expected_hash
           /\ db' = Restored(db, u)
           /\ previous_hash' = u.previous_hash
           /\ next_height' = u.previous_next_height
           /\ tip_height' = u.previous_tip_height
    /\ history' = SubSeq(history, 1, Len(history) - 1)
    /\ UNCHANGED callVars

\* pop_front while the oldest journal is at or below the height.
FinalizeThrough(height) ==
    /\ block = None
    /\ tip_height # None /\ height <= tip_height
    /\ \E n \in 0 .. Len(history) :
          /\ \A i \in 1 .. n : history[i].height <= height
          /\ n < Len(history) => history[n + 1].height > height
          /\ history' = SubSeq(history, n + 1, Len(history))
    /\ UNCHANGED <<chainVars, db, callVars>>

\* The checks load_snapshot makes of what save_snapshot wrote: tip linkage,
\* every record against the tip, every journal against its own parent tip.
TipValid(next, tip) ==
    IF tip = None THEN next = activation_height
    ELSE /\ tip >= activation_height
         /\ next = IF tip < U32Max THEN tip + 1 ELSE None

CommitValid(tip, ref) ==
    /\ tip # None
    /\ ref.height >= activation_height
    /\ ref.height <= tip
    /\ tip - ref.height < commit_ttl_blocks

HeadValid(tip, head) ==
    /\ tip # None
    /\ head.producer.height >= activation_height
    /\ head.producer.height <= tip
    /\ head.producer_epoch = epoch(head.producer.height)
    /\ expiry_fits(head.producer.height)
    /\ head.expiry_height = expiry(head.producer.height)
    /\ head.terminal_height # None =>
          head.terminal_height \in head.producer.height .. tip
    /\ head.terminal_height = None => tip < head.expiry_height
    /\ ~is_claimable(head, tip)

UndoValid(tip, u) ==
    /\ tip # None /\ u.height <= tip
    /\ u.previous_next_height = u.height
    /\ u.previous_tip_height = IF u.height = activation_height THEN None
                               ELSE u.height - 1
    /\ \A r \in DOMAIN u.commits :
          /\ r.height <= u.height
          /\ u.commits[r] # None => CommitValid(u.previous_tip_height, r)
    /\ \A n \in DOMAIN u.heads :
          u.heads[n] # None => HeadValid(u.previous_tip_height, u.heads[n])

HistoryValid(tip, hash, hist) ==
    hist # << >> =>
        /\ hist[Len(hist)].height = tip
        /\ hist[Len(hist)].hash = hash
        /\ \A i \in 1 .. Len(hist) - 1 :
              /\ hist[i].height + 1 = hist[i + 1].height
              /\ hist[i + 1].previous_hash = hist[i].hash

RecordsValid(tip, d) ==
    /\ \A r \in DOMAIN d.commits : CommitValid(tip, r)
    /\ \A n \in DOMAIN d.heads : HeadValid(tip, d.heads[n])

SnapshotValid ==
    /\ TipValid(next_height, tip_height)
    /\ RecordsValid(tip_height, db)
    /\ \A i \in 1 .. Len(history) : UndoValid(tip_height, history[i])
    /\ HistoryValid(tip_height, previous_hash, history)

\* save_snapshot, a restart and load_snapshot: the indexes are not stored and
\* are rebuilt from the records.
Restart ==
    /\ block = None
    /\ SnapshotValid
    /\ db' = rebuild_derived_indexes(db)
    /\ UNCHANGED <<chainVars, history, callVars>>

-----------------------------------------------------------------------------
Next == \/ \E b \in Block, e \in SUBSET ReferencedCommit : BeginBlock(b, e)
        \/ ApplyTransaction
        \/ EndBlock
        \/ \E hash \in Hashes : RollbackTip(hash)
        \/ \E height \in Height : FinalizeThrough(height)
        \/ Restart

Spec == Init /\ [][Next]_vars

-----------------------------------------------------------------------------
(***************************************************************************)
(* Resolution: what a caller is told about a name.                         *)
(***************************************************************************)
NoRecord == [lifecycle |-> "Missing", ua |-> None, head |-> None]

resolve(name, height) ==
    IF name \notin DOMAIN db.heads THEN NoRecord
    ELSE LET head == db.heads[name]
             life == lifecycle(head, height)
         IN  IF life = "Missing" THEN NoRecord
             ELSE [lifecycle |-> life, head |-> head,
                   ua |-> IF life = "Active" THEN head.ua ELSE None]

\* Only the tip can be asked about; before the first block, the activation
\* parent.
resolve_answers(height) ==
    \/ tip_height = None /\ height = activation_height - 1
    \/ tip_height # None /\ height = tip_height

-----------------------------------------------------------------------------
(***************************************************************************)
(* Properties.                                                             *)
(***************************************************************************)
MapOf(map, keys, values) ==
    DOMAIN map \subseteq keys /\ map \in [DOMAIN map -> values]

UndoOK(u) ==
    /\ u.height \in Height /\ u.hash \in Hashes /\ u.previous_hash \in Hashes
    /\ u.previous_next_height \in Height
    /\ u.previous_tip_height \in Option(Height)
    /\ MapOf(u.commits, CommitRef, Option(Commitments))
    /\ MapOf(u.heads, NameIds, Option(HeadRecord))

\* Every variable has its type; an undo record exists exactly while a block is
\* being applied (reducer.rs, struct Reducer and struct Undo).
TypeOK ==
    /\ next_height \in Option(Height)
    /\ tip_height \in Option(Height)
    /\ previous_hash \in Hashes
    /\ MapOf(db.commits, CommitRef, Commitments)
    /\ MapOf(db.heads, NameIds, HeadRecord)
    /\ db.commits_by_height \subseteq Height \X CommitRef
    /\ db.heads_by_future_nf \subseteq Fields \X NameIds
    /\ db.active_heads_by_expiry \subseteq Height \X NameIds
    /\ db.terminal_heads_by_height \subseteq Height \X NameIds
    /\ \A i \in 1 .. Len(history) : UndoOK(history[i])
    /\ block \in Option(Block)
    /\ pos \in Nat
    /\ IF block = None THEN undo = None ELSE UndoOK(undo)

\* The four derived indexes list exactly the authoritative records, at every
\* step of a block and after every rollback.  mark_expired, compact_claimable,
\* prune_commits and spend detection walk the indexes only, and two of them
\* index `self.heads' with what they find: a missing entry is a lease that
\* never ends or a spend that goes unseen, a leftover entry a panic.
IndexesCoherent == db = rebuild_derived_indexes(db)

\* Whatever calls led here, the snapshot of an idle reducer passes every check
\* load_snapshot makes, so a restart never has to fall back to a full replay:
\* records are no older than the tip allows, terminal heads are marked and
\* compacted on time, and each journal describes a valid parent state.
SnapshotAccepted == block = None => SnapshotValid

=============================================================================
