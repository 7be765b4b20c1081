---------------------------- MODULE WalletPlans ----------------------------
(***************************************************************************)
(* Wallet operation planning and recovery (crates/coppice-names-wallet:    *)
(* replacement.rs, recovery.rs, bond.rs) against the reducer that judges   *)
(* what was planned.  A plan is prepared for one operation height on the   *)
(* chain the wallet sees, and may be mined then, later, after a            *)
(* reorganization, or never.  The wallet keeps no secret: every key,       *)
(* opening and bond note is derived again from the seed and public data.   *)
(*                                                                         *)
(* A hash derivation is the record of its inputs, so two derivations agree *)
(* exactly when their inputs do; the retry loops look for the first valid  *)
(* candidate and are deterministic.  The reducer is the one of             *)
(* ReducerRollback, whose trail says where a rollback leads.               *)
(***************************************************************************)
EXTENDS ReducerRollback, FiniteSets

CONSTANTS
    Seeds,              \* wallet seeds (of the right length)
    WalletNotes,        \* ordinary notes: [id, value]
    BOND_ZATOSHIS,
    MaxPlans            \* bound on the plans a behaviour prepares

VARIABLE plans          \* the prepared publications

wvars == <<hvars, plans>>

-----------------------------------------------------------------------------
(***************************************************************************)
(* recovery.rs.                                                            *)
(***************************************************************************)
derive_name_spending_key(seed, name) == [seed |-> seed, name |-> name]

\* Mutant: the opening does not depend on the epoch.
derive_commit_opening_any_epoch(key, name, target_epoch) ==
    [name |-> name, epoch |-> 0, owner |-> key]

derive_commit_opening(key, name, target_epoch) ==
    [name |-> name, epoch |-> target_epoch, owner |-> key]

derive_bond_note(key, tag, reference, target_epoch, ua, index, nullifier) ==
    [key |-> key, value |-> BOND_ZATOSHIS, tag |-> tag, reference |-> reference,
     epoch |-> target_epoch, ua |-> ua, action_index |-> index, rho |-> nullifier]

derive_reveal_bond_note(key, commit_ref, target_epoch, ua, index, nullifier) ==
    derive_bond_note(key, 1, commit_ref, target_epoch, ua, index, nullifier)

derive_refresh_bond_note(key, predecessor, target_epoch, ua, index, nullifier) ==
    derive_bond_note(key, 2, predecessor, target_epoch, ua, index, nullifier)

\* External: a note's commitment, and its nullifier under its owner's key.
CommitmentOf(note) == [note |-> note]
NullifierOf(note, key) == [note |-> note, by |-> key]

\* External: a proof shows its key's knowledge for one statement.
Proof(key, statement) == [key |-> key, statement |-> statement]

\* External: what the two circuits state of the key behind a proof
\* (docs/SPECIFICATION.md, sections 8.2 and 8.3).
OpensTo(field, nf, key) ==
    /\ field = CommitmentOf(field.note)
    /\ field.note.key = key /\ field.note.value = BOND_ZATOSHIS
    /\ nf = NullifierOf(field.note, key)

RevealHolds(st, proof) ==
    /\ proof.statement = st
    /\ st.commitment = [name |-> st.name_id, epoch |-> st.inclusion_epoch,
                        owner |-> proof.key]
    /\ OpensTo(st.action_commitment, st.successor_future_nf, proof.key)
    /\ st.action_commitment.note.rho = st.action_nullifier

RefreshHolds(st, proof) ==
    /\ proof.statement = st
    /\ OpensTo(st.predecessor_commitment, st.predecessor_future_nf, proof.key)
    /\ OpensTo(st.action_commitment, st.successor_future_nf, proof.key)
    /\ st.action_commitment.note.rho = st.action_nullifier

-----------------------------------------------------------------------------
(***************************************************************************)
(* bond.rs and replacement.rs.                                             *)
(***************************************************************************)
\* Over a bag of values, as a set of notes.
classify_bond_inventory(notes) ==
    LET total[S \in SUBSET notes] ==
            IF S = {} THEN 0
            ELSE LET n == CHOOSE n \in S : TRUE IN n.value + total[S \ {n}]
    IN  IF \E n \in notes : n.value = BOND_ZATOSHIS THEN "Ready"
        ELSE IF total[notes] >= BOND_ZATOSHIS THEN "PrepareExactNote"
        ELSE "InsufficientFunds"

CommitPreparable(name, reveal_height) == accepts_operation(name, reveal_height)

prepare_commit(seed, name, reveal_height) ==
    LET target_epoch == epoch(reveal_height)
        key == derive_name_spending_key(seed, name)
    IN  [operation |-> [kind |-> "Commit",
                        commitment |-> derive_commit_opening(key, name, target_epoch)],
         operation_height |-> reveal_height]

\* Mutant: the COMMIT's age is not looked at.
RevealPreparable_any_age(name, commit_ref, operation_height, note) ==
    /\ accepts_operation(name, operation_height)
    /\ note.value = BOND_ZATOSHIS

RevealPreparable(name, commit_ref, operation_height, note) ==
    /\ accepts_operation(name, operation_height)
    /\ accepts_commit(commit_ref.height, operation_height)
    /\ note.value = BOND_ZATOSHIS

prepare_reveal(seed, name, commit_ref, ua, operation_height, index, note) ==
    LET target_epoch == epoch(operation_height)
        key == derive_name_spending_key(seed, name)
        nullifier == NullifierOf(note, seed)
        successor == derive_reveal_bond_note(key, commit_ref, target_epoch, ua,
                                             index, nullifier)
        statement == [name_id |-> name, inclusion_epoch |-> target_epoch,
                      commitment |-> derive_commit_opening(key, name, target_epoch),
                      commit_ref |-> commit_ref, ua |-> ua, action_index |-> index,
                      action_nullifier |-> nullifier,
                      action_commitment |-> CommitmentOf(successor),
                      successor_future_nf |-> NullifierOf(successor, key)]
    IN  [operation |-> [kind |-> "Reveal", name |-> name, commit |-> commit_ref,
                        ua |-> ua, action_index |-> index,
                        successor_future_nf |-> NullifierOf(successor, key),
                        proof |-> Proof(key, statement)],
         operation_height |-> operation_height,
         designated_spend |-> nullifier, successor |-> successor]

RefreshPreparable(seed, name, head, note, operation_height) ==
    LET key == derive_name_spending_key(seed, name)
    IN  /\ lifecycle(head, operation_height) = "Active"
        /\ accepts_operation(name, operation_height)
        /\ head.producer_epoch < epoch(operation_height)
        /\ note.value = BOND_ZATOSHIS
        /\ CommitmentOf(note) = head.commitment
        /\ NullifierOf(note, key) = head.future_nf

\* Mutant: derived for the epoch of the predecessor.
refresh_successor_stale(key, head, ua, operation_height, index, nullifier) ==
    derive_refresh_bond_note(key, head.producer, head.producer_epoch, ua, index, nullifier)

refresh_successor(key, head, ua, operation_height, index, nullifier) ==
    derive_refresh_bond_note(key, head.producer, epoch(operation_height), ua, index, nullifier)

prepare_refresh(seed, name, head, note, ua, operation_height, index) ==
    LET target_epoch == epoch(operation_height)
        key == derive_name_spending_key(seed, name)
        nullifier == NullifierOf(note, key)
        successor == refresh_successor(key, head, ua, operation_height, index, nullifier)
        statement == [name_id |-> name, predecessor_ref |-> head.producer,
                      predecessor_commitment |-> CommitmentOf(note),
                      predecessor_future_nf |-> nullifier,
                      predecessor_epoch |-> head.producer_epoch,
                      inclusion_epoch |-> target_epoch, ua |-> ua,
                      action_index |-> index, action_nullifier |-> nullifier,
                      action_commitment |-> CommitmentOf(successor),
                      successor_future_nf |-> NullifierOf(successor, key)]
    IN  [operation |-> [kind |-> "Refresh", name |-> name, predecessor |-> head.producer,
                        ua |-> ua, action_index |-> index,
                        successor_future_nf |-> NullifierOf(successor, key),
                        proof |-> Proof(key, statement)],
         operation_height |-> operation_height,
         designated_spend |-> nullifier, successor |-> successor]

\* replacement_ironwood_plan, and the transaction the builder makes of it: the
\* designated pair at the declared index, fillers around it.  A COMMIT is an
\* ordinary send.
Filler(i) == [action_index |-> i, nullifier |-> None, commitment |-> None]

replacement_ironwood_plan(plan) ==
    IF plan.operation.kind = "Commit" THEN << >>
    ELSE [i \in 1 .. plan.operation.action_index + 1 |->
            IF i = plan.operation.action_index + 1
              THEN [action_index |-> i - 1, nullifier |-> plan.designated_spend,
                    commitment |-> CommitmentOf(plan.successor)]
              ELSE Filler(i - 1)]

\* External: a transaction's id is a hash of what it carries.
TxidOf(actions, operation) == [actions |-> actions, operation |-> operation]

PlanTx(plan, i) ==
    LET actions == replacement_ironwood_plan(plan)
    IN  [tx_index |-> i, txid |-> TxidOf(actions, plan.operation),
         actions |-> actions, operation |-> plan.operation]

-----------------------------------------------------------------------------
(***************************************************************************)
(* The wallet's steps and the chain's.                                     *)
(***************************************************************************)
Prepared(plan) ==
    /\ Cardinality(plans) < MaxPlans
    /\ plans' = plans \cup {plan}
    /\ UNCHANGED hvars

\* The wallet asks for a COMMIT only with an exact bond note at hand.
PrepareCommit(seed, name, reveal_height) ==
    /\ block = None /\ next_height # None /\ reveal_height >= next_height
    /\ classify_bond_inventory(WalletNotes) = "Ready"
    /\ CommitPreparable(name, reveal_height)
    /\ Prepared(prepare_commit(seed, name, reveal_height))

PrepareReveal(seed, name, commit_ref, ua, operation_height, index, note) ==
    /\ block = None /\ next_height # None /\ operation_height >= next_height
    /\ commit_ref \in DOMAIN db.commits
    /\ RevealPreparable(name, commit_ref, operation_height, note)
    /\ Prepared(prepare_reveal(seed, name, commit_ref, ua, operation_height, index, note))

PrepareRefresh(seed, name, note, ua, operation_height, index) ==
    /\ block = None /\ next_height # None /\ operation_height >= next_height
    /\ name \in DOMAIN db.heads
    /\ RefreshPreparable(seed, name, db.heads[name], note, operation_height)
    /\ Prepared(prepare_refresh(seed, name, db.heads[name], note, ua,
                                operation_height, index))

WalletKeys == {derive_name_spending_key(s, n) : s \in Seeds, n \in NameIds}

\* External: what a block can carry.  A txid names one transaction, and nobody
\* but the wallet proves anything with a key of the wallet.
Mineable(b) ==
    \A i \in DOMAIN b.transactions :
        LET tx == b.transactions[i]
            op == tx.operation
        IN  /\ tx.txid = TxidOf(tx.actions, op)
            /\ (op # None /\ op.kind # "Commit" /\ op.proof.key \in WalletKeys)
                 => \E plan \in plans : plan.operation = op

WBeginBlock(b) == Mineable(b) /\ HBeginBlock(b, {}) /\ UNCHANGED plans
WApplyTransaction == HApplyTransaction /\ UNCHANGED plans
WEndBlock == HEndBlock /\ UNCHANGED plans
WRollbackTip(hash) == HRollbackTip(hash) /\ UNCHANGED plans
WFinalizeThrough(height) == HFinalizeThrough(height) /\ UNCHANGED plans

WInit == HInit /\ plans = {}

\* The notes a wallet can rebuild from its seed, its names and the chain.
BondNotes == {plan.successor : plan \in {p \in plans : p.operation.kind # "Commit"}}

WNext == \/ \E s \in Seeds, n \in NameIds, h \in Height : PrepareCommit(s, n, h)
         \/ \E s \in Seeds, n \in NameIds, h \in Height, ua \in Uas, i \in Height,
               note \in WalletNotes : \E r \in DOMAIN db.commits :
                  PrepareReveal(s, n, r, ua, h, i, note)
         \/ \E s \in Seeds, n \in NameIds, h \in Height, ua \in Uas, i \in Height,
               note \in BondNotes : PrepareRefresh(s, n, note, ua, h, i)
         \/ \E b \in Block : WBeginBlock(b)
         \/ WApplyTransaction \/ WEndBlock
         \/ \E hash \in Hashes : WRollbackTip(hash)
         \/ \E height \in Height : WFinalizeThrough(height)

WSpec == WInit /\ [][WNext]_wvars

-----------------------------------------------------------------------------
\* The maps as the first transaction of the next block finds them.
AtNextBlock ==
    prune_commits(compact_claimable(mark_expired(
        [db |-> db, undo |-> [heads |-> EmptyMap, commits |-> EmptyMap]],
        next_height), next_height), next_height).db

Judged(plan) ==
    LET tx == PlanTx(plan, 0)
    IN  IF plan.operation.kind = "Reveal"
          THEN RevealAccepted(AtNextBlock, next_height, tx)
          ELSE RefreshAccepted(AtNextBlock, next_height, tx)

\* What only the chain can decide: the referenced COMMIT is the one this plan
\* opens and the name is free, or the predecessor is still the head.
StillCurrent(plan) ==
    LET op == plan.operation
        st == op.proof.statement
        d  == AtNextBlock
    IN  IF op.kind = "Reveal"
          THEN /\ op.name \notin DOMAIN d.heads
               /\ op.commit \in DOMAIN d.commits
               /\ d.commits[op.commit] = st.commitment
          ELSE /\ op.name \in DOMAIN d.heads
               /\ d.heads[op.name].producer = op.predecessor
               /\ d.heads[op.name].terminal_height = None

\* A plan mined at its operation height is accepted if the records it was
\* prepared on are still there: prepare_reveal and prepare_refresh check all
\* that the reducer checks, and derive the statement the reducer rebuilds.
PreparedAccepted ==
    \A plan \in plans :
        (/\ block = None /\ plan.operation.kind # "Commit"
         /\ plan.operation_height = next_height
         /\ expiry_fits(next_height)
         /\ StillCurrent(plan)) => Judged(plan)

\* The COMMIT that is mined can be revealed with nothing but the seed: at the
\* height it was prepared for, with its age in range and the name free, a
\* REVEAL prepared then is neither refused by the wallet nor by the reducer.
CommitsRevealable ==
    \A plan \in {p \in plans : p.operation.kind = "Commit"} :
        LET c == plan.operation.commitment
        IN  (/\ block = None /\ plan.operation_height = next_height
             /\ expiry_fits(next_height)
             /\ c.name \notin DOMAIN AtNextBlock.heads) =>
               \A r \in {q \in DOMAIN db.commits : /\ db.commits[q] = c
                                                   /\ accepts_commit(q.height, next_height)},
                  note \in {n \in WalletNotes : n.value = BOND_ZATOSHIS}, ua \in Uas :
                     /\ RevealPreparable(c.name, r, next_height, note)
                     /\ Judged(prepare_reveal(c.owner.seed, c.name, r, ua, next_height, 0, note))

\* The successor note of a mined operation, rebuilt from the seed and what the
\* chain shows: the operation, the action's nullifier and the epoch of the block.
Rebuilt(plan, head) ==
    LET op == plan.operation
        key == derive_name_spending_key(op.proof.key.seed, op.name)
    IN  IF op.kind = "Reveal"
          THEN derive_reveal_bond_note(key, op.commit, head.producer_epoch, op.ua,
                                       op.action_index, plan.designated_spend)
          ELSE derive_refresh_bond_note(key, op.predecessor, head.producer_epoch, op.ua,
                                        op.action_index, plan.designated_spend)

\* Every lease the wallet holds can be extended after the loss of everything
\* but the seed: the note rebuilt from the chain is the head's bond, so
\* prepare_refresh accepts it at every height at which the reducer would take
\* a REFRESH (recovery.rs: "Reconstructs the exact REFRESH successor bond note
\* from canonical public inputs").
LeasesRefreshable ==
    block = None => \A n \in DOMAIN db.heads :
        LET head == db.heads[n]
            mine == {p \in plans : /\ p.operation.kind # "Commit"
                                   /\ p.operation.successor_future_nf = head.future_nf}
        IN  \A plan \in mine : \A h \in Height :
               (/\ tip_height < h /\ lifecycle(head, h) = "Active"
                /\ accepts_operation(n, h) /\ head.producer_epoch < epoch(h)) =>
                   RefreshPreparable(plan.operation.proof.key.seed, n, head,
                                     Rebuilt(plan, head), h)
=============================================================================
