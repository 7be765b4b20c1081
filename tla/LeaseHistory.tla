---------------------------- MODULE LeaseHistory ----------------------------
(***************************************************************************)
(* The reducer with history variables about the current branch: the        *)
(* nullifiers it revealed, the heads it installed and the owner each name  *)
(* resolved to at each tip.  A rollback removes what the removed block     *)
(* added.  The reducer keeps none of this: each property says that the     *)
(* record it does keep agrees with what happened on the chain.             *)
(***************************************************************************)
EXTENDS ReducerRollback

CONSTANTS
    Owner(_),   \* the hidden authority of a note commitment
    Memory      \* heights the history variables reach back

VARIABLES
    spends,     \* {[height, tx_index, nullifier]}
    installed,  \* {[name, height, tx_index]}
    served      \* {[name, height, owner]}

ghosts == <<spends, installed, served>>
lvars  == <<hvars, ghosts>>

LInit == HInit /\ spends = {} /\ installed = {} /\ served = {}

Recent(records) == {r \in records : r.height + Memory >= block.height}

\* The nullifiers a transaction puts on the chain, whatever the reducer reads.
Revealed(tx) == {action.nullifier : action \in {tx.actions[i] : i \in DOMAIN tx.actions}}

LBeginBlock(b, e) == HBeginBlock(b, e) /\ UNCHANGED ghosts

LApplyTransaction ==
    /\ HApplyTransaction
    /\ LET tx == block.transactions[pos + 1]
       IN  /\ spends' = spends \cup
                {[height |-> block.height, tx_index |-> tx.tx_index,
                  nullifier |-> nf] : nf \in Revealed(tx)}
           /\ installed' = installed \cup
                {[name |-> n, height |-> block.height, tx_index |-> tx.tx_index] :
                   n \in {m \in DOMAIN db'.heads :
                            \/ m \notin DOMAIN db.heads
                            \/ db.heads[m].producer # db'.heads[m].producer}}
    /\ UNCHANGED served

LEndBlock ==
    /\ HEndBlock
    /\ spends' = Recent(spends)
    /\ installed' = Recent(installed)
    /\ served' = Recent(served) \cup
         {[name |-> n, height |-> block.height,
           owner |-> Owner(db.heads[n].commitment)] :
            n \in {m \in DOMAIN db.heads : resolve(m, block.height).ua # None}}

OnBranch(records) ==
    {r \in records : tip_height' # None /\ r.height <= tip_height'}

LRollbackTip(hash) ==
    /\ HRollbackTip(hash)
    /\ spends' = OnBranch(spends)
    /\ installed' = OnBranch(installed)
    /\ served' = OnBranch(served)

LFinalizeThrough(height) == HFinalizeThrough(height) /\ UNCHANGED ghosts
LRestart == HRestart /\ UNCHANGED ghosts

LNext == \/ \E b \in Block, e \in SUBSET ReferencedCommit : LBeginBlock(b, e)
         \/ LApplyTransaction
         \/ LEndBlock
         \/ \E hash \in Hashes : LRollbackTip(hash)
         \/ \E height \in Height : LFinalizeThrough(height)
         \/ LRestart

LSpec == LInit /\ [][LNext]_lvars

-----------------------------------------------------------------------------
\* s lies after the transaction that produced the head.
After(s, head) ==
    \/ s.height > head.producer.height
    \/ s.height = head.producer.height /\ s.tx_index > head.producer.tx_index

SpendsOf(head) ==
    {s \in spends : s.nullifier = head.future_nf /\ After(s, head)}

\* A head that is not terminal still has its bond: no transaction after its
\* producer revealed its future nullifier, in whatever order REVEAL, REFRESH,
\* spends and rollbacks came (apply_transaction_detailed: spends are looked up
\* before the operation and applied to the heads still current after it).
ActiveBondUnspent ==
    \A n \in DOMAIN db.heads :
        db.heads[n].terminal_height = None => SpendsOf(db.heads[n]) = {}

\* A lease ends at its expiry or at the first spend of that very bond, if
\* that comes earlier: nothing else ends it, and a spend of a head that is
\* already terminal, by expiry or by a spend, does not restart its cooldown.
LeaseEndExplained ==
    \A n \in DOMAIN db.heads :
        LET head == db.heads[n]
        IN  head.terminal_height \notin {None, head.expiry_height} =>
              /\ head.terminal_height < head.expiry_height
              /\ \E s \in SpendsOf(head) : s.height = head.terminal_height
              /\ \A s \in SpendsOf(head) : s.height >= head.terminal_height

\* At most one head is installed for a name in one epoch: a REFRESH needs a
\* later epoch than its predecessor, and a name given up, even in the block
\* that registered it, stays in cooldown until a later epoch.
OneInstallPerEpoch ==
    \A p, q \in installed :
        (p.name = q.name /\ epoch(p.height) = epoch(q.height)) => p = q

\* The cooldown quarantine of docs/SPECIFICATION.md section 9: between two
\* tips at which a name resolves to different owners lie more than
\* cooldown_blocks blocks, whether the first lease expired or was released.
Quarantine ==
    \A r, s \in served :
        (r.name = s.name /\ r.height < s.height /\ r.owner # s.owner)
          => s.height - r.height > cooldown_blocks
=============================================================================
