------------------------------ MODULE MCNames ------------------------------
(***************************************************************************)
(* The data of the model-checked instances: what stands for notes,         *)
(* commitments and proofs, and the blocks a chain can offer.               *)
(*                                                                         *)
(* A note is named by the position and the owner that created it and is    *)
(* its own nullifier; a commitment opens to a name, a target epoch and an  *)
(* owner; a proof is the owner whose keys it shows.  The two verifiers say *)
(* what the Halo2 statements bind (docs/SPECIFICATION.md sections 8.2 and  *)
(* 8.3); soundness of the proof system is assumed.                         *)
(***************************************************************************)
EXTENDS NamesReducer

CONSTANTS
    Owners,     \* hidden authorities, also the addresses they publish
    Branches,   \* competing block contents at one height
    MaxTxs,     \* transactions in a block
    MaxReorg,   \* rollback journals the host keeps before it finalizes
    MaxHeight   \* the last block offered, where it is not the last u32

Note(height, i, owner) == [height |-> height, tx_index |-> i, owner |-> owner]
NoNote == Note(0, 0, None)

MCFields == {NoNote} \cup [height : Height, tx_index : 0 .. 1, owner : Owners]
MCCommitments == [name : NameIds, epoch : Height, owner : Owners]
MCHashes == {ActivationParentHash} \cup (Height \X Branches)

MCVerifyReveal(st, proof) ==
    /\ st.commitment = [name |-> st.name_id, epoch |-> st.inclusion_epoch,
                        owner |-> proof]
    /\ st.action_commitment.owner = proof
    /\ st.successor_future_nf = st.action_commitment

MCVerifyRefresh(st, proof) ==
    /\ st.predecessor_commitment = st.predecessor_future_nf
    /\ st.predecessor_commitment.owner = proof
    /\ st.action_commitment.owner = proof
    /\ st.successor_future_nf = st.action_commitment

-----------------------------------------------------------------------------
\* A transaction with one action, which spends nf and creates owner's note.
Tx(h, i, br, op, nf, owner) ==
    [tx_index |-> i, txid |-> br, operation |-> op,
     actions |-> <<[action_index |-> 0, nullifier |-> nf,
                    commitment |-> Note(h, i, owner)]>>]

\* COMMITs to a name, for a window of it that opens while the COMMIT is usable.
CommitTxs(h, i, br) ==
    LET usable == {<<n, r>> \in NameIds \X (h + commit_maturity_blocks ..
                                           h + commit_ttl_blocks - 1) :
                     accepts_operation(n, r)}
    IN  {[tx_index |-> i, txid |-> br, actions |-> << >>,
          operation |-> [kind |-> "Commit",
                         commitment |-> [name |-> u[1], epoch |-> epoch(u[2]),
                                         owner |-> o]]] :
           u \in usable, o \in Owners}

RevealTx(h, i, br, n, ref, o) ==
    Tx(h, i, br,
       [kind |-> "Reveal", name |-> n, commit |-> ref, ua |-> o,
        action_index |-> 0, successor_future_nf |-> Note(h, i, o), proof |-> o],
       NoNote, o)

\* REVEALs of a stored COMMIT by its owner; OtherRevealTxs: by another.
RevealTxs(h, i, br) ==
    {RevealTx(h, i, br, db.commits[ref].name, ref, db.commits[ref].owner) :
       ref \in DOMAIN db.commits}

OtherRevealTxs(h, i, br) ==
    {RevealTx(h, i, br, db.commits[ref].name, ref, o) :
       ref \in DOMAIN db.commits, o \in Owners}

\* REFRESHes of a stored head by its owner; with two branches also of a head
\* that only the other branch produced.
RefreshTxs(h, i, br) ==
    {Tx(h, i, br,
        [kind |-> "Refresh", name |-> n,
         predecessor |-> [db.heads[n].producer EXCEPT !.txid = t],
         ua |-> db.heads[n].ua, action_index |-> 0,
         successor_future_nf |-> Note(h, i, db.heads[n].commitment.owner),
         proof |-> db.heads[n].commitment.owner],
        db.heads[n].future_nf, db.heads[n].commitment.owner) :
       n \in DOMAIN db.heads, t \in Branches}

\* Ordinary spends of a bond, with no bulletin.
SpendTxs(h, i, br) ==
    {Tx(h, i, br, None, db.heads[n].future_nf, db.heads[n].commitment.owner) :
       n \in DOMAIN db.heads}

Txs(h, i, br) == CommitTxs(h, i, br) \cup RevealTxs(h, i, br)
                   \cup RefreshTxs(h, i, br) \cup SpendTxs(h, i, br)

Bodies(h, br) ==
    {<< >>} \cup {<<t>> : t \in Txs(h, 0, br) \cup OtherRevealTxs(h, 0, br)}
      \cup (IF MaxTxs < 2 THEN {}
            ELSE {<<t, u>> : t \in Txs(h, 0, br), u \in Txs(h, 1, br)})

BlockOf(h, br, body) == [height |-> h, hash |-> <<h, br>>,
                         prev_hash |-> previous_hash, transactions |-> body]

Room == /\ next_height # None
        /\ next_height <= MaxHeight
        /\ Len(history) < MaxReorg

\* The blocks that extend the current tip.
Offered == {BlockOf(next_height, br, body) :
              br \in Branches, body \in UNION {Bodies(next_height, b) : b \in Branches}}
=============================================================================
