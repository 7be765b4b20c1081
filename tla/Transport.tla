----------------------------- MODULE Transport -----------------------------
(***************************************************************************)
(* Transport inspection (crates/coppice-names/src/transport.rs) in front of *)
(* two resolvers of one name that stand on the same branch.  The first     *)
(* acquires the full bytes of every transaction; the second only those its *)
(* host chose, and the COMMIT of a REVEAL it found as evidence, decoded    *)
(* from the transaction the REVEAL names.                                  *)
(*                                                                         *)
(* A Core transaction is its position, its effects, and what Core finds of *)
(* it at the two rendezvous the resolver looks at: the generic COMMIT      *)
(* route and the requested name's route.  What Core finds is the routed    *)
(* frames' values (zero or not) and one message: none, malformed, or an    *)
(* envelope of some application with a payload that decodes or does not.   *)
(***************************************************************************)
EXTENDS ExactReplay

VARIABLE chain      \* the Core blocks of the branch, activation block first

tvars == <<evars, chain>>

Message == [kind : {"None", "MalformedTransport", "MalformedEnvelope"}]
             \cup
           [kind : {"Message"}, application : {"names", "other"},
            operation : Option(Operation)]

Found == [value : {"zero", "nonzero"}, message : Message]

CoreTransaction ==
    [tx_index : Height, txid : Txids, nullifiers : Seq(Fields),
     commitments : Seq(Fields), generic : Found, named : Found]

-----------------------------------------------------------------------------
(***************************************************************************)
(* What one route of one transaction says.                                 *)
(***************************************************************************)
NoOperation == [status |-> "NoOperation"]
Rejected(why) == [status |-> "Rejected", why |-> why]
Decoded(operation) == [status |-> "Operation", operation |-> operation]

on_expected_route(operation, expected) ==
    IF expected = "Commit" THEN operation.kind = "Commit"
    ELSE operation.kind # "Commit" /\ operation.name = requested

classify_inspection(found, expected) ==
    LET m == found.message
    IN  CASE found.value # "zero"             -> Rejected("NonZeroCarrierValue")
          [] found.value = "zero" /\ m.kind = "None" -> NoOperation
          [] found.value = "zero" /\ m.kind \in {"MalformedTransport", "MalformedEnvelope"}
               -> Rejected(m.kind)
          [] found.value = "zero" /\ m.kind = "Message" ->
               IF m.application # "names" THEN Rejected("WrongApplication")
               ELSE IF m.operation = None THEN Rejected("InvalidOperation")
               ELSE IF ~on_expected_route(m.operation, expected)
                      THEN Rejected("WrongRoute")
               ELSE Decoded(m.operation)

\* Core's inspection at the route's rendezvous, of bytes it authenticated.
inspect_validated(tx, expected) ==
    classify_inspection(IF expected = "Commit" THEN tx.generic ELSE tx.named, expected)

inspect_authenticated(tx, acquired, expected) ==
    IF acquired THEN inspect_validated(tx, expected)
    ELSE Rejected("UnauthenticatedFullTransaction")

inspect_commit_transaction(tx, acquired) == inspect_authenticated(tx, acquired, "Commit")
inspect_name_transaction(tx, acquired)   == inspect_authenticated(tx, acquired, "Name")

\* Mutant: the name's route is searched for the COMMIT as well.
inspect_validated_commit_transaction_any_route(tx) ==
    IF inspect_validated(tx, "Commit").status = "Operation"
      THEN inspect_validated(tx, "Commit")
      ELSE classify_inspection(tx.named, "Commit")

inspect_validated_commit_transaction(tx) == inspect_validated(tx, "Commit")
inspect_validated_name_transaction(tx)   == inspect_validated(tx, "Name")

\* Nothing, or another application's message, at the other route.
Silent(status) ==
    \/ status.status = "NoOperation"
    \/ status.status = "Rejected" /\ status.why = "WrongApplication"

\* Mutant: an operation survives beside any candidate that is not one.
select_single_operation_lenient(commit, named) ==
    IF commit.status = "Operation" THEN commit.operation
    ELSE IF named.status = "Operation" THEN named.operation
    ELSE None

select_single_operation(commit, named) ==
    IF commit.status = "Operation" /\ Silent(named) THEN commit.operation
    ELSE IF named.status = "Operation" /\ Silent(commit) THEN named.operation
    ELSE None

-----------------------------------------------------------------------------
(***************************************************************************)
(* A Core block as the reducer gets it.                                    *)
(***************************************************************************)
\* One commitment for each nullifier, and no more than a u32 can number.
EffectsPaired(b) ==
    \A i \in DOMAIN b.transactions :
        /\ Len(b.transactions[i].nullifiers) = Len(b.transactions[i].commitments)
        /\ Len(b.transactions[i].nullifiers) <= U32Max + 1

actions_of(tx) ==
    [k \in 1 .. Len(tx.nullifiers) |->
        [action_index |-> k - 1, nullifier |-> tx.nullifiers[k],
         commitment |-> tx.commitments[k]]]

\* Mutant: a transaction that was not acquired is left without its actions.
NamesTransaction_skipped(tx, acquired) ==
    [tx_index |-> tx.tx_index, txid |-> tx.txid,
     actions |-> IF acquired THEN actions_of(tx) ELSE << >>,
     operation |-> IF ~acquired THEN None
                   ELSE select_single_operation(inspect_commit_transaction(tx, acquired),
                                                inspect_name_transaction(tx, acquired))]

NamesTransaction(tx, acquired) ==
    [tx_index |-> tx.tx_index, txid |-> tx.txid, actions |-> actions_of(tx),
     operation |-> IF ~acquired THEN None
                   ELSE select_single_operation(inspect_commit_transaction(tx, acquired),
                                                inspect_name_transaction(tx, acquired))]

\* acquired: the places of the transactions whose full bytes were acquired.
inspect_exact_name_block(b, acquired) ==
    [height |-> b.height, hash |-> b.hash, prev_hash |-> b.prev_hash,
     transactions |-> [i \in DOMAIN b.transactions |->
                         NamesTransaction(b.transactions[i], i \in acquired)]]

-----------------------------------------------------------------------------
(***************************************************************************)
(* Positions in the note commitment tree.  A block is authenticated with   *)
(* the tree size after it, or positioned with the size before it.          *)
(***************************************************************************)
ActionCount(txs) ==
    LET upto[i \in 0 .. Len(txs)] ==
            IF i = 0 THEN 0 ELSE upto[i - 1] + Len(txs[i].commitments)
    IN  upto[Len(txs)]

\* Mutant: the actions of earlier transactions are not counted.
action_position_sparse(txs, position, tx_index, action_index) ==
    LET mine == {i \in DOMAIN txs : txs[i].tx_index = tx_index}
    IN  IF mine = {} THEN None ELSE position + action_index

\* The first transaction with the index; None where the code has an error.
action_position(txs, position, tx_index, action_index) ==
    LET mine == {i \in DOMAIN txs : txs[i].tx_index = tx_index}
        i    == CHOOSE i \in mine : \A j \in mine : i <= j
    IN  IF mine = {} \/ action_index >= Len(txs[i].commitments) THEN None
        ELSE LET at == position + ActionCount(SubSeq(txs, 1, i - 1)) + action_index
             IN  IF at <= U32Max THEN at ELSE None

authenticated_action_position(b, tree_size, tx_index, action_index) ==
    IF tree_size < ActionCount(b.transactions) THEN None
    ELSE action_position(b.transactions, tree_size - ActionCount(b.transactions),
                         tx_index, action_index)

-----------------------------------------------------------------------------
(***************************************************************************)
(* The host: it acquires, follows references, and feeds both resolvers.    *)
(***************************************************************************)
CoreBlockAt(height) == chain[height - activation_height + 1]

\* The transactions a reference may name: its block, index and txid.
Located(ref) ==
    IF ref.height - activation_height + 1 \notin DOMAIN chain THEN {}
    ELSE LET txs == CoreBlockAt(ref.height).transactions
         IN  {txs[i] : i \in {k \in DOMAIN txs : /\ txs[k].tx_index = ref.tx_index
                                                 /\ txs[k].txid = ref.txid}}

\* Evidence for the REVEALs of an inspected block: for each reference inside
\* the COMMIT's lifetime, what its transaction decodes to at the COMMIT route.
referenced_commits(b) ==
    {[reference |-> p[1],
      commitment |-> inspect_validated_commit_transaction(p[2]).operation.commitment] :
       p \in {q \in UNION {{<<r, tx>> : tx \in Located(r)} : r \in RevealReferences(b)} :
                /\ q[1].height >= activation_height /\ q[1].height < b.height
                /\ b.height - q[1].height < commit_ttl_blocks
                /\ inspect_validated_commit_transaction(q[2]).status = "Operation"}}

\* It must have acquired what answers at the name's route in its window.
Acquires(b, acquired) ==
    \A i \in DOMAIN b.transactions :
        (/\ accepts_operation(requested, b.height)
         /\ inspect_validated_name_transaction(b.transactions[i]).status = "Operation")
           => i \in acquired

TInit == EInit /\ chain = << >>

TBeginBlock(b, acquired) ==
    LET all    == inspect_exact_name_block(b, DOMAIN b.transactions)
        sparse == inspect_exact_name_block(b, acquired)
    IN  /\ EffectsPaired(b)
        /\ Acquires(b, acquired)
        /\ HBeginBlock(filtered(all, DOMAIN b.transactions), {})
        /\ Exact!HBeginBlock(filtered(sparse, DOMAIN b.transactions),
                             referenced_commits(sparse))
        /\ chain' = Append(chain, b)

TApplyTransaction == EApplyTransaction /\ UNCHANGED chain
TEndBlock == EEndBlock /\ UNCHANGED chain
TRollbackTip(hash) ==
    ERollbackTip(hash) /\ chain' = SubSeq(chain, 1, Len(chain) - 1)

TNext == \/ \E b \in [height : Height, hash : Hashes, prev_hash : Hashes,
                      transactions : Seq(CoreTransaction)] :
              \E acquired \in SUBSET DOMAIN b.transactions : TBeginBlock(b, acquired)
         \/ TApplyTransaction
         \/ TEndBlock
         \/ \E hash \in Hashes : TRollbackTip(hash)

TSpec == TInit /\ [][TNext]_tvars

-----------------------------------------------------------------------------
\* A name's state does not depend on what its resolver acquired: the one that
\* saw every byte and the one that followed references resolve alike, with
\* messages of other applications, malformed, wrong-route and nonzero-value
\* candidates on the chain.
AcquisitionsAgree ==
    block = None => Get(db.heads, requested) = Get(x_db.heads, requested)

\* docs/SPECIFICATION.md section 5: "The referenced COMMIT is semantically
\* identical to observing it during forward replay."
ReferencedCommitIsForward ==
    \A r \in DOMAIN x_db.commits : Get(db.commits, r) = x_db.commits[r]

SpentOnChain(nf, from) ==
    \E j \in from .. Len(chain) : \E t \in DOMAIN chain[j].transactions :
        \E k \in DOMAIN chain[j].transactions[t].nullifiers :
            chain[j].transactions[t].nullifiers[k] = nf

\* A spend ends a lease whatever its transaction carries and whether or not it
\* was acquired: no resolver calls a head active when a later block of the
\* branch spends its bond (inspect_exact_name_block_parts keeps every action).
EffectsKept ==
    block = None =>
        \A h \in {Get(db.heads, requested), Get(x_db.heads, requested)} \ {None} :
            (h.terminal_height = None) =>
                ~SpentOnChain(h.future_nf, h.producer.height - activation_height + 2)

\* docs/SPECIFICATION.md section 5: exactly one correctly routed operation may
\* survive.  The transaction that produced a head carries nothing else for
\* Names at either route, and no value in its carriers.
SoleCandidate ==
    \A h \in {Get(db.heads, requested), Get(x_db.heads, requested)} \ {None} :
        \A tx \in Located([height |-> h.producer.height, tx_index |-> h.producer.tx_index,
                           txid |-> h.producer.txid]) :
            /\ tx.named.value = "zero" /\ tx.generic.value = "zero"
            /\ tx.generic.message.kind # "None" => tx.generic.message.kind = "Message"
            /\ tx.generic.message.kind = "Message" => tx.generic.message.application # "names"

\* The commitments of a block, and of the chain up to each block: the leaves of
\* the note commitment tree in order.
BlockLeaves(b) ==
    LET f[i \in 0 .. Len(b.transactions)] ==
            IF i = 0 THEN << >> ELSE f[i - 1] \o b.transactions[i].commitments
    IN  f[Len(b.transactions)]

Leaves ==
    LET g[i \in 0 .. Len(chain)] ==
            IF i = 0 THEN << >> ELSE g[i - 1] \o BlockLeaves(chain[i])
    IN  g

\* The producer of a head, located through the tree size after its block, is
\* the leaf that holds its bond, and the position derived from the size before
\* the block is the same one (authenticated_action_position,
\* positioned_action_position).
PositionsLocate ==
    block = None => \A n \in DOMAIN db.heads :
        LET p == db.heads[n].producer
            i == p.height - activation_height + 1
            at == authenticated_action_position(chain[i], Len(Leaves[i]),
                                                p.tx_index, p.action_index)
        IN  /\ at # None
            /\ Leaves[Len(chain)][at + 1] = db.heads[n].commitment
            /\ at = action_position(chain[i].transactions, Len(Leaves[i - 1]),
                                    p.tx_index, p.action_index)
=============================================================================
