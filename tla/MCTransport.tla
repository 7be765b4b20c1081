---------------------------- MODULE MCTransport ----------------------------
(***************************************************************************)
(* Instance of Transport: one name, blocks of one or two transactions that *)
(* put a Names operation on one route and anything on the other.           *)
(***************************************************************************)
EXTENDS MCNames, Transport

CONSTANTS
    Noise,          \* what else a transaction may carry
    CommitNoise     \* what may stand at the name's route beside a COMMIT

Nothing == [value |-> "zero", message |-> [kind |-> "None"]]
Carries(op) == [value |-> "zero",
                message |-> [kind |-> "Message", application |-> "names", operation |-> op]]

Other(kind, op) ==
    CASE kind = "nothing"     -> Nothing
      [] kind = "application" -> [value |-> "zero",
                                  message |-> [kind |-> "Message", application |-> "other",
                                               operation |-> None]]
      [] kind = "carrier"     -> [value |-> "zero",
                                  message |-> [kind |-> "MalformedTransport"]]
      [] kind = "envelope"    -> [value |-> "zero",
                                  message |-> [kind |-> "MalformedEnvelope"]]
      [] kind = "payload"     -> Carries(None)
      [] kind = "value"       -> [Carries(op) EXCEPT !.value = "nonzero"]
      [] kind = "route"       -> Carries(op)

\* A decoded transaction put on the chain with something at the other route.
Core(tx, generic, named) ==
    [tx_index |-> tx.tx_index, txid |-> tx.txid,
     nullifiers |-> [k \in DOMAIN tx.actions |-> tx.actions[k].nullifier],
     commitments |-> [k \in DOMAIN tx.actions |-> tx.actions[k].commitment],
     generic |-> generic, named |-> named]

CommitMessage(found) ==
    /\ found.message.kind = "Message" /\ found.message.operation # None
    /\ found.message.operation.kind = "Commit"

\* COMMITs on the chain, at either route.
ChainCommits ==
    {[reference |-> [height |-> chain[i].height, tx_index |-> chain[i].transactions[t].tx_index,
                     txid |-> chain[i].transactions[t].txid],
      commitment |-> found.message.operation.commitment] :
       <<i, t, found>> \in UNION UNION
         {{{<<j, u, f>> : f \in {g \in {chain[j].transactions[u].generic,
                                        chain[j].transactions[u].named} : CommitMessage(g)}} :
             u \in DOMAIN chain[j].transactions} : j \in DOMAIN chain}}

OwnRevealTxs(h, i, br) ==
    {RevealTx(h, i, br, c.commitment.name, c.reference, c.commitment.owner) :
       c \in {d \in ChainCommits : h - d.reference.height <= commit_ttl_blocks}}

\* A COMMIT at its route with CommitNoise at the name's, or at the name's route.
CommitCores(h, i, br) ==
    UNION {{Core(t, Carries(t.operation), Other(k, t.operation)) : k \in CommitNoise}
             \cup {Core(t, Nothing, Carries(t.operation))} :
             t \in CommitTxs(h, i, br)}

NamedCores(h, i, br) ==
    UNION {{Core(t, Other(k, t.operation), Carries(t.operation)) : k \in Noise}
             \cup {Core(t, Nothing, Other("value", t.operation))} :
             t \in OwnRevealTxs(h, i, br) \cup RefreshTxs(h, i, br)}

SpendCores(h, i, br) ==
    {Core(t, Nothing, Other(k, None)) : t \in SpendTxs(h, i, br), k \in Noise}

Cores(h, i, br) == CommitCores(h, i, br) \cup NamedCores(h, i, br) \cup SpendCores(h, i, br)

\* An ordinary transaction with one action, which comes first.
Plain(h, br) ==
    Core(Tx(h, 0, br, None, NoNote, None), Nothing, Nothing)

CoreBodies(h, br) ==
    {<< >>} \cup {<<Plain(h, br), t>> : t \in Cores(h, 1, br)}

MCBeginBlock ==
    /\ Room
    /\ \E br \in Branches : \E body \in CoreBodies(next_height, br) :
         \E acquired \in SUBSET (DOMAIN body \ {1}) :
            TBeginBlock([height |-> next_height, hash |-> <<next_height, br>>,
                         prev_hash |-> previous_hash, transactions |-> body], acquired)

MCRollbackTip == TRollbackTip(previous_hash)

MCNext == MCBeginBlock \/ TApplyTransaction \/ TEndBlock \/ MCRollbackTip

MCSpec == TInit /\ [][MCNext]_tvars

MCDigest == [n \in NameIds |-> 1]
=============================================================================
