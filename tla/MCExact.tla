------------------------------ MODULE MCExact ------------------------------
(***************************************************************************)
(* Instance of ExactReplay: a resolver of one name on a chain with two.    *)
(***************************************************************************)
EXTENDS MCNames, ExactReplay

CONSTANT LateNames  \* names whose window is one block later

\* Transactions that spend the requested name's bond in an action beside the
\* one their bulletin is about.
AlsoSpending(tx) ==
    [tx EXCEPT !.actions =
        Append(@, [action_index |-> Len(@), commitment |-> NoNote,
                   nullifier |-> db.heads[requested].future_nf])]

CrossTxs(h, br) ==
    IF requested \notin DOMAIN db.heads THEN {}
    ELSE {AlsoSpending(t) :
            t \in CommitTxs(h, 0, br) \cup RevealTxs(h, 0, br) \cup RefreshTxs(h, 0, br)}

MCBlocks == Offered \cup
    UNION {{BlockOf(next_height, br, <<t>>) : t \in CrossTxs(next_height, br)} :
             br \in Branches}

Evidence(b, acquired) ==
    {[reference |-> r, commitment |-> db.commits[r]] :
        r \in RevealReferences(filtered(b, acquired)) \cap DOMAIN db.commits}

MCBeginBlock ==
    /\ Room /\ Len(x_history) < MaxReorg
    /\ \E b \in MCBlocks :
         \E acquired \in SUBSET {i \in DOMAIN b.transactions :
                                   b.transactions[i].operation # None} :
            \E evidence \in SUBSET Evidence(b, acquired) :
               EBeginBlock(b, acquired, evidence)

MCRollbackTip == \E hash \in Hashes : ERollbackTip(hash)

\* A replay whose journals are full finalizes.
MCFinalize ==
    \/ Len(history) = MaxReorg
         /\ \E height \in {tip_height - 1, tip_height} \cap Height : EFinalizeThrough(height)
    \/ Len(x_history) = MaxReorg
         /\ \E height \in {tip_height - 1, tip_height} \cap Height : XFinalizeThrough(height)

MCNext == MCBeginBlock \/ EApplyTransaction \/ EEndBlock \/ MCRollbackTip
            \/ MCFinalize \/ XRestart

MCSpec == EInit /\ [][MCNext]_evars

MCDigest == [n \in NameIds |-> IF n \in LateNames THEN 2 ELSE 1]
=============================================================================
