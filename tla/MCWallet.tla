------------------------------ MODULE MCWallet ------------------------------
(***************************************************************************)
(* Instance of WalletPlans: one name, a few plans, mined in any order at   *)
(* any height, with reorganizations.                                       *)
(***************************************************************************)
EXTENDS WalletPlans

CONSTANTS MaxHeight,    \* the last block mined
          MaxIndex,     \* designated action indexes 0 .. MaxIndex
          MaxReorg      \* rollback journals the wallet keeps

MCNotes == {[id |-> 1, value |-> 1], [id |-> 2, value |-> 2]}
MCFields == {}
MCCommitments == {}
MCHashes == {ActivationParentHash} \cup Height
MCDigest == [n \in NameIds |-> 2]

\* The provers and verifiers are exact.
MCVerifyReveal(st, proof) == RevealHolds(st, proof)
MCVerifyRefresh(st, proof) == RefreshHolds(st, proof)

Soon == IF next_height = None THEN {} ELSE next_height .. next_height + epoch_blocks

MCPrepare ==
    \E s \in Seeds, n \in NameIds, h \in Soon \cap Height :
        \/ PrepareCommit(s, n, h)
        \/ \E r \in DOMAIN db.commits, ua \in Uas, i \in 0 .. MaxIndex, note \in WalletNotes :
              PrepareReveal(s, n, r, ua, h, i, note)
        \/ \E ua \in Uas, i \in 0 .. MaxIndex, note \in BondNotes :
              PrepareRefresh(s, n, note, ua, h, i)

MCBodies == {<< >>} \cup {<<PlanTx(p, 0)>> : p \in plans}

MCBeginBlock ==
    /\ next_height # None /\ next_height <= MaxHeight /\ Len(history) < MaxReorg
    /\ \E body \in MCBodies :
         WBeginBlock([height |-> next_height, hash |-> next_height,
                      prev_hash |-> previous_hash, transactions |-> body])

MCFinalize == Len(history) = MaxReorg /\ WFinalizeThrough(history[1].height)

MCNext == MCPrepare \/ MCBeginBlock \/ WApplyTransaction \/ WEndBlock
            \/ WRollbackTip(previous_hash) \/ MCFinalize

MCSpec == WInit /\ [][MCNext]_wvars
=============================================================================
