----------------------------- MODULE MCRollback -----------------------------
(***************************************************************************)
(* Instance of ReducerRollback: forward replay, reorganizations up to      *)
(* MaxReorg blocks, finalization and restarts in any order, to the end of  *)
(* the (small) u32 height range.                                           *)
(***************************************************************************)
EXTENDS MCNames, ReducerRollback

CONSTANT LateNames  \* names whose window is one block later

\* COMMIT evidence for a REVEAL whose COMMIT this reducer has not stored.
EvidenceBlocks ==
    {<<BlockOf(next_height, br, <<RevealTx(next_height, 0, br, c.name, ref, c.owner)>>),
       {[reference |-> ref, commitment |-> c]}>> :
         br \in Branches,
         c \in [name : NameIds \ LateNames, epoch : {epoch(next_height)}, owner : Owners],
         ref \in [height : {next_height - 1, next_height - commit_ttl_blocks}
                             \cap Height,
                  tx_index : {0}, txid : Branches]}

MCBeginBlock ==
    /\ Room
    /\ \/ \E b \in Offered : HBeginBlock(b, {})
       \/ \E p \in EvidenceBlocks : HBeginBlock(p[1], p[2])

MCRollbackTip == \E hash \in Hashes : HRollbackTip(hash)

MCFinalize == \E height \in Height : HFinalizeThrough(height)

MCNext == MCBeginBlock \/ HApplyTransaction \/ HEndBlock \/ MCRollbackTip
            \/ MCFinalize \/ HRestart

MCSpec == HInit /\ [][MCNext]_hvars

MCDigest == [n \in NameIds |-> IF n \in LateNames THEN 2 ELSE 1]
=============================================================================
