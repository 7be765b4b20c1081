------------------------------ MODULE MCLease ------------------------------
(***************************************************************************)
(* Instance of LeaseHistory: two owners compete for a name through         *)
(* registration, renewal, release, expiry, cooldown and re-registration.   *)
(***************************************************************************)
EXTENDS MCNames, LeaseHistory, TLC

MCOwner(note) == note.owner

\* Consensus: a nullifier appears at most once on a branch.
NoDoubleSpend(b) ==
    \A i \in DOMAIN b.transactions :
        \A nf \in Revealed(b.transactions[i]) \ {NoNote} :
            /\ \A s \in spends : s.nullifier # nf
            /\ \A j \in DOMAIN b.transactions :
                  j # i => nf \notin Revealed(b.transactions[j])

MCBeginBlock ==
    /\ Room
    /\ \E b \in {c \in Offered : NoDoubleSpend(c)} : LBeginBlock(b, {})

MCRollbackTip == \E hash \in Hashes : LRollbackTip(hash)

\* The host finalizes everything once its journals are full.
MCFinalize == Len(history) = MaxReorg /\ LFinalizeThrough(tip_height)

MCNext == MCBeginBlock \/ LApplyTransaction \/ LEndBlock \/ MCRollbackTip
            \/ MCFinalize \/ LRestart

MCSpec == LInit /\ [][MCNext]_lvars

OwnerSymmetry == Permutations(Owners)

MCDigest == [n \in NameIds |-> 1]
=============================================================================
