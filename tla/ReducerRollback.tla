-------------------------- MODULE ReducerRollback --------------------------
(***************************************************************************)
(* The reducer with a history variable: trail[i] is the complete view the  *)
(* reducer had just before the i-th block it can still roll back.  The     *)
(* code keeps no such copies, only the values each block overwrote; the    *)
(* properties say that those are enough.                                   *)
(***************************************************************************)
EXTENDS NamesReducer

VARIABLE trail

hvars == <<vars, trail>>

View == [next_height |-> next_height, tip_height |-> tip_height,
         previous_hash |-> previous_hash,
         commits |-> db.commits, heads |-> db.heads]

HInit == Init /\ trail = << >>

HBeginBlock(b, e) == BeginBlock(b, e) /\ trail' = Append(trail, View)
HApplyTransaction == ApplyTransaction /\ UNCHANGED trail
HEndBlock == EndBlock /\ UNCHANGED trail
HRollbackTip(hash) ==
    RollbackTip(hash) /\ trail' = SubSeq(trail, 1, Len(trail) - 1)
HFinalizeThrough(height) ==
    /\ FinalizeThrough(height)
    /\ trail' = SubSeq(trail, Len(trail) - Len(history') + 1, Len(trail))
HRestart == Restart /\ UNCHANGED trail

HNext == \/ \E b \in Block, e \in SUBSET ReferencedCommit : HBeginBlock(b, e)
         \/ HApplyTransaction
         \/ HEndBlock
         \/ \E hash \in Hashes : HRollbackTip(hash)
         \/ \E height \in Height : HFinalizeThrough(height)
         \/ HRestart

HSpec == HInit /\ [][HNext]_hvars

-----------------------------------------------------------------------------
\* The view an undo record leads back to from a later view.
Rewound(v, u) == [next_height |-> u.previous_next_height,
                  tip_height |-> u.previous_tip_height,
                  previous_hash |-> u.previous_hash,
                  commits |-> Updated(v.commits, u.commits),
                  heads |-> Updated(v.heads, u.heads)]

\* The undo records, the one under construction included.
Undos == IF block = None THEN history ELSE Append(history, undo)

\* Each undo record, applied to the view after its block, gives exactly the
\* view before it, also while the block is half applied: nothing a block
\* changes is missing from its journal, and a record changed twice in one
\* block is journaled with its first value (remember_head, remember_commit).
JournalsExact ==
    /\ Len(trail) = Len(Undos)
    /\ \A i \in 1 .. Len(trail) :
          trail[i] = Rewound(IF i = Len(trail) THEN View ELSE trail[i + 1],
                             Undos[i])

\* The reducer implements a rewindable view: while a block is in progress the
\* abstract view is still the one before it.
Abstract == INSTANCE RewindableView WITH
    view <- IF block = None THEN View ELSE trail[Len(trail)],
    past <- IF block = None THEN trail ELSE SubSeq(trail, 1, Len(trail) - 1)

\* Rollback restores all of the previous view, block application adds one
\* height to it, and finalization only forgets (apply_block_detailed,
\* rollback_tip_detailed, finalize_through).
Rewindable == Abstract!Spec
=============================================================================
