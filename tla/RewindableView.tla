--------------------------- MODULE RewindableView ---------------------------
(***************************************************************************)
(* What the reducer promises a host about reorganizations                  *)
(* (docs/SPECIFICATION.md section 12): a current view of the chain and the *)
(* past views it can still return to.  A block extends the view by one     *)
(* height; a rollback returns to the view before the last block, all of    *)
(* it; finalization gives up the oldest past views and nothing else.       *)
(***************************************************************************)
EXTENDS Integers, Sequences

VARIABLES view, past

Init == past = << >>

Advance == /\ view'.tip_height = view.next_height
           /\ past' = Append(past, view)

Rewind == /\ past # << >>
          /\ view' = past[Len(past)]
          /\ past' = SubSeq(past, 1, Len(past) - 1)

Forget == /\ \E n \in 0 .. Len(past) : past' = SubSeq(past, n + 1, Len(past))
          /\ UNCHANGED view

Next == Advance \/ Rewind \/ Forget

Spec == Init /\ [][Next]_<<view, past>>
=============================================================================
