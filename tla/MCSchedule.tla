----------------------------- MODULE MCSchedule -----------------------------
(***************************************************************************)
(* Instance of ScheduleScan: three names, with the earliest, a middle and  *)
(* the latest window of an epoch.                                          *)
(***************************************************************************)
EXTENDS ScheduleScan

CONSTANTS early, middle, late

MCDigest == [n \in NameIds |-> CASE n = early  -> 0
                                 [] n = middle -> 7
                                 [] n = late   -> 3]
=============================================================================
