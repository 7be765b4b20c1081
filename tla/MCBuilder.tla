----------------------------- MODULE MCBuilder -----------------------------
(***************************************************************************)
(* Instances of the PCZT pipeline: a REVEAL-like bundle with funding,      *)
(* carrier and change, one with padding on either side, one without        *)
(* funding whose balance is zero or negative, each at every index, and the *)
(* plans that a check must refuse.                                         *)
(***************************************************************************)
EXTENDS NamesBuilder

MCShapes == {<<1, 1, 1>>, <<0, 1, 0>>, <<0, 1, 1>>, <<1, 0, 0>>, <<0, 0, 0>>}

Good == {PlanOf(s[1], s[2], s[3], i) : s \in MCShapes, i \in 0..2}

Base == PlanOf(1, 1, 1, 1)

MCPlans ==
    Good \cup
    {[Base EXCEPT !.bond_in = 2], [Base EXCEPT !.bond_out = 2],
     [Base EXCEPT !.carrier_value = 1], [Base EXCEPT !.rho_derived = FALSE],
     [Base EXCEPT !.expiry = 0], [Base EXCEPT !.expiry = 2], [Base EXCEPT !.nu6_3 = FALSE]}
=============================================================================
