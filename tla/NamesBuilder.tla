---------------------------- MODULE NamesBuilder ----------------------------
(***************************************************************************)
(* The PCZT pipeline of the Names wallet (coppice-names-wallet,            *)
(* builder.rs): a planned REVEAL or REFRESH becomes an Ironwood bundle, a  *)
(* PCZT, and at last a consensus transaction, through seven roles of the   *)
(* pinned orchard and pczt libraries.  Every role is wrapped by a function *)
(* that checks the PCZT before and after it, and the PCZT travels between  *)
(* the wrappers in structures with public fields.                          *)
(*                                                                         *)
(* The roles are external.  Each is modelled by its contract, and it may   *)
(* also go wrong: it returns its result with one thing altered (Altered),  *)
(* or the PCZT is altered while it is handed from one wrapper to the next. *)
(* What the wrappers then promise is what this module states.              *)
(***************************************************************************)
EXTENDS Integers, FiniteSets, FiniteSetsExt, Sequences, Functions

CONSTANTS
    Plans,           \* what the wallet may ask for
    BOND_ZATOSHIS,   \* value of a bond
    MaxRoleFaults,   \* bound: how many role results are altered
    MaxHandFaults,   \* bound: how many handovers alter the PCZT
    None

\* A plan lists its funding notes, carriers and change outputs; the index of
\* the designated action is a u8 and the value of a note a u64.
ASSUME PlansAssumption ==
    \A p \in Plans : {p.funding, p.carriers, p.change, p.index,
                     p.bond_in, p.bond_out, p.carrier_value} \subseteq Nat

VARIABLES
    stage,    \* the structure the wallet holds, "refused" or "extracted"
    plan,     \* the NamesIronwoodPlan and the choices of NamesPcztPlan
    pczt,     \* the PCZT (the bundle, at stage "bundled")
    meta,     \* the metadata fields beside it
    built,    \* history: the bundle that build_names_bundle returned
    final,    \* history: the PCZT that finalize_names_pczt_io returned
    tx,       \* the extracted transaction
    sound,    \* history: every plan handed in so far was right
    faults    \* history: how often a role or a handover altered something

vars == <<stage, plan, pczt, meta, built, final, tx, sound, faults>>

-----------------------------------------------------------------------------
(* Notes, commitments and the physical actions.                            *)

\* Nullifiers and commitments are the places of their notes in the plan: spend 0 is
\* the designated bond note and output 0 its successor.  Padding has its own.
Spend(k) == <<"spend", k>>
Output(k) == <<"output", k>>
DummySpend(i) == <<"dummy", i>>
DummyOutput(i) == <<"pad", i>>
Odd == <<"odd", 0>>
Unknown == <<"unknown", 0>>

Count(p) == Cardinality(DOMAIN p.acts)

layout(p) == [i \in DOMAIN p.acts |-> <<p.acts[i].nf, p.acts[i].cmx>>]

\* embedded_action_layout fails where a commitment is missing.
LayoutReadable(p) == \A i \in DOMAIN p.acts : p.acts[i].cmx # None

value_sum_parts(balance) ==
    IF balance < 0 THEN <<-balance, TRUE>> ELSE <<balance, FALSE>>

real_spend_count(p) == 1 + p.funding
requested_output_count(p) == 1 + p.carriers + p.change

\* BundleType::UNPADDED: as many actions as the longer of the two lists.
action_count(p) == Max({real_spend_count(p), requested_output_count(p)})

names_ironwood_shape(p) == p.index < action_count(p)

\* A plan is a record of counts and of the facts that build_names_bundle checks.
PlanOf(funding, carriers, change, index) ==
    [funding |-> funding, carriers |-> carriers, change |-> change, index |-> index,
     bond_in |-> BOND_ZATOSHIS, bond_out |-> BOND_ZATOSHIS, carrier_value |-> 0,
     rho_derived |-> TRUE, height |-> 1, expiry |-> 1, nu6_3 |-> TRUE]

FundingValue == 2
ChangeValue == 1

value_balance(p) ==
    (p.bond_in - p.bond_out) + p.funding * FundingValue
        - p.carriers * p.carrier_value - p.change * ChangeValue

-----------------------------------------------------------------------------
(* The roles: what each returns when it works, and how it may go wrong.    *)

\* The action at place i when spends and outputs are placed by s and o.  A padding
\* spend carries its own witness.
ActionAt(s, o, i) ==
    LET spends == {k \in DOMAIN s : s[k] = i}
        outputs == {k \in DOMAIN o : o[k] = i}
    IN  [nf |-> IF spends = {} THEN DummySpend(i) ELSE Spend(CHOOSE k \in spends : TRUE),
         cmx |-> IF outputs = {} THEN DummyOutput(i)
                                 ELSE Output(CHOOSE k \in outputs : TRUE),
         witness |-> IF spends = {} THEN [of |-> DummySpend(i), root |-> None] ELSE None,
         sig |-> None]

\* The ways to place count spends or outputs, the designated one at the plan's index.
Placements(p, count) ==
    {f \in [0..(count - 1) -> 0..(action_count(p) - 1)] : IsInjective(f) /\ f[0] = p.index}

Bundle(p, s, o) ==
    [acts |-> [i \in 0..(action_count(p) - 1) |-> ActionAt(s, o, i)],
     value_sum |-> value_sum_parts(value_balance(p)),
     anchor |-> None, proof |-> None, modifiable |-> TRUE]

\* The Orchard builder: the requested pair at its index, the other spends and outputs
\* shuffled, padding where a list is short.
Arrangements(p) ==
    {Bundle(p, s, o) : s \in Placements(p, real_spend_count(p)),
                       o \in Placements(p, requested_output_count(p))}

\* What a signature is over: the effects of the transaction.  The anchor is deferred,
\* so it is not among them.
Sighash(p) == <<layout(p), p.value_sum>>

\* The IO Finalizer freezes the effects and signs the padding spends.
IoFinalized(p) ==
    [p EXCEPT !.modifiable = FALSE,
              !.acts = [i \in DOMAIN p.acts |->
                  IF p.acts[i].witness # None /\ p.acts[i].sig = None
                  THEN [p.acts[i] EXCEPT !.sig = [key |-> p.acts[i].nf, over |-> Sighash(p)]]
                  ELSE p.acts[i]]]

\* The Updater stores the anchor and each path at its action; it checks no root.
Updated(p, anchor, target, spends) ==
    [p EXCEPT !.anchor = anchor,
              !.acts = [i \in DOMAIN p.acts |->
                  IF i \in Range(target)
                  THEN [p.acts[i] EXCEPT !.witness =
                          spends[CHOOSE j \in DOMAIN target : target[j] = i].path]
                  ELSE p.acts[i]]]

\* The Prover checks that every real path leads from its note to the anchor.
Provable(p) ==
    \A i \in DOMAIN p.acts :
        LET w == p.acts[i].witness
        IN  w # None /\ (w.root = None \/ w = [of |-> p.acts[i].nf, root |-> p.anchor])

ProofOf(p) == [of |-> <<layout(p), p.anchor>>, len |-> 1]

Proved(p) == [p EXCEPT !.proof = ProofOf(p)]

\* The Signer refuses a key that is not the spend's.
Signed(p, target, spends) ==
    [p EXCEPT !.acts = [i \in DOMAIN p.acts |->
        IF i \in Range(target)
        THEN [p.acts[i] EXCEPT !.sig = [key |-> p.acts[i].nf, over |-> Sighash(p)]]
        ELSE p.acts[i]]]

\* The Transaction Extractor verifies the proof and every spend signature.
Authorized(p) ==
    /\ p.proof # None /\ p.proof.of = ProofOf(p).of
    /\ \A i \in DOMAIN p.acts : p.acts[i].sig = [key |-> p.acts[i].nf, over |-> Sighash(p)]

TransactionOf(p) ==
    [layout |-> layout(p), anchor |-> p.anchor, proof |-> p.proof,
     value_balance |-> IF p.value_sum[2] THEN -p.value_sum[1] ELSE p.value_sum[1]]

\* One thing of a PCZT altered: an action given the designated pair or left without a
\* commitment, a witness or a signature removed or replaced, an action moved or lost, the
\* value sum, the anchor, the proof or the modifiable flags changed.
Changes == {[nf |-> Spend(0), cmx |-> Output(0)], [nf |-> Odd], [cmx |-> Odd],
            [cmx |-> None], [witness |-> None], [witness |-> [of |-> Odd, root |-> Odd]],
            [sig |-> None], [sig |-> [key |-> Odd, over |-> None]]}

Changed(act, change) ==
    [f \in DOMAIN act |-> IF f \in DOMAIN change THEN change[f] ELSE act[f]]

AlteredActs(acts) ==
    {[acts EXCEPT ![i] = Changed(acts[i], c)] : i \in DOMAIN acts, c \in Changes}
      \cup {[acts EXCEPT ![i] = acts[j], ![j] = acts[i]] : i \in DOMAIN acts, j \in DOMAIN acts}
      \cup {Restrict(acts, 0..(Cardinality(DOMAIN acts) - 2))}

AlteredFields(p) ==
    {[p EXCEPT !.value_sum = <<@[1] + 1, @[2]>>], [p EXCEPT !.anchor = Odd],
     [p EXCEPT !.modifiable = TRUE], [p EXCEPT !.proof = None]}
      \cup {[p EXCEPT !.proof = [of |-> None, len |-> l]] : l \in 0..2}

Altered(p) ==
    ({[p EXCEPT !.acts = a] : a \in AlteredActs(p.acts)} \cup AlteredFields(p)) \ {p}

-----------------------------------------------------------------------------
(* The checks the wrappers share.                                          *)

\* Mutant: the designated pair may stand at any index.
DesignatedOnce_anywhere(l, m) ==
    Cardinality({i \in DOMAIN l : l[i] = <<m.nf, m.cmx>>}) = 1

\* The pair stands at the declared index and nowhere else.
DesignatedOnce(l, m) ==
    /\ m.index \in DOMAIN l /\ l[m.index] = <<m.nf, m.cmx>>
    /\ Cardinality({i \in DOMAIN l : l[i] = <<m.nf, m.cmx>>}) = 1

verify_embedded_designated_action(p, m) == DesignatedOnce(layout(p), m)

CountKept(p, m) == Count(p) = m.action_count
BalanceKept(p, m) == p.value_sum = value_sum_parts(m.value_balance)
AnchorKept(p, m) == p.anchor = m.anchor

\* A role left the actions, their order and their pairs alone.
LayoutKept(before, after) == LayoutReadable(after) /\ layout(after) = layout(before)

Unwitnessed(p) == {i \in DOMAIN p.acts : p.acts[i].witness = None}
SignedActions(p) == {i \in DOMAIN p.acts : p.acts[i].sig # None}
RealActions(m) == {m.witnessed[j][2] : j \in DOMAIN m.witnessed}

DummySignaturesKept(before, after) ==
    \A i \in SignedActions(before) : after.acts[i].sig = before.acts[i].sig

-----------------------------------------------------------------------------
(* A wrapper ends with its structure or with an error, which ends the      *)
(* attempt: the PCZT is consumed either way.                               *)

Init ==
    /\ plan \in Plans
    /\ stage = "planned"
    /\ pczt = None /\ meta = None /\ built = None /\ final = None /\ tx = None
    /\ sound = TRUE
    /\ faults = [role |-> 0, hand |-> 0]

Refuse ==
    /\ stage' = "refused"
    /\ pczt' = None /\ meta' = None /\ built' = None /\ final' = None /\ tx' = None
    /\ UNCHANGED plan

Advance(next, p, m) ==
    /\ stage' = next /\ pczt' = p /\ meta' = m
    /\ UNCHANGED <<plan, built, final, tx>>

\* A role returns its result, or that result altered.
Returns(result) ==
    {result} \cup (IF faults.role < MaxRoleFaults THEN Altered(result) ELSE {})

Noted(result, r) ==
    faults' = IF r = result THEN faults ELSE [faults EXCEPT !.role = @ + 1]

-----------------------------------------------------------------------------
(* build_names_bundle and build_names_pczt.                                *)

PlanAccepted(p) ==
    /\ names_ironwood_shape(p)
    /\ p.bond_in = BOND_ZATOSHIS /\ p.bond_out = BOND_ZATOSHIS
    /\ p.carriers > 0 => p.carrier_value = 0
    /\ p.rho_derived

BundleMeta(p) ==
    [index |-> p.index, nf |-> Spend(0), cmx |-> Output(0),
     action_count |-> action_count(p), real_spend_count |-> real_spend_count(p),
     value_balance |-> value_balance(p), witnessed |-> <<>>, anchor |-> None, proof_len |-> 0]

\* The builder's own metadata is honest about where it put the pair, so an altered
\* bundle that moved the pair is caught there, by verify_designated_action or by the count.
build_names_bundle ==
    /\ stage = "planned"
    /\ IF ~PlanAccepted(plan)
       THEN Refuse /\ sound' = FALSE /\ UNCHANGED faults
       ELSE \E b \in Arrangements(plan) : \E r \in Returns(b) :
              LET m == BundleMeta(plan)
              IN  /\ Noted(b, r)
                  /\ UNCHANGED sound
                  /\ IF DesignatedOnce(layout(r), m) /\ CountKept(r, m)
                     THEN /\ stage' = "bundled" /\ pczt' = r /\ meta' = m /\ built' = r
                          /\ UNCHANGED <<plan, final, tx>>
                     ELSE Refuse

PcztPlanAccepted(p) == p.nu6_3 /\ p.expiry >= p.height

\* Creator::build_from_parts converts the bundle without rebuilding its actions.
build_names_pczt ==
    /\ stage = "bundled"
    /\ \E r \in Returns(pczt) :
         /\ Noted(pczt, r)
         /\ sound' = (sound /\ PcztPlanAccepted(plan))
         /\ IF /\ PcztPlanAccepted(plan)
               /\ verify_embedded_designated_action(r, meta)
               /\ LayoutKept(pczt, r) /\ CountKept(r, meta) /\ BalanceKept(r, meta)
            THEN Advance("embedded", r, meta)
            ELSE Refuse

-----------------------------------------------------------------------------
(* finalize_names_pczt_io.                                                 *)

FinalizeChecked(before, m) ==
    LayoutReadable(before) /\ CountKept(before, m) /\ BalanceKept(before, m)

\* Mutant: only the number of actions is compared after IO finalization.
FinalizedChecked_count(before, after, m) ==
    /\ CountKept(after, m) /\ BalanceKept(after, m)
    /\ ~after.modifiable
    /\ verify_embedded_designated_action(after, m)

FinalizedChecked(before, after, m) ==
    /\ LayoutKept(before, after) /\ BalanceKept(after, m)
    /\ ~after.modifiable
    /\ verify_embedded_designated_action(after, m)

finalize_names_pczt_io ==
    /\ stage = "embedded"
    /\ UNCHANGED sound
    /\ IF ~FinalizeChecked(pczt, meta)
       THEN Refuse /\ UNCHANGED faults
       ELSE \E r \in Returns(IoFinalized(pczt)) :
              /\ Noted(IoFinalized(pczt), r)
              /\ IF FinalizedChecked(pczt, r, meta)
                 THEN /\ stage' = "finalized" /\ pczt' = r /\ final' = r
                      /\ UNCHANGED <<plan, meta, built, tx>>
                 ELSE Refuse

-----------------------------------------------------------------------------
(* install_names_ironwood_witnesses.                                       *)

\* The real nullifiers of the plan in every order, one entry for each.
Orders == {f \in [1..real_spend_count(plan) -> 0..plan.funding] : IsInjective(f)}

\* The nullifiers an entry may name.
Named == {Spend(k) : k \in 0..plan.funding} \cup {DummySpend(i) : i \in DOMAIN pczt.acts}
           \cup {Unknown}

\* From the right and a wrong entry for each nullifier: the lists that cover the real
\* spends, and those a careless caller could hand in, with an entry missing, given
\* twice, for an unknown nullifier, for padding, or wrong in itself.
Lists(good, bad) ==
    LET right == {[j \in DOMAIN f |-> good[Spend(f[j])]] : f \in Orders}
        n == real_spend_count(plan)
    IN  [right |-> right,
         wrong |-> {SubSeq(s, 1, n - 1) : s \in right}
                   \cup {[s EXCEPT ![n] = s[1]] : s \in {t \in right : n > 1}}
                   \cup {Append(s, s[1]) : s \in right}
                   \cup {[s EXCEPT ![1] = good[Unknown]] : s \in right}
                   \cup {[s EXCEPT ![1] = good[DummySpend(i)]] : s \in right, i \in DOMAIN pczt.acts}
                   \cup {[s EXCEPT ![n] = bad[s[n].nf]] : s \in right}]

Anchor == <<"anchor", 0>>

WitnessLists ==
    Lists([nf \in Named |-> [nf |-> nf, path |-> [of |-> nf, root |-> Anchor]]],
          [nf \in Named |-> [nf |-> nf, path |-> [of |-> nf, root |-> Odd]]])

Matches(p, nf) == {i \in DOMAIN p.acts : p.acts[i].nf = nf}

\* Mutant: the paths are given to the unwitnessed actions in their order.
WitnessTargets_in_order(p, spends) ==
    [j \in DOMAIN spends |->
        CHOOSE i \in Unwitnessed(p) : Cardinality({k \in Unwitnessed(p) : k < i}) = j - 1]

\* Every path is for the action that reveals its nullifier.
WitnessTargets(p, spends) ==
    [j \in DOMAIN spends |-> CHOOSE i \in DOMAIN p.acts : p.acts[i].nf = spends[j].nf]

\* Mutant: the resolved indices are compared unsorted.
CoversExactly_unsorted(target, actions) ==
    /\ Range(target) = actions
    /\ \A j, k \in DOMAIN target : j < k => target[j] < target[k]

\* The resolved indices, sorted, are the real actions.
CoversExactly(target, actions) == IsInjective(target) /\ Range(target) = actions

InstallChecked(before, m, spends) ==
    /\ LayoutReadable(before) /\ CountKept(before, m) /\ BalanceKept(before, m)
    /\ Cardinality(Unwitnessed(before)) = m.real_spend_count
    /\ Len(spends) = m.real_spend_count
    /\ \A j \in DOMAIN spends :
         /\ Cardinality(Matches(before, spends[j].nf)) = 1
         /\ Matches(before, spends[j].nf) \subseteq Unwitnessed(before)
    /\ CoversExactly(WitnessTargets(before, spends), Unwitnessed(before))

InstalledChecked(before, after, m, target, spends) ==
    /\ AnchorKept(after, m)
    /\ LayoutKept(before, after) /\ BalanceKept(after, m)
    /\ verify_embedded_designated_action(after, m)
    /\ \A j \in DOMAIN spends : after.acts[target[j]].witness = spends[j].path
    /\ \A i \in DOMAIN before.acts \ Unwitnessed(before) :
         /\ after.acts[i].witness = before.acts[i].witness
         /\ after.acts[i].sig = before.acts[i].sig

install_names_ironwood_witnesses ==
    /\ stage = "finalized"
    /\ \E spends \in WitnessLists.right \cup WitnessLists.wrong :
         LET target == WitnessTargets(pczt, spends)
             result == Updated(pczt, Anchor, target, spends)
             m == [meta EXCEPT !.anchor = Anchor,
                               !.witnessed = [j \in DOMAIN spends |-> <<spends[j].nf, target[j]>>]]
         IN  /\ sound' = (sound /\ spends \in WitnessLists.right)
             /\ IF ~InstallChecked(pczt, meta, spends)
                THEN Refuse /\ UNCHANGED faults
                ELSE \E r \in Returns(result) :
                       /\ Noted(result, r)
                       /\ IF InstalledChecked(pczt, r, m, target, spends)
                          THEN Advance("witnessed", r, m)
                          ELSE Refuse

-----------------------------------------------------------------------------
(* prove_names_ironwood_pczt.                                              *)

\* The real spends are witnessed and not yet signed; the signatures there are padding's.
ProveChecked(before, m) ==
    /\ LayoutReadable(before)
    /\ before.proof = None
    /\ AnchorKept(before, m) /\ CountKept(before, m) /\ BalanceKept(before, m)
    /\ verify_embedded_designated_action(before, m)
    /\ Len(m.witnessed) = m.real_spend_count
    /\ Cardinality(RealActions(m)) = m.real_spend_count
    /\ \A i \in RealActions(m) : before.acts[i].witness # None /\ before.acts[i].sig = None
    /\ Cardinality(SignedActions(before)) = m.action_count - m.real_spend_count

\* Mutant: nothing is asked about the signatures after proving.
ProvedChecked_unsigned_not_asked(before, after, m) ==
    /\ after.proof # None /\ after.proof.len > 0
    /\ LayoutKept(before, after) /\ after.value_sum = before.value_sum /\ AnchorKept(after, m)
    /\ verify_embedded_designated_action(after, m)
    /\ \A i \in RealActions(m) : after.acts[i].witness # None
    /\ DummySignaturesKept(before, after)

ProvedChecked(before, after, m) ==
    /\ after.proof # None /\ after.proof.len > 0
    /\ LayoutKept(before, after) /\ after.value_sum = before.value_sum /\ AnchorKept(after, m)
    /\ verify_embedded_designated_action(after, m)
    /\ \A i \in RealActions(m) : after.acts[i].witness # None /\ after.acts[i].sig = None
    /\ DummySignaturesKept(before, after)

prove_names_ironwood_pczt ==
    /\ stage = "witnessed"
    /\ UNCHANGED sound
    /\ IF ~(ProveChecked(pczt, meta) /\ Provable(pczt))
       THEN Refuse /\ UNCHANGED faults
       ELSE \E r \in Returns(Proved(pczt)) :
              /\ Noted(Proved(pczt), r)
              /\ IF ProvedChecked(pczt, r, meta)
                 THEN Advance("proved", r, [meta EXCEPT !.proof_len = r.proof.len])
                 ELSE Refuse

-----------------------------------------------------------------------------
(* sign_names_ironwood_pczt and its core.                                  *)

SigningLists ==
    Lists([nf \in Named |-> [nf |-> nf, ask |-> nf]],
          [nf \in Named |-> [nf |-> nf, ask |-> Odd]])

\* A key is found by its nullifier among the witnessed spends.
SigningTargets(m, spends) ==
    [j \in DOMAIN spends |->
        (CHOOSE w \in Range(m.witnessed) : w[1] = spends[j].nf)[2]]

SignChecked(before, m) ==
    /\ before.proof # None /\ before.proof.len > 0 /\ before.proof.len = m.proof_len
    /\ LayoutReadable(before)
    /\ AnchorKept(before, m) /\ CountKept(before, m) /\ BalanceKept(before, m)
    /\ verify_embedded_designated_action(before, m)
    /\ Len(m.witnessed) = m.real_spend_count
    /\ \A j, k \in DOMAIN m.witnessed :
         j # k => m.witnessed[j][1] # m.witnessed[k][1] /\ m.witnessed[j][2] # m.witnessed[k][2]
    /\ \A j \in DOMAIN m.witnessed :
         LET a == before.acts[m.witnessed[j][2]]
         IN  a.nf = m.witnessed[j][1] /\ a.witness # None /\ a.sig = None
    /\ Cardinality(SignedActions(before)) = m.action_count - m.real_spend_count

KeysChecked(m, spends) ==
    /\ Len(spends) = m.real_spend_count
    /\ \A j \in DOMAIN spends : \E w \in Range(m.witnessed) : w[1] = spends[j].nf
    /\ CoversExactly(SigningTargets(m, spends), RealActions(m))

SignedChecked(before, after, m) ==
    /\ LayoutKept(before, after) /\ after.value_sum = before.value_sum
    /\ after.anchor = before.anchor /\ after.proof = before.proof
    /\ verify_embedded_designated_action(after, m)
    /\ \A i \in RealActions(m) : after.acts[i].witness # None /\ after.acts[i].sig # None
    /\ DummySignaturesKept(before, after)
    /\ Cardinality(SignedActions(after)) = m.action_count

sign_names_ironwood_pczt ==
    /\ stage = "proved"
    /\ \E spends \in SigningLists.right \cup SigningLists.wrong :
         /\ sound' = (sound /\ spends \in SigningLists.right)
         /\ IF ~( /\ SignChecked(pczt, meta) /\ KeysChecked(meta, spends)
                  /\ \A j \in DOMAIN spends : spends[j].ask = spends[j].nf )
            THEN Refuse /\ UNCHANGED faults
            ELSE LET result == Signed(pczt, SigningTargets(meta, spends), spends)
                 IN  \E r \in Returns(result) :
                       /\ Noted(result, r)
                       /\ IF SignedChecked(pczt, r, meta)
                          THEN Advance("signed", r, meta)
                          ELSE Refuse

-----------------------------------------------------------------------------
(* extract_names_transaction.                                              *)

ExtractChecked(before, m) ==
    /\ before.proof # None /\ before.proof.len > 0 /\ before.proof.len = m.proof_len
    /\ LayoutReadable(before)
    /\ CountKept(before, m) /\ BalanceKept(before, m) /\ AnchorKept(before, m)
    /\ verify_embedded_designated_action(before, m)
    /\ Cardinality(SignedActions(before)) = m.action_count

ExtractedChecked(before, t, m) ==
    /\ t.layout = layout(before)
    /\ DesignatedOnce(t.layout, m)
    /\ t.value_balance = m.value_balance /\ t.anchor = m.anchor
    /\ t.proof # None /\ t.proof.len > 0 /\ t.proof = before.proof

extract_names_transaction ==
    /\ stage = "signed"
    /\ UNCHANGED sound
    /\ IF ~(ExtractChecked(pczt, meta) /\ Authorized(pczt))
       THEN Refuse /\ UNCHANGED faults
       ELSE \E r \in Returns(pczt) :
              /\ Noted(pczt, r)
              /\ IF ExtractedChecked(pczt, TransactionOf(r), meta)
                 THEN /\ stage' = "extracted" /\ tx' = TransactionOf(r)
                      /\ UNCHANGED <<plan, pczt, meta, built, final>>
                 ELSE Refuse

-----------------------------------------------------------------------------
\* Between two wrappers the PCZT is a public field: it is stored, sent to another
\* device and read back.  The wallet keeps the metadata itself.
HandOver ==
    /\ stage \notin {"planned", "refused", "extracted"}
    /\ faults.hand < MaxHandFaults
    /\ pczt' \in Altered(pczt)
    /\ faults' = [faults EXCEPT !.hand = @ + 1]
    /\ UNCHANGED <<stage, plan, meta, built, final, tx, sound>>

Ended == stage \in {"refused", "extracted"} /\ UNCHANGED vars

Next ==
    \/ build_names_bundle \/ build_names_pczt \/ finalize_names_pczt_io
    \/ install_names_ironwood_witnesses \/ prove_names_ironwood_pczt
    \/ sign_names_ironwood_pczt \/ extract_names_transaction
    \/ HandOver \/ Ended

Spec == Init /\ [][Next]_vars

-----------------------------------------------------------------------------
(* Properties.                                                             *)

\* However a role went wrong on the way, and as long as nobody altered the PCZT between
\* two wrappers, the transaction that comes out has exactly the actions, in order, that
\* build_names_bundle returned, its planned balance, the anchor of the witness plan, and
\* a proof that is about just that.
ExtractedAsBuilt ==
    (stage = "extracted" /\ faults.hand = 0) =>
        /\ tx.layout = layout(built)
        /\ tx.value_balance = value_balance(plan)
        /\ tx.anchor = Anchor
        /\ tx.proof.of = <<tx.layout, tx.anchor>>

\* Even if the PCZT was altered between wrappers, a transaction that comes out holds the
\* planned NF/CMX pair exactly once, at the index that the Names operation carries, with
\* the planned number of actions and balance: else the reducer would read another bond.
OperationStaysBound ==
    (stage = "extracted") =>
        /\ {i \in DOMAIN tx.layout : tx.layout[i] = <<Spend(0), Output(0)>>} = {plan.index}
        /\ Cardinality(DOMAIN tx.layout) = action_count(plan)
        /\ tx.value_balance = value_balance(plan)

\* Unless the PCZT was altered between wrappers, installation gives every unwitnessed
\* spend the path of its own note, in whatever order the plan listed them, and leaves
\* the padding as IO finalization made it.
WitnessesByNullifier ==
    (stage = "witnessed" /\ faults.hand = 0) =>
        \A i \in DOMAIN pczt.acts :
            IF final.acts[i].witness = None
            THEN pczt.acts[i].witness.of = pczt.acts[i].nf
            ELSE pczt.acts[i] = final.acts[i]

\* A proved PCZT that reaches the signer from the prover's wrapper authorizes no real
\* spend yet: only padding is signed, and with the signatures it was witnessed with.
NoRealSignatureYet ==
    (stage = "proved" /\ faults.hand = 0) =>
        /\ SignedActions(pczt) \cap RealActions(meta) = {}
        /\ \A i \in SignedActions(pczt) : pczt.acts[i].sig = final.acts[i].sig

\* The verdict has a cause.  An attempt is refused only if one of the three plans was
\* wrong or something was altered; a transaction comes out only if all plans were right.
VerdictHasCause ==
    /\ stage = "refused" => ~sound \/ faults.role + faults.hand > 0
    /\ stage = "extracted" => sound
=============================================================================
