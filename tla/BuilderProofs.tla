--------------------------- MODULE BuilderProofs ----------------------------
(***************************************************************************)
(* What the checks of the PCZT pipeline are worth, for every plan, every   *)
(* arrangement of the actions, and any number of altered role results and  *)
(* handovers: the transaction that comes out is bound to its Names         *)
(* operation, and is the bundle that was built if nobody altered the PCZT  *)
(* between two wrappers.  And an attempt ends as its plans deserve: right  *)
(* plans are refused only after something was altered, and wrong ones      *)
(* never become a transaction.                                             *)
(***************************************************************************)
EXTENDS NamesBuilder, FiniteSetTheorems, TLAPS

PcztFields == {"acts", "value_sum", "anchor", "proof", "modifiable"}
MetaFields == {"index", "nf", "cmx", "action_count", "real_spend_count",
               "value_balance", "witnessed", "anchor", "proof_len"}

IsAct(a) == a = [nf |-> a.nf, cmx |-> a.cmx, witness |-> a.witness, sig |-> a.sig]

IsPczt(p) == /\ DOMAIN p = PcztFields
             /\ \E n \in Nat : DOMAIN p.acts = 0..(n - 1)
             /\ \A i \in DOMAIN p.acts : IsAct(p.acts[i])

Begun == stage \notin {"planned", "refused"}

\* The metadata says what the plan said.
MetaBound ==
    /\ DOMAIN meta = MetaFields
    /\ meta.index = plan.index /\ meta.nf = Spend(0) /\ meta.cmx = Output(0)
    /\ meta.action_count = action_count(plan)
    /\ meta.real_spend_count = real_spend_count(plan)
    /\ meta.value_balance = value_balance(plan)
    /\ stage \in {"witnessed", "proved", "signed", "extracted"} => meta.anchor = Anchor

BuilderInv ==
    /\ plan \in Plans
    /\ DOMAIN faults = {"role", "hand"} /\ faults.hand \in Nat
    /\ Begun => IsPczt(pczt) /\ MetaBound
    /\ (Begun /\ faults.hand = 0) => layout(pczt) = layout(built)
    /\ OperationStaysBound
    /\ ExtractedAsBuilt

-----------------------------------------------------------------------------
(***************************************************************************)
(* Every PCZT has its actions numbered from zero, altered or not.          *)
(***************************************************************************)
LEMMA PcztFinite ==
    ASSUME NEW p, IsPczt(p)
    PROVE  /\ IsFiniteSet(DOMAIN p.acts) /\ Count(p) \in Nat
           /\ DOMAIN p.acts = 0..(Count(p) - 1)
  <1>1. PICK n \in Nat : DOMAIN p.acts = 0..(n - 1)
    BY DEF IsPczt
  <1>2. IsFiniteSet(0..(n - 1)) /\ Cardinality(0..(n - 1)) = n
    <2>1. 0 \in Int /\ n - 1 \in Int
      OBVIOUS
    <2>2. /\ IsFiniteSet(0..(n - 1))
          /\ Cardinality(0..(n - 1)) = IF 0 > n - 1 THEN 0 ELSE n - 1 - 0 + 1
      BY <2>1, FS_Interval
    <2> QED BY <2>2
  <1> QED BY <1>1, <1>2 DEF Count

LEMMA PlanCounts ==
    ASSUME NEW p \in Plans
    PROVE  /\ action_count(p) \in Nat /\ real_spend_count(p) \in Nat
           /\ real_spend_count(p) <= action_count(p)
           /\ p.index \in Nat /\ p.funding \in Nat
  <1>1. /\ p.funding \in Nat /\ p.carriers \in Nat /\ p.change \in Nat /\ p.index \in Nat
    BY PlansAssumption
  <1> DEFINE a == real_spend_count(p)
             b == requested_output_count(p)
  <1>2. a \in Nat /\ b \in Nat
    BY <1>1 DEF real_spend_count, requested_output_count
  <1>3. action_count(p) = CHOOSE x \in {a, b} : \A y \in {a, b} : x >= y
    BY DEF action_count, Max
  <1> HIDE DEF a, b
  <1>4. \E x \in {a, b} : \A y \in {a, b} : x >= y
    BY <1>2
  <1>5. action_count(p) \in {a, b} /\ \A y \in {a, b} : action_count(p) >= y
    BY <1>3, <1>4
  <1> QED BY <1>1, <1>2, <1>5 DEF a

LEMMA ArrangedPczt ==
    ASSUME NEW p \in Plans, NEW b \in Arrangements(p)
    PROVE  IsPczt(b)
  <1>1. PICK s, o : b = Bundle(p, s, o)
    BY DEF Arrangements
  <1>2. \A i : IsAct(ActionAt(s, o, i))
    BY DEF IsAct, ActionAt
  <1>3. /\ DOMAIN b = PcztFields /\ DOMAIN b.acts = 0..(action_count(p) - 1)
        /\ \A i \in DOMAIN b.acts : b.acts[i] = ActionAt(s, o, i)
    BY <1>1 DEF Bundle, PcztFields
  <1> QED BY <1>2, <1>3, PlanCounts DEF IsPczt

LEMMA AlteredActions ==
    ASSUME NEW acts, NEW n \in Nat, DOMAIN acts = 0..(n - 1),
           \A i \in DOMAIN acts : IsAct(acts[i]), NEW a \in AlteredActs(acts)
    PROVE  /\ \E m \in Nat : DOMAIN a = 0..(m - 1)
           /\ \A i \in DOMAIN a : IsAct(a[i])
  <1>1. ASSUME NEW i \in DOMAIN acts, NEW c \in Changes,
               a = [acts EXCEPT ![i] = Changed(acts[i], c)]
        PROVE  DOMAIN a = DOMAIN acts /\ \A k \in DOMAIN a : IsAct(a[k])
    <2>1. ASSUME NEW act, IsAct(act)
          PROVE  IsAct(Changed(act, c))
      BY <2>1 DEF IsAct, Changed
    <2> QED BY <1>1, <2>1
  <1>2. ASSUME NEW i \in DOMAIN acts, NEW j \in DOMAIN acts,
               a = [acts EXCEPT ![i] = acts[j], ![j] = acts[i]]
        PROVE  DOMAIN a = DOMAIN acts /\ \A k \in DOMAIN a : IsAct(a[k])
    BY <1>2
  <1>3. ASSUME a = Restrict(acts, 0..(Cardinality(DOMAIN acts) - 2))
        PROVE  /\ \E m \in Nat : DOMAIN a = 0..(m - 1)
               /\ \A i \in DOMAIN a : IsAct(a[i])
    <2> DEFINE m == IF n = 0 THEN 0 ELSE n - 1
    <2>1. Cardinality(DOMAIN acts) = n
      <3>1. Cardinality(0..(n - 1)) = IF 0 > n - 1 THEN 0 ELSE n - 1 - 0 + 1
        <4>1. 0 \in Int /\ n - 1 \in Int
          OBVIOUS
        <4> QED BY <4>1, FS_Interval
      <3> QED BY <3>1
    <2>2. DOMAIN a = 0..(n - 2) /\ \A i \in 0..(n - 2) : a[i] = acts[i]
      BY <1>3, <2>1 DEF Restrict
    <2>3. m \in Nat /\ 0..(n - 2) = 0..(m - 1) /\ 0..(n - 2) \subseteq 0..(n - 1)
      OBVIOUS
    <2> HIDE DEF m
    <2> QED BY <2>2, <2>3
  <1> QED BY <1>1, <1>2, <1>3 DEF AlteredActs

LEMMA AlteredPczt ==
    ASSUME NEW p, IsPczt(p), NEW r \in Altered(p)
    PROVE  IsPczt(r)
  <1>1. CASE r \in AlteredFields(p)
    <2>1. DOMAIN r = DOMAIN p /\ r.acts = p.acts
      BY <1>1 DEF AlteredFields, IsPczt, PcztFields
    <2> QED BY <2>1 DEF IsPczt
  <1>2. ASSUME NEW a \in AlteredActs(p.acts), r = [p EXCEPT !.acts = a]
        PROVE  IsPczt(r)
    <2>1. DOMAIN r = PcztFields /\ r.acts = a
      BY <1>2 DEF IsPczt, PcztFields
    <2>2. /\ \E m \in Nat : DOMAIN a = 0..(m - 1)
          /\ \A i \in DOMAIN a : IsAct(a[i])
      BY AlteredActions DEF IsPczt
    <2> QED BY <2>1, <2>2 DEF IsPczt
  <1> QED BY <1>1, <1>2 DEF Altered

LEMMA ReturnedPczt ==
    ASSUME NEW p, IsPczt(p), NEW r \in Returns(p)
    PROVE  IsPczt(r)
  BY AlteredPczt DEF Returns

LEMMA RolesPczt ==
    ASSUME NEW p, IsPczt(p)
    PROVE  /\ IsPczt(IoFinalized(p)) /\ IsPczt(Proved(p))
           /\ \A anchor, target, spends : IsPczt(Updated(p, anchor, target, spends))
           /\ \A target, spends : IsPczt(Signed(p, target, spends))
  <1> DEFINE signed(a, x) == [a EXCEPT !.sig = x]
             witnessed(a, x) == [a EXCEPT !.witness = x]
  <1>1. ASSUME NEW r, DOMAIN r = PcztFields, DOMAIN r.acts = DOMAIN p.acts,
               \A i \in DOMAIN p.acts : IsAct(r.acts[i])
        PROVE  IsPczt(r)
    BY <1>1 DEF IsPczt
  <1>2. ASSUME NEW a, IsAct(a), NEW x
        PROVE  IsAct(signed(a, x)) /\ IsAct(witnessed(a, x))
    BY <1>2 DEF IsAct
  <1>3. \A i \in DOMAIN p.acts : IsAct(p.acts[i])
    BY DEF IsPczt
  <1>4. IsPczt(IoFinalized(p))
    <2> DEFINE r == IoFinalized(p)
               sig(i) == [key |-> p.acts[i].nf, over |-> Sighash(p)]
    <2>1. /\ DOMAIN r = PcztFields /\ DOMAIN r.acts = DOMAIN p.acts
          /\ \A i \in DOMAIN p.acts :
               r.acts[i] = p.acts[i] \/ r.acts[i] = signed(p.acts[i], sig(i))
      BY DEF IoFinalized, IsPczt, PcztFields
    <2> HIDE DEF r, sig, signed
    <2>2. \A i \in DOMAIN p.acts : IsAct(r.acts[i])
      BY <1>2, <1>3, <2>1
    <2>3. IsPczt(r)
      BY <1>1, <2>1, <2>2
    <2> QED BY <2>3 DEF r
  <1>5. IsPczt(Proved(p))
    BY DEF Proved, IsPczt, PcztFields
  <1>6. ASSUME NEW anchor, NEW target, NEW spends
        PROVE  IsPczt(Updated(p, anchor, target, spends))
    <2> DEFINE r == Updated(p, anchor, target, spends)
               path(i) == spends[CHOOSE j \in DOMAIN target : target[j] = i].path
    <2>1. /\ DOMAIN r = PcztFields /\ DOMAIN r.acts = DOMAIN p.acts
          /\ \A i \in DOMAIN p.acts :
               r.acts[i] = IF i \in Range(target)
                           THEN witnessed(p.acts[i], path(i)) ELSE p.acts[i]
      BY DEF Updated, IsPczt, PcztFields
    <2> HIDE DEF r, path, witnessed
    <2>2. \A i \in DOMAIN p.acts : IsAct(r.acts[i])
      BY <1>2, <1>3, <2>1
    <2>3. IsPczt(r)
      BY <1>1, <2>1, <2>2
    <2> QED BY <2>3 DEF r
  <1>7. ASSUME NEW target, NEW spends
        PROVE  IsPczt(Signed(p, target, spends))
    <2> DEFINE r == Signed(p, target, spends)
               sig(i) == [key |-> p.acts[i].nf, over |-> Sighash(p)]
    <2>1. /\ DOMAIN r = PcztFields /\ DOMAIN r.acts = DOMAIN p.acts
          /\ \A i \in DOMAIN p.acts :
               r.acts[i] = IF i \in Range(target)
                           THEN signed(p.acts[i], sig(i)) ELSE p.acts[i]
      BY DEF Signed, IsPczt, PcztFields
    <2> HIDE DEF r, sig, signed
    <2>2. \A i \in DOMAIN p.acts : IsAct(r.acts[i])
      BY <1>2, <1>3, <2>1
    <2>3. IsPczt(r)
      BY <1>1, <2>1, <2>2
    <2> QED BY <2>3 DEF r
  <1> QED BY <1>4, <1>5, <1>6, <1>7

-----------------------------------------------------------------------------
(***************************************************************************)
(* The wrappers.                                                           *)
(***************************************************************************)
LEMMA NotedKeeps ==
    ASSUME BuilderInv, NEW a, NEW r, Noted(a, r)
    PROVE  DOMAIN faults' = {"role", "hand"} /\ faults'.hand = faults.hand
  BY DEF BuilderInv, Noted

\* An error ends the attempt.
LEMMA RefuseStep ==
    ASSUME BuilderInv, Refuse, DOMAIN faults' = {"role", "hand"}, faults'.hand = faults.hand
    PROVE  BuilderInv'
  BY DEF BuilderInv, Refuse, Begun, OperationStaysBound, ExtractedAsBuilt

\* A wrapper returned its structure.
LEMMA AdvanceStep ==
    ASSUME BuilderInv, Begun, NEW next, NEW p, NEW m, Advance(next, p, m),
           DOMAIN faults' = {"role", "hand"}, faults'.hand = faults.hand,
           IsPczt(p), layout(p) = layout(pczt),
           next \in {"embedded", "witnessed", "proved", "signed"},
           DOMAIN m = MetaFields,
           \A f \in MetaFields \ {"witnessed", "anchor", "proof_len"} : m[f] = meta[f],
           next # "embedded" => m.anchor = Anchor
    PROVE  BuilderInv'
  <1>1. /\ stage' = next /\ pczt' = p /\ meta' = m /\ plan' = plan /\ built' = built
    BY DEF Advance
  <1>2. Begun' /\ stage' # "extracted"
    BY <1>1 DEF Begun
  <1>3. /\ m.index = meta.index /\ m.nf = meta.nf /\ m.cmx = meta.cmx
        /\ m.action_count = meta.action_count
        /\ m.real_spend_count = meta.real_spend_count
        /\ m.value_balance = meta.value_balance
    BY DEF MetaFields
  <1>4. MetaBound /\ plan \in Plans
    BY DEF BuilderInv
  <1>5. MetaBound'
    BY <1>1, <1>3, <1>4 DEF MetaBound
  <1>6. (faults'.hand = 0) => layout(pczt') = layout(built')
    BY <1>1 DEF BuilderInv
  <1> QED BY <1>1, <1>2, <1>5, <1>6
          DEF BuilderInv, OperationStaysBound, ExtractedAsBuilt, layout

LEMMA BundleStep ==
    ASSUME BuilderInv, build_names_bundle
    PROVE  BuilderInv'
  <1>1. CASE ~PlanAccepted(plan)
    <2>1. Refuse /\ faults' = faults
      BY <1>1 DEF build_names_bundle
    <2> QED BY <2>1, RefuseStep DEF BuilderInv
  <1>2. CASE PlanAccepted(plan)
    <2>0. PICK b \in Arrangements(plan) : \E r \in Returns(b) :
            /\ Noted(b, r)
            /\ \/ Refuse
               \/ /\ stage' = "bundled" /\ pczt' = r /\ meta' = BundleMeta(plan) /\ built' = r
                  /\ plan' = plan
      BY <1>2 DEF build_names_bundle
    <2>1. PICK r \in Returns(b) :
            /\ Noted(b, r)
            /\ \/ Refuse
               \/ /\ stage' = "bundled" /\ pczt' = r /\ meta' = BundleMeta(plan) /\ built' = r
                  /\ plan' = plan
      BY <2>0
    <2>2. DOMAIN faults' = {"role", "hand"} /\ faults'.hand = faults.hand
      BY <2>1, NotedKeeps
    <2>3. IsPczt(r) /\ plan \in Plans
      BY <2>1, ArrangedPczt, ReturnedPczt DEF BuilderInv
    <2>4. ASSUME stage' = "bundled", pczt' = r, meta' = BundleMeta(plan), built' = r,
                 plan' = plan
          PROVE  BuilderInv'
      <3>1. MetaBound'
        BY <2>4 DEF MetaBound, BundleMeta, MetaFields
      <3> QED BY <2>2, <2>3, <2>4, <3>1
              DEF BuilderInv, Begun, OperationStaysBound, ExtractedAsBuilt, layout
    <2> QED BY <2>1, <2>2, <2>4, RefuseStep
  <1> QED BY <1>1, <1>2

LEMMA EmbedStep ==
    ASSUME BuilderInv, build_names_pczt
    PROVE  BuilderInv'
  <1>1. PICK r \in Returns(pczt) :
          /\ Noted(pczt, r)
          /\ \/ Refuse
             \/ LayoutKept(pczt, r) /\ Advance("embedded", r, meta)
    BY DEF build_names_pczt
  <1>2. DOMAIN faults' = {"role", "hand"} /\ faults'.hand = faults.hand
    BY <1>1, NotedKeeps
  <1>3. Begun /\ MetaBound /\ IsPczt(r)
    BY <1>1, ReturnedPczt DEF build_names_pczt, Begun, BuilderInv
  <1>4. LayoutKept(pczt, r) => layout(r) = layout(pczt)
    BY DEF LayoutKept
  <1> QED BY <1>1, <1>2, <1>3, <1>4, RefuseStep, AdvanceStep DEF MetaBound

LEMMA FinalizeStep ==
    ASSUME BuilderInv, finalize_names_pczt_io
    PROVE  BuilderInv'
  <1>1. CASE ~FinalizeChecked(pczt, meta)
    <2>1. Refuse /\ faults' = faults
      BY <1>1 DEF finalize_names_pczt_io
    <2> QED BY <2>1, RefuseStep DEF BuilderInv
  <1>2. CASE FinalizeChecked(pczt, meta)
    <2>1. PICK r \in Returns(IoFinalized(pczt)) :
            /\ Noted(IoFinalized(pczt), r)
            /\ \/ Refuse
               \/ /\ LayoutKept(pczt, r)
                  /\ stage' = "finalized" /\ pczt' = r
                  /\ UNCHANGED <<plan, meta, built>>
      BY <1>2 DEF finalize_names_pczt_io, FinalizedChecked
    <2>2. DOMAIN faults' = {"role", "hand"} /\ faults'.hand = faults.hand
      BY <2>1, NotedKeeps
    <2>3. Begun /\ MetaBound /\ IsPczt(r)
      BY <2>1, RolesPczt, ReturnedPczt DEF finalize_names_pczt_io, Begun, BuilderInv
    <2>4. ASSUME LayoutKept(pczt, r), stage' = "finalized", pczt' = r,
                 UNCHANGED <<plan, meta, built>>
          PROVE  BuilderInv'
      <3>1. MetaBound'
        BY <2>3, <2>4 DEF MetaBound
      <3>2. layout(r) = layout(pczt)
        BY <2>4 DEF LayoutKept
      <3>3. faults'.hand = 0 => layout(pczt') = layout(built')
        BY <2>2, <2>3, <2>4, <3>2 DEF BuilderInv
      <3> QED BY <2>2, <2>3, <2>4, <3>1, <3>3
              DEF BuilderInv, Begun, OperationStaysBound, ExtractedAsBuilt, layout
    <2> QED BY <2>1, <2>2, <2>4, RefuseStep
  <1> QED BY <1>1, <1>2

LEMMA WitnessStep ==
    ASSUME BuilderInv, install_names_ironwood_witnesses
    PROVE  BuilderInv'
  <1> DEFINE target(spends) == WitnessTargets(pczt, spends)
             result(spends) == Updated(pczt, Anchor, target(spends), spends)
             m(spends) == [meta EXCEPT !.anchor = Anchor,
                             !.witnessed = [j \in DOMAIN spends |->
                                              <<spends[j].nf, target(spends)[j]>>]]
  <1>1. PICK spends :
          \/ Refuse /\ faults' = faults
          \/ \E r \in Returns(result(spends)) :
               /\ Noted(result(spends), r)
               /\ \/ Refuse
                  \/ LayoutKept(pczt, r) /\ Advance("witnessed", r, m(spends))
    BY DEF install_names_ironwood_witnesses, InstalledChecked
  <1>2. Begun /\ MetaBound /\ IsPczt(result(spends))
    BY RolesPczt DEF install_names_ironwood_witnesses, Begun, BuilderInv
  <1>3. /\ DOMAIN m(spends) = MetaFields /\ m(spends).anchor = Anchor
        /\ \A f \in MetaFields \ {"witnessed", "anchor", "proof_len"} : m(spends)[f] = meta[f]
    BY <1>2 DEF MetaBound, MetaFields
  <1> HIDE DEF result, m
  <1>4. CASE Refuse /\ faults' = faults
    BY <1>4, RefuseStep DEF BuilderInv
  <1>5. ASSUME NEW r \in Returns(result(spends)), Noted(result(spends), r),
               \/ Refuse
               \/ LayoutKept(pczt, r) /\ Advance("witnessed", r, m(spends))
        PROVE  BuilderInv'
    <2>1. DOMAIN faults' = {"role", "hand"} /\ faults'.hand = faults.hand
      BY <1>5, NotedKeeps
    <2>2. IsPczt(r)
      BY <1>2, ReturnedPczt
    <2>3. LayoutKept(pczt, r) => layout(r) = layout(pczt)
      BY DEF LayoutKept
    <2> QED BY <1>2, <1>3, <1>5, <2>1, <2>2, <2>3, RefuseStep, AdvanceStep
  <1> QED BY <1>1, <1>4, <1>5

LEMMA ProveStep ==
    ASSUME BuilderInv, prove_names_ironwood_pczt
    PROVE  BuilderInv'
  <1> DEFINE m(r) == [meta EXCEPT !.proof_len = r.proof.len]
  <1>1. \/ Refuse /\ faults' = faults
        \/ \E r \in Returns(Proved(pczt)) :
             /\ Noted(Proved(pczt), r)
             /\ \/ Refuse
                \/ LayoutKept(pczt, r) /\ Advance("proved", r, m(r))
    BY DEF prove_names_ironwood_pczt, ProvedChecked
  <1>2. Begun /\ MetaBound /\ IsPczt(Proved(pczt)) /\ meta.anchor = Anchor
    BY RolesPczt DEF prove_names_ironwood_pczt, Begun, BuilderInv, MetaBound
  <1>3. CASE Refuse /\ faults' = faults
    BY <1>3, RefuseStep DEF BuilderInv
  <1>4. ASSUME NEW r \in Returns(Proved(pczt)), Noted(Proved(pczt), r),
               \/ Refuse
               \/ LayoutKept(pczt, r) /\ Advance("proved", r, m(r))
        PROVE  BuilderInv'
    <2>1. DOMAIN faults' = {"role", "hand"} /\ faults'.hand = faults.hand
      BY <1>4, NotedKeeps
    <2>2. IsPczt(r)
      BY <1>2, ReturnedPczt
    <2>3. LayoutKept(pczt, r) => layout(r) = layout(pczt)
      BY DEF LayoutKept
    <2>4. /\ DOMAIN m(r) = MetaFields /\ m(r).anchor = Anchor
          /\ \A f \in MetaFields \ {"witnessed", "anchor", "proof_len"} : m(r)[f] = meta[f]
      BY <1>2 DEF MetaBound, MetaFields
    <2> HIDE DEF m
    <2> QED BY <1>2, <1>4, <2>1, <2>2, <2>3, <2>4, RefuseStep, AdvanceStep
  <1> HIDE DEF m
  <1> QED BY <1>1, <1>3, <1>4

LEMMA SignStep ==
    ASSUME BuilderInv, sign_names_ironwood_pczt
    PROVE  BuilderInv'
  <1> DEFINE result(spends) == Signed(pczt, SigningTargets(meta, spends), spends)
  <1>1. PICK spends :
          \/ Refuse /\ faults' = faults
          \/ \E r \in Returns(result(spends)) :
               /\ Noted(result(spends), r)
               /\ \/ Refuse
                  \/ LayoutKept(pczt, r) /\ Advance("signed", r, meta)
    BY DEF sign_names_ironwood_pczt, SignedChecked
  <1>2. Begun /\ MetaBound /\ IsPczt(result(spends)) /\ meta.anchor = Anchor
    BY RolesPczt DEF sign_names_ironwood_pczt, Begun, BuilderInv, MetaBound
  <1> HIDE DEF result
  <1>3. CASE Refuse /\ faults' = faults
    BY <1>3, RefuseStep DEF BuilderInv
  <1>4. ASSUME NEW r \in Returns(result(spends)), Noted(result(spends), r),
               \/ Refuse
               \/ LayoutKept(pczt, r) /\ Advance("signed", r, meta)
        PROVE  BuilderInv'
    <2>1. DOMAIN faults' = {"role", "hand"} /\ faults'.hand = faults.hand
      BY <1>4, NotedKeeps
    <2>2. IsPczt(r)
      BY <1>2, ReturnedPczt
    <2>3. LayoutKept(pczt, r) => layout(r) = layout(pczt)
      BY DEF LayoutKept
    <2> QED BY <1>2, <1>4, <2>1, <2>2, <2>3, RefuseStep, AdvanceStep DEF MetaBound
  <1> QED BY <1>1, <1>3, <1>4

\* The last checks bind the transaction to the metadata, whatever happened on
\* the way.
LEMMA ExtractStep ==
    ASSUME BuilderInv, extract_names_transaction
    PROVE  BuilderInv'
  <1> DEFINE t(r) == TransactionOf(r)
  <1>1. \/ Refuse /\ faults' = faults
        \/ \E r \in Returns(pczt) :
             /\ Noted(pczt, r)
             /\ \/ Refuse
                \/ /\ ExtractChecked(pczt, meta) /\ Authorized(pczt)
                   /\ ExtractedChecked(pczt, t(r), meta)
                   /\ stage' = "extracted" /\ tx' = t(r)
                   /\ UNCHANGED <<plan, pczt, meta, built>>
    BY DEF extract_names_transaction
  <1>2. Begun /\ MetaBound /\ IsPczt(pczt) /\ meta.anchor = Anchor
    BY DEF extract_names_transaction, Begun, BuilderInv, MetaBound
  <1>3. CASE Refuse /\ faults' = faults
    BY <1>3, RefuseStep DEF BuilderInv
  <1>4. ASSUME NEW r \in Returns(pczt), Noted(pczt, r), Refuse
        PROVE  BuilderInv'
    BY <1>4, NotedKeeps, RefuseStep
  <1>5. ASSUME NEW r \in Returns(pczt), Noted(pczt, r),
               ExtractChecked(pczt, meta), Authorized(pczt),
               ExtractedChecked(pczt, t(r), meta),
               stage' = "extracted", tx' = t(r), UNCHANGED <<plan, pczt, meta, built>>
        PROVE  BuilderInv'
    <2> HIDE DEF t
    <2>1. DOMAIN faults' = {"role", "hand"} /\ faults'.hand = faults.hand
      BY <1>5, NotedKeeps
    <2>2. /\ tx'.layout = layout(pczt) /\ DesignatedOnce(tx'.layout, meta)
          /\ tx'.value_balance = meta.value_balance /\ tx'.anchor = Anchor
          /\ tx'.proof = pczt.proof
      BY <1>2, <1>5 DEF ExtractedChecked
    <2>3. pczt.proof.of = <<layout(pczt), Anchor>>
      BY <1>2, <1>5 DEF Authorized, ExtractChecked, AnchorKept, ProofOf
    <2>4. DOMAIN layout(pczt) = DOMAIN pczt.acts
      BY DEF layout
    <2>5. IsFiniteSet(DOMAIN layout(pczt)) /\ Cardinality(DOMAIN layout(pczt)) = action_count(plan)
      BY <1>2, <1>5, <2>4, PcztFinite DEF ExtractChecked, CountKept, Count, MetaBound
    <2> DEFINE l == layout(pczt)
               S == {i \in DOMAIN l : l[i] = <<Spend(0), Output(0)>>}
    <2>6. plan.index \in S /\ Cardinality(S) = 1
      BY <1>2, <2>2 DEF DesignatedOnce, MetaBound
    <2>7. S = {plan.index}
      <3>1. S \in SUBSET DOMAIN l
        OBVIOUS
      <3> HIDE DEF S, l
      <3>2. IsFiniteSet(S)
        BY <2>5, <3>1, FS_Subset DEF l
      <3>3. PICK x : S = {x}
        BY <2>6, <3>2, FS_Singleton
      <3> QED BY <2>6, <3>3
    <2> HIDE DEF S
    <2>8. OperationStaysBound'
      BY <1>2, <1>5, <2>2, <2>5, <2>7 DEF OperationStaysBound, MetaBound, S
    <2>9. ExtractedAsBuilt'
      BY <1>2, <1>5, <2>1, <2>2, <2>3 DEF ExtractedAsBuilt, MetaBound, BuilderInv
    <2>10. MetaBound'
      BY <1>2, <1>5 DEF MetaBound
    <2>11. (Begun /\ faults.hand = 0 => layout(pczt) = layout(built))'
      BY <1>2, <1>5, <2>1 DEF BuilderInv
    <2> QED BY <1>2, <1>5, <2>1, <2>8, <2>9, <2>10, <2>11 DEF BuilderInv, Begun
  <1> HIDE DEF t
  <1> QED BY <1>1, <1>3, <1>4, <1>5

LEMMA HandOverStep ==
    ASSUME BuilderInv, HandOver
    PROVE  BuilderInv'
  <1>1. /\ Begun /\ stage # "extracted" /\ pczt' \in Altered(pczt)
        /\ faults' = [faults EXCEPT !.hand = @ + 1]
        /\ UNCHANGED <<stage, plan, meta, built, tx>>
    BY DEF HandOver, Begun
  <1>2. faults'.hand \in Nat /\ faults'.hand # 0 /\ DOMAIN faults' = {"role", "hand"}
    BY <1>1 DEF BuilderInv
  <1>3. IsPczt(pczt') /\ MetaBound'
    BY <1>1, AlteredPczt DEF BuilderInv, MetaBound
  <1> QED BY <1>1, <1>2, <1>3 DEF BuilderInv, Begun, OperationStaysBound, ExtractedAsBuilt

-----------------------------------------------------------------------------
LEMMA BuilderInit == Init => BuilderInv
  BY DEF Init, BuilderInv, Begun, OperationStaysBound, ExtractedAsBuilt

LEMMA BuilderStep == BuilderInv /\ [Next]_vars => BuilderInv'
  <1> SUFFICES ASSUME BuilderInv, [Next]_vars PROVE BuilderInv'
    OBVIOUS
  <1>1. CASE UNCHANGED vars
    BY <1>1 DEF vars, BuilderInv, Begun, MetaBound, OperationStaysBound, ExtractedAsBuilt
  <1> QED BY <1>1, BundleStep, EmbedStep, FinalizeStep, WitnessStep, ProveStep, SignStep,
             ExtractStep, HandOverStep
          DEF Next, Ended

\* Whatever a role or a handover altered, and however often, a transaction that
\* extract_names_transaction returns holds the planned NF/CMX pair exactly once,
\* at the index the operation carries, with the planned number of actions and
\* the planned balance.
THEOREM TransactionsStayBound == Spec => []OperationStaysBound
  <1>1. BuilderInv => OperationStaysBound
    BY DEF BuilderInv
  <1> QED BY <1>1, BuilderInit, BuilderStep, PTL DEF Spec

\* If nothing was altered between two wrappers, the transaction has exactly the
\* actions build_names_bundle returned and a proof about them: every role result
\* that moved, lost or replaced an action was refused by the wrapper around it.
THEOREM TransactionsAreAsBuilt == Spec => []ExtractedAsBuilt
  <1>1. BuilderInv => ExtractedAsBuilt
    BY DEF BuilderInv
  <1> QED BY <1>1, BuilderInit, BuilderStep, PTL DEF Spec

-----------------------------------------------------------------------------
(***************************************************************************)
(* Witnesses and signatures, as long as nobody alters the PCZT between two *)
(* wrappers.  The actions that IO finalization left unwitnessed are the    *)
(* real spends; the others are padding.                                    *)
(***************************************************************************)
PathsInv ==
    /\ (stage = "finalized" /\ faults.hand = 0) => final = pczt
    /\ (stage = "witnessed" /\ faults.hand = 0) => RealActions(meta) = Unwitnessed(final)
    /\ (stage = "witnessed" /\ faults.hand = 0) => DOMAIN final.acts = DOMAIN pczt.acts
    /\ WitnessesByNullifier
    /\ NoRealSignatureYet

\* The list s, or s spoilt in one of the ways that Lists knows.
ListFrom(s, spends, good, bad) ==
    LET n == real_spend_count(plan)
    IN  \/ spends = s
        \/ spends = SubSeq(s, 1, n - 1)
        \/ spends = [s EXCEPT ![n] = s[1]]
        \/ spends = Append(s, s[1])
        \/ spends = [s EXCEPT ![1] = good[Unknown]]
        \/ \E i \in DOMAIN pczt.acts : spends = [s EXCEPT ![1] = good[DummySpend(i)]]
        \/ spends = [s EXCEPT ![n] = bad[s[n].nf]]

\* A list that a caller may hand in is a right one, or a right one spoilt.
LEMMA ListMembers ==
    ASSUME NEW good, NEW bad,
           NEW spends \in Lists(good, bad).right \cup Lists(good, bad).wrong
    PROVE  \E f \in Orders :
             ListFrom([j \in DOMAIN f |-> good[Spend(f[j])]], spends, good, bad)
  <1> DEFINE n == real_spend_count(plan)
             list(f) == [j \in DOMAIN f |-> good[Spend(f[j])]]
             right == {list(f) : f \in Orders}
             short(s) == SubSeq(s, 1, n - 1)
             double(s) == [s EXCEPT ![n] = s[1]]
             long(s) == Append(s, s[1])
             stray(s) == [s EXCEPT ![1] = good[Unknown]]
             padded(s, i) == [s EXCEPT ![1] = good[DummySpend(i)]]
             spoilt(s) == [s EXCEPT ![n] = bad[s[n].nf]]
  <1>1. /\ Lists(good, bad).right = right
        /\ Lists(good, bad).wrong =
             {short(s) : s \in right} \cup {double(s) : s \in {t \in right : n > 1}}
               \cup {long(s) : s \in right} \cup {stray(s) : s \in right}
               \cup {padded(s, i) : s \in right, i \in DOMAIN pczt.acts}
               \cup {spoilt(s) : s \in right}
    BY DEF Lists
  <1> HIDE DEF short, double, long, stray, padded, spoilt, right
  <1>2. \E s \in right : \/ spends = s \/ spends = short(s) \/ spends = double(s)
                         \/ spends = long(s) \/ spends = stray(s)
                         \/ \E i \in DOMAIN pczt.acts : spends = padded(s, i)
                         \/ spends = spoilt(s)
    BY <1>1
  <1>3. PICK f \in Orders :
          \/ spends = list(f) \/ spends = short(list(f)) \/ spends = double(list(f))
          \/ spends = long(list(f)) \/ spends = stray(list(f))
          \/ \E i \in DOMAIN pczt.acts : spends = padded(list(f), i)
          \/ spends = spoilt(list(f))
    BY <1>2 DEF right
  <1> HIDE DEF list
  <1>4. ListFrom(list(f), spends, good, bad)
    BY <1>3 DEF ListFrom, short, double, long, stray, padded, spoilt
  <1> QED BY <1>4 DEF list

\* The entry a caller gives for a nullifier holds a path of that nullifier's
\* note, be it a path to the anchor or to another root.
LEMMA ListedPaths ==
    ASSUME BuilderInv, stage = "finalized",
           NEW spends \in WitnessLists.right \cup WitnessLists.wrong
    PROVE  \A j \in DOMAIN spends : spends[j].path.of = spends[j].nf
  <1> DEFINE n == real_spend_count(plan)
             good == [nf \in Named |-> [nf |-> nf, path |-> [of |-> nf, root |-> Anchor]]]
             bad == [nf \in Named |-> [nf |-> nf, path |-> [of |-> nf, root |-> Odd]]]
             list(f) == [j \in DOMAIN f |-> good[Spend(f[j])]]
             Entry(e) == e.nf \in Named /\ e.path.of = e.nf
             AllEntries(s) == \A j \in DOMAIN s : Entry(s[j])
  <1>1. n \in Nat /\ n >= 1 /\ plan.funding \in Nat
    BY PlanCounts DEF BuilderInv, real_spend_count
  <1>2. \A x \in Named : Entry(good[x]) /\ Entry(bad[x])
    OBVIOUS
  <1>3. ASSUME NEW f \in Orders
        PROVE  list(f) \in Seq(Range(good)) /\ Len(list(f)) = n /\ AllEntries(list(f))
    <2>1. DOMAIN f = 1..n /\ \A j \in 1..n : f[j] \in 0..plan.funding
      BY DEF Orders
    <2>2. \A j \in 1..n : Spend(f[j]) \in Named
      BY <2>1 DEF Named
    <2>3. DOMAIN good = Named
      OBVIOUS
    <2> HIDE DEF good
    <2>4. \A j \in 1..n : good[Spend(f[j])] \in Range(good)
      BY <2>2, <2>3 DEF Range
    <2>5. list(f) \in Seq(Range(good)) /\ Len(list(f)) = n
      BY <1>1, <2>1, <2>4
    <2>6. AllEntries(list(f))
      BY <1>2, <2>1, <2>2
    <2> QED BY <2>5, <2>6
  <1>4. PICK f \in Orders : ListFrom(list(f), spends, good, bad)
    <2>1. WitnessLists = Lists(good, bad)
      BY DEF WitnessLists
    <2> HIDE DEF good, bad
    <2> QED BY <2>1, ListMembers
  <1> DEFINE s == list(f)
  <1>5. Unknown \in Named /\ \A i \in DOMAIN pczt.acts : DummySpend(i) \in Named
    BY DEF Named
  <1>6. s \in Seq(Range(good)) /\ Len(s) = n /\ AllEntries(s)
    BY <1>3
  <1> HIDE DEF s, good, bad
  <1>7. 1 \in 1..n /\ n \in 1..n /\ DOMAIN s = 1..n
    BY <1>1, <1>6
  <1>8. Entry(s[1]) /\ Entry(s[n])
    BY <1>6, <1>7
  <1> HIDE DEF Entry
  <1>9. ASSUME NEW k, NEW e, Entry(e), spends = [s EXCEPT ![k] = e]
        PROVE  AllEntries(spends)
    BY <1>6, <1>9
  <1>10. spends = SubSeq(s, 1, n - 1) => AllEntries(spends)
    BY <1>1, <1>6, <1>7
  <1>11. spends = Append(s, s[1]) => AllEntries(spends)
    BY <1>1, <1>6, <1>7, <1>8
  <1>12. Entry(bad[s[n].nf])
    BY <1>2, <1>8 DEF Entry
  <1>13. AllEntries(spends)
    BY <1>2, <1>4, <1>5, <1>6, <1>8, <1>9, <1>10, <1>11, <1>12 DEF s, ListFrom
  <1> QED BY <1>13 DEF Entry

\* The wrapper of the Updater holds each path to the action that reveals its
\* nullifier, and holds the padding to what it was.
LEMMA InstalledPaths ==
    ASSUME NEW p, NEW r, IsPczt(p), IsPczt(r), NEW m, NEW n, NEW spends,
           \A j \in DOMAIN spends : spends[j].path.of = spends[j].nf,
           InstallChecked(p, m, spends),
           InstalledChecked(p, r, n, WitnessTargets(p, spends), spends)
    PROVE  /\ DOMAIN r.acts = DOMAIN p.acts
           /\ Range(WitnessTargets(p, spends)) = Unwitnessed(p)
           /\ \A i \in DOMAIN p.acts :
                IF p.acts[i].witness = None
                THEN r.acts[i].witness.of = r.acts[i].nf
                ELSE r.acts[i] = p.acts[i]
  <1> DEFINE target == WitnessTargets(p, spends)
  <1>1. layout(r) = layout(p) /\ Range(target) = Unwitnessed(p)
    BY DEF InstallChecked, InstalledChecked, LayoutKept, CoversExactly
  <1>2. /\ DOMAIN r.acts = DOMAIN p.acts
        /\ \A i \in DOMAIN p.acts :
             <<r.acts[i].nf, r.acts[i].cmx>> = <<p.acts[i].nf, p.acts[i].cmx>>
    <2>1. DOMAIN layout(r) = DOMAIN r.acts /\ DOMAIN layout(p) = DOMAIN p.acts
      BY DEF layout
    <2>2. \A i \in DOMAIN r.acts : layout(r)[i] = <<r.acts[i].nf, r.acts[i].cmx>>
      BY DEF layout
    <2>3. \A i \in DOMAIN p.acts : layout(p)[i] = <<p.acts[i].nf, p.acts[i].cmx>>
      BY DEF layout
    <2> QED BY <1>1, <2>1, <2>2, <2>3
  <1>3. ASSUME NEW i \in DOMAIN p.acts, p.acts[i].witness = None
        PROVE  r.acts[i].witness.of = r.acts[i].nf
    <2>1. i \in Range(target)
      BY <1>1, <1>3 DEF Unwitnessed
    <2>2. PICK j \in DOMAIN spends : target[j] = i
      BY <2>1 DEF Range, WitnessTargets
    <2> DEFINE M == Matches(p, spends[j].nf)
    <2>3. Cardinality(M) = 1
      BY DEF InstallChecked
    <2>4. M # {}
      BY <2>3, FS_EmptySet
    <2>5. p.acts[target[j]].nf = spends[j].nf
      BY <2>4 DEF Matches, WitnessTargets
    <2>6. r.acts[target[j]].witness = spends[j].path
      BY DEF InstalledChecked
    <2> HIDE DEF target, M
    <2>7. r.acts[i].witness.of = spends[j].nf
      BY <2>2, <2>6
    <2>8. r.acts[i].nf = p.acts[i].nf
      BY <1>2
    <2> QED BY <2>2, <2>5, <2>7, <2>8
  <1>4. ASSUME NEW i \in DOMAIN p.acts, p.acts[i].witness # None
        PROVE  r.acts[i] = p.acts[i]
    <2>1. r.acts[i].witness = p.acts[i].witness /\ r.acts[i].sig = p.acts[i].sig
      BY <1>4 DEF InstalledChecked, Unwitnessed
    <2>2. IsAct(r.acts[i]) /\ IsAct(p.acts[i])
      BY <1>2 DEF IsPczt
    <2>3. r.acts[i].nf = p.acts[i].nf /\ r.acts[i].cmx = p.acts[i].cmx
      BY <1>2
    <2> QED BY <2>1, <2>2, <2>3 DEF IsAct
  <1> QED BY <1>1, <1>2, <1>3, <1>4

\* The wrapper of the Prover knows the padding by its number: what is signed
\* before proving is all of it.
LEMMA ProvedSignatures ==
    ASSUME NEW p, NEW r, IsPczt(p), IsPczt(r), NEW m,
           RealActions(m) \subseteq DOMAIN p.acts,
           m.action_count \in Nat, m.real_spend_count \in Nat,
           ProveChecked(p, m), ProvedChecked(p, r, m)
    PROVE  /\ SignedActions(r) \cap RealActions(m) = {}
           /\ \A i \in SignedActions(r) : r.acts[i].sig = p.acts[i].sig
  <1> DEFINE D == DOMAIN p.acts
             R == RealActions(m)
             S == SignedActions(p)
  <1>1. DOMAIN r.acts = D
    <2>1. layout(r) = layout(p)
      BY DEF ProvedChecked, LayoutKept
    <2>2. DOMAIN layout(r) = DOMAIN r.acts /\ DOMAIN layout(p) = DOMAIN p.acts
      BY DEF layout
    <2> QED BY <2>1, <2>2
  <1>2. IsFiniteSet(D)
    BY PcztFinite
  <1>3. /\ Cardinality(D) = m.action_count /\ Cardinality(R) = m.real_spend_count
        /\ Cardinality(S) = m.action_count - m.real_spend_count
    BY DEF ProveChecked, CountKept, Count
  <1>4. S \subseteq D \ R
    BY DEF ProveChecked, SignedActions
  <1>5. SignedActions(r) \cap R = {}
    BY DEF ProvedChecked, SignedActions
  <1> HIDE DEF D, R, S
  <1>6. R \subseteq D /\ D \cap R = R
    BY DEF D, R
  <1>7. IsFiniteSet(D \ R) /\ Cardinality(D \ R) = Cardinality(D) - Cardinality(R)
    BY <1>2, <1>6, FS_Difference
  <1>8. S = D \ R
    BY <1>3, <1>4, <1>7, FS_Subset
  <1>9. SignedActions(r) \subseteq S
    BY <1>1, <1>5, <1>8 DEF SignedActions
  <1> QED BY <1>5, <1>9 DEF ProvedChecked, DummySignaturesKept, S, R

\* A step into another stage, or one that alters the PCZT in between, has
\* nothing to keep.
LEMMA PathsElsewhere ==
    ASSUME \/ stage' \notin {"finalized", "witnessed", "proved"}
           \/ faults'.hand # 0
    PROVE  PathsInv'
  BY DEF PathsInv, WitnessesByNullifier, NoRealSignatureYet

LEMMA RefusedPaths ==
    ASSUME Refuse
    PROVE  PathsInv'
  BY PathsElsewhere DEF Refuse

LEMMA FinalizePaths ==
    ASSUME BuilderInv, finalize_names_pczt_io
    PROVE  PathsInv'
  <1>1. Refuse \/ (stage' = "finalized" /\ final' = pczt')
    BY DEF finalize_names_pczt_io
  <1> QED BY <1>1, RefusedPaths DEF PathsInv, WitnessesByNullifier, NoRealSignatureYet

LEMMA InstallPaths ==
    ASSUME BuilderInv, PathsInv, install_names_ironwood_witnesses
    PROVE  PathsInv'
  <1> DEFINE target(spends) == WitnessTargets(pczt, spends)
             result(spends) == Updated(pczt, Anchor, target(spends), spends)
             m(spends) == [meta EXCEPT !.anchor = Anchor,
                             !.witnessed = [j \in DOMAIN spends |->
                                              <<spends[j].nf, target(spends)[j]>>]]
  <1>1. PICK spends \in WitnessLists.right \cup WitnessLists.wrong :
          \/ Refuse
          \/ \E r \in Returns(result(spends)) :
               /\ Noted(result(spends), r)
               /\ \/ Refuse
                  \/ /\ InstallChecked(pczt, meta, spends)
                     /\ InstalledChecked(pczt, r, m(spends), target(spends), spends)
                     /\ Advance("witnessed", r, m(spends))
    BY DEF install_names_ironwood_witnesses
  <1>2. Begun /\ stage = "finalized" /\ MetaBound /\ IsPczt(pczt) /\ IsPczt(result(spends))
    BY RolesPczt DEF install_names_ironwood_witnesses, Begun, BuilderInv
  <1>3. RealActions(m(spends)) = Range(target(spends))
    <2>1. m(spends).witnessed = [j \in DOMAIN spends |-> <<spends[j].nf, target(spends)[j]>>]
      BY <1>2 DEF MetaBound, MetaFields
    <2>2. DOMAIN target(spends) = DOMAIN spends
      BY DEF WitnessTargets
    <2> HIDE DEF m, target
    <2> QED BY <2>1, <2>2 DEF RealActions, Range
  <1>4. \A j \in DOMAIN spends : spends[j].path.of = spends[j].nf
    BY <1>2, ListedPaths
  <1> HIDE DEF result, m
  <1>5. ASSUME NEW r \in Returns(result(spends)), Noted(result(spends), r),
               InstallChecked(pczt, meta, spends),
               InstalledChecked(pczt, r, m(spends), target(spends), spends),
               Advance("witnessed", r, m(spends))
        PROVE  PathsInv'
    <2>1. CASE faults'.hand # 0
      BY <2>1, PathsElsewhere
    <2>2. CASE faults'.hand = 0
      <3>1. faults.hand = 0 /\ final = pczt
        BY <1>2, <1>5, <2>2, NotedKeeps DEF PathsInv
      <3>2. IsPczt(r)
        BY <1>2, ReturnedPczt
      <3>3. /\ DOMAIN r.acts = DOMAIN pczt.acts
            /\ Range(target(spends)) = Unwitnessed(pczt)
            /\ \A i \in DOMAIN pczt.acts :
                 IF pczt.acts[i].witness = None
                 THEN r.acts[i].witness.of = r.acts[i].nf
                 ELSE r.acts[i] = pczt.acts[i]
        BY <1>2, <1>4, <1>5, <3>2, InstalledPaths
      <3>4. stage' = "witnessed" /\ pczt' = r /\ meta' = m(spends) /\ final' = pczt
        BY <1>5, <3>1 DEF Advance
      <3>5. WitnessesByNullifier'
        BY <3>3, <3>4 DEF WitnessesByNullifier
      <3>6. RealActions(meta)' = Unwitnessed(final)'
        BY <1>3, <3>3, <3>4
      <3>7. (DOMAIN final.acts)' = (DOMAIN pczt.acts)'
        BY <3>3, <3>4
      <3> QED BY <3>4, <3>5, <3>6, <3>7 DEF PathsInv, NoRealSignatureYet
    <2> QED BY <2>1, <2>2
  <1> QED BY <1>1, <1>5, RefusedPaths

LEMMA ProvePaths ==
    ASSUME BuilderInv, PathsInv, prove_names_ironwood_pczt
    PROVE  PathsInv'
  <1> DEFINE m(r) == [meta EXCEPT !.proof_len = r.proof.len]
  <1>1. \/ Refuse
        \/ \E r \in Returns(Proved(pczt)) :
             /\ Noted(Proved(pczt), r)
             /\ \/ Refuse
                \/ /\ ProveChecked(pczt, meta) /\ ProvedChecked(pczt, r, meta)
                   /\ Advance("proved", r, m(r))
    BY DEF prove_names_ironwood_pczt
  <1>2. /\ stage = "witnessed" /\ MetaBound /\ plan \in Plans
        /\ IsPczt(pczt) /\ IsPczt(Proved(pczt))
    BY RolesPczt DEF prove_names_ironwood_pczt, Begun, BuilderInv
  <1>3. meta.action_count \in Nat /\ meta.real_spend_count \in Nat
    BY <1>2, PlanCounts DEF MetaBound
  <1>4. \A r : m(r).witnessed = meta.witnessed
    BY <1>2 DEF MetaBound, MetaFields
  <1> HIDE DEF m
  <1>5. ASSUME NEW r \in Returns(Proved(pczt)), Noted(Proved(pczt), r),
               ProveChecked(pczt, meta), ProvedChecked(pczt, r, meta),
               Advance("proved", r, m(r))
        PROVE  PathsInv'
    <2>1. CASE faults'.hand # 0
      BY <2>1, PathsElsewhere
    <2>2. CASE faults'.hand = 0
      <3>1. /\ RealActions(meta) = Unwitnessed(final)
            /\ DOMAIN final.acts = DOMAIN pczt.acts
            /\ WitnessesByNullifier /\ faults.hand = 0
        BY <1>2, <1>5, <2>2, NotedKeeps DEF PathsInv
      <3>2. IsPczt(r) /\ RealActions(meta) \subseteq DOMAIN pczt.acts
        BY <1>2, <3>1, ReturnedPczt DEF Unwitnessed
      <3>3. /\ SignedActions(r) \cap RealActions(meta) = {}
            /\ \A i \in SignedActions(r) : r.acts[i].sig = pczt.acts[i].sig
        BY <1>2, <1>3, <1>5, <3>2, ProvedSignatures
      <3>4. stage' = "proved" /\ pczt' = r /\ meta' = m(r) /\ final' = final
        BY <1>5 DEF Advance
      <3>5. DOMAIN r.acts = DOMAIN pczt.acts
        <4>1. layout(r) = layout(pczt)
          BY <1>5 DEF ProvedChecked, LayoutKept
        <4>2. DOMAIN layout(r) = DOMAIN r.acts /\ DOMAIN layout(pczt) = DOMAIN pczt.acts
          BY DEF layout
        <4> QED BY <4>1, <4>2
      <3>6. \A i \in SignedActions(r) : r.acts[i].sig = final.acts[i].sig
        <4>1. SUFFICES ASSUME NEW i \in SignedActions(r)
                       PROVE  pczt.acts[i] = final.acts[i]
          BY <3>3
        <4>2. i \in DOMAIN pczt.acts /\ i \notin Unwitnessed(final)
          BY <3>1, <3>3, <3>5 DEF SignedActions
        <4>3. final.acts[i].witness # None
          BY <3>1, <4>2 DEF Unwitnessed
        <4> QED BY <1>2, <3>1, <4>2, <4>3 DEF WitnessesByNullifier
      <3>7. RealActions(meta') = RealActions(meta)
        BY <1>4, <3>4 DEF RealActions
      <3>8. NoRealSignatureYet'
        BY <3>3, <3>4, <3>6, <3>7 DEF NoRealSignatureYet
      <3> QED BY <3>4, <3>8 DEF PathsInv, WitnessesByNullifier
    <2> QED BY <2>1, <2>2
  <1> QED BY <1>1, <1>5, RefusedPaths

-----------------------------------------------------------------------------
LEMMA PathsStep == BuilderInv /\ PathsInv /\ [Next]_vars => PathsInv'
  <1> SUFFICES ASSUME BuilderInv, PathsInv, [Next]_vars PROVE PathsInv'
    OBVIOUS
  <1>1. CASE UNCHANGED vars
    BY <1>1 DEF vars, PathsInv, WitnessesByNullifier, NoRealSignatureYet
  <1>2. CASE build_names_bundle
    <2>1. stage' \in {"refused", "bundled"}
      BY <1>2 DEF build_names_bundle, Refuse
    <2> QED BY <2>1, PathsElsewhere
  <1>3. CASE build_names_pczt
    <2>1. stage' \in {"refused", "embedded"}
      BY <1>3 DEF build_names_pczt, Refuse, Advance
    <2> QED BY <2>1, PathsElsewhere
  <1>4. CASE sign_names_ironwood_pczt
    <2>1. stage' \in {"refused", "signed"}
      BY <1>4 DEF sign_names_ironwood_pczt, Refuse, Advance
    <2> QED BY <2>1, PathsElsewhere
  <1>5. CASE extract_names_transaction
    <2>1. stage' \in {"refused", "extracted"}
      BY <1>5 DEF extract_names_transaction, Refuse
    <2> QED BY <2>1, PathsElsewhere
  <1>6. CASE HandOver
    <2>1. faults'.hand # 0
      BY <1>6 DEF HandOver, BuilderInv
    <2> QED BY <2>1, PathsElsewhere
  <1> QED BY <1>1, <1>2, <1>3, <1>4, <1>5, <1>6, FinalizePaths, InstallPaths, ProvePaths
          DEF Next, Ended

LEMMA PathsInit == Init => PathsInv
  BY DEF Init, PathsInv, WitnessesByNullifier, NoRealSignatureYet

\* If nothing was altered between two wrappers, install_names_ironwood_witnesses
\* gave every real spend the path of its own note, in whatever order the caller
\* listed them, and left the padding as finalize_names_pczt_io returned it.
THEOREM PathsReachTheirSpends == Spec => []WitnessesByNullifier
  <1>1. PathsInv => WitnessesByNullifier
    BY DEF PathsInv
  <1> QED BY <1>1, BuilderInit, BuilderStep, PathsInit, PathsStep, PTL DEF Spec

\* If nothing was altered between two wrappers, what prove_names_ironwood_pczt
\* hands to the signer authorizes no real spend: its signatures are those that
\* finalize_names_pczt_io put on the padding.
THEOREM SignaturesWait == Spec => []NoRealSignatureYet
  <1>1. PathsInv => NoRealSignatureYet
    BY DEF PathsInv
  <1> QED BY <1>1, BuilderInit, BuilderStep, PathsInit, PathsStep, PTL DEF Spec

-----------------------------------------------------------------------------
(***************************************************************************)
(* Why an attempt ends as it does.  First: no transaction comes out of a   *)
(* wrong plan or list, however much was altered on the way.                *)
(***************************************************************************)
\* Option::None is no witness, signature or proof, and no nullifier or
\* commitment.
NoneIsPlain ==
    \A r : DOMAIN r \in {{"of", "root"}, {"key", "over"}, {"of", "len"}, 1..2} => r # None

IsPadding(a) == \/ \E k : a.nf = DummySpend(k)
                \/ a.witness # None /\ a.witness.root = None

Padding(p) == {i \in DOMAIN p.acts : IsPadding(p.acts[i])}

\* An action before installation: no path in it leads to the anchor.
EarlyAct(a) == a.nf # Unknown /\ (a.witness # None => a.witness.root \in {None, Odd})

\* Before installation there is no more padding than the bundle was built with.
EarlyPczt(p) ==
    /\ \A i \in DOMAIN p.acts : EarlyAct(p.acts[i])
    /\ Cardinality(Padding(p)) <= action_count(plan) - real_spend_count(plan)

\* A witness that the Prover refuses.
Bad(w) == w = None \/ w.root = Odd

\* A PCZT that the wrapper of the Prover, or the Prover, refuses.
Defective(p) ==
    \/ Count(p) < action_count(plan)
    \/ /\ Count(p) = action_count(plan)
       /\ \E i \in DOMAIN p.acts : Bad(p.acts[i].witness)

SoundInv ==
    /\ stage \in {"bundled", "embedded", "finalized"} => EarlyPczt(pczt)
    /\ stage = "witnessed" => sound \/ Defective(pczt)
    /\ stage \notin {"witnessed", "refused"} => sound
    /\ (stage \in {"witnessed", "proved"} /\ sound) =>
         \A j \in DOMAIN meta.witnessed :
            \E k \in Nat : meta.witnessed[j][1] = Spend(k)

\* What altering may make of an action, as far as soundness is concerned.
Worse(a, b) == /\ b.nf \in {a.nf, Spend(0), Odd}
               /\ b.witness \in {a.witness, None, [of |-> Odd, root |-> Odd]}

LEMMA WorseActs ==
    ASSUME NoneIsPlain, NEW a, NEW b, Worse(a, b)
    PROVE  /\ IsPadding(b) => IsPadding(a)
           /\ EarlyAct(a) => EarlyAct(b)
           /\ Bad(a.witness) => Bad(b.witness)
  <1> DEFINE w == [of |-> Odd, root |-> Odd]
  <1>1. Odd # None /\ w # None /\ w.root = Odd
    <2>1. DOMAIN Odd = 1..2 /\ DOMAIN w = {"of", "root"}
      BY DEF Odd
    <2> HIDE DEF w
    <2>2. w # None /\ Odd # None
      BY <2>1 DEF NoneIsPlain
    <2> QED BY <2>2 DEF w
  <1> HIDE DEF w
  <1>2. /\ b.nf \in {a.nf, Spend(0), Odd}
        /\ b.witness \in {a.witness, None, w}
    BY DEF Worse, w
  <1>3. /\ \A k : Spend(0) # DummySpend(k) /\ Odd # DummySpend(k)
        /\ Spend(0) # Unknown /\ Odd # Unknown
    BY DEF Spend, DummySpend, Odd, Unknown
  <1>4. IsPadding(b) => IsPadding(a)
    BY <1>1, <1>2, <1>3 DEF IsPadding
  <1>5. EarlyAct(a) => EarlyAct(b)
    BY <1>1, <1>2, <1>3 DEF EarlyAct
  <1>6. Bad(a.witness) => Bad(b.witness)
    BY <1>1, <1>2 DEF Bad
  <1> QED BY <1>4, <1>5, <1>6

\* Every action of an altered PCZT is one of the PCZT it was, or that one worse.
LEMMA AlteredFrom ==
    ASSUME NEW p, IsPczt(p), NEW r \in Altered(p)
    PROVE  \E g \in Injection(DOMAIN r.acts, DOMAIN p.acts) :
             \A i \in DOMAIN r.acts : Worse(p.acts[g[i]], r.acts[i])
  <1> DEFINE A == p.acts
             D == DOMAIN p.acts
             id(S) == [i \in S |-> i]
  <1>0. \A a : Worse(a, a)
    BY DEF Worse
  <1>1. ASSUME NEW S, S \subseteq D
        PROVE  id(S) \in Injection(S, D)
    BY <1>1 DEF Injection, IsInjective
  <1>2. CASE r \in AlteredFields(p)
    <2>1. r.acts = p.acts
      BY <1>2 DEF AlteredFields, IsPczt, PcztFields
    <2>2. id(D) \in Injection(DOMAIN r.acts, D)
      BY <1>1, <2>1
    <2> QED BY <1>0, <2>1, <2>2
  <1>3. ASSUME NEW a \in AlteredActs(A), r = [p EXCEPT !.acts = a]
        PROVE  \E g \in Injection(DOMAIN r.acts, D) :
                 \A i \in DOMAIN r.acts : Worse(A[g[i]], r.acts[i])
    <2>0. r.acts = a
      BY <1>3 DEF IsPczt, PcztFields
    <2>1. ASSUME NEW i \in D, NEW c \in Changes, a = [A EXCEPT ![i] = Changed(A[i], c)]
          PROVE  \E g \in Injection(DOMAIN a, D) : \A k \in DOMAIN a : Worse(A[g[k]], a[k])
      <3>1. Worse(A[i], Changed(A[i], c))
        <4>1. IsAct(A[i])
          BY DEF IsPczt
        <4> QED BY <4>1 DEF IsAct, Changed, Changes, Worse
      <3>2. \A k \in DOMAIN a : Worse(A[k], a[k])
        BY <1>0, <2>1, <3>1
      <3>3. id(D) \in Injection(DOMAIN a, D)
        BY <1>1, <2>1
      <3> QED BY <2>1, <3>2, <3>3
    <2>2. ASSUME NEW i \in D, NEW j \in D, a = [A EXCEPT ![i] = A[j], ![j] = A[i]]
          PROVE  \E g \in Injection(DOMAIN a, D) : \A k \in DOMAIN a : Worse(A[g[k]], a[k])
      <3> DEFINE g == [k \in D |-> IF k = j THEN i ELSE IF k = i THEN j ELSE k]
      <3>1. g \in Injection(DOMAIN a, D)
        BY <2>2 DEF Injection, IsInjective
      <3>2. \A k \in DOMAIN a : a[k] = A[g[k]]
        BY <2>2
      <3> HIDE DEF g
      <3> QED BY <1>0, <3>1, <3>2
    <2>3. ASSUME a = Restrict(A, 0..(Cardinality(D) - 2))
          PROVE  \E g \in Injection(DOMAIN a, D) : \A k \in DOMAIN a : Worse(A[g[k]], a[k])
      <3>1. 0..(Cardinality(D) - 2) \subseteq D
        BY PcztFinite DEF Count
      <3>2. /\ DOMAIN a = 0..(Cardinality(D) - 2)
            /\ \A k \in DOMAIN a : a[k] = A[k]
        BY <2>3 DEF Restrict
      <3>3. id(DOMAIN a) \in Injection(DOMAIN a, D)
        BY <1>1, <3>1, <3>2
      <3> QED BY <1>0, <3>2, <3>3
    <2>4. \E g \in Injection(DOMAIN a, D) : \A k \in DOMAIN a : Worse(A[g[k]], a[k])
      BY <2>1, <2>2, <2>3 DEF AlteredActs
    <2> QED BY <2>0, <2>4
  <1> QED BY <1>2, <1>3 DEF Altered

LEMMA InjectiveRange ==
    ASSUME NEW f, IsFiniteSet(DOMAIN f), IsInjective(f)
    PROVE  /\ IsFiniteSet(Range(f)) /\ Cardinality(Range(f)) = Cardinality(DOMAIN f)
  <1> DEFINE g == [x \in DOMAIN f |-> f[x]]
  <1>1. g \in Surjection(DOMAIN f, Range(f)) /\ g \in Injection(DOMAIN f, Range(f))
    BY DEF Surjection, Injection, IsInjective, Range
  <1> HIDE DEF g
  <1> QED BY <1>1, FS_Surjection

LEMMA CountFromZero ==
    ASSUME NEW n \in Nat
    PROVE  IsFiniteSet(0..(n - 1)) /\ Cardinality(0..(n - 1)) = n
  <1>1. 0 \in Int /\ n - 1 \in Int
    OBVIOUS
  <1>2. /\ IsFiniteSet(0..(n - 1))
        /\ Cardinality(0..(n - 1)) = IF 0 > n - 1 THEN 0 ELSE n - 1 - 0 + 1
    BY <1>1, FS_Interval
  <1> QED BY <1>2

\* What the builder puts at a place.
LEMMA PlacedAction ==
    ASSUME NEW s, NEW o, NEW i
    PROVE  LET a == ActionAt(s, o, i)
           IN  /\ a.sig = None
               /\ i \notin Range(s) => /\ a.nf = DummySpend(i)
                                      /\ a.witness = [of |-> DummySpend(i), root |-> None]
               /\ i \in Range(s) => /\ a.witness = None
                                    /\ \E k \in DOMAIN s : s[k] = i /\ a.nf = Spend(k)
               /\ i \notin Range(o) => a.cmx = DummyOutput(i)
               /\ i \in Range(o) => \E k \in DOMAIN o : o[k] = i /\ a.cmx = Output(k)
  <1> DEFINE spends == {k \in DOMAIN s : s[k] = i}
             outputs == {k \in DOMAIN o : o[k] = i}
             ks == CHOOSE k \in spends : TRUE
             ko == CHOOSE k \in outputs : TRUE
  <1>1. /\ i \notin Range(s) <=> spends = {}
        /\ i \notin Range(o) <=> outputs = {}
    BY DEF Range
  <1>2. /\ spends # {} => ks \in spends
        /\ outputs # {} => ko \in outputs
    OBVIOUS
  <1>3. ActionAt(s, o, i) =
          [nf |-> IF spends = {} THEN DummySpend(i) ELSE Spend(ks),
           cmx |-> IF outputs = {} THEN DummyOutput(i) ELSE Output(ko),
           witness |-> IF spends = {} THEN [of |-> DummySpend(i), root |-> None] ELSE None,
           sig |-> None]
    BY DEF ActionAt
  <1> HIDE DEF ks, ko
  <1>4. /\ ks \in spends => ks \in DOMAIN s /\ s[ks] = i
        /\ ko \in outputs => ko \in DOMAIN o /\ o[ko] = i
    OBVIOUS
  <1> HIDE DEF spends, outputs
  <1> QED BY <1>1, <1>2, <1>3, <1>4

LEMMA AlteredEarly ==
    ASSUME NoneIsPlain, plan \in Plans, NEW p, IsPczt(p), EarlyPczt(p), NEW r \in Altered(p)
    PROVE  EarlyPczt(r)
  <1>1. PICK g \in Injection(DOMAIN r.acts, DOMAIN p.acts) :
          \A i \in DOMAIN r.acts : Worse(p.acts[g[i]], r.acts[i])
    BY AlteredFrom
  <1>2. g \in [DOMAIN r.acts -> DOMAIN p.acts] /\ IsInjective(g)
    BY DEF Injection
  <1>3. \A i \in DOMAIN r.acts : EarlyAct(r.acts[i])
    BY <1>1, <1>2, WorseActs DEF EarlyPczt
  <1>4. \A i \in Padding(r) : g[i] \in Padding(p)
    BY <1>1, <1>2, WorseActs DEF Padding
  <1> DEFINE h == [i \in Padding(r) |-> g[i]]
  <1>5. h \in Injection(Padding(r), Padding(p))
    <2>1. Padding(r) \subseteq DOMAIN r.acts
      BY DEF Padding
    <2> QED BY <1>2, <1>4, <2>1 DEF Injection, IsInjective
  <1> HIDE DEF h
  <1>6. IsFiniteSet(Padding(p))
    <2>1. Padding(p) \in SUBSET DOMAIN p.acts
      BY DEF Padding
    <2> QED BY <2>1, PcztFinite, FS_Subset
  <1>7. /\ Cardinality(Padding(r)) <= Cardinality(Padding(p))
        /\ IsFiniteSet(Padding(r))
    BY <1>5, <1>6, FS_Injection
  <1>8. Cardinality(Padding(r)) \in Nat /\ Cardinality(Padding(p)) \in Nat
    BY <1>6, <1>7, FS_CardinalityType
  <1> QED BY <1>3, <1>7, <1>8, PlanCounts DEF EarlyPczt

LEMMA ReturnedEarly ==
    ASSUME NoneIsPlain, plan \in Plans, NEW p, IsPczt(p), EarlyPczt(p), NEW r \in Returns(p)
    PROVE  EarlyPczt(r)
  BY AlteredEarly DEF Returns

LEMMA AlteredDefective ==
    ASSUME NoneIsPlain, plan \in Plans, NEW p, IsPczt(p), Defective(p), NEW r \in Altered(p)
    PROVE  Defective(r)
  <1>1. PICK g \in Injection(DOMAIN r.acts, DOMAIN p.acts) :
          \A i \in DOMAIN r.acts : Worse(p.acts[g[i]], r.acts[i])
    BY AlteredFrom
  <1>2. /\ IsPczt(r) /\ Count(p) \in Nat /\ Count(r) \in Nat
        /\ IsFiniteSet(DOMAIN p.acts) /\ action_count(plan) \in Nat
    BY AlteredPczt, PcztFinite, PlanCounts
  <1>3. /\ Count(r) <= Count(p)
        /\ Count(r) = Count(p) => g \in Surjection(DOMAIN r.acts, DOMAIN p.acts)
    BY <1>2, FS_Injection DEF Count
  <1>4. CASE Count(r) < action_count(plan)
    BY <1>4 DEF Defective
  <1>5. CASE Count(r) >= action_count(plan)
    <2>1. Count(p) = action_count(plan) /\ Count(r) = Count(p)
      BY <1>2, <1>3, <1>5 DEF Defective
    <2>2. PICK k \in DOMAIN p.acts : Bad(p.acts[k].witness)
      BY <1>2, <2>1 DEF Defective
    <2>3. PICK i \in DOMAIN r.acts : g[i] = k
      BY <1>3, <2>1 DEF Surjection
    <2>4. Bad(r.acts[i].witness)
      BY <1>1, <2>2, <2>3, WorseActs
    <2> QED BY <2>1, <2>4 DEF Defective
  <1> QED BY <1>2, <1>4, <1>5

\* The builder pads every action that has no real spend, and no other.
LEMMA ArrangedEarly ==
    ASSUME NoneIsPlain, plan \in Plans, NEW b \in Arrangements(plan)
    PROVE  EarlyPczt(b)
  <1> DEFINE a == action_count(plan)
             n == real_spend_count(plan)
  <1>0. PICK s \in Placements(plan, n) :
          \E o \in Placements(plan, requested_output_count(plan)) : b = Bundle(plan, s, o)
    BY DEF Arrangements
  <1>1. PICK o \in Placements(plan, requested_output_count(plan)) : b = Bundle(plan, s, o)
    BY <1>0
  <1>2. s \in [0..(n - 1) -> 0..(a - 1)] /\ IsInjective(s)
    BY DEF Placements
  <1>3. DOMAIN b.acts = 0..(a - 1) /\ \A i \in 0..(a - 1) : b.acts[i] = ActionAt(s, o, i)
    BY <1>1 DEF Bundle
  <1>4. a \in Nat /\ n \in Nat /\ n <= a
    BY PlanCounts
  <1>5. ASSUME NEW i \in 0..(a - 1)
        PROVE  /\ EarlyAct(b.acts[i])
               /\ IsPadding(b.acts[i]) => i \notin Range(s)
    <2>1. /\ i \notin Range(s) =>
               /\ b.acts[i].nf = DummySpend(i)
               /\ b.acts[i].witness = [of |-> DummySpend(i), root |-> None]
          /\ i \in Range(s) => b.acts[i].witness = None /\ \E k : b.acts[i].nf = Spend(k)
      BY <1>3, PlacedAction
    <2>2. \A k, j : Spend(k) # DummySpend(j) /\ Spend(k) # Unknown /\ DummySpend(j) # Unknown
      BY DEF Spend, DummySpend, Unknown
    <2> QED BY <2>1, <2>2 DEF EarlyAct, IsPadding
  <1>6. Padding(b) \in SUBSET (0..(a - 1) \ Range(s))
    BY <1>3, <1>5 DEF Padding
  <1> DEFINE D == 0..(a - 1)
  <1>7. IsFiniteSet(D) /\ Cardinality(D) = a
    BY <1>4, CountFromZero
  <1>8. D \cap Range(s) = Range(s) /\ Cardinality(Range(s)) = n
    <2>1. DOMAIN s = 0..(n - 1) /\ Range(s) \subseteq D
      BY <1>2 DEF Range
    <2>2. IsFiniteSet(DOMAIN s) /\ Cardinality(DOMAIN s) = n
      BY <1>4, <2>1, CountFromZero
    <2> QED BY <1>2, <2>1, <2>2, InjectiveRange
  <1> HIDE DEF a, n, D
  <1> DEFINE R == Range(s)
  <1> HIDE DEF R
  <1>9. IsFiniteSet(D \ Range(s)) /\ Cardinality(D \ Range(s)) = a - n
    <2>1. /\ IsFiniteSet(D \ R)
          /\ Cardinality(D \ R) = Cardinality(D) - Cardinality(D \cap R)
      BY <1>7, FS_Difference
    <2>2. D \cap R = R /\ Cardinality(R) = n
      BY <1>8 DEF R
    <2>3. IsFiniteSet(D \ R) /\ Cardinality(D \ R) = a - n
      BY <1>7, <2>1, <2>2
    <2> QED BY <2>3 DEF R
  <1>10. Padding(b) \in SUBSET (D \ Range(s))
    BY <1>6 DEF D
  <1>11. Cardinality(Padding(b)) <= a - n
    BY <1>9, <1>10, FS_Subset
  <1> QED BY <1>3, <1>5, <1>11 DEF EarlyPczt, a, n

LEMMA FinalizedEarly ==
    ASSUME NEW p, IsPczt(p), EarlyPczt(p)
    PROVE  EarlyPczt(IoFinalized(p))
  <1> DEFINE r == IoFinalized(p)
  <1>1. /\ DOMAIN r.acts = DOMAIN p.acts
        /\ \A i \in DOMAIN p.acts : /\ r.acts[i].nf = p.acts[i].nf
                                    /\ r.acts[i].witness = p.acts[i].witness
    <2>1. /\ DOMAIN p = PcztFields
          /\ \A i \in DOMAIN p.acts : IsAct(p.acts[i])
      BY DEF IsPczt
    <2> QED BY <2>1 DEF IoFinalized, PcztFields, IsAct
  <1> HIDE DEF r
  <1>2. \A i \in DOMAIN p.acts : /\ EarlyAct(r.acts[i]) <=> EarlyAct(p.acts[i])
                                 /\ IsPadding(r.acts[i]) <=> IsPadding(p.acts[i])
    BY <1>1 DEF EarlyAct, IsPadding
  <1>3. Padding(r) = Padding(p)
    BY <1>1, <1>2 DEF Padding
  <1>4. EarlyPczt(r)
    BY <1>1, <1>2, <1>3 DEF EarlyPczt
  <1> QED BY <1>4 DEF r

\* A list the caller should not have handed in, if it is as long as the right
\* ones, names a nullifier twice, names one of no real spend, or is wrong in
\* its last entry.
LEMMA SpoiltLists ==
    ASSUME plan \in Plans, NEW good, NEW bad,
           DOMAIN good = Named, \A x \in Named : good[x].nf = x /\ bad[x].nf = x,
           NEW spends \in Lists(good, bad).right \cup Lists(good, bad).wrong,
           spends \notin Lists(good, bad).right,
           Len(spends) = real_spend_count(plan)
    PROVE  /\ DOMAIN spends = 1..real_spend_count(plan)
           /\ real_spend_count(plan) \in DOMAIN spends /\ 1 \in DOMAIN spends
           /\ \/ \E j, k \in DOMAIN spends : j # k /\ spends[j].nf = spends[k].nf
              \/ spends[1].nf = Unknown
              \/ \E i : spends[1].nf = DummySpend(i)
              \/ \E k \in Nat : /\ Spend(k) \in Named
                                /\ spends[real_spend_count(plan)] = bad[Spend(k)]
  <1> DEFINE n == real_spend_count(plan)
             list(f) == [j \in DOMAIN f |-> good[Spend(f[j])]]
  <1>1. n \in Nat /\ n >= 1 /\ plan.funding \in Nat
    BY PlanCounts DEF real_spend_count
  <1>2. PICK f \in Orders : ListFrom(list(f), spends, good, bad)
    BY ListMembers
  <1> DEFINE s == list(f)
  <1>3. s \in Lists(good, bad).right
    BY DEF Lists
  <1>4. DOMAIN f = 1..n /\ \A j \in 1..n : f[j] \in Nat /\ Spend(f[j]) \in Named
    <2>1. DOMAIN f = 1..n /\ \A j \in 1..n : f[j] \in 0..plan.funding
      BY DEF Orders
    <2> QED BY <1>1, <2>1 DEF Named
  <1>5. \A j \in 1..n : s[j] = good[Spend(f[j])] /\ good[Spend(f[j])] \in Range(good)
    BY <1>4 DEF Range
  <1>6. s \in Seq(Range(good)) /\ Len(s) = n /\ DOMAIN s = 1..n
    BY <1>1, <1>4, <1>5
  <1> HIDE DEF s, list
  <1>7. 1 \in 1..n /\ n \in 1..n
    BY <1>1
  <1>8. s[1].nf = Spend(f[1]) /\ s[n].nf = Spend(f[n])
    BY <1>4, <1>5, <1>7
  <1>9. spends # s
    BY <1>3
  <1>10. spends # SubSeq(s, 1, n - 1)
    <2>1. Len(SubSeq(s, 1, n - 1)) = n - 1
      BY <1>1, <1>6
    <2> HIDE DEF n
    <2> QED BY <1>1, <2>1 DEF n
  <1>11. spends # Append(s, s[1])
    <2>1. Len(Append(s, s[1])) = n + 1
      BY <1>5, <1>6, <1>7
    <2> HIDE DEF n
    <2> QED BY <1>1, <2>1 DEF n
  <1>12. Unknown \in Named /\ \A i \in DOMAIN pczt.acts : DummySpend(i) \in Named
    BY DEF Named
  <1>13. CASE spends = [s EXCEPT ![n] = s[1]]
    <2>1. DOMAIN spends = 1..n /\ spends[n] = s[1] /\ \A j \in 1..n : j # n => spends[j] = s[j]
      BY <1>6, <1>7, <1>13
    <2>2. n # 1
      <3>1. ASSUME n = 1 PROVE FALSE
        <4>1. spends = s
          BY <1>6, <1>13, <3>1
        <4> QED BY <1>9, <4>1
      <3> QED BY <3>1
    <2>3. spends[1].nf = spends[n].nf
      BY <1>7, <2>1, <2>2
    <2> QED BY <1>7, <2>1, <2>2, <2>3
  <1>14. CASE spends = [s EXCEPT ![1] = good[Unknown]]
    <2>1. DOMAIN spends = 1..n /\ spends[1] = good[Unknown]
      BY <1>6, <1>7, <1>14
    <2> QED BY <1>7, <1>12, <2>1
  <1>15. ASSUME NEW i \in DOMAIN pczt.acts, spends = [s EXCEPT ![1] = good[DummySpend(i)]]
         PROVE  DOMAIN spends = 1..n /\ spends[1].nf = DummySpend(i)
    <2>1. DOMAIN spends = 1..n /\ spends[1] = good[DummySpend(i)]
      BY <1>6, <1>7, <1>15
    <2> QED BY <1>12, <2>1
  <1>16. CASE spends = [s EXCEPT ![n] = bad[s[n].nf]]
    <2>1. DOMAIN spends = 1..n /\ spends[n] = bad[Spend(f[n])]
      BY <1>6, <1>7, <1>8, <1>16
    <2> QED BY <1>4, <1>7, <2>1
  <1>17. \/ spends = [s EXCEPT ![n] = s[1]]
         \/ spends = [s EXCEPT ![1] = good[Unknown]]
         \/ \E i \in DOMAIN pczt.acts : spends = [s EXCEPT ![1] = good[DummySpend(i)]]
         \/ spends = [s EXCEPT ![n] = bad[s[n].nf]]
    BY <1>2, <1>9, <1>10, <1>11 DEF ListFrom, s
  <1> QED BY <1>7, <1>13, <1>14, <1>15, <1>16, <1>17

\* The wrapper of the Updater resolves each entry to an unwitnessed action, so
\* padding is given a path only in place of a real spend, and the Prover sees
\* the hole.
LEMMA WrongInstall ==
    ASSUME NoneIsPlain, plan \in Plans, MetaBound, IsPczt(pczt), EarlyPczt(pczt),
           NEW spends \in WitnessLists.right \cup WitnessLists.wrong,
           spends \notin WitnessLists.right, NEW r, NEW m,
           InstallChecked(pczt, meta, spends),
           InstalledChecked(pczt, r, m, WitnessTargets(pczt, spends), spends)
    PROVE  Defective(r)
  <1> DEFINE n == real_spend_count(plan)
             a == action_count(plan)
             good == [nf \in Named |-> [nf |-> nf, path |-> [of |-> nf, root |-> Anchor]]]
             bad == [nf \in Named |-> [nf |-> nf, path |-> [of |-> nf, root |-> Odd]]]
             target == WitnessTargets(pczt, spends)
             D == DOMAIN pczt.acts
             U == Unwitnessed(pczt)
  <1>1. /\ Count(pczt) = a /\ Len(spends) = n /\ Cardinality(U) = n
        /\ \A j \in DOMAIN spends : /\ Cardinality(Matches(pczt, spends[j].nf)) = 1
                                    /\ Matches(pczt, spends[j].nf) \subseteq U
        /\ IsInjective(target) /\ Range(target) = U
    BY DEF InstallChecked, CountKept, MetaBound, CoversExactly
  <1>2. /\ DOMAIN r.acts = D
        /\ \A j \in DOMAIN spends : r.acts[target[j]].witness = spends[j].path
        /\ \A i \in D \ U : r.acts[i].witness = pczt.acts[i].witness
    <2>1. layout(r) = layout(pczt)
      BY DEF InstalledChecked, LayoutKept
    <2>2. DOMAIN layout(r) = DOMAIN r.acts /\ DOMAIN layout(pczt) = D
      BY DEF layout
    <2> QED BY <2>1, <2>2 DEF InstalledChecked
  <1>3. Count(r) = a
    BY <1>1, <1>2 DEF Count
  <1>4. DOMAIN target = DOMAIN spends /\ \A j \in DOMAIN spends : target[j] \in D
    <2>1. DOMAIN target = DOMAIN spends
      BY DEF WitnessTargets
    <2> HIDE DEF target
    <2> QED BY <1>1, <2>1 DEF Range, Unwitnessed
  <1>5. /\ DOMAIN spends = 1..n /\ n \in DOMAIN spends /\ 1 \in DOMAIN spends
        /\ \/ \E j, k \in DOMAIN spends : j # k /\ spends[j].nf = spends[k].nf
           \/ spends[1].nf = Unknown
           \/ \E i : spends[1].nf = DummySpend(i)
           \/ \E k \in Nat : Spend(k) \in Named /\ spends[n] = bad[Spend(k)]
    <2>1. WitnessLists = Lists(good, bad)
      BY DEF WitnessLists
    <2>2. DOMAIN good = Named /\ \A x \in Named : good[x].nf = x /\ bad[x].nf = x
      OBVIOUS
    <2> HIDE DEF good, bad
    <2> QED BY <1>1, <2>1, <2>2, SpoiltLists
  <1>6. ASSUME NEW j \in DOMAIN spends, NEW k \in DOMAIN spends, j # k,
               spends[j].nf = spends[k].nf
        PROVE  FALSE
    <2>1. target[j] = target[k]
      BY <1>6 DEF WitnessTargets
    <2> HIDE DEF target
    <2> QED BY <1>1, <1>4, <1>6, <2>1 DEF IsInjective
  <1>7. ASSUME NEW j \in DOMAIN spends
        PROVE  \E i \in U : pczt.acts[i].nf = spends[j].nf
    <2> DEFINE M == Matches(pczt, spends[j].nf)
    <2>1. Cardinality(M) = 1 /\ M \subseteq U
      BY <1>1
    <2> HIDE DEF M
    <2>2. M # {}
      BY <2>1, FS_EmptySet
    <2> QED BY <2>1, <2>2 DEF Matches, M
  <1>8. ASSUME spends[1].nf = Unknown
        PROVE  FALSE
    BY <1>5, <1>7, <1>8 DEF EarlyPczt, EarlyAct, Unwitnessed
  <1>9. ASSUME NEW k, spends[1].nf = DummySpend(k)
        PROVE  \E i \in D : Bad(r.acts[i].witness)
    <2>1. PICK x \in U : pczt.acts[x].nf = DummySpend(k)
      BY <1>5, <1>7, <1>9
    <2>2. x \in Padding(pczt) /\ x \in D
      BY <2>1 DEF Padding, IsPadding, Unwitnessed
    <2>3. PICK i \in D \ U : i \notin Padding(pczt)
      <3> SUFFICES ASSUME \A i \in D \ U : i \in Padding(pczt) PROVE FALSE
        OBVIOUS
      <3> DEFINE P == Padding(pczt)
                 W == D \ U
      <3>1. W \cup {x} \in SUBSET P /\ x \notin W
        BY <2>1, <2>2
      <3>2. U \in SUBSET D /\ P \in SUBSET D /\ D \cap U = U
        BY DEF Unwitnessed, Padding
      <3>3. IsFiniteSet(D) /\ Cardinality(D) = a /\ Cardinality(P) <= a - n
        BY <1>1, PcztFinite DEF Count, EarlyPczt
      <3> HIDE DEF P, W, D, U, a, n
      <3>4. IsFiniteSet(P) /\ IsFiniteSet(W)
        BY <3>2, <3>3, FS_Subset, FS_Difference DEF W
      <3>5. Cardinality(W) = a - n
        <4>1. Cardinality(W) = Cardinality(D) - Cardinality(D \cap U)
          BY <3>3, FS_Difference DEF W
        <4> QED BY <1>1, <3>2, <3>3, <4>1
      <3>6. Cardinality(W \cup {x}) = Cardinality(W) + 1
        BY <3>1, <3>4, FS_AddElement
      <3>7. Cardinality(W \cup {x}) <= Cardinality(P)
        BY <3>1, <3>4, FS_Subset
      <3>8. a \in Nat /\ n \in Nat /\ Cardinality(P) \in Nat
        BY <3>4, PlanCounts, FS_CardinalityType DEF a, n
      <3> QED BY <3>3, <3>5, <3>6, <3>7, <3>8
    <2>4. pczt.acts[i].witness # None /\ pczt.acts[i].witness.root # None
      BY <2>3 DEF Padding, IsPadding, Unwitnessed
    <2>5. pczt.acts[i].witness.root = Odd
      BY <2>3, <2>4 DEF EarlyPczt, EarlyAct
    <2>6. Bad(r.acts[i].witness)
      BY <1>2, <2>3, <2>5 DEF Bad
    <2> QED BY <2>3, <2>6
  <1>10. ASSUME NEW k \in Nat, Spend(k) \in Named, spends[n] = bad[Spend(k)]
         PROVE  \E i \in D : Bad(r.acts[i].witness)
    <2>1. spends[n].path.root = Odd
      BY <1>10
    <2>2. Bad(r.acts[target[n]].witness)
      BY <1>2, <1>5, <2>1 DEF Bad
    <2> QED BY <1>4, <1>5, <2>2
  <1> HIDE DEF good, bad, target, D, U
  <1>11. \E i \in D : Bad(r.acts[i].witness)
    BY <1>5, <1>6, <1>8, <1>9, <1>10
  <1> QED BY <1>2, <1>3, <1>11 DEF Defective, D

-----------------------------------------------------------------------------
LEMMA RefusedSound ==
    ASSUME Refuse
    PROVE  SoundInv'
  BY DEF Refuse, SoundInv

LEMMA BundleSound ==
    ASSUME NoneIsPlain, BuilderInv, SoundInv, build_names_bundle
    PROVE  SoundInv'
  <1>1. CASE ~PlanAccepted(plan)
    BY <1>1, RefusedSound DEF build_names_bundle
  <1>2. CASE PlanAccepted(plan)
    <2>0. PICK b \in Arrangements(plan) : \E r \in Returns(b) :
            \/ Refuse
            \/ stage' = "bundled" /\ pczt' = r /\ plan' = plan /\ sound' = sound
      BY <1>2 DEF build_names_bundle
    <2>1. PICK r \in Returns(b) :
            \/ Refuse
            \/ stage' = "bundled" /\ pczt' = r /\ plan' = plan /\ sound' = sound
      BY <2>0
    <2>2. plan \in Plans /\ stage = "planned"
      BY DEF BuilderInv, build_names_bundle
    <2>3. EarlyPczt(r)
      BY <2>2, ArrangedPczt, ArrangedEarly, ReturnedEarly
    <2>4. ASSUME stage' = "bundled", pczt' = r, plan' = plan, sound' = sound
          PROVE  SoundInv'
      <3>1. EarlyPczt(pczt)'
        BY <2>3, <2>4 DEF EarlyPczt
      <3> QED BY <2>2, <2>4, <3>1 DEF SoundInv
    <2> QED BY <2>1, <2>4, RefusedSound
  <1> QED BY <1>1, <1>2

LEMMA EmbedSound ==
    ASSUME NoneIsPlain, BuilderInv, SoundInv, build_names_pczt
    PROVE  SoundInv'
  <1>1. PICK r \in Returns(pczt) :
          /\ sound' = (sound /\ PcztPlanAccepted(plan))
          /\ \/ Refuse
             \/ PcztPlanAccepted(plan) /\ Advance("embedded", r, meta)
    BY DEF build_names_pczt
  <1>2. stage = "bundled" /\ plan \in Plans /\ IsPczt(pczt) /\ EarlyPczt(pczt) /\ sound
    BY DEF build_names_pczt, BuilderInv, Begun, SoundInv
  <1>3. EarlyPczt(r)
    BY <1>2, ReturnedEarly
  <1>4. ASSUME PcztPlanAccepted(plan), Advance("embedded", r, meta)
        PROVE  SoundInv'
    <2>1. stage' = "embedded" /\ pczt' = r /\ plan' = plan /\ sound'
      BY <1>1, <1>2, <1>4 DEF Advance
    <2>2. EarlyPczt(pczt)'
      BY <1>3, <2>1 DEF EarlyPczt
    <2> QED BY <2>1, <2>2 DEF SoundInv
  <1> QED BY <1>1, <1>4, RefusedSound

LEMMA FinalizeSound ==
    ASSUME NoneIsPlain, BuilderInv, SoundInv, finalize_names_pczt_io
    PROVE  SoundInv'
  <1>1. CASE ~FinalizeChecked(pczt, meta)
    BY <1>1, RefusedSound DEF finalize_names_pczt_io
  <1>2. CASE FinalizeChecked(pczt, meta)
    <2>1. PICK r \in Returns(IoFinalized(pczt)) :
            \/ Refuse
            \/ stage' = "finalized" /\ pczt' = r /\ plan' = plan /\ sound' = sound
      BY <1>2 DEF finalize_names_pczt_io
    <2>2. stage = "embedded" /\ plan \in Plans /\ IsPczt(pczt) /\ EarlyPczt(pczt) /\ sound
      BY DEF finalize_names_pczt_io, BuilderInv, Begun, SoundInv
    <2>3. EarlyPczt(r)
      BY <2>2, RolesPczt, FinalizedEarly, ReturnedEarly
    <2>4. ASSUME stage' = "finalized", pczt' = r, plan' = plan, sound' = sound
          PROVE  SoundInv'
      <3>1. EarlyPczt(pczt)'
        BY <2>3, <2>4 DEF EarlyPczt
      <3> QED BY <2>2, <2>4, <3>1 DEF SoundInv
    <2> QED BY <2>1, <2>4, RefusedSound
  <1> QED BY <1>1, <1>2

\* The list that names the real spends in the order f.
RightList(spends, good, f) ==
    /\ spends = [j \in 1..real_spend_count(plan) |-> good[Spend(f[j])]]
    /\ DOMAIN f = 1..real_spend_count(plan)
    /\ \A j \in DOMAIN f : /\ f[j] \in Nat /\ f[j] \in 0..plan.funding
                           /\ Spend(f[j]) \in Named
                           /\ good[Spend(f[j])].nf = Spend(f[j])

LEMMA RightLists ==
    ASSUME plan \in Plans, NEW good, NEW bad,
           \A x \in Named : good[x].nf = x,
           NEW spends \in Lists(good, bad).right
    PROVE  \E f \in Orders : RightList(spends, good, f)
  <1>1. PICK f \in Orders : spends = [j \in DOMAIN f |-> good[Spend(f[j])]]
    BY DEF Lists
  <1>2. /\ DOMAIN f = 1..real_spend_count(plan)
        /\ \A j \in DOMAIN f : f[j] \in 0..plan.funding
    BY DEF Orders
  <1>3. plan.funding \in Nat
    BY PlanCounts
  <1>4. \A j \in DOMAIN f : f[j] \in Nat /\ Spend(f[j]) \in Named
    BY <1>2, <1>3 DEF Named
  <1> QED BY <1>1, <1>2, <1>4 DEF RightList

LEMMA InstallSound ==
    ASSUME NoneIsPlain, BuilderInv, SoundInv, install_names_ironwood_witnesses
    PROVE  SoundInv'
  <1> DEFINE target(spends) == WitnessTargets(pczt, spends)
             result(spends) == Updated(pczt, Anchor, target(spends), spends)
             m(spends) == [meta EXCEPT !.anchor = Anchor,
                             !.witnessed = [j \in DOMAIN spends |->
                                              <<spends[j].nf, target(spends)[j]>>]]
  <1>1. PICK spends \in WitnessLists.right \cup WitnessLists.wrong :
          /\ sound' = (sound /\ spends \in WitnessLists.right)
          /\ \/ Refuse
             \/ \E r \in Returns(result(spends)) :
                  \/ Refuse
                  \/ /\ InstallChecked(pczt, meta, spends)
                     /\ InstalledChecked(pczt, r, m(spends), target(spends), spends)
                     /\ Advance("witnessed", r, m(spends))
    BY DEF install_names_ironwood_witnesses
  <1>2. /\ stage = "finalized" /\ plan \in Plans /\ IsPczt(pczt) /\ MetaBound
        /\ EarlyPczt(pczt) /\ sound
    BY DEF install_names_ironwood_witnesses, BuilderInv, Begun, SoundInv
  <1>3. m(spends).witnessed = [j \in DOMAIN spends |-> <<spends[j].nf, target(spends)[j]>>]
    BY <1>2 DEF MetaBound, MetaFields
  <1> HIDE DEF m, result
  <1>4. ASSUME NEW r, InstallChecked(pczt, meta, spends),
               InstalledChecked(pczt, r, m(spends), target(spends), spends),
               Advance("witnessed", r, m(spends))
        PROVE  SoundInv'
    <2>1. stage' = "witnessed" /\ pczt' = r /\ meta' = m(spends) /\ plan' = plan
      BY <1>4 DEF Advance
    <2>2. CASE spends \in WitnessLists.right
      <3> DEFINE good == [nf \in Named |-> [nf |-> nf, path |-> [of |-> nf, root |-> Anchor]]]
                 bad == [nf \in Named |-> [nf |-> nf, path |-> [of |-> nf, root |-> Odd]]]
      <3>1. WitnessLists = Lists(good, bad) /\ \A x \in Named : good[x].nf = x
        BY DEF WitnessLists
      <3> HIDE DEF good, bad
      <3>2. \A j \in DOMAIN spends : \E k \in Nat : spends[j].nf = Spend(k)
        <4>1. PICK f \in Orders : RightList(spends, good, f)
          BY <1>2, <2>2, <3>1, RightLists
        <4> QED BY <4>1 DEF RightList
      <3>3. \A j \in DOMAIN m(spends).witnessed :
              \E k \in Nat : m(spends).witnessed[j][1] = Spend(k)
        BY <1>3, <3>2
      <3>4. sound'
        BY <1>1, <1>2, <2>2
      <3> QED BY <2>1, <3>3, <3>4 DEF SoundInv
    <2>3. CASE spends \notin WitnessLists.right
      <3>1. Defective(r)
        BY <1>2, <1>4, <2>3, WrongInstall
      <3>2. Defective(pczt)' /\ ~sound'
        BY <1>1, <2>1, <2>3, <3>1 DEF Defective
      <3> QED BY <2>1, <3>2 DEF SoundInv
    <2> QED BY <2>2, <2>3
  <1> QED BY <1>1, <1>4, RefusedSound

\* Neither the wrapper of the Prover nor the Prover lets a defect through.
LEMMA DefectRefused ==
    ASSUME NoneIsPlain, plan \in Plans, MetaBound, IsPczt(pczt), meta.anchor = Anchor,
           ProveChecked(pczt, meta), Provable(pczt)
    PROVE  ~Defective(pczt)
  <1>1. Count(pczt) = action_count(plan) /\ pczt.anchor = Anchor
    BY DEF ProveChecked, CountKept, AnchorKept, MetaBound
  <1>2. action_count(plan) \in Nat
    BY PlanCounts
  <1>3. Odd # None /\ Odd # Anchor
    <2>1. DOMAIN Odd = 1..2
      BY DEF Odd
    <2>2. Odd # None
      BY <2>1 DEF NoneIsPlain
    <2> QED BY <2>2 DEF Odd, Anchor
  <1>4. ASSUME NEW i \in DOMAIN pczt.acts
        PROVE  ~Bad(pczt.acts[i].witness)
    <2> DEFINE w == pczt.acts[i].witness
               v == [of |-> pczt.acts[i].nf, root |-> Anchor]
    <2>1. w # None /\ (w.root = None \/ w = v)
      BY <1>1 DEF Provable
    <2>2. v.root = Anchor
      OBVIOUS
    <2> HIDE DEF w, v
    <2>3. ~Bad(w)
      BY <1>3, <2>1, <2>2 DEF Bad
    <2> QED BY <2>3 DEF w
  <1> QED BY <1>1, <1>2, <1>4 DEF Defective

LEMMA ProveSound ==
    ASSUME NoneIsPlain, BuilderInv, SoundInv, prove_names_ironwood_pczt
    PROVE  SoundInv'
  <1> DEFINE m(r) == [meta EXCEPT !.proof_len = r.proof.len]
  <1>1. /\ sound' = sound
        /\ \/ Refuse
           \/ /\ ProveChecked(pczt, meta) /\ Provable(pczt)
              /\ \E r : Refuse \/ Advance("proved", r, m(r))
    BY DEF prove_names_ironwood_pczt
  <1>2. stage = "witnessed" /\ plan \in Plans /\ IsPczt(pczt) /\ MetaBound /\ meta.anchor = Anchor
    BY DEF prove_names_ironwood_pczt, BuilderInv, Begun, MetaBound
  <1>3. \A r : m(r).witnessed = meta.witnessed
    BY <1>2 DEF MetaBound, MetaFields
  <1> HIDE DEF m
  <1>4. ASSUME ProveChecked(pczt, meta), Provable(pczt), NEW r, Advance("proved", r, m(r))
        PROVE  SoundInv'
    <2>1. sound
      BY <1>2, <1>4, DefectRefused DEF SoundInv
    <2>2. stage' = "proved" /\ meta' = m(r) /\ sound'
      BY <1>1, <1>4, <2>1 DEF Advance
    <2> QED BY <1>2, <1>3, <2>1, <2>2 DEF SoundInv
  <1> QED BY <1>1, <1>4, RefusedSound

LEMMA WrongKeys ==
    ASSUME plan \in Plans, MetaBound,
           \A j \in DOMAIN meta.witnessed : \E k \in Nat : meta.witnessed[j][1] = Spend(k),
           NEW spends \in SigningLists.right \cup SigningLists.wrong,
           KeysChecked(meta, spends),
           \A j \in DOMAIN spends : spends[j].ask = spends[j].nf
    PROVE  spends \in SigningLists.right
  <1> SUFFICES ASSUME spends \notin SigningLists.right PROVE FALSE
    OBVIOUS
  <1> DEFINE n == real_spend_count(plan)
             good == [nf \in Named |-> [nf |-> nf, ask |-> nf]]
             bad == [nf \in Named |-> [nf |-> nf, ask |-> Odd]]
             target == SigningTargets(meta, spends)
  <1>1. /\ Len(spends) = n /\ IsInjective(target)
        /\ \A j \in DOMAIN spends : \E w \in Range(meta.witnessed) : w[1] = spends[j].nf
    BY DEF KeysChecked, CoversExactly, MetaBound
  <1>2. DOMAIN target = DOMAIN spends
    BY DEF SigningTargets
  <1>3. /\ DOMAIN spends = 1..n /\ n \in DOMAIN spends /\ 1 \in DOMAIN spends
        /\ \/ \E j, k \in DOMAIN spends : j # k /\ spends[j].nf = spends[k].nf
           \/ spends[1].nf = Unknown
           \/ \E i : spends[1].nf = DummySpend(i)
           \/ \E k \in Nat : Spend(k) \in Named /\ spends[n] = bad[Spend(k)]
    <2>1. SigningLists = Lists(good, bad)
      BY DEF SigningLists
    <2>2. DOMAIN good = Named /\ \A x \in Named : good[x].nf = x /\ bad[x].nf = x
      OBVIOUS
    <2> HIDE DEF good, bad
    <2> QED BY <1>1, <2>1, <2>2, SpoiltLists
  <1>4. \A j \in DOMAIN spends : \E k \in Nat : spends[j].nf = Spend(k)
    BY <1>1 DEF Range
  <1>5. \A k, i : Spend(k) # Unknown /\ Spend(k) # DummySpend(i) /\ Spend(k) # Odd
    BY DEF Spend, Unknown, DummySpend, Odd
  <1>6. ASSUME NEW j \in DOMAIN spends, NEW k \in DOMAIN spends, j # k,
               spends[j].nf = spends[k].nf
        PROVE  FALSE
    <2> DEFINE at(x) == (CHOOSE w \in Range(meta.witnessed) : w[1] = x)[2]
    <2>0. \A i \in DOMAIN spends : target[i] = at(spends[i].nf)
      BY DEF SigningTargets
    <2> HIDE DEF target, at
    <2>1. target[j] = target[k]
      BY <1>6, <2>0
    <2> QED BY <1>1, <1>2, <1>6, <2>1 DEF IsInjective
  <1>7. ASSUME NEW k \in Nat, Spend(k) \in Named, spends[n] = bad[Spend(k)]
        PROVE  FALSE
    <2>1. spends[n].ask = Odd /\ spends[n].nf = Spend(k)
      BY <1>7
    <2> QED BY <1>3, <1>5, <2>1
  <1> HIDE DEF good, bad, target
  <1> QED BY <1>3, <1>4, <1>5, <1>6, <1>7

LEMMA SignSound ==
    ASSUME BuilderInv, SoundInv, sign_names_ironwood_pczt
    PROVE  SoundInv'
  <1>1. PICK spends \in SigningLists.right \cup SigningLists.wrong :
          /\ sound' = (sound /\ spends \in SigningLists.right)
          /\ \/ Refuse
             \/ /\ KeysChecked(meta, spends)
                /\ \A j \in DOMAIN spends : spends[j].ask = spends[j].nf
                /\ \E r : Refuse \/ Advance("signed", r, meta)
    BY DEF sign_names_ironwood_pczt
  <1>2. /\ stage = "proved" /\ plan \in Plans /\ MetaBound /\ sound
        /\ \A j \in DOMAIN meta.witnessed : \E k \in Nat : meta.witnessed[j][1] = Spend(k)
    BY DEF sign_names_ironwood_pczt, BuilderInv, Begun, SoundInv
  <1>3. ASSUME KeysChecked(meta, spends), \A j \in DOMAIN spends : spends[j].ask = spends[j].nf,
               NEW r, Advance("signed", r, meta)
        PROVE  SoundInv'
    <2>1. spends \in SigningLists.right
      BY <1>2, <1>3, WrongKeys
    <2>2. stage' = "signed" /\ sound'
      BY <1>1, <1>2, <1>3, <2>1 DEF Advance
    <2> QED BY <2>2 DEF SoundInv
  <1> QED BY <1>1, <1>3, RefusedSound

LEMMA SoundStep == NoneIsPlain /\ BuilderInv /\ SoundInv /\ [Next]_vars => SoundInv'
  <1> SUFFICES ASSUME NoneIsPlain, BuilderInv, SoundInv, [Next]_vars PROVE SoundInv'
    OBVIOUS
  <1>1. CASE UNCHANGED vars
    BY <1>1 DEF vars, SoundInv, EarlyPczt, Defective
  <1>2. CASE extract_names_transaction
    <2>1. stage = "signed" /\ sound' = sound /\ (Refuse \/ stage' = "extracted")
      BY <1>2 DEF extract_names_transaction
    <2> QED BY <2>1, RefusedSound DEF SoundInv
  <1>3. CASE HandOver
    <2>1. /\ Begun /\ stage' = stage /\ plan' = plan /\ meta' = meta /\ sound' = sound
          /\ pczt' \in Altered(pczt)
      BY <1>3 DEF HandOver, Begun
    <2>2. IsPczt(pczt) /\ plan \in Plans
      BY <2>1 DEF BuilderInv
    <2>3. EarlyPczt(pczt) => EarlyPczt(pczt)'
      <3>1. EarlyPczt(pczt) => EarlyPczt(pczt')
        BY <2>1, <2>2, AlteredEarly
      <3> QED BY <2>1, <3>1 DEF EarlyPczt
    <2>4. Defective(pczt) => Defective(pczt)'
      <3>1. Defective(pczt) => Defective(pczt')
        BY <2>1, <2>2, AlteredDefective
      <3> QED BY <2>1, <3>1 DEF Defective
    <2> QED BY <2>1, <2>3, <2>4 DEF SoundInv
  <1> QED BY <1>1, <1>2, <1>3, BundleSound, EmbedSound, FinalizeSound, InstallSound,
             ProveSound, SignSound
          DEF Next, Ended

-----------------------------------------------------------------------------
(***************************************************************************)
(* Second: with right plans and lists, and nothing altered, every check of *)
(* every wrapper passes.                                                   *)
(***************************************************************************)
NoFaults == faults.role = 0 /\ faults.hand = 0

\* The actions that the placement s of the spends leaves to padding.
Rest(p, s) == DOMAIN p.acts \ Range(s)

\* The actions of a PCZT whose real spends are placed by s.
Placed(p, s) ==
    /\ DOMAIN p.acts = 0..(action_count(plan) - 1)
    /\ \A k \in DOMAIN s : p.acts[s[k]].nf = Spend(k)
    /\ \A i \in Rest(p, s) : p.acts[i].nf = DummySpend(i)
    /\ LayoutReadable(p) /\ DesignatedOnce(layout(p), BundleMeta(plan))
    /\ p.value_sum = value_sum_parts(value_balance(plan))

\* The padding has its witness; the real spends have none, or their own.
Open(p, s) ==
    /\ \A i \in Rest(p, s) : p.acts[i].witness # None /\ p.acts[i].witness.root = None
    /\ \A i \in Range(s) : p.acts[i].witness = None

Witnessed(p, s) ==
    /\ \A i \in Rest(p, s) : p.acts[i].witness # None /\ p.acts[i].witness.root = None
    /\ \A i \in Range(s) : p.acts[i].witness = [of |-> p.acts[i].nf, root |-> p.anchor]
    /\ p.anchor = Anchor

\* Just the actions in S are signed, each with its own key over the effects.
SignedAt(p, S) ==
    \A i \in DOMAIN p.acts :
        p.acts[i].sig = IF i \in S THEN [key |-> p.acts[i].nf, over |-> Sighash(p)] ELSE None

\* The metadata lists the real spends in the order of the witness plan.
Listed(m, s) ==
    \E f \in Orders :
        m.witnessed = [j \in 1..real_spend_count(plan) |-> <<Spend(f[j]), s[f[j]]>>]

AsPlanned(s) ==
    /\ Placed(pczt, s)
    /\ stage \in {"bundled", "embedded"} =>
         Open(pczt, s) /\ SignedAt(pczt, {}) /\ pczt.proof = None
    /\ stage = "finalized" =>
         Open(pczt, s) /\ SignedAt(pczt, Rest(pczt, s)) /\ pczt.proof = None
    /\ stage \in {"witnessed", "proved", "signed"} => Witnessed(pczt, s) /\ Listed(meta, s)
    /\ stage = "witnessed" => SignedAt(pczt, Rest(pczt, s)) /\ pczt.proof = None
    /\ stage = "proved" => SignedAt(pczt, Rest(pczt, s))
    /\ stage = "signed" => SignedAt(pczt, DOMAIN pczt.acts)
    /\ stage \in {"proved", "signed"} => pczt.proof = ProofOf(pczt) /\ meta.proof_len = 1

CleanInv ==
    /\ faults.role \in Nat
    /\ (sound /\ NoFaults) =>
         /\ stage # "refused"
         /\ stage \in {"bundled", "embedded", "finalized", "witnessed", "proved", "signed"} =>
              \E s \in Placements(plan, real_spend_count(plan)) : AsPlanned(s)

LEMMA NothingNoted ==
    ASSUME BuilderInv, faults.role \in Nat, NEW result, NEW r, Noted(result, r)
    PROVE  faults'.role \in Nat /\ (NoFaults' => NoFaults /\ r = result)
  <1>1. CASE r = result
    BY <1>1 DEF Noted, NoFaults
  <1>2. CASE r # result
    BY <1>2 DEF Noted, NoFaults, BuilderInv
  <1> QED BY <1>1, <1>2

\* A placement puts each real spend at a place of its own.
LEMMA PlacementFacts ==
    ASSUME plan \in Plans, NEW s \in Placements(plan, real_spend_count(plan))
    PROVE  LET n == real_spend_count(plan)
               a == action_count(plan)
               D == 0..(a - 1)
           IN  /\ DOMAIN s = 0..(n - 1) /\ IsInjective(s) /\ s[0] = plan.index
               /\ 0 \in DOMAIN s /\ Range(s) \subseteq D
               /\ n \in Nat /\ a \in Nat /\ DOMAIN s = 0..plan.funding
               /\ IsFiniteSet(Range(s)) /\ Cardinality(Range(s)) = n
               /\ IsFiniteSet(D) /\ Cardinality(D) = a
               /\ IsFiniteSet(D \ Range(s)) /\ Cardinality(D \ Range(s)) = a - n
  <1> DEFINE n == real_spend_count(plan)
             a == action_count(plan)
             D == 0..(a - 1)
  <1>1. a \in Nat /\ n \in Nat /\ n >= 1 /\ n - 1 = plan.funding
    BY PlanCounts DEF real_spend_count
  <1>2. s \in [0..(n - 1) -> D] /\ IsInjective(s) /\ s[0] = plan.index
    BY DEF Placements
  <1>3. DOMAIN s = 0..(n - 1) /\ Range(s) \subseteq D /\ 0 \in DOMAIN s
    BY <1>1, <1>2 DEF Range
  <1>4. IsFiniteSet(D) /\ Cardinality(D) = a
    BY <1>1, CountFromZero
  <1>5. IsFiniteSet(DOMAIN s) /\ Cardinality(DOMAIN s) = n
    BY <1>1, <1>3, CountFromZero
  <1> DEFINE R == Range(s)
  <1>6. IsFiniteSet(R) /\ Cardinality(R) = n /\ D \cap R = R
    BY <1>2, <1>3, <1>5, InjectiveRange
  <1> HIDE DEF D, R, a, n
  <1>7. IsFiniteSet(D \ R) /\ Cardinality(D \ R) = Cardinality(D) - Cardinality(D \cap R)
    BY <1>4, FS_Difference
  <1>8. Cardinality(D \ R) = a - n
    BY <1>4, <1>6, <1>7
  <1>9. DOMAIN s = 0..plan.funding
    BY <1>1, <1>3
  <1> QED BY <1>1, <1>2, <1>3, <1>4, <1>6, <1>7, <1>8, <1>9 DEF D, R, a, n

LEMMA NoneIsNothing ==
    ASSUME NoneIsPlain
    PROVE  /\ \A x, y : [of |-> x, root |-> y] # None
           /\ \A x, y : [key |-> x, over |-> y] # None
           /\ \A x, y : [of |-> x, len |-> y] # None
           /\ \A x, y : <<x, y>> # None
  <1>1. ASSUME NEW x, NEW y
        PROVE  /\ [of |-> x, root |-> y] # None
               /\ [key |-> x, over |-> y] # None
               /\ [of |-> x, len |-> y] # None
               /\ <<x, y>> # None
    <2> DEFINE w == [of |-> x, root |-> y]
               g == [key |-> x, over |-> y]
               q == [of |-> x, len |-> y]
               t == <<x, y>>
    <2>1. /\ DOMAIN w = {"of", "root"} /\ DOMAIN g = {"key", "over"}
          /\ DOMAIN q = {"of", "len"} /\ DOMAIN t = 1..2
      OBVIOUS
    <2> HIDE DEF w, g, q, t
    <2>2. w # None /\ g # None /\ q # None /\ t # None
      BY <2>1 DEF NoneIsPlain
    <2> QED BY <2>2 DEF w, g, q, t
  <1> QED BY <1>1

\* The bundle of an arrangement is as planned.
LEMMA BundlePlaced ==
    ASSUME NoneIsPlain, plan \in Plans,
           NEW s \in Placements(plan, real_spend_count(plan)),
           NEW o \in Placements(plan, requested_output_count(plan)),
           NEW b, b = Bundle(plan, s, o)
    PROVE  Placed(b, s) /\ Open(b, s) /\ SignedAt(b, {}) /\ b.proof = None
  <1> DEFINE a == action_count(plan)
             D == 0..(a - 1)
             m == BundleMeta(plan)
  <1>1. /\ DOMAIN b.acts = D /\ \A i \in D : b.acts[i] = ActionAt(s, o, i)
        /\ b.value_sum = value_sum_parts(value_balance(plan)) /\ b.proof = None
    BY DEF Bundle
  <1>2. /\ IsInjective(s) /\ s[0] = plan.index /\ 0 \in DOMAIN s /\ Range(s) \subseteq D
    BY PlacementFacts
  <1>3. IsInjective(o) /\ o[0] = plan.index /\ 0 \in DOMAIN o
    <2>1. requested_output_count(plan) \in Nat /\ requested_output_count(plan) >= 1
      BY PlansAssumption DEF requested_output_count
    <2> QED BY <2>1 DEF Placements
  <1> HIDE DEF D
  <1>4. ASSUME NEW i \in D
        PROVE  /\ b.acts[i].sig = None
               /\ i \notin Range(s) =>
                    /\ b.acts[i].nf = DummySpend(i)
                    /\ b.acts[i].witness = [of |-> DummySpend(i), root |-> None]
               /\ i \in Range(s) =>
                    /\ b.acts[i].witness = None
                    /\ \E k \in DOMAIN s : s[k] = i /\ b.acts[i].nf = Spend(k)
               /\ i \notin Range(o) => b.acts[i].cmx = DummyOutput(i)
               /\ i \in Range(o) => \E k \in DOMAIN o : o[k] = i /\ b.acts[i].cmx = Output(k)
    BY <1>1, PlacedAction
  <1>5. \A k, j : /\ Spend(k) # DummySpend(j) /\ Output(k) # DummyOutput(j)
                  /\ Spend(k) = Spend(j) => k = j
    BY DEF Spend, DummySpend, Output, DummyOutput
  <1>6. \A k \in DOMAIN s : b.acts[s[k]].nf = Spend(k)
    <2> SUFFICES ASSUME NEW k \in DOMAIN s PROVE b.acts[s[k]].nf = Spend(k)
      OBVIOUS
    <2>1. s[k] \in D /\ s[k] \in Range(s)
      BY <1>2 DEF Range
    <2>2. PICK j \in DOMAIN s : s[j] = s[k] /\ b.acts[s[k]].nf = Spend(j)
      BY <1>4, <2>1
    <2> QED BY <1>2, <2>2 DEF IsInjective
  <1>7. LayoutReadable(b)
    <2>1. \A k : Output(k) # None /\ DummyOutput(k) # None
      BY NoneIsNothing DEF Output, DummyOutput
    <2>2. ASSUME NEW i \in D PROVE b.acts[i].cmx # None
      <3>1. CASE i \in Range(o)
        <4>1. PICK k \in DOMAIN o : b.acts[i].cmx = Output(k)
          BY <1>4, <3>1
        <4> QED BY <2>1, <4>1
      <3>2. CASE i \notin Range(o)
        <4>1. b.acts[i].cmx = DummyOutput(i)
          BY <1>4, <3>2
        <4> QED BY <2>1, <4>1
      <3> QED BY <3>1, <3>2
    <2> QED BY <1>1, <2>2 DEF LayoutReadable
  <1>8. DesignatedOnce(layout(b), m)
    <2> DEFINE S == {i \in DOMAIN layout(b) : layout(b)[i] = <<Spend(0), Output(0)>>}
    <2>1. DOMAIN layout(b) = D /\ \A i \in D : layout(b)[i] = <<b.acts[i].nf, b.acts[i].cmx>>
      BY <1>1 DEF layout
    <2>2. plan.index \in D /\ plan.index \in Range(s) /\ plan.index \in Range(o)
      BY <1>2, <1>3 DEF Range
    <2>3. b.acts[plan.index].nf = Spend(0)
      BY <1>2, <1>6
    <2>4. b.acts[plan.index].cmx = Output(0)
      <3>1. PICK k \in DOMAIN o : o[k] = plan.index /\ b.acts[plan.index].cmx = Output(k)
        BY <1>4, <2>2
      <3> QED BY <1>3, <3>1 DEF IsInjective
    <2>5. ASSUME NEW i \in D, b.acts[i].nf = Spend(0)
          PROVE  i = plan.index
      <3>1. i \in Range(s)
        <4>1. i \notin Range(s) => b.acts[i].nf = DummySpend(i)
          BY <1>4
        <4>2. Spend(0) # DummySpend(i)
          BY <1>5
        <4> QED BY <2>5, <4>1, <4>2
      <3>2. PICK k \in DOMAIN s : s[k] = i /\ b.acts[i].nf = Spend(k)
        BY <1>4, <3>1
      <3>3. k = 0
        BY <1>5, <2>5, <3>2
      <3> QED BY <1>2, <3>2, <3>3
    <2>6. S = {plan.index}
      BY <2>1, <2>2, <2>3, <2>4, <2>5
    <2>7. Cardinality(S) = 1
      BY <2>6, FS_Singleton
    <2>8. m.index = plan.index /\ m.nf = Spend(0) /\ m.cmx = Output(0)
      BY DEF BundleMeta
    <2> HIDE DEF m
    <2> QED BY <2>1, <2>2, <2>3, <2>4, <2>7, <2>8 DEF DesignatedOnce
  <1>9. Placed(b, s)
    BY <1>1, <1>4, <1>6, <1>7, <1>8 DEF Placed, Rest, D
  <1>10. Open(b, s)
    <2>1. \A i \in Range(s) : b.acts[i].witness = None
      BY <1>2, <1>4
    <2>2. ASSUME NEW i \in Rest(b, s)
          PROVE  b.acts[i].witness # None /\ b.acts[i].witness.root = None
      <3>1. b.acts[i].witness = [of |-> DummySpend(i), root |-> None]
        BY <1>1, <1>4 DEF Rest
      <3> QED BY <3>1, NoneIsNothing
    <2> QED BY <2>1, <2>2 DEF Open
  <1>11. SignedAt(b, {})
    BY <1>1, <1>4 DEF SignedAt
  <1> QED BY <1>1, <1>9, <1>10, <1>11

\* What is said of the layout holds of whatever has it.
LEMMA PlacedKept ==
    ASSUME NEW p, NEW r, NEW s, IsPczt(p), IsPczt(r), Placed(p, s),
           \A k \in DOMAIN s : s[k] \in DOMAIN p.acts,
           layout(r) = layout(p), r.value_sum = p.value_sum
    PROVE  /\ Placed(r, s) /\ LayoutKept(p, r) /\ Sighash(r) = Sighash(p)
           /\ DOMAIN r.acts = DOMAIN p.acts /\ Rest(r, s) = Rest(p, s)
           /\ \A i \in DOMAIN p.acts : r.acts[i].nf = p.acts[i].nf
  <1>1. /\ DOMAIN layout(r) = DOMAIN r.acts
        /\ \A i \in DOMAIN r.acts : layout(r)[i] = <<r.acts[i].nf, r.acts[i].cmx>>
    BY DEF layout
  <1>2. /\ DOMAIN layout(p) = DOMAIN p.acts
        /\ \A i \in DOMAIN p.acts : layout(p)[i] = <<p.acts[i].nf, p.acts[i].cmx>>
    BY DEF layout
  <1>3. /\ DOMAIN r.acts = DOMAIN p.acts
        /\ \A i \in DOMAIN p.acts :
             <<r.acts[i].nf, r.acts[i].cmx>> = <<p.acts[i].nf, p.acts[i].cmx>>
    BY <1>1, <1>2
  <1>4. \A i \in DOMAIN p.acts : r.acts[i].nf = p.acts[i].nf /\ r.acts[i].cmx = p.acts[i].cmx
    BY <1>3
  <1>5. LayoutReadable(r)
    BY <1>3, <1>4 DEF Placed, LayoutReadable
  <1>6. Rest(r, s) = Rest(p, s) /\ Rest(p, s) \subseteq DOMAIN p.acts
    BY <1>3 DEF Rest
  <1>7. Placed(r, s)
    BY <1>3, <1>4, <1>5, <1>6 DEF Placed
  <1> QED BY <1>3, <1>4, <1>5, <1>6, <1>7 DEF LayoutKept, Sighash

\* An order names every real spend.
LEMMA OrderFacts ==
    ASSUME plan \in Plans, NEW f \in Orders
    PROVE  /\ DOMAIN f = 1..real_spend_count(plan) /\ IsInjective(f)
           /\ \A j \in DOMAIN f : f[j] \in 0..plan.funding
           /\ \A k \in 0..plan.funding : \E j \in DOMAIN f : f[j] = k
  <1> DEFINE n == real_spend_count(plan)
             T == 0..plan.funding
  <1>1. n \in Nat /\ plan.funding \in Nat /\ n - 1 = plan.funding
    BY PlanCounts DEF real_spend_count
  <1>2. f \in [1..n -> T] /\ IsInjective(f)
    BY DEF Orders
  <1>3. IsFiniteSet(T) /\ Cardinality(T) = n
    <2>1. 0..plan.funding = 0..(n - 1)
      BY <1>1
    <2> QED BY <1>1, <2>1, CountFromZero
  <1>4. IsFiniteSet(1..n) /\ Cardinality(1..n) = n
    <2>1. 1 \in Int /\ n \in Int
      BY <1>1
    <2>2. IsFiniteSet(1..n) /\ Cardinality(1..n) = IF 1 > n THEN 0 ELSE n - 1 + 1
      BY <2>1, FS_Interval
    <2> HIDE DEF n
    <2> QED BY <1>1, <2>2
  <1>5. f \in Injection(1..n, T)
    BY <1>2 DEF Injection
  <1>6. f \in Surjection(1..n, T)
    <2> HIDE DEF n, T
    <2> QED BY <1>3, <1>4, <1>5, FS_Injection
  <1>7. DOMAIN f = 1..n /\ \A j \in DOMAIN f : f[j] \in T
    BY <1>2
  <1>8. \A k \in T : \E j \in DOMAIN f : f[j] = k
    <2> HIDE DEF n, T
    <2> QED BY <1>6, <1>7 DEF Surjection
  <1> QED BY <1>2, <1>7, <1>8

\* Metadata that says what the plan said.
BoundMeta(m) ==
    /\ m.index = plan.index /\ m.nf = Spend(0) /\ m.cmx = Output(0)
    /\ m.action_count = action_count(plan)
    /\ m.real_spend_count = real_spend_count(plan)
    /\ m.value_balance = value_balance(plan)

\* The checks about layout, count and balance pass on a PCZT as planned.
LEMMA PlacedChecks ==
    ASSUME plan \in Plans, NEW p, NEW s, Placed(p, s), NEW m, BoundMeta(m)
    PROVE  /\ DesignatedOnce(layout(p), m) /\ verify_embedded_designated_action(p, m)
           /\ CountKept(p, m) /\ BalanceKept(p, m) /\ LayoutReadable(p)
  <1>1. DesignatedOnce(layout(p), m)
    <2> DEFINE b == BundleMeta(plan)
    <2>1. b.index = m.index /\ b.nf = m.nf /\ b.cmx = m.cmx
      BY DEF BundleMeta, BoundMeta
    <2>2. DesignatedOnce(layout(p), b)
      BY DEF Placed
    <2> HIDE DEF b
    <2> QED BY <2>1, <2>2 DEF DesignatedOnce
  <1>2. CountKept(p, m)
    <2>1. action_count(plan) \in Nat
      BY PlanCounts
    <2>2. Cardinality(DOMAIN p.acts) = action_count(plan)
      BY <2>1, CountFromZero DEF Placed
    <2> QED BY <2>2 DEF CountKept, Count, BoundMeta
  <1>3. BalanceKept(p, m) /\ LayoutReadable(p)
    BY DEF Placed, BalanceKept, BoundMeta
  <1> QED BY <1>1, <1>2, <1>3 DEF verify_embedded_designated_action

\* The IO Finalizer signs the padding and nothing else.
LEMMA FinalizedRole ==
    ASSUME NoneIsPlain, NEW p, NEW s, IsPczt(p), Placed(p, s), Open(p, s), SignedAt(p, {}),
           NEW r, r = IoFinalized(p)
    PROVE  /\ layout(r) = layout(p) /\ r.value_sum = p.value_sum
           /\ r.proof = p.proof /\ ~r.modifiable
           /\ DOMAIN r.acts = DOMAIN p.acts
           /\ \A i \in DOMAIN p.acts :
                /\ r.acts[i].nf = p.acts[i].nf /\ r.acts[i].witness = p.acts[i].witness
                /\ r.acts[i].sig = IF i \in Rest(p, s)
                                   THEN [key |-> p.acts[i].nf, over |-> Sighash(p)] ELSE None
  <1> DEFINE sig(i) == [key |-> p.acts[i].nf, over |-> Sighash(p)]
  <1>1. /\ DOMAIN p = PcztFields /\ \A i \in DOMAIN p.acts : IsAct(p.acts[i])
    BY DEF IsPczt
  <1>2. /\ DOMAIN r.acts = DOMAIN p.acts /\ r.value_sum = p.value_sum /\ r.proof = p.proof
        /\ r.modifiable = FALSE
        /\ \A i \in DOMAIN p.acts :
             r.acts[i] = IF p.acts[i].witness # None /\ p.acts[i].sig = None
                         THEN [p.acts[i] EXCEPT !.sig = sig(i)] ELSE p.acts[i]
    BY <1>1 DEF IoFinalized, PcztFields
  <1> HIDE DEF sig
  <1>3. ASSUME NEW i \in DOMAIN p.acts
        PROVE  /\ r.acts[i].nf = p.acts[i].nf /\ r.acts[i].cmx = p.acts[i].cmx
               /\ r.acts[i].witness = p.acts[i].witness
               /\ r.acts[i].sig = IF i \in Rest(p, s) THEN sig(i) ELSE None
    <2>1. p.acts[i].sig = None
      BY DEF SignedAt
    <2>2. i \in Rest(p, s) <=> p.acts[i].witness # None
      BY DEF Open, Rest
    <2>3. IsAct(p.acts[i])
      BY <1>1
    <2> QED BY <1>2, <2>1, <2>2, <2>3 DEF IsAct
  <1>4. layout(r) = layout(p)
    BY <1>2, <1>3 DEF layout
  <1> QED BY <1>2, <1>3, <1>4 DEF sig

\* In a PCZT as planned a real nullifier is at one place.
LEMMA PlacedMatches ==
    ASSUME plan \in Plans, NEW s \in Placements(plan, real_spend_count(plan)),
           NEW p, Placed(p, s), NEW k \in DOMAIN s
    PROVE  Matches(p, Spend(k)) = {s[k]} /\ s[k] \in DOMAIN p.acts
  <1>1. Range(s) \subseteq DOMAIN p.acts /\ s[k] \in Range(s)
    BY PlacementFacts DEF Placed, Range
  <1>2. ASSUME NEW i \in DOMAIN p.acts, p.acts[i].nf = Spend(k)
        PROVE  i = s[k]
    <2>1. \A j : Spend(k) # DummySpend(j) /\ (Spend(j) = Spend(k) => j = k)
      BY DEF Spend, DummySpend
    <2>2. i \notin Rest(p, s)
      BY <1>2, <2>1 DEF Placed
    <2>3. PICK j \in DOMAIN s : s[j] = i
      BY <2>2 DEF Rest, Range
    <2>4. p.acts[i].nf = Spend(j)
      BY <2>3 DEF Placed
    <2> QED BY <1>2, <2>1, <2>3, <2>4
  <1>3. p.acts[s[k]].nf = Spend(k)
    BY DEF Placed
  <1> QED BY <1>1, <1>2, <1>3 DEF Matches

\* The actions the metadata lists are the real ones, each with its nullifier.
LEMMA ListedFacts ==
    ASSUME plan \in Plans, NEW s \in Placements(plan, real_spend_count(plan)),
           NEW f \in Orders, NEW m,
           m.witnessed = [j \in 1..real_spend_count(plan) |-> <<Spend(f[j]), s[f[j]]>>]
    PROVE  /\ Len(m.witnessed) = real_spend_count(plan)
           /\ DOMAIN m.witnessed = DOMAIN f
           /\ \A j \in DOMAIN f : /\ f[j] \in DOMAIN s
                                  /\ m.witnessed[j][1] = Spend(f[j])
                                  /\ m.witnessed[j][2] = s[f[j]]
           /\ RealActions(m) = Range(s)
           /\ \A j, k \in DOMAIN m.witnessed :
                j # k => /\ m.witnessed[j][1] # m.witnessed[k][1]
                         /\ m.witnessed[j][2] # m.witnessed[k][2]
           /\ \A k \in DOMAIN s : \A w \in Range(m.witnessed) : w[1] = Spend(k) => w[2] = s[k]
  <1> DEFINE n == real_spend_count(plan)
             W == m.witnessed
  <1>1. /\ DOMAIN f = 1..n /\ IsInjective(f) /\ n \in Nat
        /\ \A j \in DOMAIN f : f[j] \in DOMAIN s
        /\ \A k \in DOMAIN s : \E j \in DOMAIN f : f[j] = k
        /\ IsInjective(s)
    BY OrderFacts, PlacementFacts
  <1>2. /\ DOMAIN W = 1..n
        /\ \A j \in 1..n : W[j][1] = Spend(f[j]) /\ W[j][2] = s[f[j]]
    OBVIOUS
  <1>3. Len(W) = n
    <2>1. W \in Seq({<<Spend(f[j]), s[f[j]]>> : j \in 1..n})
      BY <1>1
    <2> QED BY <1>1, <1>2, <2>1
  <1>4. \A k, j : Spend(k) = Spend(j) => k = j
    BY DEF Spend
  <1> HIDE DEF W, n
  <1>5. RealActions(m) = Range(s)
    <2>1. RealActions(m) = {W[j][2] : j \in DOMAIN W}
      BY DEF RealActions, W
    <2>2. \A j \in DOMAIN W : W[j][2] \in Range(s)
      BY <1>1, <1>2 DEF Range
    <2>3. ASSUME NEW i \in Range(s)
          PROVE  \E j \in DOMAIN W : W[j][2] = i
      <3>1. PICK k \in DOMAIN s : i = s[k]
        BY DEF Range
      <3>2. PICK j \in DOMAIN f : f[j] = k
        BY <1>1
      <3> QED BY <1>1, <1>2, <3>1, <3>2
    <2> QED BY <2>1, <2>2, <2>3
  <1>6. ASSUME NEW j \in DOMAIN W, NEW k \in DOMAIN W, j # k
        PROVE  W[j][1] # W[k][1] /\ W[j][2] # W[k][2]
    <2>1. f[j] # f[k] /\ f[j] \in DOMAIN s /\ f[k] \in DOMAIN s
      BY <1>1, <1>2, <1>6 DEF IsInjective
    <2>2. s[f[j]] # s[f[k]]
      BY <1>1, <2>1 DEF IsInjective
    <2> QED BY <1>2, <1>4, <2>1, <2>2
  <1>7. ASSUME NEW k \in DOMAIN s, NEW w \in Range(W), w[1] = Spend(k)
        PROVE  w[2] = s[k]
    <2>1. PICK j \in 1..n : w = W[j]
      BY <1>2 DEF Range
    <2>2. f[j] = k
      BY <1>2, <1>4, <1>7, <2>1
    <2> QED BY <1>2, <2>1, <2>2
  <1> QED BY <1>1, <1>2, <1>3, <1>5, <1>6, <1>7 DEF W, n

\* The list with one path for each real spend, in the order f, and the places
\* of these spends.
PathList(spends, f, paths) ==
    spends = [j \in 1..real_spend_count(plan) |-> [nf |-> Spend(f[j]), path |-> paths[j]]]

PlacesOf(f, s) == [j \in DOMAIN f |-> s[f[j]]]

\* A right witness list finds each of its spends, in its order.
LEMMA RightTargets ==
    ASSUME NoneIsPlain, plan \in Plans, NEW s \in Placements(plan, real_spend_count(plan)),
           NEW p, Placed(p, s), Open(p, s), NEW f \in Orders, NEW m, BoundMeta(m),
           NEW spends, NEW paths, PathList(spends, f, paths)
    PROVE  /\ InstallChecked(p, m, spends)
           /\ WitnessTargets(p, spends) = PlacesOf(f, s)
           /\ Unwitnessed(p) = Range(s)
  <1> DEFINE n == real_spend_count(plan)
             target == WitnessTargets(p, spends)
  <1>1. /\ DOMAIN f = 1..n /\ IsInjective(f) /\ n \in Nat
        /\ \A j \in DOMAIN f : f[j] \in DOMAIN s
        /\ \A k \in DOMAIN s : \E j \in DOMAIN f : f[j] = k
        /\ IsInjective(s) /\ Cardinality(Range(s)) = n
        /\ Range(s) \subseteq DOMAIN p.acts
    BY OrderFacts, PlacementFacts DEF Placed
  <1>2. /\ DOMAIN spends = DOMAIN f
        /\ \A j \in DOMAIN f : spends[j].nf = Spend(f[j])
    BY <1>1 DEF PathList
  <1>3. Len(spends) = n
    <2>1. spends \in Seq({[nf |-> Spend(f[j]), path |-> paths[j]] : j \in 1..n})
      BY <1>1 DEF PathList
    <2> QED BY <1>1, <1>2, <2>1
  <1>4. Unwitnessed(p) = Range(s)
    BY <1>1 DEF Unwitnessed, Open, Rest
  <1> HIDE DEF n
  <1>5. ASSUME NEW j \in DOMAIN f
        PROVE  Matches(p, spends[j].nf) = {s[f[j]]} /\ s[f[j]] \in Range(s)
    BY <1>1, <1>2, PlacedMatches DEF Range
  <1>6. target = PlacesOf(f, s)
    <2>1. ASSUME NEW j \in DOMAIN f
          PROVE  (CHOOSE i \in DOMAIN p.acts : p.acts[i].nf = spends[j].nf) = s[f[j]]
      <3>1. s[f[j]] \in DOMAIN p.acts /\ p.acts[s[f[j]]].nf = spends[j].nf
        BY <1>1, <1>5 DEF Matches
      <3>2. \A i \in DOMAIN p.acts : p.acts[i].nf = spends[j].nf => i = s[f[j]]
        BY <1>5 DEF Matches
      <3> QED BY <3>1, <3>2
    <2> QED BY <1>2, <2>1 DEF WitnessTargets, PlacesOf
  <1>7. CoversExactly(target, Range(s))
    <2>1. IsInjective(target)
      BY <1>1, <1>6 DEF IsInjective, PlacesOf
    <2>2. Range(target) = Range(s)
      BY <1>1, <1>6 DEF Range, PlacesOf
    <2> QED BY <2>1, <2>2 DEF CoversExactly
  <1>8. \A j \in DOMAIN spends :
          /\ Cardinality(Matches(p, spends[j].nf)) = 1
          /\ Matches(p, spends[j].nf) \subseteq Unwitnessed(p)
    <2> SUFFICES ASSUME NEW j \in DOMAIN spends
                 PROVE  /\ Cardinality(Matches(p, spends[j].nf)) = 1
                        /\ Matches(p, spends[j].nf) \subseteq Unwitnessed(p)
      OBVIOUS
    <2>1. Matches(p, spends[j].nf) = {s[f[j]]} /\ s[f[j]] \in Unwitnessed(p)
      BY <1>2, <1>4, <1>5
    <2>2. Cardinality({s[f[j]]}) = 1
      BY FS_Singleton
    <2> QED BY <2>1, <2>2
  <1>9. CountKept(p, m) /\ BalanceKept(p, m) /\ LayoutReadable(p)
    BY PlacedChecks
  <1>10. m.real_spend_count = n
    BY DEF BoundMeta, n
  <1> HIDE DEF target
  <1>11. InstallChecked(p, m, spends)
    BY <1>1, <1>3, <1>4, <1>7, <1>8, <1>9, <1>10 DEF InstallChecked, target
  <1> QED BY <1>4, <1>6, <1>11 DEF target

\* The Updater gives every real spend the path listed for it.
LEMMA UpdatedRole ==
    ASSUME plan \in Plans, NEW s \in Placements(plan, real_spend_count(plan)),
           NEW p, IsPczt(p), Placed(p, s), NEW f \in Orders, NEW spends, NEW paths,
           PathList(spends, f, paths), NEW target, target = PlacesOf(f, s),
           NEW r, r = Updated(p, Anchor, target, spends)
    PROVE  /\ layout(r) = layout(p) /\ r.value_sum = p.value_sum
           /\ r.proof = p.proof /\ r.anchor = Anchor
           /\ DOMAIN r.acts = DOMAIN p.acts
           /\ \A i \in DOMAIN p.acts : /\ r.acts[i].nf = p.acts[i].nf
                                       /\ r.acts[i].sig = p.acts[i].sig
           /\ \A i \in Rest(p, s) : r.acts[i].witness = p.acts[i].witness
           /\ \A j \in DOMAIN f : r.acts[s[f[j]]].witness = paths[j]
  <1> DEFINE path(i) == spends[CHOOSE j \in DOMAIN target : target[j] = i].path
  <1>1. /\ DOMAIN p = PcztFields /\ \A i \in DOMAIN p.acts : IsAct(p.acts[i])
    BY DEF IsPczt
  <1>2. /\ DOMAIN r.acts = DOMAIN p.acts /\ r.value_sum = p.value_sum /\ r.proof = p.proof
        /\ r.anchor = Anchor
        /\ \A i \in DOMAIN p.acts :
             r.acts[i] = IF i \in Range(target)
                         THEN [p.acts[i] EXCEPT !.witness = path(i)] ELSE p.acts[i]
    BY <1>1 DEF Updated, PcztFields
  <1>3. /\ DOMAIN f = 1..real_spend_count(plan) /\ IsInjective(f) /\ IsInjective(s)
        /\ \A j \in DOMAIN f : f[j] \in DOMAIN s
        /\ \A k \in DOMAIN s : \E j \in DOMAIN f : f[j] = k
        /\ Range(s) \subseteq DOMAIN p.acts
    BY OrderFacts, PlacementFacts DEF Placed
  <1>4. Range(target) = Range(s)
    BY <1>3 DEF Range, PlacesOf
  <1>5. ASSUME NEW j \in DOMAIN f
        PROVE  path(s[f[j]]) = paths[j]
    <2>1. \A i \in DOMAIN target : target[i] = s[f[j]] => i = j
      BY <1>3 DEF IsInjective, PlacesOf
    <2>2. j \in DOMAIN target /\ target[j] = s[f[j]]
      BY DEF PlacesOf
    <2>3. (CHOOSE i \in DOMAIN target : target[i] = s[f[j]]) = j
      BY <2>1, <2>2
    <2> QED BY <1>3, <2>3 DEF PathList
  <1> HIDE DEF path
  <1>6. ASSUME NEW i \in DOMAIN p.acts
        PROVE  /\ r.acts[i].nf = p.acts[i].nf /\ r.acts[i].cmx = p.acts[i].cmx
               /\ r.acts[i].sig = p.acts[i].sig
               /\ r.acts[i].witness = IF i \in Range(s) THEN path(i) ELSE p.acts[i].witness
    <2>1. IsAct(p.acts[i])
      BY <1>1
    <2> QED BY <1>2, <1>4, <2>1 DEF IsAct
  <1>7. layout(r) = layout(p)
    BY <1>2, <1>6 DEF layout
  <1>8. \A j \in DOMAIN f : r.acts[s[f[j]]].witness = paths[j]
    <2> SUFFICES ASSUME NEW j \in DOMAIN f PROVE r.acts[s[f[j]]].witness = paths[j]
      OBVIOUS
    <2>1. s[f[j]] \in Range(s) /\ s[f[j]] \in DOMAIN p.acts
      BY <1>3 DEF Range
    <2> QED BY <1>5, <1>6, <2>1
  <1>9. \A i \in Rest(p, s) : r.acts[i].witness = p.acts[i].witness
    BY <1>6 DEF Rest
  <1> QED BY <1>2, <1>6, <1>7, <1>8, <1>9

LEMMA Unclean ==
    ASSUME faults'.role \in Nat, ~(sound' /\ NoFaults')
    PROVE  CleanInv'
  BY DEF CleanInv

LEMMA BoundFromMeta ==
    ASSUME MetaBound
    PROVE  BoundMeta(meta)
  BY DEF MetaBound, BoundMeta

\* What is said about the plan is still said when the plan stays.
LEMMA SamePlan ==
    ASSUME plan' = plan, NEW s
    PROVE  /\ Placements(plan, real_spend_count(plan))' = Placements(plan, real_spend_count(plan))
           /\ Placed(pczt', s) => Placed(pczt, s)'
           /\ Listed(meta', s) => Listed(meta, s)'
  <1>1. Placements(plan, real_spend_count(plan))' = Placements(plan, real_spend_count(plan))
    OBVIOUS
  <1>2. Placed(pczt', s) => Placed(pczt, s)'
    BY DEF Placed
  <1>3. Listed(meta', s) => Listed(meta, s)'
    BY DEF Listed, Orders
  <1> QED BY <1>1, <1>2, <1>3

LEMMA BundleClean ==
    ASSUME NoneIsPlain, BuilderInv, CleanInv, build_names_bundle
    PROVE  CleanInv'
  <1>0. faults.role \in Nat /\ plan \in Plans
    BY DEF CleanInv, BuilderInv
  <1>1. CASE ~PlanAccepted(plan)
    <2>1. sound' = FALSE /\ faults' = faults
      BY <1>1 DEF build_names_bundle
    <2> QED BY <1>0, <2>1, Unclean
  <1>2. CASE PlanAccepted(plan)
    <2> DEFINE m == BundleMeta(plan)
               passed(r) == DesignatedOnce(layout(r), m) /\ CountKept(r, m)
               taken(r) == /\ stage' = "bundled" /\ pczt' = r /\ meta' = m /\ built' = r
                           /\ plan' = plan
    <2>0. PICK b \in Arrangements(plan) : \E r \in Returns(b) :
            Noted(b, r) /\ (passed(r) => taken(r))
      BY <1>2 DEF build_names_bundle
    <2>1. PICK r \in Returns(b) : Noted(b, r) /\ (passed(r) => taken(r))
      BY <2>0
    <2>2. faults'.role \in Nat /\ (NoFaults' => NoFaults /\ r = b)
      BY <1>0, <2>1, NothingNoted
    <2>3. CASE ~NoFaults'
      BY <2>2, <2>3, Unclean
    <2>4. CASE NoFaults'
      <3>0. PICK s \in Placements(plan, real_spend_count(plan)) :
              \E o \in Placements(plan, requested_output_count(plan)) : b = Bundle(plan, s, o)
        BY DEF Arrangements
      <3>1. PICK o \in Placements(plan, requested_output_count(plan)) : b = Bundle(plan, s, o)
        BY <3>0
      <3>2. Placed(b, s) /\ Open(b, s) /\ SignedAt(b, {}) /\ b.proof = None
        BY <1>0, <3>1, BundlePlaced
      <3>3. BoundMeta(m)
        BY DEF BundleMeta, BoundMeta
      <3> HIDE DEF m
      <3>4. passed(r)
        BY <1>0, <2>2, <2>4, <3>2, <3>3, PlacedChecks
      <3>5. stage' = "bundled" /\ pczt' = b /\ plan' = plan
        BY <2>1, <2>2, <2>4, <3>4
      <3>6. Placed(pczt, s)' /\ s \in Placements(plan, real_spend_count(plan))'
        BY <3>2, <3>5, SamePlan
      <3>7. AsPlanned(s)'
        BY <3>2, <3>5, <3>6 DEF AsPlanned
      <3> QED BY <2>2, <3>5, <3>6, <3>7 DEF CleanInv
    <2> QED BY <2>3, <2>4
  <1> QED BY <1>1, <1>2

LEMMA EmbedClean ==
    ASSUME NoneIsPlain, BuilderInv, CleanInv, build_names_pczt
    PROVE  CleanInv'
  <1> DEFINE passed(r) == /\ PcztPlanAccepted(plan)
                          /\ verify_embedded_designated_action(r, meta)
                          /\ LayoutKept(pczt, r) /\ CountKept(r, meta) /\ BalanceKept(r, meta)
  <1>1. PICK r \in Returns(pczt) :
          /\ Noted(pczt, r)
          /\ sound' = (sound /\ PcztPlanAccepted(plan))
          /\ passed(r) => Advance("embedded", r, meta)
    BY DEF build_names_pczt
  <1>2. /\ stage = "bundled" /\ plan \in Plans /\ MetaBound /\ faults.role \in Nat
    BY DEF build_names_pczt, BuilderInv, Begun, CleanInv
  <1>3. faults'.role \in Nat /\ (NoFaults' => NoFaults /\ r = pczt)
    BY <1>1, <1>2, NothingNoted
  <1>4. CASE ~(sound' /\ NoFaults')
    BY <1>3, <1>4, Unclean
  <1>5. CASE sound' /\ NoFaults'
    <2>1. sound /\ PcztPlanAccepted(plan) /\ NoFaults /\ r = pczt
      BY <1>1, <1>3, <1>5
    <2>2. PICK s \in Placements(plan, real_spend_count(plan)) : AsPlanned(s)
      BY <1>2, <2>1 DEF CleanInv
    <2>3. Placed(pczt, s) /\ Open(pczt, s) /\ SignedAt(pczt, {}) /\ pczt.proof = None
      BY <1>2, <2>2 DEF AsPlanned
    <2>4. passed(r)
      BY <1>2, <2>1, <2>3, PlacedChecks, BoundFromMeta DEF LayoutKept
    <2>5. stage' = "embedded" /\ pczt' = pczt /\ plan' = plan
      BY <1>1, <2>1, <2>4 DEF Advance
    <2>6. Placed(pczt, s)' /\ s \in Placements(plan, real_spend_count(plan))'
      BY <2>3, <2>5, SamePlan
    <2>7. AsPlanned(s)'
      BY <2>3, <2>5, <2>6 DEF AsPlanned
    <2> QED BY <1>3, <2>5, <2>6, <2>7 DEF CleanInv
  <1> QED BY <1>4, <1>5

LEMMA FinalizeClean ==
    ASSUME NoneIsPlain, BuilderInv, CleanInv, finalize_names_pczt_io
    PROVE  CleanInv'
  <1> DEFINE result == IoFinalized(pczt)
  <1>1. /\ stage = "embedded" /\ plan \in Plans /\ MetaBound /\ IsPczt(pczt)
        /\ faults.role \in Nat /\ sound' = sound
    BY DEF finalize_names_pczt_io, BuilderInv, Begun, CleanInv
  <1>2. /\ ~FinalizeChecked(pczt, meta) => faults' = faults
        /\ FinalizeChecked(pczt, meta) =>
             \E r \in Returns(result) :
                /\ Noted(result, r)
                /\ FinalizedChecked(pczt, r, meta) =>
                     stage' = "finalized" /\ pczt' = r /\ plan' = plan
    BY DEF finalize_names_pczt_io
  <1>3. /\ faults'.role \in Nat
        /\ NoFaults' => /\ NoFaults
                        /\ (/\ FinalizeChecked(pczt, meta)
                            /\ FinalizedChecked(pczt, result, meta)) =>
                             stage' = "finalized" /\ pczt' = result /\ plan' = plan
    <2>1. CASE ~FinalizeChecked(pczt, meta)
      BY <1>1, <1>2, <2>1 DEF NoFaults
    <2>2. CASE FinalizeChecked(pczt, meta)
      <3>1. PICK r \in Returns(result) :
              /\ Noted(result, r)
              /\ FinalizedChecked(pczt, r, meta) =>
                   stage' = "finalized" /\ pczt' = r /\ plan' = plan
        BY <1>2, <2>2
      <3>2. faults'.role \in Nat /\ (NoFaults' => NoFaults /\ r = result)
        BY <1>1, <3>1, NothingNoted
      <3> HIDE DEF result
      <3> QED BY <3>1, <3>2
    <2> QED BY <2>1, <2>2
  <1>4. CASE ~(sound' /\ NoFaults')
    BY <1>3, <1>4, Unclean
  <1>5. CASE sound' /\ NoFaults'
    <2>1. PICK s \in Placements(plan, real_spend_count(plan)) : AsPlanned(s)
      BY <1>1, <1>3, <1>5 DEF CleanInv
    <2>2. Placed(pczt, s) /\ Open(pczt, s) /\ SignedAt(pczt, {}) /\ pczt.proof = None
      BY <1>1, <2>1 DEF AsPlanned
    <2>3. BoundMeta(meta) /\ FinalizeChecked(pczt, meta)
      BY <1>1, <2>2, PlacedChecks, BoundFromMeta DEF FinalizeChecked
    <2>4. /\ layout(result) = layout(pczt) /\ result.value_sum = pczt.value_sum
          /\ result.proof = None /\ ~result.modifiable
          /\ DOMAIN result.acts = DOMAIN pczt.acts
          /\ \A i \in DOMAIN pczt.acts :
               /\ result.acts[i].nf = pczt.acts[i].nf
               /\ result.acts[i].witness = pczt.acts[i].witness
               /\ result.acts[i].sig =
                    IF i \in Rest(pczt, s)
                    THEN [key |-> pczt.acts[i].nf, over |-> Sighash(pczt)] ELSE None
      BY <1>1, <2>2, FinalizedRole
    <2>5. Range(s) \subseteq DOMAIN pczt.acts /\ \A k \in DOMAIN s : s[k] \in DOMAIN pczt.acts
      BY <1>1, <2>2, PlacementFacts DEF Placed, Range
    <2>6. IsPczt(result)
      BY <1>1, RolesPczt
    <2> HIDE DEF result
    <2>7. /\ Placed(result, s) /\ LayoutKept(pczt, result) /\ Sighash(result) = Sighash(pczt)
          /\ Rest(result, s) = Rest(pczt, s)
      BY <1>1, <2>2, <2>4, <2>5, <2>6, PlacedKept
    <2>8. FinalizedChecked(pczt, result, meta)
      BY <1>1, <2>3, <2>4, <2>7, PlacedChecks DEF FinalizedChecked
    <2>9. stage' = "finalized" /\ pczt' = result /\ plan' = plan
      BY <1>3, <1>5, <2>3, <2>8
    <2>10. Open(result, s)
      BY <2>2, <2>4, <2>5, <2>7 DEF Open, Rest
    <2>11. SignedAt(result, Rest(result, s))
      BY <2>4, <2>7 DEF SignedAt
    <2>12. Placed(pczt, s)' /\ s \in Placements(plan, real_spend_count(plan))'
      BY <2>7, <2>9, SamePlan
    <2>13. AsPlanned(s)'
      BY <2>4, <2>9, <2>10, <2>11, <2>12 DEF AsPlanned
    <2> QED BY <1>3, <2>9, <2>12, <2>13 DEF CleanInv
  <1> QED BY <1>4, <1>5

LEMMA InstallClean ==
    ASSUME NoneIsPlain, BuilderInv, CleanInv, install_names_ironwood_witnesses
    PROVE  CleanInv'
  <1> DEFINE target(spends) == WitnessTargets(pczt, spends)
             result(spends) == Updated(pczt, Anchor, target(spends), spends)
             m(spends) == [meta EXCEPT !.anchor = Anchor,
                             !.witnessed = [j \in DOMAIN spends |->
                                              <<spends[j].nf, target(spends)[j]>>]]
             after(spends, r) == InstalledChecked(pczt, r, m(spends), target(spends), spends)
  <1>1. /\ stage = "finalized" /\ plan \in Plans /\ MetaBound /\ IsPczt(pczt)
        /\ faults.role \in Nat
    BY DEF install_names_ironwood_witnesses, BuilderInv, Begun, CleanInv
  <1>2. PICK spends \in WitnessLists.right \cup WitnessLists.wrong :
          /\ sound' = (sound /\ spends \in WitnessLists.right)
          /\ ~InstallChecked(pczt, meta, spends) => faults' = faults
          /\ InstallChecked(pczt, meta, spends) =>
               \E r \in Returns(result(spends)) :
                  /\ Noted(result(spends), r)
                  /\ after(spends, r) => Advance("witnessed", r, m(spends))
    BY DEF install_names_ironwood_witnesses
  <1> DEFINE before == InstallChecked(pczt, meta, spends)
             res == result(spends)
             mm == m(spends)
             tg == target(spends)
  <1>3. /\ faults'.role \in Nat
        /\ NoFaults' => /\ NoFaults
                        /\ (before /\ after(spends, res)) => Advance("witnessed", res, mm)
    <2>1. CASE ~before
      BY <1>1, <1>2, <2>1 DEF NoFaults
    <2>2. CASE before
      <3>1. PICK r \in Returns(res) :
              Noted(res, r) /\ (after(spends, r) => Advance("witnessed", r, mm))
        BY <1>2, <2>2
      <3>2. faults'.role \in Nat /\ (NoFaults' => NoFaults /\ r = res)
        BY <1>1, <3>1, NothingNoted
      <3> HIDE DEF res, mm, before, after
      <3> QED BY <3>1, <3>2
    <2> QED BY <2>1, <2>2
  <1>4. CASE ~(sound' /\ NoFaults')
    BY <1>3, <1>4, Unclean
  <1>5. CASE sound' /\ NoFaults'
    <2> DEFINE good == [nf \in Named |-> [nf |-> nf, path |-> [of |-> nf, root |-> Anchor]]]
               bad == [nf \in Named |-> [nf |-> nf, path |-> [of |-> nf, root |-> Odd]]]
               n == real_spend_count(plan)
    <2>1. sound /\ spends \in WitnessLists.right
      BY <1>2, <1>5
    <2>2. PICK s \in Placements(plan, n) : AsPlanned(s)
      BY <1>1, <1>3, <1>5, <2>1 DEF CleanInv
    <2>3. /\ Placed(pczt, s) /\ Open(pczt, s) /\ SignedAt(pczt, Rest(pczt, s))
          /\ pczt.proof = None
      BY <1>1, <2>2 DEF AsPlanned
    <2>4. PICK f \in Orders : RightList(spends, good, f)
      <3>1. WitnessLists = Lists(good, bad) /\ \A x \in Named : good[x].nf = x
        BY DEF WitnessLists
      <3> HIDE DEF good, bad
      <3> QED BY <1>1, <2>1, <3>1, RightLists
    <2> DEFINE paths == [j \in DOMAIN f |-> [of |-> Spend(f[j]), root |-> Anchor]]
    <2>5. /\ PathList(spends, f, paths)
          /\ DOMAIN f = 1..n /\ DOMAIN spends = DOMAIN f
          /\ \A j \in DOMAIN f : spends[j].nf = Spend(f[j]) /\ spends[j].path = paths[j]
      <3>1. /\ spends = [j \in 1..n |-> good[Spend(f[j])]] /\ DOMAIN f = 1..n
            /\ \A j \in DOMAIN f : Spend(f[j]) \in Named
        BY <2>4 DEF RightList
      <3>2. \A j \in 1..n : good[Spend(f[j])] = [nf |-> Spend(f[j]), path |-> paths[j]]
        BY <3>1
      <3> DEFINE e(j) == [nf |-> Spend(f[j]), path |-> paths[j]]
      <3> HIDE DEF good, e, n
      <3>3. spends = [j \in 1..n |-> e(j)] /\ DOMAIN f = 1..n
        BY <3>1, <3>2 DEF e
      <3>4. PathList(spends, f, paths)
        BY <3>3 DEF PathList, e, n
      <3>5. \A j \in 1..n : e(j).nf = Spend(f[j]) /\ e(j).path = paths[j]
        BY DEF e
      <3> HIDE DEF paths
      <3> QED BY <3>3, <3>4, <3>5
    <2>6. \A j \in DOMAIN f : paths[j] = [of |-> Spend(f[j]), root |-> Anchor]
      OBVIOUS
    <2> HIDE DEF good, bad, paths
    <2>7. BoundMeta(meta)
      BY <1>1, BoundFromMeta
    <2>8. before /\ tg = PlacesOf(f, s) /\ Unwitnessed(pczt) = Range(s)
      BY <1>1, <2>3, <2>5, <2>7, RightTargets
    <2>9. /\ layout(res) = layout(pczt) /\ res.value_sum = pczt.value_sum
          /\ res.proof = None /\ res.anchor = Anchor
          /\ DOMAIN res.acts = DOMAIN pczt.acts
          /\ \A i \in DOMAIN pczt.acts : /\ res.acts[i].nf = pczt.acts[i].nf
                                         /\ res.acts[i].sig = pczt.acts[i].sig
          /\ \A i \in Rest(pczt, s) : res.acts[i].witness = pczt.acts[i].witness
          /\ \A j \in DOMAIN f : res.acts[s[f[j]]].witness = paths[j]
      <3>1. res = Updated(pczt, Anchor, tg, spends)
        OBVIOUS
      <3>2. /\ plan \in Plans /\ s \in Placements(plan, real_spend_count(plan))
            /\ IsPczt(pczt) /\ Placed(pczt, s) /\ pczt.proof = None
        BY <1>1, <2>3
      <3>3. PathList(spends, f, paths) /\ tg = PlacesOf(f, s)
        BY <2>5, <2>8
      <3> HIDE DEF res, tg, result, target, m, mm, after, before, n
      <3>4. /\ layout(res) = layout(pczt) /\ res.value_sum = pczt.value_sum
            /\ res.proof = pczt.proof /\ res.anchor = Anchor
            /\ DOMAIN res.acts = DOMAIN pczt.acts
            /\ \A i \in DOMAIN pczt.acts : /\ res.acts[i].nf = pczt.acts[i].nf
                                           /\ res.acts[i].sig = pczt.acts[i].sig
            /\ \A i \in Rest(pczt, s) : res.acts[i].witness = pczt.acts[i].witness
            /\ \A j \in DOMAIN f : res.acts[s[f[j]]].witness = paths[j]
        BY <3>1, <3>2, <3>3, UpdatedRole
      <3> QED BY <3>2, <3>4
    <2>10. IsPczt(res)
      BY <1>1, RolesPczt
    <2>11. /\ mm.witnessed = [j \in 1..n |-> <<Spend(f[j]), s[f[j]]>>]
           /\ mm.anchor = Anchor /\ BoundMeta(mm)
      <3>1. /\ mm.witnessed = [j \in DOMAIN spends |-> <<spends[j].nf, tg[j]>>]
            /\ mm.anchor = Anchor
            /\ mm.index = meta.index /\ mm.nf = meta.nf /\ mm.cmx = meta.cmx
            /\ mm.action_count = meta.action_count
            /\ mm.real_spend_count = meta.real_spend_count
            /\ mm.value_balance = meta.value_balance
        BY <1>1 DEF MetaBound, MetaFields
      <3> HIDE DEF mm, tg, n
      <3>2. BoundMeta(mm)
        BY <2>7, <3>1 DEF BoundMeta
      <3> QED BY <2>5, <2>8, <3>1, <3>2 DEF PlacesOf
    <2> HIDE DEF res, mm, tg, target, result, m, n, before
    <2>12. /\ Range(s) \subseteq DOMAIN pczt.acts
           /\ \A k \in DOMAIN s : s[k] \in DOMAIN pczt.acts
           /\ \A j \in DOMAIN f : f[j] \in DOMAIN s
           /\ \A k \in DOMAIN s : \E j \in DOMAIN f : f[j] = k
      BY <1>1, <2>3, PlacementFacts, OrderFacts DEF Placed, Range, n
    <2>13. /\ Placed(res, s) /\ LayoutKept(pczt, res) /\ Sighash(res) = Sighash(pczt)
           /\ Rest(res, s) = Rest(pczt, s)
      BY <1>1, <2>3, <2>9, <2>10, <2>12, PlacedKept
    <2>14. InstalledChecked(pczt, res, mm, tg, spends)
      <3>1. /\ AnchorKept(res, mm) /\ BalanceKept(res, mm)
            /\ verify_embedded_designated_action(res, mm)
        BY <1>1, <2>9, <2>11, <2>13, PlacedChecks DEF AnchorKept
      <3>2. \A j \in DOMAIN spends : res.acts[tg[j]].witness = spends[j].path
        BY <2>5, <2>8, <2>9 DEF PlacesOf
      <3>3. DOMAIN pczt.acts \ Unwitnessed(pczt) = Rest(pczt, s)
        BY <2>8 DEF Rest
      <3>4. \A i \in Rest(pczt, s) : i \in DOMAIN pczt.acts
        BY DEF Rest
      <3> QED BY <2>9, <2>13, <3>1, <3>2, <3>3, <3>4 DEF InstalledChecked
    <2>15. /\ stage' = "witnessed" /\ pczt' = res /\ meta' = mm /\ plan' = plan
      BY <1>3, <1>5, <2>8, <2>14 DEF Advance, res, mm, tg
    <2>16. Witnessed(res, s)
      <3>1. ASSUME NEW i \in Range(s)
            PROVE  res.acts[i].witness = [of |-> res.acts[i].nf, root |-> res.anchor]
        <4>1. PICK k \in DOMAIN s : i = s[k]
          BY DEF Range
        <4>2. PICK j \in DOMAIN f : f[j] = k
          BY <2>12
        <4>3. res.acts[i].nf = Spend(k)
          BY <2>13, <4>1 DEF Placed
        <4> QED BY <2>6, <2>9, <4>1, <4>2, <4>3
      <3>2. \A i \in Rest(res, s) : res.acts[i].witness # None /\ res.acts[i].witness.root = None
        BY <2>3, <2>9, <2>13 DEF Open
      <3> QED BY <2>9, <3>1, <3>2 DEF Witnessed
    <2>17. SignedAt(res, Rest(res, s))
      BY <2>3, <2>9, <2>13 DEF SignedAt
    <2>18. Placed(pczt, s)' /\ s \in Placements(plan, real_spend_count(plan))'
      BY <2>13, <2>15, SamePlan DEF n
    <2>19. Listed(meta, s)'
      <3>1. Listed(meta', s)
        BY <2>11, <2>15 DEF Listed, n
      <3> QED BY <2>15, <3>1, SamePlan
    <2>20. AsPlanned(s)'
      BY <2>9, <2>15, <2>16, <2>17, <2>18, <2>19 DEF AsPlanned
    <2> QED BY <1>3, <2>15, <2>18, <2>20 DEF CleanInv
  <1> QED BY <1>4, <1>5

\* Just the padding is signed, and the metadata lists the other actions.
LEMMA WitnessedFacts ==
    ASSUME NoneIsPlain, plan \in Plans, NEW s \in Placements(plan, real_spend_count(plan)),
           NEW p, Placed(p, s), Witnessed(p, s), SignedAt(p, Rest(p, s)),
           NEW m, BoundMeta(m), m.anchor = Anchor, Listed(m, s)
    PROVE  /\ Len(m.witnessed) = m.real_spend_count
           /\ RealActions(m) = Range(s) /\ Range(s) \subseteq DOMAIN p.acts
           /\ Cardinality(RealActions(m)) = m.real_spend_count
           /\ \A i \in Range(s) : p.acts[i].witness # None /\ p.acts[i].sig = None
           /\ SignedActions(p) = Rest(p, s)
           /\ Cardinality(SignedActions(p)) = m.action_count - m.real_spend_count
           /\ \A j, k \in DOMAIN m.witnessed :
                j # k => /\ m.witnessed[j][1] # m.witnessed[k][1]
                         /\ m.witnessed[j][2] # m.witnessed[k][2]
           /\ \A j \in DOMAIN m.witnessed :
                /\ m.witnessed[j][2] \in Range(s)
                /\ p.acts[m.witnessed[j][2]].nf = m.witnessed[j][1]
           /\ AnchorKept(p, m) /\ Provable(p)
  <1> DEFINE D == 0..(action_count(plan) - 1)
  <1>1. PICK f \in Orders :
          m.witnessed = [j \in 1..real_spend_count(plan) |-> <<Spend(f[j]), s[f[j]]>>]
    BY DEF Listed
  <1>2. /\ Len(m.witnessed) = real_spend_count(plan)
        /\ DOMAIN m.witnessed = DOMAIN f
        /\ \A j \in DOMAIN f : /\ f[j] \in DOMAIN s
                               /\ m.witnessed[j][1] = Spend(f[j])
                               /\ m.witnessed[j][2] = s[f[j]]
        /\ RealActions(m) = Range(s)
        /\ \A j, k \in DOMAIN m.witnessed :
             j # k => /\ m.witnessed[j][1] # m.witnessed[k][1]
                      /\ m.witnessed[j][2] # m.witnessed[k][2]
    BY <1>1, ListedFacts
  <1>3. /\ Range(s) \subseteq D /\ Cardinality(Range(s)) = real_spend_count(plan)
        /\ Cardinality(D \ Range(s)) = action_count(plan) - real_spend_count(plan)
    BY PlacementFacts
  <1>4. DOMAIN p.acts = D /\ Rest(p, s) = D \ Range(s)
    BY DEF Placed, Rest
  <1> HIDE DEF D
  <1>5. \A i \in DOMAIN p.acts : (i \in Rest(p, s) <=> i \notin Range(s))
    BY DEF Rest
  <1>6. SignedActions(p) = Rest(p, s)
    <2>1. \A i \in DOMAIN p.acts : p.acts[i].sig # None <=> i \in Rest(p, s)
      BY NoneIsNothing DEF SignedAt
    <2>2. Rest(p, s) \subseteq DOMAIN p.acts
      BY DEF Rest
    <2> QED BY <2>1, <2>2 DEF SignedActions
  <1>7. ASSUME NEW i \in Range(s)
        PROVE  /\ p.acts[i].witness # None /\ p.acts[i].sig = None
               /\ p.acts[i].witness = [of |-> p.acts[i].nf, root |-> p.anchor]
    <2>1. i \in DOMAIN p.acts /\ i \notin Rest(p, s)
      BY <1>3, <1>4, <1>5
    <2>2. p.acts[i].witness = [of |-> p.acts[i].nf, root |-> p.anchor]
      BY DEF Witnessed
    <2>3. p.acts[i].sig = None
      BY <2>1 DEF SignedAt
    <2> QED BY <2>2, <2>3, NoneIsNothing
  <1>8. \A j \in DOMAIN m.witnessed :
          /\ m.witnessed[j][2] \in Range(s)
          /\ p.acts[m.witnessed[j][2]].nf = m.witnessed[j][1]
    <2> SUFFICES ASSUME NEW j \in DOMAIN m.witnessed
                 PROVE  /\ m.witnessed[j][2] \in Range(s)
                        /\ p.acts[m.witnessed[j][2]].nf = m.witnessed[j][1]
      OBVIOUS
    <2>1. /\ f[j] \in DOMAIN s /\ m.witnessed[j][1] = Spend(f[j])
          /\ m.witnessed[j][2] = s[f[j]]
      BY <1>2
    <2>2. p.acts[s[f[j]]].nf = Spend(f[j])
      BY <2>1 DEF Placed
    <2> QED BY <2>1, <2>2 DEF Range
  <1>9. Provable(p)
    <2>1. \A i \in Rest(p, s) : p.acts[i].witness # None /\ p.acts[i].witness.root = None
      BY DEF Witnessed
    <2> QED BY <1>5, <1>7, <2>1 DEF Provable
  <1>10. p.anchor = Anchor
    BY DEF Witnessed
  <1> QED BY <1>2, <1>3, <1>4, <1>6, <1>7, <1>8, <1>9, <1>10 DEF BoundMeta, AnchorKept

LEMMA ProveClean ==
    ASSUME NoneIsPlain, BuilderInv, CleanInv, prove_names_ironwood_pczt
    PROVE  CleanInv'
  <1> DEFINE result == Proved(pczt)
             before == ProveChecked(pczt, meta) /\ Provable(pczt)
             after(r) == ProvedChecked(pczt, r, meta)
             m(r) == [meta EXCEPT !.proof_len = r.proof.len]
  <1>1. /\ stage = "witnessed" /\ plan \in Plans /\ MetaBound /\ IsPczt(pczt)
        /\ faults.role \in Nat /\ sound' = sound
    BY DEF prove_names_ironwood_pczt, BuilderInv, Begun, CleanInv
  <1>2. /\ ~before => faults' = faults
        /\ before => \E r \in Returns(result) :
                        /\ Noted(result, r)
                        /\ after(r) => Advance("proved", r, m(r))
    BY DEF prove_names_ironwood_pczt
  <1>3. /\ faults'.role \in Nat
        /\ NoFaults' => /\ NoFaults
                        /\ (before /\ after(result)) => Advance("proved", result, m(result))
    <2>1. CASE ~before
      BY <1>1, <1>2, <2>1 DEF NoFaults
    <2>2. CASE before
      <3>1. PICK r \in Returns(result) :
              Noted(result, r) /\ (after(r) => Advance("proved", r, m(r)))
        BY <1>2, <2>2
      <3>2. faults'.role \in Nat /\ (NoFaults' => NoFaults /\ r = result)
        BY <1>1, <3>1, NothingNoted
      <3> HIDE DEF result, before, after, m
      <3> QED BY <3>1, <3>2
    <2> QED BY <2>1, <2>2
  <1>4. CASE ~(sound' /\ NoFaults')
    BY <1>3, <1>4, Unclean
  <1>5. CASE sound' /\ NoFaults'
    <2>1. PICK s \in Placements(plan, real_spend_count(plan)) : AsPlanned(s)
      BY <1>1, <1>3, <1>5 DEF CleanInv
    <2>2. /\ Placed(pczt, s) /\ Witnessed(pczt, s) /\ Listed(meta, s)
          /\ SignedAt(pczt, Rest(pczt, s)) /\ pczt.proof = None
      BY <1>1, <2>1 DEF AsPlanned
    <2>3. BoundMeta(meta) /\ meta.anchor = Anchor
      BY <1>1, BoundFromMeta DEF MetaBound
    <2>4. /\ Len(meta.witnessed) = meta.real_spend_count
          /\ RealActions(meta) = Range(s) /\ Range(s) \subseteq DOMAIN pczt.acts
          /\ Cardinality(RealActions(meta)) = meta.real_spend_count
          /\ \A i \in Range(s) : pczt.acts[i].witness # None /\ pczt.acts[i].sig = None
          /\ SignedActions(pczt) = Rest(pczt, s)
          /\ Cardinality(SignedActions(pczt)) = meta.action_count - meta.real_spend_count
          /\ AnchorKept(pczt, meta) /\ Provable(pczt)
      BY <1>1, <2>2, <2>3, WitnessedFacts
    <2>5. before
      <3>1. /\ LayoutReadable(pczt) /\ CountKept(pczt, meta) /\ BalanceKept(pczt, meta)
            /\ verify_embedded_designated_action(pczt, meta)
        BY <1>1, <2>2, <2>3, PlacedChecks
      <3> QED BY <2>2, <2>4, <3>1 DEF ProveChecked
    <2>6. /\ result.acts = pczt.acts /\ result.value_sum = pczt.value_sum
          /\ result.anchor = pczt.anchor /\ result.proof = ProofOf(pczt)
      BY <1>1 DEF Proved, IsPczt, PcztFields
    <2>7. IsPczt(result)
      BY <1>1, RolesPczt
    <2> HIDE DEF result
    <2>8. layout(result) = layout(pczt)
      BY <2>6 DEF layout
    <2>9. \A k \in DOMAIN s : s[k] \in DOMAIN pczt.acts
      BY <2>4 DEF Range
    <2>10. /\ Placed(result, s) /\ LayoutKept(pczt, result) /\ Sighash(result) = Sighash(pczt)
           /\ Rest(result, s) = Rest(pczt, s)
      BY <1>1, <2>2, <2>6, <2>7, <2>8, <2>9, PlacedKept
    <2>11. result.proof # None /\ result.proof.len = 1 /\ result.proof = ProofOf(result)
      <3>1. ProofOf(result) = ProofOf(pczt)
        BY <2>6, <2>8 DEF ProofOf
      <3>2. ProofOf(pczt).len = 1 /\ ProofOf(pczt) # None
        BY NoneIsNothing DEF ProofOf
      <3> QED BY <2>6, <3>1, <3>2
    <2>12. after(result)
      <3>1. verify_embedded_designated_action(result, meta)
        BY <1>1, <2>3, <2>10, PlacedChecks
      <3>2. AnchorKept(result, meta)
        BY <2>4, <2>6 DEF AnchorKept
      <3>3. DummySignaturesKept(pczt, result)
        BY <2>6 DEF DummySignaturesKept
      <3> QED BY <2>4, <2>6, <2>10, <2>11, <3>1, <3>2, <3>3 DEF ProvedChecked
    <2>13. /\ stage' = "proved" /\ pczt' = result /\ meta' = m(result) /\ plan' = plan
      BY <1>3, <1>5, <2>5, <2>12 DEF Advance
    <2>14. meta'.witnessed = meta.witnessed /\ meta'.proof_len = 1
      BY <1>1, <2>11, <2>13 DEF MetaBound, MetaFields
    <2>15. Listed(meta, s)'
      <3>1. Listed(meta', s)
        BY <2>2, <2>14 DEF Listed
      <3> QED BY <2>13, <3>1, SamePlan
    <2>16. Witnessed(result, s) /\ SignedAt(result, Rest(result, s))
      BY <2>2, <2>6, <2>10 DEF Witnessed, SignedAt
    <2>17. Placed(pczt, s)' /\ s \in Placements(plan, real_spend_count(plan))'
      BY <2>10, <2>13, SamePlan
    <2>18. AsPlanned(s)'
      BY <2>11, <2>13, <2>14, <2>15, <2>16, <2>17 DEF AsPlanned
    <2> QED BY <1>3, <2>13, <2>17, <2>18 DEF CleanInv
  <1> QED BY <1>4, <1>5

\* Among the listed spends a nullifier leads to the place of its spend.
LEMMA ListedPlaces ==
    ASSUME plan \in Plans, NEW s \in Placements(plan, real_spend_count(plan)),
           NEW m, Listed(m, s)
    PROVE  /\ RealActions(m) = Range(s)
           /\ \A k \in DOMAIN s : \E w \in Range(m.witnessed) : w[1] = Spend(k)
           /\ \A k \in DOMAIN s : \A w \in Range(m.witnessed) : w[1] = Spend(k) => w[2] = s[k]
  <1>1. PICK g \in Orders :
          m.witnessed = [j \in 1..real_spend_count(plan) |-> <<Spend(g[j]), s[g[j]]>>]
    BY DEF Listed
  <1>2. RealActions(m) = Range(s)
    BY <1>1, ListedFacts
  <1>3. ASSUME NEW k \in DOMAIN s
        PROVE  \E w \in Range(m.witnessed) : w[1] = Spend(k)
    <2>1. DOMAIN m.witnessed = DOMAIN g /\ \A j \in DOMAIN g : m.witnessed[j][1] = Spend(g[j])
      BY <1>1, ListedFacts
    <2>2. PICK j \in DOMAIN g : g[j] = k
      BY OrderFacts, PlacementFacts
    <2> QED BY <2>1, <2>2 DEF Range
  <1>4. \A k \in DOMAIN s : \A w \in Range(m.witnessed) : w[1] = Spend(k) => w[2] = s[k]
    BY <1>1, ListedFacts
  <1> QED BY <1>2, <1>3, <1>4

\* A right signing list finds each of its spends among the witnessed ones.
LEMMA RightKeys ==
    ASSUME plan \in Plans, NEW s \in Placements(plan, real_spend_count(plan)),
           NEW m, BoundMeta(m), Listed(m, s), NEW f \in Orders,
           NEW spends, DOMAIN spends = DOMAIN f, Len(spends) = real_spend_count(plan),
           \A j \in DOMAIN f : spends[j].nf = Spend(f[j])
    PROVE  KeysChecked(m, spends) /\ Range(SigningTargets(m, spends)) = Range(s)
  <1> DEFINE target == SigningTargets(m, spends)
  <1>2. /\ RealActions(m) = Range(s)
        /\ \A k \in DOMAIN s : \E w \in Range(m.witnessed) : w[1] = Spend(k)
        /\ \A k \in DOMAIN s : \A w \in Range(m.witnessed) : w[1] = Spend(k) => w[2] = s[k]
    BY ListedPlaces
  <1>3. /\ IsInjective(f) /\ \A j \in DOMAIN f : f[j] \in DOMAIN s
        /\ \A k \in DOMAIN s : \E j \in DOMAIN f : f[j] = k
        /\ IsInjective(s)
    BY OrderFacts, PlacementFacts
  <1>4. ASSUME NEW j \in DOMAIN f
        PROVE  /\ \E w \in Range(m.witnessed) : w[1] = spends[j].nf
               /\ (CHOOSE w \in Range(m.witnessed) : w[1] = spends[j].nf)[2] = s[f[j]]
    <2>1. f[j] \in DOMAIN s /\ spends[j].nf = Spend(f[j])
      BY <1>3
    <2>2. \E w \in Range(m.witnessed) : w[1] = spends[j].nf
      BY <1>2, <2>1
    <2> DEFINE c == CHOOSE w \in Range(m.witnessed) : w[1] = spends[j].nf
    <2>3. c \in Range(m.witnessed) /\ c[1] = spends[j].nf
      BY <2>2
    <2> HIDE DEF c
    <2>4. c[2] = s[f[j]]
      BY <1>2, <2>1, <2>3
    <2> QED BY <2>2, <2>4 DEF c
  <1>5. DOMAIN target = DOMAIN f /\ \A j \in DOMAIN f : target[j] = s[f[j]]
    BY <1>4 DEF SigningTargets
  <1>6. \A j \in DOMAIN spends : \E w \in Range(m.witnessed) : w[1] = spends[j].nf
    BY <1>4
  <1> HIDE DEF target
  <1>7. IsInjective(target) /\ Range(target) = Range(s)
    <2>1. IsInjective(target)
      BY <1>3, <1>5 DEF IsInjective
    <2>2. Range(target) = Range(s)
      BY <1>3, <1>5 DEF Range
    <2> QED BY <2>1, <2>2
  <1>8. CoversExactly(target, RealActions(m))
    BY <1>2, <1>7 DEF CoversExactly
  <1> QED BY <1>6, <1>7, <1>8 DEF KeysChecked, BoundMeta, target

\* The Signer signs the real spends and leaves the padding's signatures.
LEMMA SignedRole ==
    ASSUME NEW p, NEW s, IsPczt(p), SignedAt(p, Rest(p, s)), NEW target,
           Range(target) = Range(s), NEW spends, NEW r, r = Signed(p, target, spends)
    PROVE  /\ layout(r) = layout(p) /\ r.value_sum = p.value_sum
           /\ r.proof = p.proof /\ r.anchor = p.anchor
           /\ DOMAIN r.acts = DOMAIN p.acts /\ SignedAt(r, DOMAIN r.acts)
           /\ \A i \in DOMAIN p.acts :
                /\ r.acts[i].nf = p.acts[i].nf /\ r.acts[i].witness = p.acts[i].witness
                /\ i \in Rest(p, s) => r.acts[i].sig = p.acts[i].sig
  <1> DEFINE sig(i) == [key |-> p.acts[i].nf, over |-> Sighash(p)]
  <1>1. /\ DOMAIN p = PcztFields /\ \A i \in DOMAIN p.acts : IsAct(p.acts[i])
    BY DEF IsPczt
  <1>2. /\ DOMAIN r.acts = DOMAIN p.acts /\ r.value_sum = p.value_sum /\ r.proof = p.proof
        /\ r.anchor = p.anchor
        /\ \A i \in DOMAIN p.acts :
             r.acts[i] = IF i \in Range(s) THEN [p.acts[i] EXCEPT !.sig = sig(i)] ELSE p.acts[i]
    BY <1>1 DEF Signed, PcztFields
  <1>3. \A i \in DOMAIN p.acts :
          /\ i \in Rest(p, s) <=> i \notin Range(s)
          /\ i \in Rest(p, s) => p.acts[i].sig = sig(i)
    BY DEF SignedAt, Rest
  <1> HIDE DEF sig
  <1>4. ASSUME NEW i \in DOMAIN p.acts
        PROVE  /\ r.acts[i].nf = p.acts[i].nf /\ r.acts[i].cmx = p.acts[i].cmx
               /\ r.acts[i].witness = p.acts[i].witness /\ r.acts[i].sig = sig(i)
    <2>1. IsAct(p.acts[i])
      BY <1>1
    <2> QED BY <1>2, <1>3, <2>1 DEF IsAct
  <1>5. layout(r) = layout(p)
    BY <1>2, <1>4 DEF layout
  <1>6. SignedAt(r, DOMAIN r.acts)
    <2>1. Sighash(r) = Sighash(p)
      BY <1>2, <1>5 DEF Sighash
    <2> QED BY <1>2, <1>4, <2>1 DEF SignedAt, sig
  <1> QED BY <1>2, <1>3, <1>4, <1>5, <1>6

\* When every action is signed, as many are as the plan has.
LEMMA AllSigned ==
    ASSUME NoneIsPlain, plan \in Plans, NEW p, NEW s, Placed(p, s), NEW m, BoundMeta(m),
           SignedAt(p, DOMAIN p.acts)
    PROVE  /\ Cardinality(SignedActions(p)) = m.action_count
           /\ \A i \in DOMAIN p.acts : p.acts[i].sig # None
  <1>1. SignedActions(p) = DOMAIN p.acts
    BY NoneIsNothing DEF SignedActions, SignedAt
  <1>2. CountKept(p, m)
    BY PlacedChecks
  <1> QED BY <1>1, <1>2 DEF CountKept, Count, SignedActions

LEMMA SignClean ==
    ASSUME NoneIsPlain, BuilderInv, CleanInv, sign_names_ironwood_pczt
    PROVE  CleanInv'
  <1> DEFINE keys(spends) == \A j \in DOMAIN spends : spends[j].ask = spends[j].nf
             before(spends) == /\ SignChecked(pczt, meta) /\ KeysChecked(meta, spends)
                               /\ keys(spends)
             result(spends) == Signed(pczt, SigningTargets(meta, spends), spends)
             after(r) == SignedChecked(pczt, r, meta)
  <1>1. /\ stage = "proved" /\ plan \in Plans /\ MetaBound /\ IsPczt(pczt)
        /\ faults.role \in Nat
    BY DEF sign_names_ironwood_pczt, BuilderInv, Begun, CleanInv
  <1>2. PICK spends \in SigningLists.right \cup SigningLists.wrong :
          /\ sound' = (sound /\ spends \in SigningLists.right)
          /\ ~before(spends) => faults' = faults
          /\ before(spends) =>
               \E r \in Returns(result(spends)) :
                  /\ Noted(result(spends), r)
                  /\ after(r) => Advance("signed", r, meta)
    BY DEF sign_names_ironwood_pczt
  <1> DEFINE pre == before(spends)
             res == result(spends)
             tg == SigningTargets(meta, spends)
  <1>3. /\ faults'.role \in Nat
        /\ NoFaults' => /\ NoFaults
                        /\ (pre /\ after(res)) => Advance("signed", res, meta)
    <2>1. CASE ~pre
      BY <1>1, <1>2, <2>1 DEF NoFaults
    <2>2. CASE pre
      <3>1. PICK r \in Returns(res) :
              Noted(res, r) /\ (after(r) => Advance("signed", r, meta))
        BY <1>2, <2>2
      <3>2. faults'.role \in Nat /\ (NoFaults' => NoFaults /\ r = res)
        BY <1>1, <3>1, NothingNoted
      <3> HIDE DEF res, pre, after
      <3> QED BY <3>1, <3>2
    <2> QED BY <2>1, <2>2
  <1>4. CASE ~(sound' /\ NoFaults')
    BY <1>3, <1>4, Unclean
  <1>5. CASE sound' /\ NoFaults'
    <2> DEFINE good == [nf \in Named |-> [nf |-> nf, ask |-> nf]]
               bad == [nf \in Named |-> [nf |-> nf, ask |-> Odd]]
               n == real_spend_count(plan)
    <2>1. sound /\ spends \in SigningLists.right
      BY <1>2, <1>5
    <2>2. PICK s \in Placements(plan, n) : AsPlanned(s)
      BY <1>1, <1>3, <1>5, <2>1 DEF CleanInv
    <2>3. /\ Placed(pczt, s) /\ Witnessed(pczt, s) /\ Listed(meta, s)
          /\ SignedAt(pczt, Rest(pczt, s))
          /\ pczt.proof = ProofOf(pczt) /\ meta.proof_len = 1
      BY <1>1, <2>2 DEF AsPlanned
    <2>4. PICK f \in Orders : RightList(spends, good, f)
      <3>1. SigningLists = Lists(good, bad) /\ \A x \in Named : good[x].nf = x
        BY DEF SigningLists
      <3> HIDE DEF good, bad
      <3> QED BY <1>1, <2>1, <3>1, RightLists
    <2>5. /\ DOMAIN spends = DOMAIN f /\ Len(spends) = n
          /\ \A j \in DOMAIN f : spends[j].nf = Spend(f[j]) /\ spends[j].ask = spends[j].nf
      <3>1. /\ spends = [j \in 1..n |-> good[Spend(f[j])]] /\ DOMAIN f = 1..n
            /\ \A j \in DOMAIN f : Spend(f[j]) \in Named
        BY <2>4 DEF RightList
      <3>2. \A x \in Named : good[x].nf = x /\ good[x].ask = x
        OBVIOUS
      <3>3. n \in Nat
        BY <1>1, PlanCounts
      <3> HIDE DEF good, n
      <3>4. Len(spends) = n
        <4>1. spends \in Seq({good[Spend(f[j])] : j \in 1..n})
          BY <3>1, <3>3
        <4>2. DOMAIN spends = 1..n
          BY <3>1
        <4> QED BY <3>3, <4>1, <4>2
      <3> QED BY <3>1, <3>2, <3>4
    <2> HIDE DEF good, bad
    <2>6. BoundMeta(meta) /\ meta.anchor = Anchor
      BY <1>1, BoundFromMeta DEF MetaBound
    <2>7. KeysChecked(meta, spends) /\ Range(tg) = Range(s)
      BY <1>1, <2>3, <2>5, <2>6, RightKeys
    <2>8. /\ Len(meta.witnessed) = meta.real_spend_count
          /\ RealActions(meta) = Range(s) /\ Range(s) \subseteq DOMAIN pczt.acts
          /\ \A i \in Range(s) : pczt.acts[i].witness # None /\ pczt.acts[i].sig = None
          /\ SignedActions(pczt) = Rest(pczt, s)
          /\ Cardinality(SignedActions(pczt)) = meta.action_count - meta.real_spend_count
          /\ \A j, k \in DOMAIN meta.witnessed :
               j # k => /\ meta.witnessed[j][1] # meta.witnessed[k][1]
                        /\ meta.witnessed[j][2] # meta.witnessed[k][2]
          /\ \A j \in DOMAIN meta.witnessed :
               /\ meta.witnessed[j][2] \in Range(s)
               /\ pczt.acts[meta.witnessed[j][2]].nf = meta.witnessed[j][1]
          /\ AnchorKept(pczt, meta)
      BY <1>1, <2>3, <2>6, WitnessedFacts
    <2>9. pczt.proof # None /\ pczt.proof.len = 1
      BY <2>3, NoneIsNothing DEF ProofOf
    <2>10. pre
      <3>1. /\ LayoutReadable(pczt) /\ CountKept(pczt, meta) /\ BalanceKept(pczt, meta)
            /\ verify_embedded_designated_action(pczt, meta)
        BY <1>1, <2>3, <2>6, PlacedChecks
      <3>2. SignChecked(pczt, meta)
        BY <2>3, <2>8, <2>9, <3>1 DEF SignChecked
      <3> QED BY <2>5, <2>7, <3>2
    <2>11. res = Signed(pczt, tg, spends)
      OBVIOUS
    <2>12. IsPczt(res)
      BY <1>1, RolesPczt
    <2> HIDE DEF res, tg, result, n, pre, before
    <2>13. /\ layout(res) = layout(pczt) /\ res.value_sum = pczt.value_sum
           /\ res.proof = pczt.proof /\ res.anchor = pczt.anchor
           /\ DOMAIN res.acts = DOMAIN pczt.acts /\ SignedAt(res, DOMAIN res.acts)
           /\ \A i \in DOMAIN pczt.acts :
                /\ res.acts[i].nf = pczt.acts[i].nf
                /\ res.acts[i].witness = pczt.acts[i].witness
                /\ i \in Rest(pczt, s) => res.acts[i].sig = pczt.acts[i].sig
      BY <1>1, <2>3, <2>7, <2>11, SignedRole
    <2>14. \A k \in DOMAIN s : s[k] \in DOMAIN pczt.acts
      BY <2>8 DEF Range
    <2>15. /\ Placed(res, s) /\ LayoutKept(pczt, res) /\ Sighash(res) = Sighash(pczt)
           /\ Rest(res, s) = Rest(pczt, s) /\ Rest(pczt, s) \subseteq DOMAIN pczt.acts
      BY <1>1, <2>3, <2>12, <2>13, <2>14, PlacedKept DEF Rest
    <2>16. /\ Cardinality(SignedActions(res)) = meta.action_count
           /\ \A i \in DOMAIN res.acts : res.acts[i].sig # None
      BY <1>1, <2>6, <2>13, <2>15, AllSigned
    <2>17. after(res)
      <3>1. verify_embedded_designated_action(res, meta)
        BY <1>1, <2>6, <2>15, PlacedChecks
      <3>2. DummySignaturesKept(pczt, res)
        BY <2>8, <2>13, <2>15 DEF DummySignaturesKept
      <3>3. \A i \in RealActions(meta) : res.acts[i].witness # None /\ res.acts[i].sig # None
        BY <2>8, <2>13, <2>16
      <3> QED BY <2>13, <2>15, <2>16, <3>1, <3>2, <3>3 DEF SignedChecked
    <2>18. /\ stage' = "signed" /\ pczt' = res /\ meta' = meta /\ plan' = plan
      BY <1>3, <1>5, <2>10, <2>17 DEF Advance
    <2>19. Witnessed(res, s)
      BY <2>3, <2>8, <2>13, <2>15 DEF Witnessed
    <2>20. res.proof = ProofOf(res)
      BY <2>3, <2>13 DEF ProofOf
    <2>21. Placed(pczt, s)' /\ s \in Placements(plan, real_spend_count(plan))' /\ Listed(meta, s)'
      BY <2>3, <2>15, <2>18, SamePlan DEF n
    <2>22. AsPlanned(s)'
      BY <2>3, <2>13, <2>18, <2>19, <2>20, <2>21 DEF AsPlanned
    <2> QED BY <1>3, <2>18, <2>21, <2>22 DEF CleanInv
  <1> QED BY <1>4, <1>5

\* The balance that the extractor reads back is the balance that was written.
LEMMA BalanceReadBack ==
    ASSUME NEW balance \in Int, NEW parts, parts = value_sum_parts(balance)
    PROVE  (IF parts[2] THEN -parts[1] ELSE parts[1]) = balance
  <1>1. CASE balance < 0
    BY <1>1 DEF value_sum_parts
  <1>2. CASE ~(balance < 0)
    BY <1>2 DEF value_sum_parts
  <1> QED BY <1>1, <1>2

LEMMA BalanceIsInt == plan \in Plans => value_balance(plan) \in Int
  <1> SUFFICES ASSUME plan \in Plans PROVE value_balance(plan) \in Int
    OBVIOUS
  <1>1. /\ plan.funding \in Int /\ plan.carriers \in Int /\ plan.change \in Int
        /\ plan.bond_in \in Int /\ plan.bond_out \in Int /\ plan.carrier_value \in Int
    BY PlansAssumption
  <1>2. plan.carriers * plan.carrier_value \in Int
    BY <1>1
  <1> QED BY <1>1, <1>2 DEF value_balance, FundingValue, ChangeValue

LEMMA ExtractClean ==
    ASSUME NoneIsPlain, BuilderInv, CleanInv, extract_names_transaction
    PROVE  CleanInv'
  <1> DEFINE before == ExtractChecked(pczt, meta) /\ Authorized(pczt)
             after(r) == ExtractedChecked(pczt, TransactionOf(r), meta)
  <1>1. /\ stage = "signed" /\ plan \in Plans /\ MetaBound /\ IsPczt(pczt)
        /\ faults.role \in Nat /\ sound' = sound
    BY DEF extract_names_transaction, BuilderInv, Begun, CleanInv
  <1>2. /\ ~before => faults' = faults
        /\ before => \E r \in Returns(pczt) :
                        /\ Noted(pczt, r)
                        /\ after(r) => stage' = "extracted"
    BY DEF extract_names_transaction
  <1>3. /\ faults'.role \in Nat
        /\ NoFaults' => NoFaults /\ ((before /\ after(pczt)) => stage' = "extracted")
    <2>1. CASE ~before
      BY <1>1, <1>2, <2>1 DEF NoFaults
    <2>2. CASE before
      <3>1. PICK r \in Returns(pczt) : Noted(pczt, r) /\ (after(r) => stage' = "extracted")
        BY <1>2, <2>2
      <3>2. faults'.role \in Nat /\ (NoFaults' => NoFaults /\ r = pczt)
        BY <1>1, <3>1, NothingNoted
      <3> HIDE DEF before, after
      <3> QED BY <3>1, <3>2
    <2> QED BY <2>1, <2>2
  <1>4. CASE ~(sound' /\ NoFaults')
    BY <1>3, <1>4, Unclean
  <1>5. CASE sound' /\ NoFaults'
    <2>1. PICK s \in Placements(plan, real_spend_count(plan)) : AsPlanned(s)
      BY <1>1, <1>3, <1>5 DEF CleanInv
    <2>2. /\ Placed(pczt, s) /\ Witnessed(pczt, s) /\ SignedAt(pczt, DOMAIN pczt.acts)
          /\ pczt.proof = ProofOf(pczt) /\ meta.proof_len = 1
      BY <1>1, <2>1 DEF AsPlanned
    <2>3. BoundMeta(meta) /\ meta.anchor = Anchor /\ pczt.anchor = Anchor
      BY <1>1, <2>2, BoundFromMeta DEF MetaBound, Witnessed
    <2>4. pczt.proof # None /\ pczt.proof.len = 1
      BY <2>2, NoneIsNothing DEF ProofOf
    <2>5. /\ DesignatedOnce(layout(pczt), meta) /\ LayoutReadable(pczt)
          /\ CountKept(pczt, meta) /\ BalanceKept(pczt, meta)
          /\ verify_embedded_designated_action(pczt, meta)
      BY <1>1, <2>2, <2>3, PlacedChecks
    <2>6. Cardinality(SignedActions(pczt)) = meta.action_count
      BY <1>1, <2>2, <2>3, AllSigned
    <2>7. Authorized(pczt)
      BY <2>2, <2>4 DEF Authorized, SignedAt
    <2>8. before
      BY <2>2, <2>3, <2>4, <2>5, <2>6, <2>7 DEF ExtractChecked, AnchorKept
    <2>9. after(pczt)
      <3> DEFINE t == TransactionOf(pczt)
      <3>1. /\ t.layout = layout(pczt) /\ t.anchor = pczt.anchor /\ t.proof = pczt.proof
            /\ t.value_balance = IF pczt.value_sum[2] THEN -pczt.value_sum[1]
                                                      ELSE pczt.value_sum[1]
        BY DEF TransactionOf
      <3> HIDE DEF t
      <3>2. t.value_balance = meta.value_balance
        <4>1. value_balance(plan) \in Int /\ pczt.value_sum = value_sum_parts(value_balance(plan))
          BY <1>1, <2>2, BalanceIsInt DEF Placed
        <4>2. t.value_balance = value_balance(plan)
          BY <3>1, <4>1, BalanceReadBack
        <4> QED BY <2>3, <4>2 DEF BoundMeta
      <3> QED BY <2>3, <2>4, <2>5, <3>1, <3>2 DEF ExtractedChecked, t
    <2>10. stage' = "extracted"
      BY <1>3, <1>5, <2>8, <2>9
    <2> QED BY <1>3, <2>10 DEF CleanInv
  <1> QED BY <1>4, <1>5

LEMMA CleanStep == NoneIsPlain /\ BuilderInv /\ CleanInv /\ [Next]_vars => CleanInv'
  <1> SUFFICES ASSUME NoneIsPlain, BuilderInv, CleanInv, [Next]_vars PROVE CleanInv'
    OBVIOUS
  <1>1. CASE UNCHANGED vars
    <2>1. /\ stage' = stage /\ plan' = plan /\ pczt' = pczt /\ meta' = meta
          /\ sound' = sound /\ faults' = faults
      BY <1>1 DEF vars
    <2>2. ASSUME NEW s, AsPlanned(s)
          PROVE  AsPlanned(s)'
      <3>1. /\ Placed(pczt, s)' = Placed(pczt, s) /\ Open(pczt, s)' = Open(pczt, s)
            /\ Witnessed(pczt, s)' = Witnessed(pczt, s) /\ Rest(pczt, s)' = Rest(pczt, s)
            /\ Listed(meta, s)' = Listed(meta, s)
        BY <2>1 DEF Placed, Open, Witnessed, Rest, Listed, Orders
      <3>2. /\ SignedAt(pczt, {})' = SignedAt(pczt, {})
            /\ SignedAt(pczt, Rest(pczt, s))' = SignedAt(pczt, Rest(pczt, s))
            /\ SignedAt(pczt, DOMAIN pczt.acts)' = SignedAt(pczt, DOMAIN pczt.acts)
            /\ ProofOf(pczt)' = ProofOf(pczt)
        BY <2>1 DEF SignedAt, Rest, ProofOf
      <3> QED BY <2>1, <2>2, <3>1, <3>2 DEF AsPlanned
    <2>3. Placements(plan, real_spend_count(plan))' = Placements(plan, real_spend_count(plan))
      BY <2>1
    <2> QED BY <2>1, <2>2, <2>3 DEF CleanInv, NoFaults
  <1>2. CASE HandOver
    <2>1. faults' = [faults EXCEPT !.hand = @ + 1]
      BY <1>2 DEF HandOver
    <2>2. DOMAIN faults = {"role", "hand"} /\ faults.hand \in Nat /\ faults.role \in Nat
      BY DEF BuilderInv, CleanInv
    <2>3. faults'.role \in Nat /\ faults'.hand # 0
      BY <2>1, <2>2
    <2> QED BY <2>3, Unclean DEF NoFaults
  <1> QED BY <1>1, <1>2, BundleClean, EmbedClean, FinalizeClean, InstallClean, ProveClean,
             SignClean, ExtractClean
          DEF Next, Ended

LEMMA VerdictsInit == Init => SoundInv /\ CleanInv
  BY DEF Init, SoundInv, CleanInv

\* A verdict of the pipeline always has its cause.  Whatever is altered, however
\* often, and in whichever role or handover: when extract_names_transaction
\* returns a transaction, every plan and list handed in was right, and when a
\* wrapper refuses, one was wrong or something was altered.  So no check of the
\* seven wrappers refuses what the roles before it made of a right plan.
THEOREM VerdictsHaveCauses == ASSUME NoneIsPlain PROVE Spec => []VerdictHasCause
  <1>1. BuilderInv /\ SoundInv /\ CleanInv => VerdictHasCause
    <2> SUFFICES ASSUME BuilderInv, SoundInv, CleanInv PROVE VerdictHasCause
      OBVIOUS
    <2>1. stage = "extracted" => sound
      BY DEF SoundInv
    <2>2. faults.role \in Nat /\ faults.hand \in Nat
      BY DEF BuilderInv, CleanInv
    <2>3. stage = "refused" => ~sound \/ ~NoFaults
      BY DEF CleanInv
    <2>4. ~NoFaults => faults.role + faults.hand > 0
      BY <2>2 DEF NoFaults
    <2> QED BY <2>1, <2>3, <2>4 DEF VerdictHasCause
  <1> QED BY <1>1, BuilderInit, BuilderStep, VerdictsInit, SoundStep, CleanStep, PTL DEF Spec
=============================================================================
