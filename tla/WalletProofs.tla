---------------------------- MODULE WalletProofs ----------------------------
(***************************************************************************)
(* What the wallet prepares is what the reducer takes, for every value of  *)
(* the parameters, every chain and every order of preparing, mining and    *)
(* reorganizing.                                                           *)
(*                                                                         *)
(* The wallet judges a plan by the head it sees and the reducer by the     *)
(* head it has when the plan is mined.  Two facts connect them: every head *)
(* the reducer has, or can return to, was opened by its proof and is the   *)
(* one its producer's txid names, and every plan was prepared on such a    *)
(* head.                                                                   *)
(***************************************************************************)
EXTENDS WalletPlans, ReducerProofs

-----------------------------------------------------------------------------
(***************************************************************************)
(* The invariant.                                                          *)
(***************************************************************************)
\* The verifiers accept exactly the proofs of true statements.
CircuitsExact ==
    \A st, proof : /\ VerifyReveal(st, proof) <=> RevealHolds(st, proof)
                   /\ VerifyRefresh(st, proof) <=> RefreshHolds(st, proof)

\* The bond note behind a head.
BondOf(head) == head.commitment.note

\* The head is what its producer's txid names; the proof that installed it
\* opened its bond; a bond of the wallet is of this name and of the epoch the
\* head was produced in.
SoundHead(name, head) ==
    /\ head.commitment =
         head.producer.txid.actions[head.producer.action_index + 1].commitment
    /\ head.future_nf = head.producer.txid.operation.successor_future_nf
    /\ OpensTo(head.commitment, head.future_nf, BondOf(head).key)
    /\ BondOf(head).key \in WalletKeys =>
          BondOf(head).key.name = name /\ BondOf(head).epoch = head.producer_epoch

CommitPlan(plan) ==
    \E s \in Seeds, n \in NameIds, h \in Height :
        CommitPreparable(n, h) /\ plan = prepare_commit(s, n, h)

RevealPlan(plan) ==
    \E s \in Seeds, n \in NameIds, h \in Height, ua \in Uas, i \in Height,
       note \in WalletNotes, r \in CommitRef :
        /\ RevealPreparable(n, r, h, note)
        /\ plan = prepare_reveal(s, n, r, ua, h, i, note)

\* The head the plan was prepared on need not be there any more.
RefreshPlan(plan) ==
    \E s \in Seeds, n \in NameIds, h \in Height, ua \in Uas, i \in Height :
        \E note, head :
            /\ SoundHead(n, head)
            /\ head.producer_epoch = epoch(head.producer.height)
            /\ RefreshPreparable(s, n, head, note, h)
            /\ plan = prepare_refresh(s, n, head, note, ua, h, i)

PlansInv == \A plan \in plans : CommitPlan(plan) \/ RevealPlan(plan) \/ RefreshPlan(plan)

HeadsSound(v) == \A n \in DOMAIN v.heads : SoundHead(n, v.heads[n])

SoundInv == HeadsSound(View) /\ \A v \in Elems(trail) : HeadsSound(v)

BlockInv == block # None => Mineable(block)

WalletInv == FullInv /\ SoundInv /\ PlansInv /\ BlockInv

\* The wallet's steps are steps of the reducer with its trail, or none.
LEMMA WNextIsHNext == [WNext]_wvars => [HNext]_hvars
  BY DEF WNext, HNext, PrepareCommit, PrepareReveal, PrepareRefresh, Prepared, WBeginBlock,
         WApplyTransaction, WEndBlock, WRollbackTip, WFinalizeThrough, wvars, hvars, vars

-----------------------------------------------------------------------------
(***************************************************************************)
(* The fields of a plan.                                                   *)
(***************************************************************************)
LEMMA CommitPlanFields ==
    ASSUME NEW s, NEW n, NEW h
    PROVE  LET p == prepare_commit(s, n, h)
           IN  /\ p.operation.kind = "Commit" /\ p.operation_height = h
               /\ p.operation.commitment = derive_commit_opening(derive_name_spending_key(s, n), n, epoch(h))
               /\ p.operation.commitment.name = n
               /\ p.operation.commitment.owner.seed = s
  BY DEF prepare_commit, derive_commit_opening, derive_name_spending_key

\* Both successors are bonds of the plan's key and epoch.
LEMMA SuccessorFields ==
    ASSUME NEW key, NEW reference, NEW e, NEW ua, NEW i, NEW nf
    PROVE  \A note \in {derive_reveal_bond_note(key, reference, e, ua, i, nf),
                        derive_refresh_bond_note(key, reference, e, ua, i, nf)} :
              /\ note.key = key /\ note.value = BOND_ZATOSHIS /\ note.epoch = e
              /\ note.rho = nf
              /\ CommitmentOf(note).note = note
              /\ OpensTo(CommitmentOf(note), NullifierOf(note, key), key)
  BY DEF derive_reveal_bond_note, derive_refresh_bond_note, derive_bond_note,
         CommitmentOf, NullifierOf, OpensTo

\* A plan that is no COMMIT, by what its proof says and what it creates.
LEMMA PlanProof ==
    ASSUME NEW plan, RevealPlan(plan) \/ RefreshPlan(plan)
    PROVE  LET op == plan.operation
               st == op.proof.statement
               N  == plan.successor
           IN  /\ op.kind \in {"Reveal", "Refresh"} /\ op.name \in NameIds
               /\ op.proof.key.seed \in Seeds
               /\ op.proof.key = derive_name_spending_key(op.proof.key.seed, op.name)
               /\ op.proof.key.name = op.name /\ op.proof.key \in WalletKeys
               /\ st.inclusion_epoch = epoch(plan.operation_height)
               /\ N.key = op.proof.key /\ N.value = BOND_ZATOSHIS
               /\ N.epoch = epoch(plan.operation_height)
               /\ op.successor_future_nf = NullifierOf(N, op.proof.key)
  <1>1. CASE RevealPlan(plan)
    <2>1. PICK s \in Seeds, n \in NameIds, h \in Height, ua \in Uas, i \in Height,
               note \in WalletNotes, r \in CommitRef :
                  plan = prepare_reveal(s, n, r, ua, h, i, note)
      BY <1>1 DEF RevealPlan
    <2> DEFINE key == derive_name_spending_key(s, n)
               nf  == NullifierOf(note, s)
    <2>2. key.seed = s /\ key.name = n /\ key \in WalletKeys
      BY DEF derive_name_spending_key, WalletKeys
    <2> DEFINE N == derive_reveal_bond_note(key, r, epoch(h), ua, i, nf)
    <2>3. /\ plan.operation_height = h /\ plan.successor = N
          /\ plan.operation.kind = "Reveal" /\ plan.operation.name = n
          /\ plan.operation.successor_future_nf = NullifierOf(N, key)
          /\ plan.operation.proof.key = key
          /\ plan.operation.proof.statement.inclusion_epoch = epoch(h)
      BY <2>1 DEF prepare_reveal, Proof
    <2>4. N.key = key /\ N.value = BOND_ZATOSHIS /\ N.epoch = epoch(h)
      BY SuccessorFields
    <2> HIDE DEF N, nf
    <2>5. key = derive_name_spending_key(s, n)
      OBVIOUS
    <2> HIDE DEF key
    <2> QED BY <2>2, <2>3, <2>4, <2>5
  <1>2. CASE RefreshPlan(plan)
    <2>1. PICK s \in Seeds, n \in NameIds, h \in Height, ua \in Uas, i \in Height :
            \E note, head : plan = prepare_refresh(s, n, head, note, ua, h, i)
      BY <1>2 DEF RefreshPlan
    <2>2. PICK note, head : plan = prepare_refresh(s, n, head, note, ua, h, i)
      BY <2>1
    <2> DEFINE key == derive_name_spending_key(s, n)
    <2>3. key.seed = s /\ key.name = n /\ key \in WalletKeys
      BY DEF derive_name_spending_key, WalletKeys
    <2> DEFINE nf == NullifierOf(note, key)
               N == derive_refresh_bond_note(key, head.producer, epoch(h), ua, i, nf)
    <2>4. /\ plan.operation_height = h /\ plan.successor = N
          /\ plan.operation.kind = "Refresh" /\ plan.operation.name = n
          /\ plan.operation.successor_future_nf = NullifierOf(N, key)
          /\ plan.operation.proof.key = key
          /\ plan.operation.proof.statement.inclusion_epoch = epoch(h)
      BY <2>2 DEF prepare_refresh, refresh_successor, Proof
    <2>5. N.key = key /\ N.value = BOND_ZATOSHIS /\ N.epoch = epoch(h)
      BY SuccessorFields
    <2> HIDE DEF N, nf
    <2>6. key = derive_name_spending_key(s, n)
      OBVIOUS
    <2> HIDE DEF key
    <2> QED BY <2>3, <2>4, <2>5, <2>6
  <1> QED BY <1>1, <1>2

-----------------------------------------------------------------------------
(***************************************************************************)
(* Every head is sound.                                                    *)
(***************************************************************************)
\* A change of the terminal height leaves a head sound.
LEMMA SoundKept ==
    ASSUME NEW n, NEW head, NEW head2, SoundHead(n, head),
           head2.producer = head.producer, head2.commitment = head.commitment,
           head2.future_nf = head.future_nf,
           head2.producer_epoch = head.producer_epoch
    PROVE  SoundHead(n, head2)
  BY DEF SoundHead, BondOf

\* What the verifier of an accepted operation has established.
LEMMA InstallOpens ==
    ASSUME CircuitsExact, NEW d, NEW height, NEW tx, Installs(d, height, tx)
    PROVE  LET op == tx.operation
               head == NewHead(height, tx)
           IN  /\ op.kind # "Commit"
               /\ op.proof.statement.inclusion_epoch = epoch(height)
               /\ OpensTo(head.commitment, head.future_nf, op.proof.key)
               /\ head.commitment = tx.actions[op.action_index + 1].commitment
               /\ head.future_nf = op.successor_future_nf
               /\ head.producer_epoch = epoch(height)
               /\ head.producer.txid = tx.txid
               /\ head.producer.action_index = op.action_index
  <1> DEFINE op == tx.operation
             head == NewHead(height, tx)
  <1>1. /\ head.commitment = tx.actions[op.action_index + 1].commitment
        /\ head.future_nf = op.successor_future_nf
        /\ head.producer_epoch = epoch(height)
        /\ head.producer.txid = tx.txid
        /\ head.producer.action_index = op.action_index
    BY DEF NewHead
  <1>2. CASE op.kind = "Reveal"
    <2> DEFINE st == RevealStatement(height, tx, d.commits[op.commit])
    <2>1. VerifyReveal(st, op.proof)
      BY <1>2 DEF Installs, RevealAccepted
    <2>2. /\ st.inclusion_epoch = epoch(height)
          /\ st.action_commitment = tx.actions[op.action_index + 1].commitment
          /\ st.successor_future_nf = op.successor_future_nf
      BY DEF RevealStatement
    <2> HIDE DEF st
    <2>3. RevealHolds(st, op.proof)
      BY <2>1 DEF CircuitsExact
    <2> QED BY <1>1, <1>2, <2>2, <2>3 DEF RevealHolds
  <1>3. CASE op.kind = "Refresh"
    <2> DEFINE st == RefreshStatement(height, tx, d.heads[op.name])
    <2>1. VerifyRefresh(st, op.proof)
      BY <1>3 DEF Installs, RefreshAccepted
    <2>2. /\ st.inclusion_epoch = epoch(height)
          /\ st.action_commitment = tx.actions[op.action_index + 1].commitment
          /\ st.successor_future_nf = op.successor_future_nf
      BY DEF RefreshStatement
    <2> HIDE DEF st
    <2>3. RefreshHolds(st, op.proof)
      BY <2>1 DEF CircuitsExact
    <2> QED BY <1>1, <1>3, <2>2, <2>3 DEF RefreshHolds
  <1> QED BY <1>2, <1>3 DEF Installs

\* An operation proved with a key of the wallet is one of its plans, so its
\* bond is for the epoch the block lies in.
LEMMA NewHeadSound ==
    ASSUME CircuitsExact, PlansInv, block # None, Mineable(block),
           NEW i \in DOMAIN block.transactions, NEW height, NEW d,
           Installs(d, height, block.transactions[i])
    PROVE  LET tx == block.transactions[i]
           IN  SoundHead(tx.operation.name, NewHead(height, tx))
  <1> DEFINE tx == block.transactions[i]
             op == tx.operation
             head == NewHead(height, tx)
             N == BondOf(head)
  <1>1. /\ op.kind # "Commit"
        /\ op.proof.statement.inclusion_epoch = epoch(height)
        /\ OpensTo(head.commitment, head.future_nf, op.proof.key)
        /\ head.commitment = tx.actions[op.action_index + 1].commitment
        /\ head.future_nf = op.successor_future_nf
        /\ head.producer_epoch = epoch(height)
        /\ head.producer.txid = tx.txid
        /\ head.producer.action_index = op.action_index
    BY InstallOpens
  <1>2. tx.txid.actions = tx.actions /\ tx.txid.operation = op /\ op # None
    <2>1. tx.txid = TxidOf(tx.actions, op)
      BY DEF Mineable
    <2>2. op # None
      BY DEF Installs
    <2> HIDE DEF tx, op
    <2> QED BY <2>1, <2>2 DEF TxidOf
  <1>3. /\ N.key = op.proof.key /\ head.future_nf = NullifierOf(N, op.proof.key)
    BY <1>1 DEF OpensTo, BondOf
  <1>4. ASSUME op.proof.key \in WalletKeys
        PROVE  op.proof.key.name = op.name /\ N.epoch = epoch(height)
    <2>1. PICK plan \in plans : plan.operation = op
      BY <1>1, <1>2, <1>4 DEF Mineable
    <2>2. RevealPlan(plan) \/ RefreshPlan(plan)
      BY <1>1, <2>1 DEF PlansInv, CommitPlan, prepare_commit
    <2> HIDE DEF op, head, N
    <2>3. /\ op.proof.key.name = op.name
          /\ op.proof.statement.inclusion_epoch = epoch(plan.operation_height)
          /\ plan.successor.epoch = epoch(plan.operation_height)
          /\ op.successor_future_nf = NullifierOf(plan.successor, op.proof.key)
      BY <2>1, <2>2, PlanProof
    <2>4. plan.successor = N
      <3>1. NullifierOf(plan.successor, op.proof.key) = NullifierOf(N, op.proof.key)
        BY <1>1, <1>3, <2>3
      <3> QED BY <3>1 DEF NullifierOf
    <2> QED BY <1>1, <2>3, <2>4
  <1> HIDE DEF op, head, tx
  <1>5. SoundHead(op.name, head)
    BY <1>1, <1>2, <1>3, <1>4 DEF SoundHead, N
  <1> QED BY <1>5 DEF op, head, tx

LEMMA SoundBegin ==
    ASSUME FullInv, SoundInv, NEW b \in Block, HBeginBlock(b, {})
    PROVE  SoundInv'
  <1>1. {} \in SUBSET ReferencedCommit /\ trail' = Append(trail, View) /\ IsSeq(trail)
    BY DEF HBeginBlock, FullInv, RollbackInv
  <1>2. Elems(trail') = Elems(trail) \cup {View}
    BY <1>1, ElemsAppend
  <1>3. ASSUME NEW n \in DOMAIN db'.heads
        PROVE  SoundHead(n, db'.heads[n])
    <2>1. n \in DOMAIN db.heads /\ db'.heads[n] = Marked(db.heads[n], b.height)
      BY <1>1, BeginHeads
    <2>2. db.heads[n] \in HeadRecord /\ db.heads[n].expiry_height \in Height
      BY <2>1 DEF FullInv, TypeInv, TypeOK, MapOf, HeadRecord
    <2> DEFINE head == db.heads[n]
               head2 == Marked(head, b.height)
    <2>3. SoundHead(n, head)
      BY <2>1 DEF SoundInv, HeadsSound, View
    <2>4. /\ head2.producer = head.producer /\ head2.commitment = head.commitment
          /\ head2.future_nf = head.future_nf
          /\ head2.producer_epoch = head.producer_epoch
      BY <2>2, EndedAtType DEF Marked
    <2> HIDE DEF head, head2
    <2>5. SoundHead(n, head2)
      BY <2>3, <2>4, SoundKept
    <2> QED BY <2>1, <2>5 DEF head, head2
  <1> QED BY <1>2, <1>3 DEF SoundInv, HeadsSound, View

LEMMA SoundApply ==
    ASSUME CircuitsExact, WalletInv, HApplyTransaction
    PROVE  SoundInv'
  <1> DEFINE tx == block.transactions[pos + 1]
             I == Installs(db, block.height, tx)
  <1>1. /\ FullInv /\ trail' = trail
    BY DEF HApplyTransaction, WalletInv
  <1>2. /\ block # None /\ pos + 1 \in DOMAIN block.transactions
        /\ block.height \in Height
    <2>1. block # None /\ pos < Len(block.transactions) /\ pos \in Nat
      BY <1>1 DEF HApplyTransaction, ApplyTransaction, FullInv, TypeInv, TypeOK
    <2>2. block.transactions \in Seq(Transaction) /\ block.height \in Height
      BY <1>1, <2>1 DEF FullInv, TypeInv, TypeOK, Option, Block
    <2> QED BY <2>1, <2>2
  <1>3. /\ \A n : n \in DOMAIN db'.heads <=>
                    \/ n \in DOMAIN db.heads
                    \/ I /\ n = tx.operation.name
        /\ I => db'.heads[tx.operation.name] = NewHead(block.height, tx)
        /\ \A n \in DOMAIN db.heads :
             ~(I /\ n = tx.operation.name) =>
               db'.heads[n] = IF /\ db.heads[n].terminal_height = None
                                 /\ db.heads[n].future_nf \in Nullifiers(tx)
                              THEN EndedAt(db.heads[n], block.height) ELSE db.heads[n]
    BY <1>1, ApplyHeads
  <1>4. I => SoundHead(tx.operation.name, NewHead(block.height, tx))
    BY <1>2, NewHeadSound DEF WalletInv, BlockInv
  <1> HIDE DEF tx, I
  <1>5. ASSUME NEW n \in DOMAIN db.heads
        PROVE  SoundHead(n, db.heads[n]) /\ SoundHead(n, EndedAt(db.heads[n], block.height))
    <2> DEFINE head == db.heads[n]
               head2 == EndedAt(head, block.height)
    <2>1. head \in HeadRecord
      BY <1>1 DEF FullInv, TypeInv, TypeOK, MapOf
    <2>2. SoundHead(n, head)
      BY DEF WalletInv, SoundInv, HeadsSound, View
    <2>3. /\ head2.producer = head.producer /\ head2.commitment = head.commitment
          /\ head2.future_nf = head.future_nf
          /\ head2.producer_epoch = head.producer_epoch
      BY <1>2, <2>1, EndedAtType
    <2> HIDE DEF head, head2
    <2>4. SoundHead(n, head2)
      BY <2>2, <2>3, SoundKept
    <2> QED BY <2>2, <2>4 DEF head, head2
  <1>6. \A n \in DOMAIN db'.heads : SoundHead(n, db'.heads[n])
    BY <1>3, <1>4, <1>5
  <1> QED BY <1>1, <1>6 DEF WalletInv, SoundInv, HeadsSound, View

-----------------------------------------------------------------------------
(***************************************************************************)
(* The invariant is kept.                                                  *)
(***************************************************************************)
LEMMA SoundStep ==
    ASSUME CircuitsExact, WalletInv, [WNext]_wvars
    PROVE  SoundInv'
  <1>1. FullInv /\ SoundInv
    BY DEF WalletInv
  <1>2. CASE \E b \in Block : WBeginBlock(b)
    BY <1>1, <1>2, SoundBegin DEF WBeginBlock
  <1>3. CASE WApplyTransaction
    BY <1>3, SoundApply DEF WApplyTransaction
  <1>4. CASE \E hash \in Hashes : WRollbackTip(hash)
    <2>1. View' \in Elems(trail) /\ Elems(trail') \subseteq Elems(trail)
      BY <1>1, <1>4, RolledBack DEF WRollbackTip
    <2> QED BY <1>1, <2>1 DEF SoundInv
  <1>5. CASE \E height \in Height : WFinalizeThrough(height)
    <2>1. View' = View /\ Elems(trail') \subseteq Elems(trail)
      BY <1>1, <1>5, Finalized DEF WFinalizeThrough
    <2> QED BY <1>1, <2>1 DEF SoundInv
  <1>6. CASE WEndBlock
    <2>1. db' = db /\ trail' = trail
      BY <1>6 DEF WEndBlock, HEndBlock, EndBlock
    <2> QED BY <1>1, <2>1 DEF SoundInv, HeadsSound, View
  <1>7. CASE UNCHANGED hvars
    BY <1>1, <1>7 DEF SoundInv, HeadsSound, View, hvars, vars
  <1>8. \/ \E b \in Block : WBeginBlock(b)
        \/ WApplyTransaction \/ WEndBlock
        \/ \E hash \in Hashes : WRollbackTip(hash)
        \/ \E height \in Height : WFinalizeThrough(height)
        \/ UNCHANGED hvars
    BY DEF WNext, PrepareCommit, PrepareReveal, PrepareRefresh, Prepared, wvars
  <1> QED BY <1>2, <1>3, <1>4, <1>5, <1>6, <1>7, <1>8

\* Plans are only added, each prepared on the records of the time.
LEMMA PlansStep ==
    ASSUME WalletInv, [WNext]_wvars
    PROVE  PlansInv'
  <1>1. FullInv /\ SoundInv /\ PlansInv
    BY DEF WalletInv
  <1>2. ASSUME NEW s \in Seeds, NEW n \in NameIds, NEW h \in Height, PrepareCommit(s, n, h)
        PROVE  PlansInv'
    <2>1. plans' = plans \cup {prepare_commit(s, n, h)} /\ CommitPreparable(n, h)
      BY <1>2 DEF PrepareCommit, Prepared
    <2>2. CommitPlan(prepare_commit(s, n, h))
      BY <2>1 DEF CommitPlan
    <2> QED BY <1>1, <2>1, <2>2 DEF PlansInv
  <1>3. ASSUME NEW s \in Seeds, NEW n \in NameIds, NEW h \in Height, NEW ua \in Uas,
               NEW i \in Height, NEW note \in WalletNotes, NEW r \in DOMAIN db.commits,
               PrepareReveal(s, n, r, ua, h, i, note)
        PROVE  PlansInv'
    <2> DEFINE plan == prepare_reveal(s, n, r, ua, h, i, note)
    <2>1. plans' = plans \cup {plan} /\ RevealPreparable(n, r, h, note)
      BY <1>3 DEF PrepareReveal, Prepared
    <2>2. r \in CommitRef
      BY <1>1, <1>3 DEF FullInv, TypeInv, TypeOK, MapOf
    <2>3. RevealPlan(plan)
      BY <2>1, <2>2 DEF RevealPlan
    <2> HIDE DEF plan
    <2> QED BY <1>1, <2>1, <2>3 DEF PlansInv
  <1>4. ASSUME NEW s \in Seeds, NEW n \in NameIds, NEW h \in Height, NEW ua \in Uas,
               NEW i \in Height, NEW note \in BondNotes,
               PrepareRefresh(s, n, note, ua, h, i)
        PROVE  PlansInv'
    <2> DEFINE head == db.heads[n]
               plan == prepare_refresh(s, n, head, note, ua, h, i)
    <2>1. /\ plans' = plans \cup {plan} /\ RefreshPreparable(s, n, head, note, h)
          /\ n \in DOMAIN db.heads /\ block = None
      BY <1>4 DEF PrepareRefresh, Prepared
    <2>2. SoundHead(n, head)
      BY <1>1, <2>1 DEF SoundInv, HeadsSound, View
    <2>3. head.producer_epoch = epoch(head.producer.height)
      BY <1>1, <2>1 DEF FullInv, SnapInv, RecordsValid, HeadValid
    <2>4. RefreshPlan(plan)
      BY <2>1, <2>2, <2>3 DEF RefreshPlan
    <2> HIDE DEF plan
    <2> QED BY <1>1, <2>1, <2>4 DEF PlansInv
  <1>5. CASE plans' = plans
    BY <1>1, <1>5 DEF PlansInv
  <1>6. \/ plans' = plans
        \/ \E s \in Seeds, n \in NameIds, h \in Height : PrepareCommit(s, n, h)
        \/ \E s \in Seeds, n \in NameIds, h \in Height, ua \in Uas, i \in Height,
               note \in WalletNotes : \E r \in DOMAIN db.commits :
                  PrepareReveal(s, n, r, ua, h, i, note)
        \/ \E s \in Seeds, n \in NameIds, h \in Height, ua \in Uas, i \in Height,
               note \in BondNotes : PrepareRefresh(s, n, note, ua, h, i)
    BY DEF WNext, WBeginBlock, WApplyTransaction, WEndBlock, WRollbackTip,
           WFinalizeThrough, wvars
  <1> QED BY <1>2, <1>3, <1>4, <1>5, <1>6

LEMMA WalletInit == WInit => WalletInv
  <1> SUFFICES ASSUME WInit PROVE WalletInv
    OBVIOUS
  <1>1. /\ DOMAIN db.heads = {} /\ trail = << >> /\ plans = {} /\ block = None
    BY DEF WInit, HInit, Init, EmptyMap
  <1>2. FullInv
    BY SnapInit DEF WInit
  <1>3. Elems(trail) = {}
    BY <1>1 DEF Elems
  <1> QED BY <1>1, <1>2, <1>3 DEF WalletInv, SoundInv, HeadsSound, View, PlansInv, BlockInv

LEMMA WalletStep == CircuitsExact /\ WalletInv /\ [WNext]_wvars => WalletInv'
  <1> SUFFICES ASSUME CircuitsExact, WalletInv, [WNext]_wvars PROVE WalletInv'
    OBVIOUS
  <1>1. FullInv'
    BY WNextIsHNext, SnapStep DEF WalletInv
  <1>2. BlockInv'
    <2>1. CASE \E b \in Block : WBeginBlock(b)
      <3>1. PICK b \in Block : WBeginBlock(b)
        BY <2>1
      <3>2. block' = b /\ plans' = plans /\ Mineable(b)
        BY <3>1 DEF WBeginBlock, HBeginBlock, BeginBlock
      <3> QED BY <3>2 DEF Mineable, BlockInv
    <2>2. CASE block' # None => block' = block /\ plans \subseteq plans'
      BY <2>2 DEF WalletInv, BlockInv, Mineable
    <2>3. \/ \E b \in Block : WBeginBlock(b)
          \/ block' # None => block' = block /\ plans \subseteq plans'
      BY DEF WNext, PrepareCommit, PrepareReveal, PrepareRefresh, Prepared,
             WApplyTransaction, WEndBlock, WRollbackTip, WFinalizeThrough,
             HApplyTransaction, HEndBlock, HRollbackTip, HFinalizeThrough,
             ApplyTransaction, EndBlock, RollbackTip, FinalizeThrough,
             wvars, hvars, vars, callVars
    <2> QED BY <2>1, <2>2, <2>3
  <1> QED BY <1>1, <1>2, SoundStep, PlansStep DEF WalletInv

-----------------------------------------------------------------------------
(***************************************************************************)
(* What the reducer makes of a plan.                                       *)
(***************************************************************************)
LEMMA NextBlockRecords ==
    ASSUME FullInv
    PROVE  LET d == AtNextBlock
           IN  /\ \A n \in DOMAIN d.heads :
                    n \in DOMAIN db.heads /\ d.heads[n] = Marked(db.heads[n], next_height)
               /\ \A r : r \in DOMAIN d.commits <=>
                    /\ r \in DOMAIN db.commits
                    /\ ~(r.height <= next_height - commit_ttl_blocks)
               /\ \A r \in DOMAIN d.commits : d.commits[r] = db.commits[r]
  <1> DEFINE w0 == [db |-> db, undo |-> [heads |-> EmptyMap, commits |-> EmptyMap]]
             w1 == mark_expired(w0, next_height)
             w2 == compact_claimable(w1, next_height)
             w3 == prune_commits(w2, next_height)
  <1>1. AtNextBlock = w3.db /\ w0.db = db
    BY DEF AtNextBlock
  <1>2. Coherent(w0.db) /\ DbOK(w0.db)
    BY <1>1 DEF FullInv, TypeInv, TypeOK, RollbackInv, IndexInv, DbOK
  <1> HIDE DEF w0
  <1>3. /\ w1.db.commits = w0.db.commits
        /\ DOMAIN w1.db.heads = DOMAIN w0.db.heads
        /\ \A n \in DOMAIN w1.db.heads :
             w1.db.heads[n] = Marked(w0.db.heads[n], next_height)
    BY <1>2, MarkedHeads DEF Marked
  <1>4. Coherent(w1.db)
    BY <1>2, StepsCoherent
  <1> HIDE DEF w1
  <1>5. /\ w2.db.commits = w1.db.commits
        /\ DOMAIN w2.db.heads \subseteq DOMAIN w1.db.heads
        /\ \A n \in DOMAIN w2.db.heads : w2.db.heads[n] = w1.db.heads[n]
    BY <1>4, CompactedHeads
  <1>6. Coherent(w2.db)
    BY <1>4, StepsCoherent
  <1> HIDE DEF w2
  <1>7. /\ w3.db.heads = w2.db.heads
        /\ \A r : r \in DOMAIN w3.db.commits <=>
             /\ r \in DOMAIN w2.db.commits
             /\ ~(r.height <= next_height - commit_ttl_blocks)
        /\ \A r \in DOMAIN w3.db.commits : w3.db.commits[r] = w2.db.commits[r]
    BY <1>6, PrunedCommits
  <1> HIDE DEF w3
  <1> QED BY <1>1, <1>3, <1>5, <1>7

\* The designated action is where the operation says.
LEMMA PlanActions ==
    ASSUME NEW plan, plan.operation.kind # "Commit", plan.operation.action_index \in Height
    PROVE  LET tx == PlanTx(plan, 0)
               k  == plan.operation.action_index
           IN  /\ tx.operation = plan.operation
               /\ HasAction(tx, k)
               /\ tx.actions[k + 1].nullifier = plan.designated_spend
               /\ tx.actions[k + 1].commitment = CommitmentOf(plan.successor)
  <1> DEFINE k == plan.operation.action_index
             a == replacement_ironwood_plan(plan)
             tx == PlanTx(plan, 0)
  <1>1. k \in Nat /\ k + 1 \in 1 .. k + 1 /\ (k + 1) - 1 = k
    BY ParametersAssumption DEF Height
  <1>2. tx.operation = plan.operation /\ tx.actions = a
    BY DEF PlanTx
  <1>3. a = [i \in 1 .. k + 1 |->
               IF i = k + 1
                 THEN [action_index |-> i - 1, nullifier |-> plan.designated_spend,
                       commitment |-> CommitmentOf(plan.successor)]
                 ELSE Filler(i - 1)]
    BY DEF replacement_ironwood_plan
  <1> HIDE DEF a
  <1>4. /\ k + 1 \in DOMAIN a /\ a[k + 1].action_index = k
        /\ a[k + 1].nullifier = plan.designated_spend
        /\ a[k + 1].commitment = CommitmentOf(plan.successor)
    BY <1>1, <1>3
  <1> QED BY <1>2, <1>4 DEF HasAction

LEMMA RevealJudged ==
    ASSUME CircuitsExact, NEW d, NEW s, NEW n, NEW r, NEW ua, NEW h, NEW i \in Height, NEW note,
           RevealPreparable(n, r, h, note), expiry_fits(h),
           n \notin DOMAIN d.heads, r \in DOMAIN d.commits,
           d.commits[r] = derive_commit_opening(derive_name_spending_key(s, n), n, epoch(h))
    PROVE  RevealAccepted(d, h, PlanTx(prepare_reveal(s, n, r, ua, h, i, note), 0))
  <1> DEFINE plan == prepare_reveal(s, n, r, ua, h, i, note)
             key == derive_name_spending_key(s, n)
             nf  == NullifierOf(note, s)
             N == derive_reveal_bond_note(key, r, epoch(h), ua, i, nf)
             c == derive_commit_opening(key, n, epoch(h))
             op == plan.operation
             tx == PlanTx(plan, 0)
             st == RevealStatement(h, tx, d.commits[r])
  <1>1. /\ plan.designated_spend = nf /\ plan.successor = N
        /\ op.kind = "Reveal" /\ op.name = n /\ op.commit = r /\ op.ua = ua
        /\ op.action_index = i /\ op.successor_future_nf = NullifierOf(N, key)
        /\ op.proof.key = key
        /\ op.proof.statement =
             [name_id |-> n, inclusion_epoch |-> epoch(h), commitment |-> c,
              commit_ref |-> r, ua |-> ua, action_index |-> i,
              action_nullifier |-> nf, action_commitment |-> CommitmentOf(N),
              successor_future_nf |-> NullifierOf(N, key)]
    BY DEF prepare_reveal, Proof
  <1>2. OpensTo(CommitmentOf(N), NullifierOf(N, key), key) /\ CommitmentOf(N).note.rho = nf
    BY SuccessorFields
  <1>3. c = [name |-> n, epoch |-> epoch(h), owner |-> key] /\ d.commits[r] = c
    BY DEF derive_commit_opening
  <1> HIDE DEF plan, key, nf, N, c
  <1>4. /\ tx.operation = op /\ HasAction(tx, i)
        /\ tx.actions[i + 1].nullifier = nf
        /\ tx.actions[i + 1].commitment = CommitmentOf(N)
    BY <1>1, PlanActions
  <1> HIDE DEF tx
  <1>5. st = op.proof.statement
    BY <1>1, <1>3, <1>4 DEF RevealStatement
  <1>6. RevealHolds(st, op.proof)
    BY <1>1, <1>2, <1>3, <1>5 DEF RevealHolds
  <1>7. VerifyReveal(st, op.proof)
    BY <1>6 DEF CircuitsExact
  <1>8. RevealAccepted(d, h, tx)
    BY <1>1, <1>4, <1>7 DEF RevealAccepted, RevealPreparable
  <1> QED BY <1>8 DEF tx, plan

LEMMA RefreshJudged ==
    ASSUME CircuitsExact, NEW d, NEW s, NEW n \in NameIds, NEW head, NEW note, NEW ua,
           NEW h \in Height, NEW i \in Height,
           RefreshPreparable(s, n, head, note, h), SoundHead(n, head),
           expiry_fits(h), n \in DOMAIN d.heads, lifecycle(d.heads[n], h) = "Active",
           d.heads[n].producer = head.producer,
           d.heads[n].commitment = head.commitment,
           d.heads[n].future_nf = head.future_nf,
           d.heads[n].producer_epoch = head.producer_epoch
    PROVE  RefreshAccepted(d, h, PlanTx(prepare_refresh(s, n, head, note, ua, h, i), 0))
  <1> DEFINE plan == prepare_refresh(s, n, head, note, ua, h, i)
             key == derive_name_spending_key(s, n)
             nf  == NullifierOf(note, key)
             N == derive_refresh_bond_note(key, head.producer, epoch(h), ua, i, nf)
             op == plan.operation
             tx == PlanTx(plan, 0)
             st == RefreshStatement(h, tx, d.heads[n])
  <1>1. /\ plan.designated_spend = nf /\ plan.successor = N
        /\ op.kind = "Refresh" /\ op.name = n /\ op.predecessor = head.producer
        /\ op.ua = ua /\ op.action_index = i
        /\ op.successor_future_nf = NullifierOf(N, key)
        /\ op.proof.key = key
        /\ op.proof.statement =
             [name_id |-> n, predecessor_ref |-> head.producer,
              predecessor_commitment |-> CommitmentOf(note),
              predecessor_future_nf |-> nf,
              predecessor_epoch |-> head.producer_epoch,
              inclusion_epoch |-> epoch(h), ua |-> ua, action_index |-> i,
              action_nullifier |-> nf, action_commitment |-> CommitmentOf(N),
              successor_future_nf |-> NullifierOf(N, key)]
    BY DEF prepare_refresh, refresh_successor, Proof
  <1>2. OpensTo(CommitmentOf(N), NullifierOf(N, key), key) /\ CommitmentOf(N).note.rho = nf
    BY SuccessorFields
  <1>3. /\ CommitmentOf(note) = head.commitment /\ nf = head.future_nf
        /\ head.producer_epoch < epoch(h) /\ accepts_operation(n, h)
    BY DEF RefreshPreparable
  <1>4. OpensTo(head.commitment, head.future_nf, key)
    <2>1. OpensTo(head.commitment, head.future_nf, BondOf(head).key)
      BY DEF SoundHead
    <2>2. NullifierOf(BondOf(head), BondOf(head).key) = NullifierOf(note, key)
      BY <1>3, <2>1 DEF OpensTo, BondOf
    <2>3. BondOf(head).key = key
      BY <2>2 DEF NullifierOf
    <2> QED BY <2>1, <2>3
  <1> HIDE DEF plan, key, nf, N
  <1>5. /\ tx.operation = op /\ HasAction(tx, i)
        /\ tx.actions[i + 1].nullifier = nf
        /\ tx.actions[i + 1].commitment = CommitmentOf(N)
    BY <1>1, PlanActions
  <1> HIDE DEF tx
  <1>6. st = op.proof.statement
    BY <1>1, <1>3, <1>5 DEF RefreshStatement
  <1>7. RefreshHolds(st, op.proof)
    BY <1>1, <1>2, <1>3, <1>4, <1>6 DEF RefreshHolds
  <1>8. VerifyRefresh(st, op.proof)
    BY <1>7 DEF CircuitsExact
  <1>9. h >= activation_height
    BY <1>3 DEF accepts_operation
  <1>10. RefreshAccepted(d, h, tx)
    BY <1>1, <1>3, <1>5, <1>8, <1>9 DEF RefreshAccepted
  <1> QED BY <1>10 DEF tx, plan

-----------------------------------------------------------------------------
(***************************************************************************)
(* The theorems.                                                           *)
(***************************************************************************)
LEMMA WalletInvariant == CircuitsExact => (WSpec => []WalletInv)
  <1> SUFFICES ASSUME CircuitsExact PROVE WSpec => []WalletInv
    OBVIOUS
  <1>1. WalletInv /\ [WNext]_wvars => WalletInv'
    BY WalletStep
  <1> QED BY <1>1, WalletInit, PTL DEF WSpec

LEMMA CommitsJudged ==
    ASSUME CircuitsExact, WalletInv
    PROVE  CommitsRevealable
  <1> SUFFICES ASSUME NEW plan \in plans, plan.operation.kind = "Commit",
                      block = None, plan.operation_height = next_height,
                      expiry_fits(next_height),
                      plan.operation.commitment.name \notin DOMAIN AtNextBlock.heads,
                      NEW r \in DOMAIN db.commits,
                      db.commits[r] = plan.operation.commitment,
                      accepts_commit(r.height, next_height),
                      NEW note \in WalletNotes, note.value = BOND_ZATOSHIS,
                      NEW ua \in Uas
               PROVE  LET c == plan.operation.commitment
                      IN  /\ RevealPreparable(c.name, r, next_height, note)
                          /\ Judged(prepare_reveal(c.owner.seed, c.name, r, ua,
                                                   next_height, 0, note))
    BY DEF CommitsRevealable
  <1> DEFINE c == plan.operation.commitment
             p == prepare_reveal(c.owner.seed, c.name, r, ua, next_height, 0, note)
  <1>1. PICK s \in Seeds, n \in NameIds, h \in Height :
               CommitPreparable(n, h) /\ plan = prepare_commit(s, n, h)
    <2>1. ~RevealPlan(plan) /\ ~RefreshPlan(plan)
      BY PlanProof
    <2> QED BY <2>1 DEF WalletInv, PlansInv, CommitPlan
  <1>2. /\ h = next_height /\ c.name = n /\ c.owner.seed = s
        /\ c = derive_commit_opening(derive_name_spending_key(s, n), n, epoch(h))
    BY <1>1, CommitPlanFields
  <1>3. RevealPreparable(n, r, h, note)
    BY <1>1, <1>2 DEF CommitPreparable, RevealPreparable
  <1>4. /\ r \in DOMAIN AtNextBlock.commits /\ AtNextBlock.commits[r] = c
    <2>1. r.height \in Nat /\ next_height \in Nat /\ commit_ttl_blocks \in Nat
      BY <1>2, CommitTypes, ParameterFacts, ParametersAssumption
      DEF WalletInv, FullInv, TypeInv, TypeOK, DbOK, Height
    <2>2. ~(r.height <= next_height - commit_ttl_blocks)
      BY <2>1 DEF accepts_commit
    <2> QED BY <2>2, NextBlockRecords DEF WalletInv
  <1> HIDE DEF c
  <1>5. 0 \in Height
    BY ParametersAssumption, ParameterFacts DEF Height
  <1>6. RevealAccepted(AtNextBlock, h, PlanTx(prepare_reveal(s, n, r, ua, h, 0, note), 0))
    BY <1>2, <1>3, <1>4, <1>5, RevealJudged DEF c
  <1>7. prepare_reveal(s, n, r, ua, h, 0, note).operation.kind = "Reveal"
    BY DEF prepare_reveal
  <1>8. Judged(prepare_reveal(s, n, r, ua, h, 0, note))
    BY <1>2, <1>6, <1>7 DEF Judged
  <1> QED BY <1>2, <1>3, <1>8 DEF c

\* The COMMIT a wallet mined opens with nothing but the seed: whatever the
\* chain did in between, a REVEAL prepared at the planned height is refused
\* neither by prepare_reveal nor by the reducer.
THEOREM CommitsOpen == CircuitsExact => (WSpec => []CommitsRevealable)
  <1> SUFFICES ASSUME CircuitsExact PROVE WSpec => []CommitsRevealable
    OBVIOUS
  <1>1. WalletInv => CommitsRevealable
    BY CommitsJudged
  <1>2. WSpec => []WalletInv
    BY WalletInvariant
  <1> QED BY <1>1, <1>2, PTL

\* Two sound heads with the same producer are the same bond.
LEMMA ProducerNamesBond ==
    ASSUME NEW n, NEW head, NEW head2, SoundHead(n, head), SoundHead(n, head2),
           head.producer = head2.producer
    PROVE  head.commitment = head2.commitment /\ head.future_nf = head2.future_nf
  BY DEF SoundHead

LEMMA PlansJudged ==
    ASSUME CircuitsExact, WalletInv
    PROVE  PreparedAccepted
  <1> SUFFICES ASSUME NEW plan \in plans, block = None, plan.operation.kind # "Commit",
                      plan.operation_height = next_height, expiry_fits(next_height),
                      StillCurrent(plan)
               PROVE  Judged(plan)
    BY DEF PreparedAccepted
  <1> DEFINE d == AtNextBlock
  <1>1. CASE RevealPlan(plan)
    <2>1. PICK s \in Seeds, n \in NameIds, h \in Height, ua \in Uas, i \in Height,
               note \in WalletNotes, r \in CommitRef :
                 /\ RevealPreparable(n, r, h, note)
                 /\ plan = prepare_reveal(s, n, r, ua, h, i, note)
      BY <1>1 DEF RevealPlan
    <2>2. /\ plan.operation_height = h /\ plan.operation.kind = "Reveal"
          /\ plan.operation.name = n /\ plan.operation.commit = r
          /\ plan.operation.proof.statement.commitment =
               derive_commit_opening(derive_name_spending_key(s, n), n, epoch(h))
      BY <2>1 DEF prepare_reveal, Proof
    <2>3. /\ n \notin DOMAIN d.heads /\ r \in DOMAIN d.commits
          /\ d.commits[r] =
               derive_commit_opening(derive_name_spending_key(s, n), n, epoch(h))
      BY <2>2 DEF StillCurrent
    <2> HIDE DEF d
    <2>4. RevealAccepted(d, h, PlanTx(prepare_reveal(s, n, r, ua, h, i, note), 0))
      BY <2>1, <2>2, <2>3, RevealJudged
    <2> QED BY <2>1, <2>2, <2>4 DEF Judged, d
  <1>2. CASE RefreshPlan(plan)
    <2>1. PICK s \in Seeds, n \in NameIds, h \in Height, ua \in Uas, i \in Height :
            \E note, head :
                /\ SoundHead(n, head)
                /\ head.producer_epoch = epoch(head.producer.height)
                /\ RefreshPreparable(s, n, head, note, h)
                /\ plan = prepare_refresh(s, n, head, note, ua, h, i)
      BY <1>2 DEF RefreshPlan
    <2>2. PICK note, head : /\ SoundHead(n, head)
                            /\ head.producer_epoch = epoch(head.producer.height)
                            /\ RefreshPreparable(s, n, head, note, h)
                            /\ plan = prepare_refresh(s, n, head, note, ua, h, i)
      BY <2>1
    <2>3. /\ plan.operation_height = h /\ plan.operation.kind = "Refresh"
          /\ plan.operation.name = n /\ plan.operation.predecessor = head.producer
      BY <2>2 DEF prepare_refresh
    <2> DEFINE cur == d.heads[n]
    <2>4. /\ n \in DOMAIN d.heads /\ cur.producer = head.producer
          /\ cur.terminal_height = None
      BY <2>3 DEF StillCurrent
    <2>5. n \in DOMAIN db.heads /\ cur = Marked(db.heads[n], next_height)
      BY <2>4, NextBlockRecords DEF WalletInv
    <2>6. /\ db.heads[n] \in HeadRecord /\ SoundHead(n, db.heads[n])
          /\ db.heads[n].producer_epoch = epoch(db.heads[n].producer.height)
      BY <2>5 DEF WalletInv, FullInv, TypeInv, TypeOK, MapOf, SoundInv, HeadsSound, View,
                  SnapInv, RecordsValid, HeadValid
    <2> HIDE DEF d, cur
    <2>7. cur = db.heads[n]
      BY <2>4, <2>5, <2>6, MarkedFacts
    <2>8. lifecycle(cur, h) = "Active"
      <3>1. ~(cur.expiry_height <= h)
        <4>1. cur = Marked(cur, h) /\ cur \in HeadRecord
          BY <2>3, <2>5, <2>6, <2>7
        <4>2. cur.expiry_height \in Height /\ cur.expiry_height # None
          BY <4>1, ValuesAssumption DEF HeadRecord
        <4>3. EndedAt(cur, cur.expiry_height).terminal_height = cur.expiry_height
          BY <4>1, <4>2, EndedAtType
        <4> QED BY <2>4, <4>1, <4>2, <4>3 DEF Marked
      <3>2. cur.expiry_height \in Nat /\ h \in Nat
        BY <2>6, <2>7, ParametersAssumption DEF HeadRecord, Height
      <3> QED BY <2>4, <3>1, <3>2 DEF lifecycle, terminal_at
    <2>9. /\ cur.commitment = head.commitment /\ cur.future_nf = head.future_nf
          /\ cur.producer_epoch = head.producer_epoch
      BY <2>2, <2>4, <2>6, <2>7, ProducerNamesBond
    <2>10. RefreshAccepted(d, h, PlanTx(prepare_refresh(s, n, head, note, ua, h, i), 0))
      BY <2>2, <2>3, <2>4, <2>8, <2>9, RefreshJudged DEF cur
    <2> QED BY <2>2, <2>3, <2>10 DEF Judged, d
  <1>3. ~CommitPlan(plan)
    BY DEF CommitPlan, prepare_commit
  <1> QED BY <1>1, <1>2, <1>3 DEF WalletInv, PlansInv

\* A plan that is mined at its height is accepted as long as the records it
\* was prepared on are still there, after any number of blocks and
\* reorganizations: prepare_reveal and prepare_refresh check all that the
\* reducer checks, and prove the statement it rebuilds.
THEOREM PlansAccepted == CircuitsExact => (WSpec => []PreparedAccepted)
  <1> SUFFICES ASSUME CircuitsExact PROVE WSpec => []PreparedAccepted
    OBVIOUS
  <1>1. WalletInv => PreparedAccepted
    BY PlansJudged
  <1>2. WSpec => []WalletInv
    BY WalletInvariant
  <1> QED BY <1>1, <1>2, PTL

\* The successor of a plan, rebuilt for the plan's own epoch.
LEMMA RebuiltSuccessor ==
    ASSUME NEW plan, RevealPlan(plan) \/ RefreshPlan(plan), NEW head,
           head.producer_epoch = plan.successor.epoch
    PROVE  Rebuilt(plan, head) = plan.successor
  <1>1. CASE RevealPlan(plan)
    <2>1. PICK s \in Seeds, n \in NameIds, h \in Height, ua \in Uas, i \in Height,
               note \in WalletNotes, r \in CommitRef :
                  plan = prepare_reveal(s, n, r, ua, h, i, note)
      BY <1>1 DEF RevealPlan
    <2> DEFINE key == derive_name_spending_key(s, n)
               nf  == NullifierOf(note, s)
               N == derive_reveal_bond_note(key, r, epoch(h), ua, i, nf)
    <2>2. /\ plan.designated_spend = nf /\ plan.successor = N
          /\ plan.operation.kind = "Reveal" /\ plan.operation.name = n
          /\ plan.operation.commit = r /\ plan.operation.ua = ua
          /\ plan.operation.action_index = i /\ plan.operation.proof.key = key
      BY <2>1 DEF prepare_reveal, Proof
    <2>3. N.epoch = epoch(h) /\ key.seed = s
      BY SuccessorFields DEF derive_name_spending_key
    <2> HIDE DEF nf
    <2> QED BY <2>2, <2>3 DEF Rebuilt
  <1>2. CASE RefreshPlan(plan)
    <2>1. PICK s \in Seeds, n \in NameIds, h \in Height, ua \in Uas, i \in Height :
            \E note, old : plan = prepare_refresh(s, n, old, note, ua, h, i)
      BY <1>2 DEF RefreshPlan
    <2>2. PICK note, old : plan = prepare_refresh(s, n, old, note, ua, h, i)
      BY <2>1
    <2> DEFINE key == derive_name_spending_key(s, n)
               nf  == NullifierOf(note, key)
               N == derive_refresh_bond_note(key, old.producer, epoch(h), ua, i, nf)
    <2>3. /\ plan.designated_spend = nf /\ plan.successor = N
          /\ plan.operation.kind = "Refresh" /\ plan.operation.name = n
          /\ plan.operation.predecessor = old.producer /\ plan.operation.ua = ua
          /\ plan.operation.action_index = i /\ plan.operation.proof.key = key
      BY <2>2 DEF prepare_refresh, refresh_successor, Proof
    <2>4. N.epoch = epoch(h) /\ key.seed = s
      BY SuccessorFields DEF derive_name_spending_key
    <2> HIDE DEF nf
    <2> QED BY <2>3, <2>4 DEF Rebuilt
  <1> QED BY <1>1, <1>2

LEMMA LeasesRebuilt ==
    ASSUME WalletInv
    PROVE  LeasesRefreshable
  <1> SUFFICES ASSUME NEW n \in DOMAIN db.heads, NEW plan \in plans,
                      plan.operation.kind # "Commit",
                      plan.operation.successor_future_nf = db.heads[n].future_nf,
                      NEW h \in Height, lifecycle(db.heads[n], h) = "Active",
                      accepts_operation(n, h), db.heads[n].producer_epoch < epoch(h)
               PROVE  RefreshPreparable(plan.operation.proof.key.seed, n, db.heads[n],
                                        Rebuilt(plan, db.heads[n]), h)
    BY DEF LeasesRefreshable
  <1> DEFINE head == db.heads[n]
             key == plan.operation.proof.key
             N == plan.successor
  <1>1. SoundHead(n, head)
    BY DEF WalletInv, SoundInv, HeadsSound, View
  <1>2. RevealPlan(plan) \/ RefreshPlan(plan)
    <2>1. ~CommitPlan(plan)
      BY DEF CommitPlan, prepare_commit
    <2> QED BY <2>1 DEF WalletInv, PlansInv
  <1>3. /\ key = derive_name_spending_key(key.seed, plan.operation.name)
        /\ key.name = plan.operation.name /\ key \in WalletKeys
        /\ N.key = key /\ N.value = BOND_ZATOSHIS
        /\ head.future_nf = NullifierOf(N, key)
    BY <1>2, PlanProof
  <1> HIDE DEF head, key, N
  <1>4. BondOf(head) = N /\ head.commitment = CommitmentOf(N)
    <2> DEFINE B == BondOf(head)
    <2>1. head.commitment = CommitmentOf(B) /\ head.future_nf = NullifierOf(B, B.key)
      BY <1>1 DEF SoundHead, OpensTo, BondOf
    <2> HIDE DEF B
    <2>2. B = N
      BY <1>3, <2>1 DEF NullifierOf
    <2> QED BY <2>1, <2>2 DEF B
  <1>5. key.name = n /\ N.epoch = head.producer_epoch
    BY <1>1, <1>3, <1>4 DEF SoundHead
  <1>6. Rebuilt(plan, head) = N
    BY <1>2, <1>5, RebuiltSuccessor DEF N
  <1>7. derive_name_spending_key(key.seed, n) = key
    BY <1>3, <1>5
  <1>8. RefreshPreparable(key.seed, n, head, N, h)
    BY <1>3, <1>4, <1>7 DEF RefreshPreparable, head
  <1> QED BY <1>6, <1>8 DEF head, key

\* Every lease the wallet holds can be extended after the loss of everything
\* but the seed: the note rebuilt from the chain is the head's bond, also when
\* the operation was mined in another block or on another branch than planned.
THEOREM LeasesExtend == CircuitsExact => (WSpec => []LeasesRefreshable)
  <1> SUFFICES ASSUME CircuitsExact PROVE WSpec => []LeasesRefreshable
    OBVIOUS
  <1>1. WalletInv => LeasesRefreshable
    BY LeasesRebuilt
  <1>2. WSpec => []WalletInv
    BY WalletInvariant
  <1> QED BY <1>1, <1>2, PTL
=============================================================================
