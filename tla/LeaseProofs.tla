---------------------------- MODULE LeaseProofs ----------------------------
(***************************************************************************)
(* What the reducer's records say of the chain, for every value of the     *)
(* parameters and every sequence of calls: no active head has a spent      *)
(* bond, a lease ends at its expiry or at the first spend of its bond, one *)
(* head is installed for a name per epoch, and owners are a cooldown apart *)
(*                                                                         *)
(* A rollback returns to a past view and forgets what was recorded above   *)
(* its tip.  Each property is therefore proved of the current view and of  *)
(* every past view at once, against the records at or below the tip of the *)
(* view.                                                                   *)
(***************************************************************************)
EXTENDS LeaseHistory, ReducerProofs

\* A view is the pair of its heads and its tip.
CurrentView == [heads |-> db.heads, tip |-> CurrentHeight]
PastViews == {[heads |-> trail[i].heads, tip |-> trail[i].tip_height] :
                i \in 1 .. Len(trail)}

Below(records, tip) == {r \in records : tip # None /\ r.height <= tip}

\* The ghost steps are steps of the reducer with its trail.
LEMMA LNextIsHNext == [LNext]_lvars => [HNext]_hvars
  BY DEF LNext, HNext, LBeginBlock, LApplyTransaction, LEndBlock, LRollbackTip,
         LFinalizeThrough, LRestart, lvars, hvars

-----------------------------------------------------------------------------
(***************************************************************************)
(* Where the views of a step come from.                                    *)
(***************************************************************************)
LEMMA CurrentHeightType ==
    ASSUME FullInv
    PROVE  /\ CurrentHeight \in Option(Height)
           /\ CurrentHeight # None => CurrentHeight \in Nat
           /\ block # None => /\ block.height \in Height /\ block.height \in Nat
                              /\ block.height # None
                              /\ block.height >= activation_height
                              /\ CurrentHeight = block.height
  <1>1. block # None => block.height \in Height
    BY DEF FullInv, TypeInv, TypeOK, Option, Block
  <1>2. CurrentHeight \in Option(Height)
    BY <1>1 DEF CurrentHeight, FullInv, TypeInv, TypeOK, Option
  <1>3. ASSUME block # None PROVE block.height >= activation_height
    <2>1. block.height = next_height /\ TipValid(next_height, tip_height)
      BY <1>3 DEF FullInv, SnapInv
    <2>2. tip_height \in Option(Height)
      BY DEF FullInv, TypeInv, TypeOK
    <2>3. block.height # None
      BY <1>1, <1>3, ValuesAssumption
    <2> QED BY <2>1, <2>2, <2>3, ParameterFacts, ParametersAssumption
            DEF TipValid, Option, Height
  <1> QED BY <1>1, <1>2, <1>3, ValuesAssumption, ParametersAssumption
          DEF CurrentHeight, Option, Height

\* Past tips lie below the current height.
LEMMA PastTips ==
    ASSUME FullInv, NEW v \in PastViews
    PROVE  /\ v.tip \in Option(Height)
           /\ v.tip # None => /\ v.tip \in Nat
                              /\ CurrentHeight \in Nat /\ v.tip < CurrentHeight
  <1>1. PICK i \in 1 .. Len(trail) :
          v = [heads |-> trail[i].heads, tip |-> trail[i].tip_height]
    BY DEF PastViews
  <1>2. v.tip = trail[i].tip_height
    BY <1>1
  <1>3. /\ Undos[i].height \in Nat /\ Undos[i].height # None
        /\ trail[i].next_height = Undos[i].height
        /\ trail[i].tip_height \in Option(Height)
        /\ TipValid(trail[i].next_height, trail[i].tip_height)
    BY PastFacts
  <1>4. /\ Undos[i].height + (Len(trail) - i) = CurrentHeight
        /\ Len(trail) \in Nat
    BY UndosFacts DEF FullInv, SnapInv, Linked
  <1>5. CurrentHeight \in Nat /\ Undos[i].height <= CurrentHeight
    BY <1>3, <1>4
  <1>6. trail[i].tip_height # None => /\ trail[i].tip_height \in Nat
                                      /\ Undos[i].height = trail[i].tip_height + 1
    BY <1>3, ParametersAssumption DEF TipValid, Option, Height
  <1> QED BY <1>2, <1>3, <1>5, <1>6

LEMMA BeginViews ==
    ASSUME FullInv, NEW b \in Block, NEW e \in SUBSET ReferencedCommit, HBeginBlock(b, e)
    PROVE  /\ PastViews' \subseteq PastViews \cup {CurrentView}
           /\ CurrentHeight = tip_height
           /\ CurrentHeight' = b.height /\ b.height \in Height /\ b.height \in Nat
           /\ b.height # None
           /\ CurrentHeight # None => b.height = CurrentHeight + 1
  <1>1. /\ block = None /\ block' = b /\ b # None /\ b.height = next_height
        /\ trail' = Append(trail, View)
    BY ValuesAssumption DEF HBeginBlock, BeginBlock
  <1>2. /\ CurrentHeight = tip_height /\ CurrentHeight' = b.height
    BY <1>1 DEF CurrentHeight
  <1>3. /\ b.height \in Height /\ b.height \in Nat /\ b.height # None
    BY ParametersAssumption, ValuesAssumption DEF Block, Height
  <1>4. CurrentHeight # None => b.height = CurrentHeight + 1
    BY <1>1, <1>2, <1>3 DEF FullInv, SnapInv, TipValid
  <1>5. /\ Len(trail) \in Nat /\ Len(trail') = Len(trail) + 1
        /\ \A i \in 1 .. Len(trail) : trail'[i] = trail[i]
        /\ trail'[Len(trail) + 1] = View
    BY <1>1, AppendFacts DEF FullInv, RollbackInv
  <1>6. [heads |-> View.heads, tip |-> View.tip_height] = CurrentView
    BY <1>2 DEF View, CurrentView
  <1>7. PastViews' \subseteq PastViews \cup {CurrentView}
    <2> SUFFICES ASSUME NEW i \in 1 .. Len(trail')
                 PROVE  [heads |-> trail'[i].heads, tip |-> trail'[i].tip_height]
                          \in PastViews \cup {CurrentView}
      BY DEF PastViews
    <2>1. i = Len(trail) + 1 \/ i \in 1 .. Len(trail)
      BY <1>5
    <2> QED BY <1>5, <1>6, <2>1 DEF PastViews
  <1> QED BY <1>2, <1>3, <1>4, <1>7

\* Every other step keeps past views or forgets some.
LEMMA KeptViews ==
    ASSUME FullInv
    PROVE  /\ HApplyTransaction => /\ PastViews' = PastViews
                                   /\ CurrentHeight' = CurrentHeight
           /\ HEndBlock => PastViews' = PastViews /\ CurrentView' = CurrentView
           /\ \A height \in Height : HFinalizeThrough(height) =>
                 PastViews' \subseteq PastViews /\ CurrentView' = CurrentView
           /\ HRestart => PastViews' = PastViews /\ CurrentView' = CurrentView
           /\ UNCHANGED hvars => PastViews' = PastViews /\ CurrentView' = CurrentView
  <1>1. ASSUME HApplyTransaction
        PROVE  PastViews' = PastViews /\ CurrentHeight' = CurrentHeight
    BY <1>1 DEF HApplyTransaction, ApplyTransaction, chainVars, PastViews, CurrentHeight
  <1>2. ASSUME HEndBlock
        PROVE  PastViews' = PastViews /\ CurrentView' = CurrentView
    BY <1>2 DEF HEndBlock, EndBlock, PastViews, CurrentView, CurrentHeight
  <1>3. ASSUME NEW height \in Height, HFinalizeThrough(height)
        PROVE  PastViews' \subseteq PastViews /\ CurrentView' = CurrentView
    <2>1. CurrentView' = CurrentView
      BY <1>3 DEF HFinalizeThrough, FinalizeThrough, chainVars, callVars,
                  CurrentView, CurrentHeight
    <2>2. PICK n \in 0 .. Len(trail) : trail' = SubSeq(trail, n + 1, Len(trail))
      <3>1. IndexInv'
        BY <1>3, IndexStep DEF FullInv, RollbackInv, Next, HFinalizeThrough
      <3> QED BY <1>3, <3>1, FinalizeStep DEF FullInv
    <2>3. /\ Len(trail') = Len(trail) - n /\ Len(trail) \in Nat
          /\ \A i \in 1 .. Len(trail) - n : trail'[i] = trail[n + i]
      <3> DEFINE m == n + 1
                 L == Len(trail)
      <3>1. IsSeq(trail) /\ L \in Nat
        BY UndosFacts DEF FullInv, RollbackInv
      <3> HIDE DEF L
      <3>2. /\ m \in Nat /\ 1 <= m /\ m <= L + 1 /\ L + 1 - m = L - n
            /\ \A i \in 1 .. L - n : m + i - 1 = n + i
        BY <3>1 DEF L
      <3> HIDE DEF m
      <3>3. /\ Len(SubSeq(trail, m, L)) = L + 1 - m
            /\ \A i \in 1 .. (L + 1 - m) : SubSeq(trail, m, L)[i] = trail[m + i - 1]
        BY <3>1, <3>2, SubSeqFacts DEF L
      <3>4. trail' = SubSeq(trail, m, L)
        BY <2>2 DEF m, L
      <3>5. /\ Len(trail') = L - n /\ \A i \in 1 .. L - n : trail'[i] = trail[n + i]
        BY <3>2, <3>3, <3>4
      <3> QED BY <3>1, <3>5 DEF L
    <2>4. \A i \in 1 .. Len(trail') : n + i \in 1 .. Len(trail)
      BY <2>3
    <2> QED BY <2>1, <2>3, <2>4 DEF PastViews
  <1>4. ASSUME HRestart
        PROVE  PastViews' = PastViews /\ CurrentView' = CurrentView
    BY <1>4 DEF HRestart, Restart, chainVars, callVars, rebuild_derived_indexes,
                PastViews, CurrentView, CurrentHeight
  <1>5. ASSUME UNCHANGED hvars
        PROVE  PastViews' = PastViews /\ CurrentView' = CurrentView
    BY <1>5 DEF hvars, vars, PastViews, CurrentView, CurrentHeight
  <1> QED BY <1>1, <1>2, <1>3, <1>4, <1>5

\* A rollback makes a past view current.
LEMMA RolledBackViews ==
    ASSUME FullInv, NEW hash \in Hashes, HRollbackTip(hash)
    PROVE  /\ PastViews' \subseteq PastViews
           /\ CurrentView' \in PastViews
           /\ CurrentHeight' = tip_height'
  <1> DEFINE L == Len(trail)
  <1>1. /\ block = None /\ history # << >> /\ block' = None
        /\ trail' = SubSeq(trail, 1, L - 1)
    BY DEF HRollbackTip, RollbackTip, callVars
  <1>2. /\ L \in Nat /\ L # 0
    BY <1>1, UndosFacts, EmptySeq DEF FullInv, RollbackInv, JournalsExact, Undos
  <1>3. View' = trail[L]
    <2>1. IndexInv'
      BY IndexStep DEF FullInv, RollbackInv, Next, HRollbackTip
    <2> QED BY <2>1, RollbackStep DEF FullInv
  <1>4. /\ tip_height' = trail[L].tip_height /\ db'.heads = trail[L].heads
    <2>1. View'.tip_height = tip_height' /\ View'.heads = db'.heads
      BY DEF View
    <2> QED BY <1>3, <2>1
  <1>5. CurrentHeight' = tip_height'
    BY <1>1 DEF CurrentHeight
  <1>6. CurrentView' = [heads |-> trail[L].heads, tip |-> trail[L].tip_height]
    BY <1>4, <1>5 DEF CurrentView
  <1>7. /\ Len(trail') = L - 1
        /\ \A i \in 1 .. L - 1 : trail'[i] = trail[i]
    <2> DEFINE k == L - 1
    <2>1. IsSeq(trail) /\ k \in Nat /\ k <= L /\ k + 1 - 1 = k
      BY <1>2 DEF FullInv, RollbackInv
    <2> HIDE DEF k
    <2>2. /\ Len(SubSeq(trail, 1, k)) = k
          /\ \A i \in 1 .. k : SubSeq(trail, 1, k)[i] = trail[1 + i - 1]
      BY <1>2, <2>1, SubSeqFacts
    <2> QED BY <1>1, <2>1, <2>2 DEF k
  <1>8. PastViews' \subseteq PastViews
    <2>1. \A i \in 1 .. L - 1 : i \in 1 .. L
      BY <1>2
    <2> QED BY <1>7, <2>1 DEF PastViews
  <1> QED BY <1>2, <1>5, <1>6, <1>8 DEF PastViews

-----------------------------------------------------------------------------
(***************************************************************************)
(* The records lie on the branch, and those of the block in progress       *)
(* before its remaining transactions.                                      *)
(***************************************************************************)
GhostInv ==
    /\ \A s \in spends :
          /\ s.height \in Nat /\ CurrentHeight # None /\ s.height <= CurrentHeight
          /\ s.tx_index \in Nat
    /\ \A p \in installed :
          /\ p.height \in Nat /\ CurrentHeight # None /\ p.height <= CurrentHeight
          /\ p.height >= activation_height
    /\ \A r \in served :
          r.height \in Nat /\ tip_height # None /\ r.height <= tip_height
    /\ block # None =>
          /\ Canonical(block)
          /\ \A tx \in Upcoming :
                /\ \A s \in spends :
                      s.height = block.height => s.tx_index < tx.tx_index
                /\ \A n \in DOMAIN db.heads :
                      db.heads[n].producer.height = block.height
                        => db.heads[n].producer.tx_index < tx.tx_index

\* What a transaction adds to the records.
LEMMA ApplyGhosts ==
    ASSUME FullInv, LApplyTransaction
    PROVE  LET tx == block.transactions[pos + 1]
               op == tx.operation
               height == block.height
           IN  /\ spends \subseteq spends' /\ served' = served
               /\ \A s \in spends' :
                     \/ s \in spends
                     \/ /\ s.height = height /\ s.tx_index = tx.tx_index
                        /\ s.nullifier \in Nullifiers(tx)
               /\ \A nf \in Nullifiers(tx) :
                     [height |-> height, tx_index |-> tx.tx_index, nullifier |-> nf]
                       \in spends'
               /\ \A p \in installed' :
                     \/ p \in installed
                     \/ /\ Installs(db, height, tx)
                        /\ p = [name |-> op.name, height |-> height,
                                tx_index |-> tx.tx_index]
  <1> DEFINE tx == block.transactions[pos + 1]
             op == tx.operation
             height == block.height
             H == db.heads
             new(n) == [name |-> n, height |-> height, tx_index |-> tx.tx_index]
             add == {[height |-> height, tx_index |-> tx.tx_index, nullifier |-> nf] :
                       nf \in Revealed(tx)}
             I == Installs(db, height, tx)
  <1>1. Revealed(tx) = Nullifiers(tx)
    BY DEF Revealed, Nullifiers
  <1>2. spends' = spends \cup add /\ served' = served
    BY DEF LApplyTransaction
  <1>3. installed' = installed \cup
                {new(n) : n \in {m \in DOMAIN db'.heads :
                                   \/ m \notin DOMAIN H
                                   \/ H[m].producer # db'.heads[m].producer}}
    BY DEF LApplyTransaction
  <1>4. /\ \A n : n \in DOMAIN db'.heads <=> n \in DOMAIN H \/ (I /\ n = op.name)
        /\ \A n \in DOMAIN H :
             ~(I /\ n = op.name) =>
               db'.heads[n] = IF /\ H[n].terminal_height = None
                                 /\ H[n].future_nf \in Nullifiers(tx)
                              THEN EndedAt(H[n], height) ELSE H[n]
        /\ block # None
    BY ApplyHeads DEF LApplyTransaction
  <1>5. \A n \in DOMAIN H : H[n] \in HeadRecord
    BY DEF FullInv, TypeInv, TypeOK, MapOf
  <1>6. height \in Height
    BY <1>4, CurrentHeightType
  <1> HIDE DEF I
  <1>7. \A n \in DOMAIN db'.heads :
           (n \notin DOMAIN H \/ H[n].producer # db'.heads[n].producer)
             => I /\ n = op.name
    <2> SUFFICES ASSUME NEW n \in DOMAIN db'.heads, ~(I /\ n = op.name)
                 PROVE  n \in DOMAIN H /\ H[n].producer = db'.heads[n].producer
      OBVIOUS
    <2>1. n \in DOMAIN H /\ H[n] \in HeadRecord
      BY <1>4, <1>5
    <2>2. EndedAt(H[n], height).producer = H[n].producer
      BY <1>6, <2>1, EndedAtType
    <2> QED BY <1>4, <2>1, <2>2
  <1>8. \A p \in installed' : p \in installed \/ (I /\ p = new(op.name))
    <2> HIDE DEF new
    <2> QED BY <1>3, <1>7
  <1>9. \A s \in add : /\ s.height = height /\ s.tx_index = tx.tx_index
                       /\ s.nullifier \in Nullifiers(tx)
    BY <1>1
  <1>10. \A nf \in Nullifiers(tx) :
           [height |-> height, tx_index |-> tx.tx_index, nullifier |-> nf] \in add
    BY <1>1
  <1> HIDE DEF add
  <1> QED BY <1>2, <1>8, <1>9, <1>10 DEF I

LEMMA GhostInit == LInit => GhostInv
  BY DEF LInit, HInit, Init, GhostInv

LEMMA GhostBegin ==
    ASSUME FullInv, GhostInv,
           NEW b \in Block, NEW e \in SUBSET ReferencedCommit, LBeginBlock(b, e)
    PROVE  GhostInv'
  <1>1. HBeginBlock(b, e) /\ spends' = spends /\ installed' = installed /\ served' = served
    BY DEF LBeginBlock, ghosts
  <1>2. /\ CurrentHeight = tip_height
        /\ CurrentHeight' = b.height /\ b.height \in Nat /\ b.height # None
        /\ CurrentHeight # None => b.height = CurrentHeight + 1
    BY <1>1, BeginViews
  <1>3. /\ block' = b /\ b # None /\ Canonical(b) /\ tip_height' = tip_height
        /\ block = None
    BY <1>1, ValuesAssumption DEF HBeginBlock, BeginBlock, chainVars
  <1>4. CurrentHeight # None => CurrentHeight \in Nat
    BY CurrentHeightType
  <1>5. \A s \in spends : s.height \in Nat /\ s.tx_index \in Nat /\ s.height < b.height
    BY <1>2, <1>4 DEF GhostInv
  <1>6. ASSUME NEW n \in DOMAIN db'.heads
        PROVE  db'.heads[n].producer.height # b.height
    <2>1. n \in DOMAIN db.heads /\ db'.heads[n] = Marked(db.heads[n], b.height)
      BY <1>1, BeginHeads
    <2>2. db.heads[n] \in HeadRecord /\ HeadValid(CurrentHeight, db.heads[n])
      BY <2>1 DEF FullInv, TypeInv, TypeOK, MapOf, SnapInv, RecordsValid
    <2>3. db'.heads[n].producer = db.heads[n].producer
      BY <2>1, <2>2, MarkedFacts
    <2>4. db.heads[n].producer.height \in Nat
      BY <2>2, ParametersAssumption DEF HeadRecord, StateRef, Height
    <2> QED BY <1>2, <1>4, <2>2, <2>3, <2>4 DEF HeadValid
  <1>7. \A p \in installed : /\ p.height \in Nat /\ p.height <= b.height
                             /\ p.height >= activation_height
    BY <1>2, <1>4 DEF GhostInv
  <1>8. \A r \in served : r.height \in Nat /\ tip_height # None /\ r.height <= tip_height
    BY DEF GhostInv
  <1>9. \A s \in spends : /\ s.height \in Nat /\ s.tx_index \in Nat
                          /\ s.height <= b.height /\ s.height # b.height
    BY <1>2, <1>5
  <1> QED BY <1>1, <1>2, <1>3, <1>6, <1>7, <1>8, <1>9 DEF GhostInv

LEMMA GhostApply ==
    ASSUME FullInv, GhostInv, LApplyTransaction
    PROVE  GhostInv'
  <1> DEFINE tx == block.transactions[pos + 1]
             op == tx.operation
             height == block.height
             I == Installs(db, height, tx)
             H == db.heads
  <1>1. /\ block # None /\ tx \in Transaction /\ tx \in Upcoming
        /\ block' = block /\ Upcoming' \subseteq Upcoming
        /\ tip_height' = tip_height
        /\ \A n : n \in DOMAIN db'.heads <=> n \in DOMAIN H \/ (I /\ n = op.name)
        /\ I => db'.heads[op.name] = NewHead(height, tx)
        /\ \A n \in DOMAIN H :
             ~(I /\ n = op.name) =>
               db'.heads[n] = IF /\ H[n].terminal_height = None
                                 /\ H[n].future_nf \in Nullifiers(tx)
                              THEN EndedAt(H[n], height) ELSE H[n]
    BY ApplyHeads DEF LApplyTransaction
  <1>2. /\ served' = served
        /\ \A s \in spends' : \/ s \in spends
                              \/ s.height = height /\ s.tx_index = tx.tx_index
        /\ \A p \in installed' :
             \/ p \in installed
             \/ p = [name |-> op.name, height |-> height, tx_index |-> tx.tx_index]
    BY ApplyGhosts
  <1>3. /\ CurrentHeight' = CurrentHeight /\ CurrentHeight = height
        /\ height \in Nat /\ height # None /\ height >= activation_height
        /\ height \in Height
    BY <1>1, CurrentHeightType, KeptViews DEF LApplyTransaction
  <1>4. Canonical(block)
    BY <1>1 DEF GhostInv
  <1>5. \A later \in Upcoming' : later \in Upcoming /\ tx.tx_index < later.tx_index
    <2>1. pos' = pos + 1 /\ pos \in Nat /\ pos < Len(block.transactions)
      BY DEF LApplyTransaction, HApplyTransaction, ApplyTransaction, FullInv, TypeInv, TypeOK
    <2>2. block.transactions \in Seq(Transaction)
      BY <1>1 DEF FullInv, TypeInv, TypeOK, Option, Block
    <2>3. DOMAIN block.transactions = 1 .. Len(block.transactions)
          /\ Len(block.transactions) \in Nat
      BY <2>2
    <2> SUFFICES ASSUME NEW j \in pos + 1 + 1 .. Len(block.transactions)
                 PROVE  tx.tx_index < block.transactions[j].tx_index
      BY <1>1, <2>1 DEF Upcoming
    <2>4. /\ j \in DOMAIN block.transactions /\ pos + 1 \in DOMAIN block.transactions
          /\ pos + 1 < j
      BY <2>1, <2>3
    <2> QED BY <1>4, <2>4 DEF Canonical
  <1> HIDE DEF I
  <1>6. ASSUME NEW later \in Upcoming', NEW n \in DOMAIN db'.heads,
               db'.heads[n].producer.height = height
        PROVE  db'.heads[n].producer.tx_index < later.tx_index
    <2>1. CASE I /\ n = op.name
      <3>1. NewHead(height, tx).producer.tx_index = tx.tx_index
        BY DEF NewHead
      <3> HIDE DEF tx
      <3> QED BY <1>1, <1>5, <2>1, <3>1
    <2>2. CASE ~(I /\ n = op.name)
      <3>1. n \in DOMAIN H /\ H[n] \in HeadRecord
        BY <1>1, <2>2 DEF FullInv, TypeInv, TypeOK, MapOf
      <3>2. EndedAt(H[n], height).producer = H[n].producer
        BY <1>3, <3>1, EndedAtType
      <3>3. db'.heads[n].producer = H[n].producer
        BY <1>1, <2>2, <3>1, <3>2
      <3> QED BY <1>1, <1>5, <1>6, <3>1, <3>3 DEF GhostInv
    <2> QED BY <2>1, <2>2
  <1>7. ASSUME NEW later \in Upcoming', NEW s \in spends', s.height = height
        PROVE  s.tx_index < later.tx_index
    <2> HIDE DEF tx
    <2> QED BY <1>1, <1>2, <1>5, <1>7 DEF GhostInv
  <1>8. \A s \in spends' : s.height \in Nat /\ s.tx_index \in Nat /\ s.height <= height
    <2>1. tx.tx_index \in Nat
      BY <1>1, ParametersAssumption DEF Transaction, Height
    <2> HIDE DEF tx
    <2> QED BY <1>2, <1>3, <2>1 DEF GhostInv
  <1>9. \A p \in installed' : /\ p.height \in Nat /\ p.height <= height
                              /\ p.height >= activation_height
    <2> DEFINE new == [name |-> op.name, height |-> height, tx_index |-> tx.tx_index]
    <2>1. new.height = height
      OBVIOUS
    <2> HIDE DEF new, tx
    <2> QED BY <1>2, <1>3, <2>1 DEF GhostInv, new
  <1>10. \A r \in served' : r.height \in Nat /\ tip_height' # None /\ r.height <= tip_height'
    BY <1>1, <1>2 DEF GhostInv
  <1> QED BY <1>1, <1>3, <1>4, <1>6, <1>7, <1>8, <1>9, <1>10 DEF GhostInv

\* What a name resolves to, by its head alone.
LEMMA ServedActive ==
    ASSUME NEW h, NEW n \in DOMAIN db.heads, resolve(n, h).ua # None
    PROVE  db.heads[n].terminal_height = None
  BY DEF resolve, lifecycle, terminal_at, NoRecord

LEMMA EndGhosts ==
    ASSUME FullInv, LEndBlock
    PROVE  /\ spends' \subseteq spends /\ installed' \subseteq installed
           /\ \A r \in served' :
                 \/ r \in served
                 \/ \E n \in DOMAIN db.heads :
                       /\ r = [name |-> n, height |-> block.height,
                               owner |-> Owner(db.heads[n].commitment)]
                       /\ db.heads[n].terminal_height = None
  <1>1. spends' \subseteq spends /\ installed' \subseteq installed
    BY DEF LEndBlock, Recent
  <1>2. served' = Recent(served) \cup
         {[name |-> n, height |-> block.height,
           owner |-> Owner(db.heads[n].commitment)] :
            n \in {m \in DOMAIN db.heads : resolve(m, block.height).ua # None}}
    BY DEF LEndBlock
  <1>3. \A m \in DOMAIN db.heads :
          resolve(m, block.height).ua # None => db.heads[m].terminal_height = None
    BY ServedActive
  <1> QED BY <1>1, <1>2, <1>3 DEF Recent

LEMMA GhostStep ==
    ASSUME FullInv, FullInv', GhostInv, [LNext]_lvars
    PROVE  GhostInv'
  <1>1. CASE LEndBlock
    <2>1. /\ block # None /\ block' = None /\ tip_height' = block.height
          /\ CurrentHeight' = CurrentHeight /\ CurrentHeight = block.height
          /\ block.height \in Nat /\ block.height # None
      BY <1>1, CurrentHeightType DEF LEndBlock, HEndBlock, EndBlock, CurrentHeight
    <2>2. tip_height # None => tip_height \in Nat /\ block.height = tip_height + 1
      <3>1. tip_height \in Option(Height)
        BY DEF FullInv, TypeInv, TypeOK
      <3> QED BY <2>1, <3>1, ParametersAssumption
              DEF FullInv, SnapInv, TipValid, Option, Height
    <2>3. \A r \in served' : r.height \in Nat /\ r.height <= block.height
      <3> SUFFICES ASSUME NEW r \in served' PROVE r.height \in Nat /\ r.height <= block.height
        OBVIOUS
      <3>1. r \in served \/ r.height = block.height
        BY <1>1, EndGhosts
      <3> QED BY <2>1, <2>2, <3>1 DEF GhostInv
    <2>4. spends' \subseteq spends /\ installed' \subseteq installed
      BY <1>1, EndGhosts
    <2> QED BY <2>1, <2>3, <2>4 DEF GhostInv
  <1>2. ASSUME NEW hash \in Hashes, LRollbackTip(hash) PROVE GhostInv'
    <2>1. /\ block' = None /\ CurrentHeight' = tip_height'
      BY <1>2 DEF LRollbackTip, HRollbackTip, RollbackTip, callVars, CurrentHeight
    <2>2. /\ \A s \in spends' : s \in spends /\ tip_height' # None /\ s.height <= tip_height'
          /\ \A s \in installed' : s \in installed /\ tip_height' # None /\ s.height <= tip_height'
          /\ \A s \in served' : s \in served /\ tip_height' # None /\ s.height <= tip_height'
      BY <1>2 DEF LRollbackTip, OnBranch
    <2> QED BY <2>1, <2>2 DEF GhostInv
  <1>3. ASSUME NEW height \in Height, LFinalizeThrough(height) PROVE GhostInv'
    BY <1>3 DEF LFinalizeThrough, HFinalizeThrough, FinalizeThrough, callVars, chainVars,
                ghosts, GhostInv, CurrentHeight, Upcoming
  <1>4. CASE LRestart
    BY <1>4 DEF LRestart, HRestart, Restart, callVars, chainVars,
                ghosts, GhostInv, CurrentHeight, Upcoming
  <1>5. CASE UNCHANGED lvars
    BY <1>5 DEF lvars, hvars, vars, ghosts, GhostInv, CurrentHeight, Upcoming
  <1> QED BY <1>1, <1>2, <1>3, <1>4, <1>5, GhostBegin, GhostApply DEF LNext

-----------------------------------------------------------------------------
(***************************************************************************)
(* The invariants of this module speak of every view v and of the records  *)
(* at or below its tip.  A step takes its past views from the views before *)
(* it and adds no record at or below their tips; so does its current view, *)
(* unless the step starts a block or applies a transaction.                *)
(***************************************************************************)
AllViews == PastViews \cup {CurrentView}

NothingNew(v) ==
    /\ Below(spends', v.tip) \subseteq Below(spends, v.tip)
    /\ Below(installed', v.tip) \subseteq Below(installed, v.tip)

LEMMA PastViewsFrom ==
    ASSUME FullInv, FullInv', GhostInv, [LNext]_lvars, NEW v \in PastViews'
    PROVE  /\ v \in AllViews /\ NothingNew(v)
           /\ Below(served', v.tip) \subseteq Below(served, v.tip)
  <1> USE DEF AllViews
  <1>1. ASSUME NEW b \in Block, NEW e \in SUBSET ReferencedCommit, LBeginBlock(b, e)
        PROVE  /\ v \in AllViews /\ NothingNew(v)
               /\ Below(served', v.tip) \subseteq Below(served, v.tip)
    <2>1. PastViews' \subseteq AllViews
      BY <1>1, BeginViews DEF LBeginBlock
    <2> QED BY <1>1, <2>1 DEF LBeginBlock, ghosts, NothingNew
  <1>2. CASE LApplyTransaction
    <2>1. v \in PastViews
      BY <1>2, KeptViews DEF LApplyTransaction
    <2>2. v.tip # None => v.tip \in Nat /\ v.tip < block.height /\ block.height \in Nat
      BY <1>2, <2>1, PastTips, CurrentHeightType, ApplyHeads DEF LApplyTransaction
    <2>3. /\ served' = served
          /\ \A s \in spends' : s \in spends \/ s.height = block.height
          /\ \A p \in installed' : p \in installed \/ p.height = block.height
      BY <1>2, ApplyGhosts
    <2> QED BY <2>1, <2>2, <2>3 DEF NothingNew, Below
  <1>3. CASE LEndBlock
    <2>1. v \in PastViews
      BY <1>3, KeptViews DEF LEndBlock
    <2>2. v.tip # None => v.tip \in Nat /\ v.tip < block.height /\ block.height \in Nat
      BY <1>3, <2>1, PastTips, CurrentHeightType DEF LEndBlock, HEndBlock, EndBlock
    <2>3. /\ spends' \subseteq spends /\ installed' \subseteq installed
          /\ \A r \in served' : r \in served \/ r.height = block.height
      BY <1>3, EndGhosts
    <2> QED BY <2>1, <2>2, <2>3 DEF NothingNew, Below
  <1>4. ASSUME NEW hash \in Hashes, LRollbackTip(hash)
        PROVE  /\ v \in AllViews /\ NothingNew(v)
               /\ Below(served', v.tip) \subseteq Below(served, v.tip)
    <2>1. v \in PastViews
      BY <1>4, RolledBackViews DEF LRollbackTip
    <2> QED BY <1>4, <2>1 DEF LRollbackTip, OnBranch, NothingNew, Below
  <1>5. ASSUME NEW height \in Height, LFinalizeThrough(height)
        PROVE  /\ v \in AllViews /\ NothingNew(v)
               /\ Below(served', v.tip) \subseteq Below(served, v.tip)
    <2>1. v \in PastViews
      BY <1>5, KeptViews DEF LFinalizeThrough
    <2> QED BY <1>5, <2>1 DEF LFinalizeThrough, ghosts, NothingNew
  <1>6. CASE LRestart
    <2>1. v \in PastViews
      BY <1>6, KeptViews DEF LRestart
    <2> QED BY <1>6, <2>1 DEF LRestart, ghosts, NothingNew
  <1>7. CASE UNCHANGED lvars
    <2>1. v \in PastViews
      BY <1>7, KeptViews DEF lvars
    <2> QED BY <1>7, <2>1 DEF lvars, ghosts, NothingNew
  <1> QED BY <1>1, <1>2, <1>3, <1>4, <1>5, <1>6, <1>7 DEF LNext

LEMMA CurrentViewFrom ==
    ASSUME FullInv, [LNext]_lvars, ~LApplyTransaction,
           ~ \E b \in Block, e \in SUBSET ReferencedCommit : LBeginBlock(b, e)
    PROVE  /\ CurrentView' \in AllViews /\ NothingNew(CurrentView')
           /\ ~LEndBlock => served' \subseteq served
  <1> USE DEF AllViews
  <1>1. CASE LEndBlock
    <2>1. CurrentView' \in AllViews
      BY <1>1, KeptViews DEF LEndBlock
    <2>2. spends' \subseteq spends /\ installed' \subseteq installed
      BY <1>1, EndGhosts
    <2> QED BY <1>1, <2>1, <2>2 DEF NothingNew, Below
  <1>2. ASSUME NEW hash \in Hashes, LRollbackTip(hash)
        PROVE  /\ CurrentView' \in AllViews /\ NothingNew(CurrentView')
               /\ served' \subseteq served
    <2>1. CurrentView' \in AllViews
      BY <1>2, RolledBackViews DEF LRollbackTip
    <2>2. spends' \subseteq spends /\ installed' \subseteq installed /\ served' \subseteq served
      BY <1>2 DEF LRollbackTip, OnBranch
    <2> QED BY <2>1, <2>2 DEF NothingNew, Below
  <1>3. ASSUME NEW height \in Height, LFinalizeThrough(height)
        PROVE  /\ CurrentView' \in AllViews /\ NothingNew(CurrentView')
               /\ served' \subseteq served
    <2>1. CurrentView' \in AllViews
      BY <1>3, KeptViews DEF LFinalizeThrough
    <2> QED BY <1>3, <2>1 DEF LFinalizeThrough, ghosts, NothingNew
  <1>4. ASSUME LRestart \/ UNCHANGED lvars
        PROVE  /\ CurrentView' \in AllViews /\ NothingNew(CurrentView')
               /\ served' \subseteq served
    <2>1. CurrentView' \in AllViews
      BY <1>4, KeptViews DEF LRestart, lvars
    <2>2. spends' = spends /\ installed' = installed /\ served' = served
      BY <1>4 DEF LRestart, lvars, ghosts
    <2> QED BY <2>1, <2>2 DEF NothingNew
  <1> QED BY <1>1, <1>2, <1>3, <1>4 DEF LNext

-----------------------------------------------------------------------------
(***************************************************************************)
(* Active heads have unspent bonds.                                        *)
(***************************************************************************)
BondsUnspent(v, records) ==
    \A n \in DOMAIN v.heads :
        v.heads[n].terminal_height = None =>
          \A s \in Below(records, v.tip) :
              s.nullifier = v.heads[n].future_nf => ~After(s, v.heads[n])

BondInv == \A v \in AllViews : BondsUnspent(v, spends)

LEMMA BondBegin ==
    ASSUME FullInv, GhostInv, BondsUnspent(CurrentView, spends),
           NEW b \in Block, NEW e \in SUBSET ReferencedCommit, LBeginBlock(b, e)
    PROVE  BondsUnspent(CurrentView', spends')
  <1>1. HBeginBlock(b, e) /\ spends' = spends
    BY DEF LBeginBlock, ghosts
  <1>2. /\ CurrentView.heads = db.heads /\ CurrentView.tip = CurrentHeight
        /\ CurrentView'.heads = db'.heads /\ CurrentView'.tip = CurrentHeight'
    BY DEF CurrentView
  <1>3. ASSUME NEW n \in DOMAIN db'.heads, db'.heads[n].terminal_height = None,
               NEW s \in spends, s.nullifier = db'.heads[n].future_nf
        PROVE  ~After(s, db'.heads[n])
    <2>1. n \in DOMAIN db.heads /\ db'.heads[n] = Marked(db.heads[n], b.height)
      BY <1>1, BeginHeads
    <2>2. db.heads[n] \in HeadRecord
      BY <2>1 DEF FullInv, TypeInv, TypeOK, MapOf
    <2>3. db'.heads[n] = db.heads[n]
      BY <1>3, <2>1, <2>2, MarkedFacts
    <2>4. s \in Below(spends, CurrentHeight)
      BY DEF Below, GhostInv
    <2> QED BY <1>2, <1>3, <2>1, <2>3, <2>4 DEF BondsUnspent
  <1> QED BY <1>1, <1>2, <1>3 DEF BondsUnspent, Below

LEMMA BondApply ==
    ASSUME FullInv, GhostInv, BondsUnspent(CurrentView, spends), LApplyTransaction
    PROVE  BondsUnspent(CurrentView', spends')
  <1> DEFINE tx == block.transactions[pos + 1]
             op == tx.operation
             height == block.height
             I == Installs(db, height, tx)
             H == db.heads
  <1>1. /\ block # None /\ tx \in Transaction /\ tx \in Upcoming
        /\ \A n : n \in DOMAIN db'.heads <=> n \in DOMAIN H \/ (I /\ n = op.name)
        /\ I => db'.heads[op.name] = NewHead(height, tx)
        /\ \A n \in DOMAIN H :
             ~(I /\ n = op.name) =>
               db'.heads[n] = IF /\ H[n].terminal_height = None
                                 /\ H[n].future_nf \in Nullifiers(tx)
                              THEN EndedAt(H[n], height) ELSE H[n]
    BY ApplyHeads DEF LApplyTransaction
  <1>2. \A s \in spends' :
           \/ s \in spends
           \/ /\ s.height = height /\ s.tx_index = tx.tx_index
              /\ s.nullifier \in Nullifiers(tx)
    BY ApplyGhosts
  <1>3. height \in Nat /\ height \in Height /\ height # None /\ CurrentHeight = height
    BY <1>1, CurrentHeightType
  <1>4. /\ CurrentView.heads = H /\ CurrentView.tip = CurrentHeight
        /\ CurrentView'.heads = db'.heads
    BY DEF CurrentView
  <1>5. tx.tx_index \in Nat
    BY <1>1, ParametersAssumption DEF Transaction, Height
  <1>6. \A s \in spends : /\ s.height \in Nat /\ s.height <= height /\ s.tx_index \in Nat
                          /\ s.height = height => s.tx_index < tx.tx_index
    BY <1>1, <1>3 DEF GhostInv
  <1> HIDE DEF I
  <1>7. ASSUME NEW n \in DOMAIN db'.heads, db'.heads[n].terminal_height = None,
               NEW s \in spends', s.nullifier = db'.heads[n].future_nf
        PROVE  ~After(s, db'.heads[n])
    <2>1. CASE I /\ n = op.name
      <3>1. db'.heads[n] = NewHead(height, tx)
        BY <1>1, <2>1
      <3>2. /\ db'.heads[n].producer.height = height
            /\ db'.heads[n].producer.tx_index = tx.tx_index
        BY <3>1 DEF NewHead
      <3>3. s \in spends \/ (s.height = height /\ s.tx_index = tx.tx_index)
        BY <1>2
      <3> HIDE DEF tx, height
      <3>4. CASE s \in spends
        <4>1. s.height = height => ~(s.tx_index > tx.tx_index)
          <5>1. SUFFICES ASSUME s.height = height, s.tx_index > tx.tx_index PROVE FALSE
            OBVIOUS
          <5>2. s.tx_index < tx.tx_index
            BY <1>6, <3>4, <5>1
          <5> QED BY <1>5, <1>6, <3>4, <5>1, <5>2
        <4> QED BY <1>3, <1>6, <3>2, <3>4, <4>1 DEF After
      <3>5. CASE s.height = height /\ s.tx_index = tx.tx_index
        BY <1>3, <1>5, <3>2, <3>5 DEF After
      <3> QED BY <3>3, <3>4, <3>5
    <2>2. CASE ~(I /\ n = op.name)
      <3>1. n \in DOMAIN H /\ H[n] \in HeadRecord
        BY <1>1, <2>2 DEF FullInv, TypeInv, TypeOK, MapOf
      <3>2. EndedAt(H[n], height).terminal_height # None
        BY <1>3, <3>1, EndedAtType
      <3>3. db'.heads[n] = H[n] /\ H[n].future_nf \notin Nullifiers(tx)
        BY <1>1, <1>7, <2>2, <3>1, <3>2
      <3>4. s \in spends
        BY <1>2, <1>7, <3>3
      <3>5. s \in Below(spends, CurrentHeight)
        BY <3>4 DEF Below, GhostInv
      <3> QED BY <1>4, <1>7, <3>1, <3>3, <3>5 DEF BondsUnspent
    <2> QED BY <2>1, <2>2
  <1> QED BY <1>4, <1>7 DEF BondsUnspent, Below

LEMMA BondStep ==
    ASSUME FullInv, FullInv', GhostInv, BondInv, [LNext]_lvars
    PROVE  BondInv'
  <1>1. ASSUME NEW v \in AllViews, NothingNew(v) PROVE BondsUnspent(v, spends')
    BY <1>1 DEF BondInv, BondsUnspent, NothingNew
  <1>2. \A v \in PastViews' : BondsUnspent(v, spends')
    BY <1>1, PastViewsFrom
  <1>3. BondsUnspent(CurrentView, spends)
    BY DEF BondInv, AllViews
  <1>4. BondsUnspent(CurrentView', spends')
    <2>1. CASE LApplyTransaction
      BY <1>3, <2>1, BondApply
    <2>2. CASE \E b \in Block, e \in SUBSET ReferencedCommit : LBeginBlock(b, e)
      BY <1>3, <2>2, BondBegin
    <2>3. CASE /\ ~LApplyTransaction
               /\ ~ \E b \in Block, e \in SUBSET ReferencedCommit : LBeginBlock(b, e)
      BY <1>1, <2>3, CurrentViewFrom
    <2> QED BY <2>1, <2>2, <2>3
  <1> QED BY <1>2, <1>4 DEF BondInv, AllViews

\* What the records and the history variables satisfy together.
CoreInv == FullInv /\ GhostInv

LEMMA CoreInit == LInit => CoreInv
  BY SnapInit, GhostInit DEF LInit, CoreInv

LEMMA CoreStep == CoreInv /\ [LNext]_lvars => CoreInv'
  <1> SUFFICES ASSUME CoreInv, [LNext]_lvars PROVE CoreInv'
    OBVIOUS
  <1>1. FullInv'
    BY LNextIsHNext, SnapStep DEF CoreInv
  <1> QED BY <1>1, GhostStep DEF CoreInv

LEMMA FirstView ==
    ASSUME LInit
    PROVE  /\ AllViews = {CurrentView} /\ DOMAIN CurrentView.heads = {}
           /\ CurrentView.tip = None
  <1>1. trail = << >> /\ DOMAIN db.heads = {} /\ block = None /\ tip_height = None
    BY DEF LInit, HInit, Init, EmptyMap
  <1>2. PastViews = {}
    BY <1>1 DEF PastViews
  <1> QED BY <1>1, <1>2 DEF AllViews, CurrentView, CurrentHeight

\* While a head is active its bond is unspent on the current branch: whatever
\* the order of REVEAL, REFRESH, foreign spends, rollbacks, finalization and
\* restarts, apply_transaction_detailed ends a head the moment its future
\* nullifier appears after its producer.
THEOREM BondsHold == LSpec => []ActiveBondUnspent
  <1>1. LInit => BondInv
    BY FirstView DEF BondInv, BondsUnspent
  <1>2. CoreInv /\ BondInv /\ [LNext]_lvars => BondInv'
    BY CoreStep, BondStep DEF CoreInv
  <1>3. CoreInv /\ BondInv => ActiveBondUnspent
    <2> SUFFICES ASSUME CoreInv, BondInv,
                        NEW n \in DOMAIN db.heads, db.heads[n].terminal_height = None,
                        NEW s \in spends, s.nullifier = db.heads[n].future_nf
                 PROVE  ~After(s, db.heads[n])
      BY DEF ActiveBondUnspent, SpendsOf
    <2>1. CurrentView \in AllViews /\ CurrentView.heads = db.heads
          /\ CurrentView.tip = CurrentHeight
      BY DEF AllViews, CurrentView
    <2>2. s \in Below(spends, CurrentHeight)
      BY DEF Below, CoreInv, GhostInv
    <2> QED BY <2>1, <2>2 DEF BondInv, BondsUnspent
  <1> QED BY <1>1, <1>2, <1>3, CoreInit, CoreStep, PTL DEF LSpec

-----------------------------------------------------------------------------
(***************************************************************************)
(* One head is installed for a name per epoch.                             *)
(***************************************************************************)

\* A head in the view is the last one installed for its name and the only one
\* of its epoch; a name without a head had none installed for a cooldown.
InstallsApart(v, records) ==
    \A p \in Below(records, v.tip) :
        IF p.name \in DOMAIN v.heads
          THEN LET producer == v.heads[p.name].producer
               IN  /\ p.height <= producer.height
                   /\ epoch(p.height) = epoch(producer.height)
                        => p.height = producer.height /\ p.tx_index = producer.tx_index
          ELSE p.height + cooldown_blocks <= v.tip

EpochInv ==
    /\ OneInstallPerEpoch
    /\ \A v \in AllViews : InstallsApart(v, installed)

\* A head of the current view, with the types its fields have.
LEMMA HeadFacts ==
    ASSUME FullInv, NEW n \in DOMAIN db.heads
    PROVE  LET head == db.heads[n]
           IN  /\ n \in NameIds /\ head \in HeadRecord
               /\ HeadValid(CurrentHeight, head) /\ CurrentHeight \in Nat
               /\ head.producer.height \in Nat /\ head.producer.height >= activation_height
               /\ head.producer.height <= CurrentHeight
               /\ head.producer_epoch = epoch(head.producer.height)
               /\ head.expiry_height \in Nat /\ head.expiry_height # None
               /\ head.expiry_height = head.producer.height + lease_blocks
               /\ head.terminal_height # None =>
                     /\ head.terminal_height \in Nat
                     /\ head.producer.height <= head.terminal_height
                     /\ head.terminal_height <= CurrentHeight
               /\ head.terminal_height = None => CurrentHeight < head.expiry_height
  <1> DEFINE head == db.heads[n]
  <1>1. /\ n \in NameIds /\ head \in HeadRecord /\ HeadValid(CurrentHeight, head)
    BY DEF FullInv, TypeInv, TypeOK, MapOf, SnapInv, RecordsValid
  <1>2. CurrentHeight \in Nat
    BY <1>1, CurrentHeightType DEF HeadValid
  <1>3. /\ head.producer.height \in Nat /\ head.expiry_height \in Nat
        /\ head.expiry_height # None
        /\ head.terminal_height # None => head.terminal_height \in Nat
    BY <1>1, ValuesAssumption, ParametersAssumption
    DEF HeadRecord, StateRef, Option, Height
  <1> HIDE DEF head
  <1>4. /\ head.producer.height >= activation_height
        /\ head.producer.height <= CurrentHeight
        /\ head.producer_epoch = epoch(head.producer.height)
        /\ head.expiry_height = head.producer.height + lease_blocks
        /\ head.terminal_height = None => CurrentHeight < head.expiry_height
        /\ head.terminal_height # None =>
              head.terminal_height \in head.producer.height .. CurrentHeight
    BY <1>1 DEF HeadValid, expiry
  <1> QED BY <1>1, <1>2, <1>3, <1>4 DEF head

LEMMA EpochBegin ==
    ASSUME FullInv, GhostInv, InstallsApart(CurrentView, installed),
           NEW b \in Block, NEW e \in SUBSET ReferencedCommit, LBeginBlock(b, e)
    PROVE  InstallsApart(CurrentView', installed')
  <1>1. HBeginBlock(b, e) /\ installed' = installed
    BY DEF LBeginBlock, ghosts
  <1>2. /\ CurrentView.heads = db.heads /\ CurrentView.tip = CurrentHeight
        /\ CurrentView'.heads = db'.heads /\ CurrentView'.tip = CurrentHeight'
    BY DEF CurrentView
  <1>3. /\ CurrentHeight' = b.height /\ b.height \in Nat
        /\ CurrentHeight # None => CurrentHeight \in Nat /\ b.height = CurrentHeight + 1
    BY <1>1, BeginViews, CurrentHeightType
  <1>4. ASSUME NEW p \in installed
        PROVE  IF p.name \in DOMAIN db'.heads
                 THEN LET producer == db'.heads[p.name].producer
                      IN  /\ p.height <= producer.height
                          /\ epoch(p.height) = epoch(producer.height)
                               => /\ p.height = producer.height
                                  /\ p.tx_index = producer.tx_index
                 ELSE p.height + cooldown_blocks <= b.height
    <2>1. /\ p \in Below(installed, CurrentHeight) /\ p.height \in Nat
          /\ CurrentHeight # None
      BY DEF Below, GhostInv
    <2>2. CASE p.name \in DOMAIN db'.heads
      <3>1. /\ p.name \in DOMAIN db.heads
            /\ db'.heads[p.name] = Marked(db.heads[p.name], b.height)
        BY <1>1, <2>2, BeginHeads
      <3>2. db'.heads[p.name].producer = db.heads[p.name].producer
        BY <3>1, HeadFacts, MarkedFacts
      <3> QED BY <1>2, <2>1, <2>2, <3>1, <3>2 DEF InstallsApart
    <2>3. CASE p.name \notin DOMAIN db'.heads /\ p.name \in DOMAIN db.heads
      <3> DEFINE head == db.heads[p.name]
                 end == Marked(head, b.height).terminal_height
      <3>1. end # None /\ end <= b.height - cooldown_blocks
        BY <1>1, <2>3, BeginHeads
      <3>2. /\ head \in HeadRecord /\ head.producer.height \in Nat
            /\ head.expiry_height = head.producer.height + lease_blocks
            /\ head.terminal_height # None =>
                 /\ head.terminal_height \in Nat
                 /\ head.producer.height <= head.terminal_height
        BY <2>3, HeadFacts
      <3>3. end = head.terminal_height \/ end = head.expiry_height
        BY <3>2, MarkedFacts
      <3>4. p.height <= head.producer.height
        BY <1>2, <2>1, <2>3 DEF InstallsApart
      <3> HIDE DEF head, end
      <3>5. end \in Nat /\ head.producer.height <= end
        BY <3>1, <3>2, <3>3, ParameterFacts
      <3> QED BY <1>3, <2>1, <2>3, <3>1, <3>2, <3>4, <3>5, CooldownFacts
    <2>4. CASE p.name \notin DOMAIN db'.heads /\ p.name \notin DOMAIN db.heads
      <3>1. p.height + cooldown_blocks <= CurrentHeight
        BY <1>2, <2>1, <2>4 DEF InstallsApart
      <3> QED BY <1>3, <2>1, <2>4, <3>1, CooldownFacts
    <2> QED BY <2>2, <2>3, <2>4
  <1> QED BY <1>1, <1>2, <1>3, <1>4 DEF InstallsApart, Below

\* An accepted operation comes in a later epoch than every head its name had.
LEMMA LaterEpoch ==
    ASSUME FullInv, GhostInv, InstallsApart(CurrentView, installed), LApplyTransaction,
           Installs(db, block.height, block.transactions[pos + 1]),
           NEW p \in installed, p.name = block.transactions[pos + 1].operation.name
    PROVE  /\ p.height \in Nat /\ p.height <= block.height
           /\ epoch(p.height) \in Nat /\ epoch(block.height) \in Nat
           /\ epoch(p.height) < epoch(block.height)
  <1> DEFINE tx == block.transactions[pos + 1]
             height == block.height
  <1>1. block # None /\ tx \in Transaction
    BY ApplyHeads DEF LApplyTransaction
  <1>2. /\ height \in Nat /\ height >= activation_height /\ CurrentHeight = height
        /\ height # None
    BY <1>1, CurrentHeightType
  <1>3. /\ p.height \in Nat /\ p.height <= height /\ p.height >= activation_height
        /\ p \in Below(installed, CurrentHeight)
    BY <1>2 DEF GhostInv, Below
  <1>4. CurrentView.heads = db.heads /\ CurrentView.tip = height
    BY <1>2 DEF CurrentView
  <1>5. CASE p.name \notin DOMAIN db.heads
    <2>1. p.height + epoch_blocks <= height
      BY <1>2, <1>3, <1>4, <1>5, CooldownFacts DEF InstallsApart
    <2> QED BY <1>2, <1>3, <2>1, EpochOrder
  <1>6. CASE p.name \in DOMAIN db.heads
    <2> DEFINE head == db.heads[p.name]
    <2>1. head.producer_epoch < epoch(height)
      BY <1>6 DEF Installs, RevealAccepted, RefreshAccepted
    <2>2. /\ head.producer.height \in Nat /\ head.producer.height <= height
          /\ head.producer_epoch = epoch(head.producer.height)
      BY <1>2, <1>6, HeadFacts
    <2>3. p.height <= head.producer.height
      BY <1>2, <1>3, <1>4, <1>6 DEF InstallsApart
    <2>4. /\ epoch(p.height) \in Nat /\ epoch(head.producer.height) \in Nat
          /\ epoch(p.height) <= epoch(head.producer.height)
      BY <1>3, <2>2, <2>3, EpochOrder
    <2>5. epoch(height) \in Nat
      BY <1>2, EpochNat
    <2> HIDE DEF head, height
    <2> QED BY <1>2, <1>3, <2>1, <2>2, <2>4, <2>5 DEF height
  <1> QED BY <1>5, <1>6

LEMMA EpochApply ==
    ASSUME FullInv, GhostInv, OneInstallPerEpoch,
           InstallsApart(CurrentView, installed), LApplyTransaction
    PROVE  OneInstallPerEpoch' /\ InstallsApart(CurrentView', installed')
  <1> DEFINE tx == block.transactions[pos + 1]
             op == tx.operation
             height == block.height
             I == Installs(db, height, tx)
             H == db.heads
             new == [name |-> op.name, height |-> height, tx_index |-> tx.tx_index]
  <1>1. /\ block # None /\ tx \in Transaction
        /\ \A n : n \in DOMAIN db'.heads <=> n \in DOMAIN H \/ (I /\ n = op.name)
        /\ I => db'.heads[op.name] = NewHead(height, tx)
        /\ \A n \in DOMAIN H :
             ~(I /\ n = op.name) =>
               db'.heads[n] = IF /\ H[n].terminal_height = None
                                 /\ H[n].future_nf \in Nullifiers(tx)
                              THEN EndedAt(H[n], height) ELSE H[n]
    BY ApplyHeads DEF LApplyTransaction
  <1>2. \A p \in installed' : p \in installed \/ (I /\ p = new)
    BY ApplyGhosts
  <1>3. /\ CurrentHeight' = CurrentHeight /\ CurrentHeight = height
        /\ height \in Nat /\ height \in Height /\ height # None
    BY <1>1, CurrentHeightType, KeptViews DEF LApplyTransaction
  <1>4. /\ CurrentView.heads = H /\ CurrentView.tip = height
        /\ CurrentView'.heads = db'.heads /\ CurrentView'.tip = height
    BY <1>3 DEF CurrentView
  <1>5. /\ new.name = op.name /\ new.height = height /\ new.tx_index = tx.tx_index
    OBVIOUS
  <1>6. \A p \in installed :
          I /\ p.name = op.name =>
            /\ p.height \in Nat /\ p.height <= height
            /\ epoch(p.height) \in Nat /\ epoch(height) \in Nat
            /\ epoch(p.height) < epoch(height)
    BY LaterEpoch
  <1>7. \A n \in DOMAIN H : ~(I /\ n = op.name) => db'.heads[n].producer = H[n].producer
    <2> SUFFICES ASSUME NEW n \in DOMAIN H, ~(I /\ n = op.name)
                 PROVE  db'.heads[n].producer = H[n].producer
      OBVIOUS
    <2>1. H[n] \in HeadRecord
      BY HeadFacts
    <2>2. EndedAt(H[n], height).producer = H[n].producer
      BY <1>3, <2>1, EndedAtType
    <2> QED BY <1>1, <2>2
  <1>8. /\ NewHead(height, tx).producer.height = height
        /\ NewHead(height, tx).producer.tx_index = tx.tx_index
    BY DEF NewHead
  <1> HIDE DEF I, new, tx, op, height
  <1>9. OneInstallPerEpoch'
    <2> SUFFICES ASSUME NEW p \in installed', NEW q \in installed',
                        p.name = q.name, epoch(p.height) = epoch(q.height)
                 PROVE  p = q
      BY DEF OneInstallPerEpoch
    <2>1. CASE p \in installed /\ q \in installed
      BY <2>1 DEF OneInstallPerEpoch
    <2>2. CASE p \in installed /\ I /\ q = new
      <3>1. epoch(p.height) \in Nat /\ epoch(p.height) < epoch(p.height)
        BY <1>5, <1>6, <2>2
      <3> QED BY <3>1
    <2>3. CASE q \in installed /\ I /\ p = new
      <3>1. epoch(q.height) \in Nat /\ epoch(q.height) < epoch(q.height)
        BY <1>5, <1>6, <2>3
      <3> QED BY <3>1
    <2> QED BY <1>2, <2>1, <2>2, <2>3
  <1>10. ASSUME NEW p \in installed'
         PROVE  IF p.name \in DOMAIN db'.heads
                  THEN LET producer == db'.heads[p.name].producer
                       IN  /\ p.height <= producer.height
                           /\ epoch(p.height) = epoch(producer.height)
                                => /\ p.height = producer.height
                                   /\ p.tx_index = producer.tx_index
                  ELSE p.height + cooldown_blocks <= height
    <2>1. CASE I /\ p = new
      BY <1>1, <1>3, <1>5, <1>8, <2>1
    <2>2. CASE p \in installed /\ I /\ p.name = op.name
      <3>1. /\ p.height \in Nat /\ p.height <= height
            /\ epoch(p.height) # epoch(height)
        BY <1>6, <2>2
      <3> QED BY <1>1, <1>8, <2>2, <3>1
    <2>3. CASE p \in installed /\ ~(I /\ p.name = op.name)
      <3>1. p \in Below(installed, height)
        BY <1>3, <2>3 DEF GhostInv, Below
      <3> QED BY <1>1, <1>4, <1>7, <2>3, <3>1 DEF InstallsApart
    <2> QED BY <1>2, <2>1, <2>2, <2>3
  <1> QED BY <1>4, <1>9, <1>10 DEF InstallsApart, Below

LEMMA EpochStep ==
    ASSUME FullInv, FullInv', GhostInv, EpochInv, [LNext]_lvars
    PROVE  EpochInv'
  <1>1. ASSUME NEW v \in AllViews, NothingNew(v) PROVE InstallsApart(v, installed')
    BY <1>1 DEF EpochInv, InstallsApart, NothingNew
  <1>2. \A v \in PastViews' : InstallsApart(v, installed')
    BY <1>1, PastViewsFrom
  <1>3. OneInstallPerEpoch /\ InstallsApart(CurrentView, installed)
    BY DEF EpochInv, AllViews
  <1>4. OneInstallPerEpoch' /\ InstallsApart(CurrentView', installed')
    <2>1. CASE LApplyTransaction
      BY <1>3, <2>1, EpochApply
    <2>2. CASE \E b \in Block, e \in SUBSET ReferencedCommit : LBeginBlock(b, e)
      <3>1. installed' = installed
        BY <2>2 DEF LBeginBlock, ghosts
      <3> QED BY <1>3, <2>2, <3>1, EpochBegin DEF OneInstallPerEpoch
    <2>3. CASE /\ ~LApplyTransaction
               /\ ~ \E b \in Block, e \in SUBSET ReferencedCommit : LBeginBlock(b, e)
      <3>1. InstallsApart(CurrentView', installed')
        BY <1>1, <2>3, CurrentViewFrom
      <3>2. installed' \subseteq installed
        BY <2>3, EndGhosts DEF LNext, LRollbackTip, OnBranch, LFinalizeThrough, LRestart,
                               lvars, ghosts
      <3> QED BY <1>3, <3>1, <3>2 DEF OneInstallPerEpoch
    <2> QED BY <2>1, <2>2, <2>3
  <1> QED BY <1>2, <1>4 DEF EpochInv, AllViews

\* A name gets at most one head per epoch on any branch the reducer follows:
\* apply_refresh asks for a later epoch than its predecessor's, and a name that
\* was released stays in cooldown, and so rejects a REVEAL, for epoch_blocks
\* blocks (Parameters::validate sets the cooldown to one epoch).
THEOREM InstallsAreApart == LSpec => []OneInstallPerEpoch
  <1>1. LInit => EpochInv
    <2> SUFFICES ASSUME LInit PROVE EpochInv
      OBVIOUS
    <2>1. installed = {}
      BY DEF LInit
    <2> QED BY <2>1 DEF EpochInv, OneInstallPerEpoch, InstallsApart, Below
  <1>2. CoreInv /\ EpochInv /\ [LNext]_lvars => EpochInv'
    BY CoreStep, EpochStep DEF CoreInv
  <1>3. EpochInv => OneInstallPerEpoch
    BY DEF EpochInv
  <1> QED BY <1>1, <1>2, <1>3, CoreInit, CoreStep, PTL DEF LSpec

-----------------------------------------------------------------------------
(***************************************************************************)
(* Owners are a cooldown apart.                                            *)
(***************************************************************************)

\* What the REFRESH circuit (external) shows: the note a REFRESH creates has
\* the hidden authority of the note it spends.
RefreshKeepsOwner ==
    \A st, proof :
        VerifyRefresh(st, proof)
          => Owner(st.action_commitment) = Owner(st.predecessor_commitment)

\* The owners a name was served with: the one of its head, up to its end, or
\* one a cooldown before that head; long ago when it has no head.
OwnersApart(v, records) ==
    \A r \in Below(records, v.tip) :
        IF r.name \in DOMAIN v.heads
          THEN LET head == v.heads[r.name]
               IN  /\ \/ r.owner = Owner(head.commitment)
                      \/ r.height + cooldown_blocks < head.producer.height
                   /\ head.terminal_height # None => r.height < head.terminal_height
          ELSE r.height + cooldown_blocks < v.tip

OwnerInv ==
    /\ Quarantine
    /\ \A v \in AllViews : OwnersApart(v, served)

\* What was served lies below the block in progress.
LEMMA ServedBefore ==
    ASSUME FullInv, GhostInv, NEW r \in served
    PROVE  /\ r.height \in Nat /\ CurrentHeight # None /\ CurrentHeight \in Nat
           /\ r.height <= CurrentHeight /\ r \in Below(served, CurrentHeight)
           /\ block # None => r.height < block.height /\ CurrentHeight = block.height
  <1>1. r.height \in Nat /\ tip_height # None /\ r.height <= tip_height
    BY DEF GhostInv
  <1>2. tip_height \in Nat
    BY <1>1, ParametersAssumption DEF FullInv, TypeInv, TypeOK, Option, Height
  <1>3. CASE block = None
    BY <1>1, <1>2, <1>3 DEF CurrentHeight, Below
  <1>4. CASE block # None
    <2>1. block.height = next_height /\ TipValid(next_height, tip_height)
      BY <1>4 DEF FullInv, SnapInv
    <2>2. block.height \in Nat /\ block.height # None /\ CurrentHeight = block.height
      BY <1>4, CurrentHeightType
    <2>3. block.height = tip_height + 1
      BY <1>1, <2>1, <2>2 DEF TipValid
    <2>4. r.height < block.height /\ r.height <= block.height
      BY <1>1, <1>2, <2>3
    <2> QED BY <1>1, <2>2, <2>4 DEF Below
  <1> QED BY <1>3, <1>4

LEMMA OwnerBegin ==
    ASSUME FullInv, GhostInv, OwnersApart(CurrentView, served),
           NEW b \in Block, NEW e \in SUBSET ReferencedCommit, LBeginBlock(b, e)
    PROVE  OwnersApart(CurrentView', served')
  <1>1. HBeginBlock(b, e) /\ served' = served
    BY DEF LBeginBlock, ghosts
  <1>2. /\ CurrentView.heads = db.heads /\ CurrentView.tip = CurrentHeight
        /\ CurrentView'.heads = db'.heads /\ CurrentView'.tip = CurrentHeight'
    BY DEF CurrentView
  <1>3. /\ CurrentHeight' = b.height /\ b.height \in Nat
        /\ CurrentHeight # None => CurrentHeight \in Nat /\ b.height = CurrentHeight + 1
    BY <1>1, BeginViews, CurrentHeightType
  <1>4. ASSUME NEW r \in served
        PROVE  IF r.name \in DOMAIN db'.heads
                 THEN LET head == db'.heads[r.name]
                      IN  /\ \/ r.owner = Owner(head.commitment)
                             \/ r.height + cooldown_blocks < head.producer.height
                          /\ head.terminal_height # None => r.height < head.terminal_height
                 ELSE r.height + cooldown_blocks < b.height
    <2>1. /\ r \in Below(served, CurrentHeight) /\ r.height \in Nat
          /\ CurrentHeight # None /\ r.height <= CurrentHeight
      BY ServedBefore
    <2>2. CASE r.name \notin DOMAIN db.heads
      <3>1. r.height + cooldown_blocks < CurrentHeight
        BY <1>2, <2>1, <2>2 DEF OwnersApart
      <3>2. r.name \notin DOMAIN db'.heads
        BY <1>1, <2>2, BeginHeads
      <3> QED BY <1>3, <2>1, <3>1, <3>2, CooldownFacts
    <2>3. CASE r.name \in DOMAIN db.heads
      <3> DEFINE head == db.heads[r.name]
                 marked == Marked(head, b.height)
      <3>1. /\ head \in HeadRecord /\ head.expiry_height \in Nat
            /\ head.terminal_height # None => head.terminal_height \in Nat
            /\ head.terminal_height = None => CurrentHeight < head.expiry_height
        BY <2>3, HeadFacts
      <3>2. /\ marked.producer = head.producer /\ marked.commitment = head.commitment
            /\ \/ marked = head
               \/ /\ head.terminal_height = None
                  /\ marked.terminal_height = head.expiry_height
        BY <3>1, MarkedFacts
      <3>3. /\ \/ r.owner = Owner(head.commitment)
               \/ r.height + cooldown_blocks < head.producer.height
            /\ head.terminal_height # None => r.height < head.terminal_height
        BY <1>2, <2>1, <2>3 DEF OwnersApart
      <3>4. /\ r.name \in DOMAIN db'.heads => db'.heads[r.name] = marked
            /\ r.name \notin DOMAIN db'.heads =>
                  /\ marked.terminal_height # None
                  /\ marked.terminal_height <= b.height - cooldown_blocks
        BY <1>1, <2>3, BeginHeads
      <3> HIDE DEF head, marked
      <3>5. marked.terminal_height # None =>
              marked.terminal_height \in Nat /\ r.height < marked.terminal_height
        BY <1>3, <2>1, <3>1, <3>2, <3>3
      <3>6. r.name \notin DOMAIN db'.heads => r.height + cooldown_blocks < b.height
        BY <1>3, <2>1, <3>4, <3>5, CooldownFacts
      <3> QED BY <3>2, <3>3, <3>4, <3>5, <3>6
    <2> QED BY <2>2, <2>3
  <1> QED BY <1>1, <1>2, <1>3, <1>4 DEF OwnersApart, Below

\* An accepted REFRESH leaves the name with its owner.
LEMMA RefreshOwner ==
    ASSUME RefreshKeepsOwner, NEW d, NEW height, NEW tx, RefreshAccepted(d, height, tx)
    PROVE  Owner(NewHead(height, tx).commitment)
             = Owner(d.heads[tx.operation.name].commitment)
  <1> DEFINE op == tx.operation
             st == RefreshStatement(height, tx, d.heads[op.name])
  <1>1. VerifyRefresh(st, op.proof)
    BY DEF RefreshAccepted
  <1>2. /\ st.action_commitment = NewHead(height, tx).commitment
        /\ st.predecessor_commitment = d.heads[op.name].commitment
    BY DEF RefreshStatement, NewHead
  <1> HIDE DEF st
  <1> QED BY <1>1, <1>2 DEF RefreshKeepsOwner

LEMMA OwnerApply ==
    ASSUME RefreshKeepsOwner, FullInv, GhostInv,
           OwnersApart(CurrentView, served), LApplyTransaction
    PROVE  OwnersApart(CurrentView', served')
  <1> DEFINE tx == block.transactions[pos + 1]
             op == tx.operation
             height == block.height
             I == Installs(db, height, tx)
             H == db.heads
  <1>1. /\ block # None /\ tx \in Transaction
        /\ \A n : n \in DOMAIN db'.heads <=> n \in DOMAIN H \/ (I /\ n = op.name)
        /\ I => db'.heads[op.name] = NewHead(height, tx)
        /\ \A n \in DOMAIN H :
             ~(I /\ n = op.name) =>
               db'.heads[n] = IF /\ H[n].terminal_height = None
                                 /\ H[n].future_nf \in Nullifiers(tx)
                              THEN EndedAt(H[n], height) ELSE H[n]
    BY ApplyHeads DEF LApplyTransaction
  <1>2. served' = served
    BY ApplyGhosts
  <1>3. /\ CurrentHeight' = CurrentHeight /\ CurrentHeight = height
        /\ height \in Nat /\ height \in Height /\ height # None
    BY <1>1, CurrentHeightType, KeptViews DEF LApplyTransaction
  <1>4. /\ CurrentView.heads = H /\ CurrentView.tip = height
        /\ CurrentView'.heads = db'.heads /\ CurrentView'.tip = height
    BY <1>3 DEF CurrentView
  <1>5. /\ NewHead(height, tx).producer.height = height
        /\ NewHead(height, tx).terminal_height = None
    BY DEF NewHead
  <1>6. I /\ op.name \in DOMAIN H => RefreshAccepted(db, height, tx)
    BY DEF Installs, RevealAccepted
  <1>7. I /\ op.name \in DOMAIN H =>
          Owner(NewHead(height, tx).commitment) = Owner(H[op.name].commitment)
    BY <1>6, RefreshOwner
  <1> HIDE DEF I, tx, op, height
  <1>8. ASSUME NEW r \in served
        PROVE  IF r.name \in DOMAIN db'.heads
                 THEN LET head == db'.heads[r.name]
                      IN  /\ \/ r.owner = Owner(head.commitment)
                             \/ r.height + cooldown_blocks < head.producer.height
                          /\ head.terminal_height # None => r.height < head.terminal_height
                 ELSE r.height + cooldown_blocks < height
    <2>1. /\ r \in Below(served, height) /\ r.height \in Nat /\ r.height < height
      BY <1>1, <1>3, ServedBefore DEF height
    <2>2. r.name \in DOMAIN H =>
            /\ \/ r.owner = Owner(H[r.name].commitment)
               \/ r.height + cooldown_blocks < H[r.name].producer.height
            /\ H[r.name].terminal_height # None => r.height < H[r.name].terminal_height
      BY <1>4, <2>1 DEF OwnersApart
    <2>3. r.name \notin DOMAIN H => r.height + cooldown_blocks < height
      BY <1>4, <2>1 DEF OwnersApart
    <2>4. r.name \in DOMAIN H =>
            /\ H[r.name] \in HeadRecord /\ H[r.name].producer.height \in Nat
            /\ H[r.name].producer.height <= height
      BY <1>3, HeadFacts
    <2>5. CASE I /\ r.name = op.name
      <3>1. /\ r.name \in DOMAIN db'.heads /\ db'.heads[r.name] = NewHead(height, tx)
        BY <1>1, <2>5
      <3>2. CASE r.name \in DOMAIN H
        <4>1. \/ r.owner = Owner(NewHead(height, tx).commitment)
              \/ r.height + cooldown_blocks < height
          BY <1>3, <1>7, <2>1, <2>2, <2>4, <2>5, <3>2, CooldownFacts
        <4> QED BY <1>5, <3>1, <4>1
      <3>3. CASE r.name \notin DOMAIN H
        BY <1>5, <2>3, <3>1, <3>3
      <3> QED BY <3>2, <3>3
    <2>6. CASE ~(I /\ r.name = op.name) /\ r.name \in DOMAIN H
      <3>1. /\ EndedAt(H[r.name], height).producer = H[r.name].producer
            /\ EndedAt(H[r.name], height).commitment = H[r.name].commitment
            /\ EndedAt(H[r.name], height).terminal_height = height
        BY <1>3, <2>4, <2>6, EndedAtType
      <3>2. /\ r.name \in DOMAIN db'.heads
            /\ \/ db'.heads[r.name] = H[r.name]
               \/ db'.heads[r.name] = EndedAt(H[r.name], height)
        BY <1>1, <2>6
      <3> QED BY <2>1, <2>2, <2>6, <3>1, <3>2
    <2>7. CASE ~(I /\ r.name = op.name) /\ r.name \notin DOMAIN H
      BY <1>1, <2>3, <2>7
    <2> QED BY <2>5, <2>6, <2>7
  <1> QED BY <1>2, <1>4, <1>8 DEF OwnersApart, Below

LEMMA OwnerEnd ==
    ASSUME FullInv, GhostInv, Quarantine, OwnersApart(CurrentView, served), LEndBlock
    PROVE  Quarantine' /\ OwnersApart(CurrentView', served')
  <1> DEFINE height == block.height
             H == db.heads
             new(n) == [name |-> n, height |-> height, owner |-> Owner(H[n].commitment)]
  <1>1. /\ block # None /\ CurrentView' = CurrentView
    BY KeptViews DEF LEndBlock, HEndBlock, EndBlock
  <1>2. /\ height \in Nat /\ height # None /\ CurrentHeight = height
        /\ CurrentView.heads = H /\ CurrentView.tip = height
    BY <1>1, CurrentHeightType DEF CurrentView
  <1>3. \A r \in served' :
          \/ r \in served
          \/ \E n \in DOMAIN H : r = new(n) /\ H[n].terminal_height = None
    BY EndGhosts
  <1>4. \A n : /\ new(n).name = n /\ new(n).height = height
               /\ new(n).owner = Owner(H[n].commitment)
    OBVIOUS
  <1>5. \A r \in served : /\ r.height \in Nat /\ r.height < height
                          /\ r \in Below(served, height)
    BY <1>1, <1>2, ServedBefore
  <1> HIDE DEF new, height
  <1>6. ASSUME NEW r \in served'
        PROVE  IF r.name \in DOMAIN H
                 THEN /\ \/ r.owner = Owner(H[r.name].commitment)
                         \/ r.height + cooldown_blocks < H[r.name].producer.height
                      /\ H[r.name].terminal_height # None
                           => r.height < H[r.name].terminal_height
                 ELSE r.height + cooldown_blocks < height
    <2>1. CASE r \in served
      BY <1>2, <1>5, <2>1 DEF OwnersApart
    <2>2. CASE r \notin served
      <3>1. PICK n \in DOMAIN H : r = new(n) /\ H[n].terminal_height = None
        BY <1>3, <2>2
      <3> QED BY <1>4, <3>1
    <2> QED BY <2>1, <2>2
  <1>7. OwnersApart(CurrentView', served')
    BY <1>1, <1>2, <1>6 DEF OwnersApart, Below
  <1>8. ASSUME NEW r \in served', NEW s \in served',
               r.name = s.name, r.height < s.height, r.owner # s.owner
        PROVE  s.height - r.height > cooldown_blocks
    <2>1. CASE r \in served /\ s \in served
      BY <1>8, <2>1 DEF Quarantine
    <2>2. CASE r \notin served
      <3>1. r.height = height
        BY <1>3, <1>4, <2>2
      <3>2. s.height \in Nat /\ s.height <= height
        BY <1>2, <1>3, <1>4, <1>5
      <3> QED BY <1>2, <1>8, <3>1, <3>2
    <2>3. CASE r \in served /\ s \notin served
      <3>1. PICK n \in DOMAIN H : s = new(n)
        BY <1>3, <2>3
      <3>2. n = r.name /\ s.height = height /\ s.owner = Owner(H[n].commitment)
        BY <1>4, <1>8, <3>1
      <3>3. r.height + cooldown_blocks < H[n].producer.height
        BY <1>6, <1>8, <3>2
      <3>4. H[n].producer.height \in Nat /\ H[n].producer.height <= height
        BY <1>2, HeadFacts
      <3>5. r.height \in Nat
        BY <1>5, <2>3
      <3> QED BY <1>2, <3>2, <3>3, <3>4, <3>5, CooldownFacts
    <2> QED BY <2>1, <2>2, <2>3
  <1> QED BY <1>7, <1>8 DEF Quarantine

LEMMA OwnerStep ==
    ASSUME RefreshKeepsOwner, FullInv, FullInv', GhostInv, OwnerInv, [LNext]_lvars
    PROVE  OwnerInv'
  <1>1. ASSUME NEW v \in AllViews, Below(served', v.tip) \subseteq Below(served, v.tip)
        PROVE  OwnersApart(v, served')
    BY <1>1 DEF OwnerInv, OwnersApart
  <1>2. \A v \in PastViews' : OwnersApart(v, served')
    BY <1>1, PastViewsFrom
  <1>3. Quarantine /\ OwnersApart(CurrentView, served)
    BY DEF OwnerInv, AllViews
  <1>4. Quarantine' /\ OwnersApart(CurrentView', served')
    <2>1. CASE LApplyTransaction
      <3>1. served' = served
        BY <2>1, ApplyGhosts
      <3> QED BY <1>3, <2>1, <3>1, OwnerApply DEF Quarantine
    <2>2. CASE \E b \in Block, e \in SUBSET ReferencedCommit : LBeginBlock(b, e)
      <3>1. served' = served
        BY <2>2 DEF LBeginBlock, ghosts
      <3> QED BY <1>3, <2>2, <3>1, OwnerBegin DEF Quarantine
    <2>3. CASE LEndBlock
      BY <1>3, <2>3, OwnerEnd
    <2>4. CASE /\ ~LApplyTransaction /\ ~LEndBlock
               /\ ~ \E b \in Block, e \in SUBSET ReferencedCommit : LBeginBlock(b, e)
      <3>1. CurrentView' \in AllViews /\ served' \subseteq served
        BY <2>4, CurrentViewFrom
      <3> QED BY <1>1, <1>3, <3>1 DEF Quarantine, Below
    <2> QED BY <2>1, <2>2, <2>3, <2>4
  <1> QED BY <1>2, <1>4 DEF OwnerInv, AllViews

\* Two owners of a name are never resolved to within a cooldown of each other,
\* on any branch: while a name has a head only a REFRESH replaces it, a REFRESH
\* keeps the owner (the circuit), and compact_claimable removes the head of a
\* lease that ended only cooldown_blocks after its end.
THEOREM OwnersAreApart == ASSUME RefreshKeepsOwner PROVE LSpec => []Quarantine
  <1>1. LInit => OwnerInv
    <2> SUFFICES ASSUME LInit PROVE OwnerInv
      OBVIOUS
    <2>1. served = {}
      BY DEF LInit
    <2> QED BY <2>1 DEF OwnerInv, Quarantine, OwnersApart, Below
  <1>2. CoreInv /\ OwnerInv /\ [LNext]_lvars => OwnerInv'
    BY CoreStep, OwnerStep DEF CoreInv
  <1>3. OwnerInv => Quarantine
    BY DEF OwnerInv
  <1> QED BY <1>1, <1>2, <1>3, CoreInit, CoreStep, PTL DEF LSpec

-----------------------------------------------------------------------------
(***************************************************************************)
(* A lease ends at its expiry or at the first spend of its bond.           *)
(***************************************************************************)

\* The history variables reach back to the first block.  A rollback may return
\* to any view still journaled, so a shorter memory could lack its spends.
NothingForgotten == Memory \in Nat /\ Memory >= U32Max

SpendsIn(v, records, head) ==
    {s \in Below(records, v.tip) : s.nullifier = head.future_nf /\ After(s, head)}

EndsExplained(v, records) ==
    \A n \in DOMAIN v.heads :
        LET head == v.heads[n]
        IN  head.terminal_height \notin {None, head.expiry_height} =>
              /\ head.terminal_height < head.expiry_height
              /\ \E s \in SpendsIn(v, records, head) : s.height = head.terminal_height
              /\ \A s \in SpendsIn(v, records, head) : s.height >= head.terminal_height

EndInv == \A v \in AllViews : EndsExplained(v, spends)

PastTipsBelow ==
    \A v \in PastViews :
        v.tip # None => /\ v.tip \in Nat /\ CurrentHeight \in Nat
                        /\ v.tip < CurrentHeight /\ CurrentHeight # None

LEMMA PastTipsNext == FullInv' => PastTipsBelow'
  <1>1. FullInv => PastTipsBelow
    <2> SUFFICES ASSUME FullInv, NEW v \in PastViews, v.tip # None
                 PROVE  /\ v.tip \in Nat /\ CurrentHeight \in Nat
                        /\ v.tip < CurrentHeight /\ CurrentHeight # None
      BY DEF PastTipsBelow
    <2>1. v.tip \in Nat /\ CurrentHeight \in Nat /\ v.tip < CurrentHeight
      BY PastTips
    <2>2. trail # << >>
      <3>1. Len(trail) \in Nat /\ \E i \in 1 .. Len(trail) : TRUE
        BY UndosFacts DEF PastViews, FullInv, RollbackInv
      <3> QED BY <3>1
    <2> QED BY <2>1, <2>2 DEF FullInv, SnapInv, Linked
  <1> QED BY <1>1, PTL

\* A view keeps its spends from one step to the next.
LEMMA SpendsKept ==
    ASSUME NothingForgotten, FullInv, FullInv', GhostInv, [LNext]_lvars,
           NEW v, NothingNew(v),
           \/ v \in PastViews'
           \/ /\ v = CurrentView' /\ ~LApplyTransaction
              /\ ~ \E b \in Block, e \in SUBSET ReferencedCommit : LBeginBlock(b, e)
    PROVE  Below(spends', v.tip) = Below(spends, v.tip)
  <1>1. CASE spends \subseteq spends'
    BY <1>1 DEF NothingNew, Below
  <1>2. CASE LEndBlock
    <2>1. /\ spends' = {s \in spends : s.height + Memory >= block.height}
          /\ block # None
      BY <1>2 DEF LEndBlock, HEndBlock, EndBlock, Recent
    <2>2. block.height \in Nat /\ block.height <= U32Max /\ U32Max \in Nat
      BY <2>1, CurrentHeightType, ParametersAssumption DEF Height
    <2>3. \A s \in spends : s.height + Memory >= block.height
      BY <2>2 DEF NothingForgotten, GhostInv
    <2>4. spends \subseteq spends'
      BY <2>1, <2>3
    <2> QED BY <1>1, <2>4
  <1>3. ASSUME NEW hash \in Hashes, LRollbackTip(hash)
        PROVE  Below(spends', v.tip) = Below(spends, v.tip)
    <2>1. /\ spends' = {s \in spends : tip_height' # None /\ s.height <= tip_height'}
          /\ CurrentHeight' = tip_height'
      BY <1>3, RolledBackViews DEF LRollbackTip, OnBranch
    <2>2. CurrentView'.tip = CurrentHeight'
      BY DEF CurrentView
    <2>3. CASE v = CurrentView'
      BY <2>1, <2>2, <2>3 DEF Below
    <2>4. CASE v \in PastViews'
      <3>1. v.tip # None => /\ v.tip \in Nat /\ CurrentHeight' \in Nat
                            /\ v.tip < CurrentHeight' /\ CurrentHeight' # None
        BY <2>4, PastTipsNext DEF PastTipsBelow
      <3>2. \A s \in spends : s.height \in Nat
        BY DEF GhostInv
      <3>3. ASSUME NEW s \in spends, v.tip # None, s.height <= v.tip
            PROVE  s \in spends'
        BY <2>1, <3>1, <3>2, <3>3
      <3> QED BY <3>3 DEF Below, NothingNew
    <2> QED BY <2>3, <2>4, RolledBackViews, <1>3
  <1>4. LApplyTransaction => spends \subseteq spends'
    BY ApplyGhosts
  <1>5. CASE \/ \E b \in Block, e \in SUBSET ReferencedCommit : LBeginBlock(b, e)
             \/ \E height \in Height : LFinalizeThrough(height)
             \/ LRestart \/ UNCHANGED lvars
    BY <1>1, <1>5 DEF LBeginBlock, LFinalizeThrough, LRestart, lvars, ghosts
  <1> QED BY <1>1, <1>2, <1>3, <1>4, <1>5 DEF LNext

LEMMA LeaseEndBegin ==
    ASSUME FullInv, GhostInv, EndsExplained(CurrentView, spends),
           NEW b \in Block, NEW e \in SUBSET ReferencedCommit, LBeginBlock(b, e)
    PROVE  EndsExplained(CurrentView', spends')
  <1>1. HBeginBlock(b, e) /\ spends' = spends
    BY DEF LBeginBlock, ghosts
  <1>2. /\ CurrentView.heads = db.heads /\ CurrentView.tip = CurrentHeight
        /\ CurrentView'.heads = db'.heads /\ CurrentView'.tip = b.height
    BY <1>1, BeginViews DEF CurrentView
  <1>3. Below(spends, b.height) = spends /\ Below(spends, CurrentHeight) = spends
    <2>1. /\ b.height \in Nat /\ b.height # None
          /\ CurrentHeight # None => CurrentHeight \in Nat /\ b.height = CurrentHeight + 1
      BY <1>1, BeginViews, CurrentHeightType
    <2>2. \A s \in spends : /\ s.height \in Nat /\ CurrentHeight # None
                            /\ s.height <= CurrentHeight
      BY DEF GhostInv
    <2>3. \A s \in spends : s.height <= b.height
      BY <2>1, <2>2
    <2> QED BY <2>1, <2>2, <2>3 DEF Below
  <1>4. \A head : SpendsIn(CurrentView', spends', head) = SpendsIn(CurrentView, spends, head)
    BY <1>1, <1>2, <1>3 DEF SpendsIn
  <1>5. \A n \in DOMAIN db'.heads :
          db'.heads[n].terminal_height \notin {None, db'.heads[n].expiry_height} =>
            n \in DOMAIN db.heads /\ db'.heads[n] = db.heads[n]
    <2> SUFFICES ASSUME NEW n \in DOMAIN db'.heads
                 PROVE  /\ n \in DOMAIN db.heads
                        /\ \/ db'.heads[n] = db.heads[n]
                           \/ db'.heads[n].terminal_height = db'.heads[n].expiry_height
      OBVIOUS
    <2>1. n \in DOMAIN db.heads /\ db'.heads[n] = Marked(db.heads[n], b.height)
      BY <1>1, BeginHeads
    <2> QED BY <2>1, HeadFacts, MarkedFacts
  <1> QED BY <1>2, <1>4, <1>5 DEF EndsExplained

LEMMA LeaseEndApply ==
    ASSUME FullInv, GhostInv, BondsUnspent(CurrentView, spends),
           EndsExplained(CurrentView, spends), LApplyTransaction
    PROVE  EndsExplained(CurrentView', spends')
  <1> DEFINE tx == block.transactions[pos + 1]
             op == tx.operation
             height == block.height
             I == Installs(db, height, tx)
             H == db.heads
             new(nf) == [height |-> height, tx_index |-> tx.tx_index, nullifier |-> nf]
  <1>1. /\ block # None /\ tx \in Transaction /\ tx \in Upcoming
        /\ \A n : n \in DOMAIN db'.heads <=> n \in DOMAIN H \/ (I /\ n = op.name)
        /\ I => db'.heads[op.name] = NewHead(height, tx)
        /\ \A n \in DOMAIN H :
             ~(I /\ n = op.name) =>
               db'.heads[n] = IF /\ H[n].terminal_height = None
                                 /\ H[n].future_nf \in Nullifiers(tx)
                              THEN EndedAt(H[n], height) ELSE H[n]
    BY ApplyHeads DEF LApplyTransaction
  <1>2. /\ spends \subseteq spends'
        /\ \A s \in spends' : s \in spends \/ s.height = height
        /\ \A nf \in Nullifiers(tx) : new(nf) \in spends'
    BY ApplyGhosts
  <1>3. /\ CurrentHeight' = CurrentHeight /\ CurrentHeight = height
        /\ height \in Nat /\ height \in Height /\ height # None
    BY <1>1, CurrentHeightType, KeptViews DEF LApplyTransaction
  <1>4. /\ CurrentView.heads = H /\ CurrentView.tip = height
        /\ CurrentView'.heads = db'.heads /\ CurrentView'.tip = height
    BY <1>3 DEF CurrentView
  <1>5. NewHead(height, tx).terminal_height = None
    BY DEF NewHead
  <1>6. \A nf : /\ new(nf).height = height /\ new(nf).tx_index = tx.tx_index
                /\ new(nf).nullifier = nf
    OBVIOUS
  <1>7. \A n \in DOMAIN H : H[n].producer.height = height
                              => H[n].producer.tx_index < tx.tx_index
    BY <1>1 DEF GhostInv
  <1>8. tx.tx_index \in Nat /\ \A n \in DOMAIN H : H[n].producer.tx_index \in Nat
    BY <1>1, HeadFacts, ParametersAssumption
    DEF Transaction, HeadRecord, StateRef, Height
  <1>9. /\ Below(spends, height) = spends /\ \A s \in spends : s.height \in Nat
        /\ \A s \in spends' : s.height <= height
    BY <1>2, <1>3 DEF GhostInv, Below
  <1>10. Below(spends', height) = spends'
    BY <1>3, <1>9 DEF Below
  <1> HIDE DEF I, tx, op, height, new
  <1>11. ASSUME NEW n \in DOMAIN db'.heads,
                db'.heads[n].terminal_height \notin {None, db'.heads[n].expiry_height}
         PROVE  LET head == db'.heads[n]
                    S == {s \in spends' : s.nullifier = head.future_nf /\ After(s, head)}
                IN  /\ head.terminal_height < head.expiry_height
                    /\ \E s \in S : s.height = head.terminal_height
                    /\ \A s \in S : s.height >= head.terminal_height
    <2>1. ~(I /\ n = op.name) /\ n \in DOMAIN H
      BY <1>1, <1>5, <1>11
    <2>2. /\ H[n] \in HeadRecord /\ H[n].producer.height \in Nat
          /\ H[n].producer.height <= height
          /\ H[n].terminal_height = None => height < H[n].expiry_height
          /\ H[n].terminal_height # None =>
                H[n].terminal_height \in Nat /\ H[n].terminal_height <= height
      BY <1>3, <2>1, HeadFacts
    <2>3. CASE H[n].terminal_height = None
      <3> DEFINE head == EndedAt(H[n], height)
      <3>1. db'.heads[n] = head /\ H[n].future_nf \in Nullifiers(tx)
        BY <1>1, <1>11, <2>1, <2>3
      <3>2. /\ head.future_nf = H[n].future_nf /\ head.producer = H[n].producer
            /\ head.expiry_height = H[n].expiry_height /\ head.terminal_height = height
        BY <1>3, <2>2, EndedAtType
      <3>3. \A s : After(s, head) <=> After(s, H[n])
        BY <3>2 DEF After
      <3>4. After(new(head.future_nf), head)
        BY <1>3, <1>6, <1>7, <1>8, <2>1, <2>2, <3>2 DEF After
      <3>5. new(head.future_nf) \in spends'
        BY <1>2, <3>1, <3>2
      <3>6. \A s \in spends : s.nullifier = H[n].future_nf => ~After(s, H[n])
        BY <1>4, <1>9, <2>1, <2>3 DEF BondsUnspent
      <3> HIDE DEF head
      <3>7. \A s \in spends' : s.nullifier = head.future_nf /\ After(s, head)
                                 => s.height = height
        BY <1>2, <3>2, <3>3, <3>6
      <3> QED BY <1>3, <1>6, <2>2, <2>3, <3>1, <3>2, <3>4, <3>5, <3>7
    <2>4. CASE H[n].terminal_height # None
      <3>1. db'.heads[n] = H[n]
        BY <1>1, <2>1, <2>4
      <3> DEFINE head == H[n]
                 S == {s \in spends : s.nullifier = head.future_nf /\ After(s, head)}
      <3>2. SpendsIn(CurrentView, spends, head) = S
        BY <1>4, <1>9 DEF SpendsIn
      <3>3. /\ head.terminal_height < head.expiry_height
            /\ \E s \in S : s.height = head.terminal_height
            /\ \A s \in S : s.height >= head.terminal_height
        BY <1>4, <1>11, <2>1, <3>1, <3>2 DEF EndsExplained
      <3>4. height >= head.terminal_height
        BY <1>3, <2>2, <2>4
      <3> HIDE DEF head
      <3>5. \A s \in spends' : s.nullifier = head.future_nf /\ After(s, head)
                                 => s.height >= head.terminal_height
        BY <1>2, <3>3, <3>4
      <3>6. \E s \in spends' : /\ s.nullifier = head.future_nf /\ After(s, head)
                               /\ s.height = head.terminal_height
        BY <1>2, <3>3
      <3> QED BY <3>1, <3>3, <3>5, <3>6 DEF head
    <2> QED BY <2>3, <2>4
  <1> QED BY <1>4, <1>10, <1>11 DEF EndsExplained, SpendsIn

LEMMA LeaseEndStep ==
    ASSUME NothingForgotten, FullInv, FullInv', GhostInv, BondInv, EndInv, [LNext]_lvars
    PROVE  EndInv'
  <1>1. ASSUME NEW v \in AllViews, Below(spends', v.tip) = Below(spends, v.tip)
        PROVE  EndsExplained(v, spends')
    BY <1>1 DEF EndInv, EndsExplained, SpendsIn
  <1>2. \A v \in PastViews' : EndsExplained(v, spends')
    BY <1>1, PastViewsFrom, SpendsKept
  <1>3. BondsUnspent(CurrentView, spends) /\ EndsExplained(CurrentView, spends)
    BY DEF BondInv, EndInv, AllViews
  <1>4. EndsExplained(CurrentView', spends')
    <2>1. CASE LApplyTransaction
      BY <1>3, <2>1, LeaseEndApply
    <2>2. CASE \E b \in Block, e \in SUBSET ReferencedCommit : LBeginBlock(b, e)
      BY <1>3, <2>2, LeaseEndBegin
    <2>3. CASE /\ ~LApplyTransaction
               /\ ~ \E b \in Block, e \in SUBSET ReferencedCommit : LBeginBlock(b, e)
      BY <1>1, <2>3, CurrentViewFrom, SpendsKept
    <2> QED BY <2>1, <2>2, <2>3
  <1> QED BY <1>2, <1>4 DEF EndInv, AllViews

\* A head that ended before its expiry ended at the first spend of its bond,
\* and a later spend does not move that end: the spend loop of
\* apply_transaction_detailed writes only heads that are not terminal yet.
THEOREM LeasesEndOnce == ASSUME NothingForgotten PROVE LSpec => []LeaseEndExplained
  <1>1. LInit => BondInv /\ EndInv
    BY FirstView DEF BondInv, BondsUnspent, EndInv, EndsExplained
  <1>2. CoreInv /\ BondInv /\ EndInv /\ [LNext]_lvars => BondInv' /\ EndInv'
    BY CoreStep, BondStep, LeaseEndStep DEF CoreInv
  <1>3. CoreInv /\ EndInv => LeaseEndExplained
    <2> SUFFICES ASSUME CoreInv, EndInv PROVE LeaseEndExplained
      OBVIOUS
    <2>1. CurrentView \in AllViews /\ CurrentView.heads = db.heads
          /\ CurrentView.tip = CurrentHeight
      BY DEF AllViews, CurrentView
    <2>2. Below(spends, CurrentHeight) = spends
      BY DEF Below, CoreInv, GhostInv
    <2>3. \A head : SpendsIn(CurrentView, spends, head) = SpendsOf(head)
      BY <2>1, <2>2 DEF SpendsIn, SpendsOf
    <2> QED BY <2>1, <2>3 DEF EndInv, EndsExplained, LeaseEndExplained
  <1> QED BY <1>1, <1>2, <1>3, CoreInit, CoreStep, PTL DEF LSpec
=============================================================================
