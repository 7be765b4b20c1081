---------------------------- MODULE StoreProofs ----------------------------
(***************************************************************************)
(* The store, for every chain and every number of faults and restarts.     *)
(* With both adapters its journals reach from the tip down to the          *)
(* finalized height, no transaction takes one within the retention the     *)
(* database was created with, and tip, journals and the wallet's COMMIT    *)
(* locations are of the branch the wallet has scanned.  The rows are the   *)
(* reducer's records and the replay of the scan, a snapshot of the stored  *)
(* tip is of the rows, and the store takes every delta the reducer hands   *)
(* it: with the wallet's adapter, which clears a snapshot when it rewinds, *)
(* on its own, and with the store's own adapter, which keeps it, as far as *)
(* a block hash names one block.                                           *)
(***************************************************************************)
EXTENDS NamesHost, ReducerProofs

StoreFields == {"identity", "tip", "finalized_height", "core_snapshot", "heads",
                "pending_commits", "wallet_commits", "rollback_blocks", "scan"}
DeltaFields == {"from_tip", "to_tip", "heads", "commits"}
RowFields   == {"hash", "previous_tip", "heads", "commits"}
TipFields   == {"height", "hash"}
RewindFields == {"height", "original_tip"}

\* Option::None is none of the records of the store and its host.
NoneIsNoRecord ==
    \A r : DOMAIN r \in {StoreFields, DeltaFields, RowFields, TipFields, RewindFields}
              => r # None

-----------------------------------------------------------------------------
(***************************************************************************)
(* What holds of a database that no failed statement has touched.          *)
(***************************************************************************)
TipOK(tip) == tip # None => /\ DOMAIN tip = TipFields /\ tip.hash \in Hashes
                            /\ tip.height \in Height /\ tip.height >= activation_height

\* The tip before the block at a height.
Before(tip, height) ==
    /\ TipOK(tip)
    /\ IF tip = None THEN height = activation_height ELSE height = tip.height + 1

Retained(s) ==
    {h \in Height : /\ h \in activation_height .. s.tip.height
                    /\ s.finalized_height # None => h > s.finalized_height}

JournalOK(s) ==
    /\ s.finalized_height \in Option(Height) /\ TipOK(s.tip)
    /\ (s.finalized_height # None /\ s.finalized_height >= activation_height) =>
          s.tip # None /\ s.finalized_height <= s.tip.height
    /\ DOMAIN s.rollback_blocks = IF s.tip = None THEN {} ELSE Retained(s)
    /\ Proper(s.rollback_blocks)
    /\ \A h \in DOMAIN s.rollback_blocks : Before(s.rollback_blocks[h].previous_tip, h)

\* An undo record and a snapshot name tips that the reducer can have.
UndoTips(u) == UndoOK(u) /\ TipValid(u.previous_next_height, u.previous_tip_height)

\* The journals end at the tip, one for each height.
Stacked(hist, tip) ==
    hist # << >> =>
        /\ tip \in Height
        /\ \A i \in 1 .. Len(hist) :
              hist[i].previous_next_height = tip - (Len(hist) - i)

ImageOK(i) ==
    /\ i.tip # None /\ TipOK(i.tip) /\ i.tip = Tip(i.tip.height, i.tip.hash)
    /\ i.next_height \in Option(Height) /\ TipValid(i.next_height, i.tip.height)
    /\ MapOf(i.commits, CommitRef, Commitments) /\ MapOf(i.heads, NameIds, HeadRecord)
    /\ IsSeq(i.history) /\ Stacked(i.history, i.tip.height)
    /\ \A u \in Elems(i.history) : UndoTips(u)

StoreOK(s) ==
    /\ DOMAIN s = StoreFields
    /\ JournalOK(s)
    /\ s.scan \in Seq(Block)
    /\ s.core_snapshot # None => ImageOK(s.core_snapshot)

DeltaOK(d) == /\ DOMAIN d = DeltaFields
              /\ d.to_tip # None /\ TipOK(d.to_tip) /\ Before(d.from_tip, d.to_tip.height)

-----------------------------------------------------------------------------
(***************************************************************************)
(* The calls of the store.                                                 *)
(***************************************************************************)
LEMMA HeightFacts == /\ Height = 0 .. U32Max /\ U32Max \in Nat
                     /\ activation_height \in Height /\ None \notin Height
  BY ParametersAssumption, ValuesAssumption DEF Height

\* Fields that no lemma of the journals is about.
SameJournal(s, t) == /\ DOMAIN t = StoreFields
                     /\ t.finalized_height = s.finalized_height /\ t.tip = s.tip
                     /\ t.rollback_blocks = s.rollback_blocks

LEMMA SameJournalOK ==
    ASSUME NEW s, NEW t, StoreOK(s), SameJournal(s, t), t.scan \in Seq(Block),
           t.core_snapshot # None => ImageOK(t.core_snapshot)
    PROVE  StoreOK(t)
  BY DEF StoreOK, SameJournal, JournalOK, Retained

LEMMA NewStoreOK ==
    ASSUME NEW id
    PROVE  /\ StoreOK(NewStore(id)) /\ NewStore(id).identity = id
           /\ NewStore(id).finalized_height = None
  <1>1. Proper(EmptyMap) /\ DOMAIN EmptyMap = {}
    BY DEF EmptyMap, Proper
  <1>2. << >> \in Seq(Block)
    OBVIOUS
  <1> QED BY <1>1, <1>2 DEF NewStore, StoreOK, JournalOK, StoreFields, TipOK, Option

LEMMA ResetOK ==
    ASSUME NEW s, StoreOK(s)
    PROVE  /\ StoreOK(reset_for_replay(s)) /\ reset_for_replay(s).identity = s.identity
           /\ reset_for_replay(s).finalized_height = None
  <1>1. Proper(EmptyMap) /\ DOMAIN EmptyMap = {}
    BY DEF EmptyMap, Proper
  <1> QED BY <1>1 DEF reset_for_replay, StoreOK, JournalOK, StoreFields, TipOK, Option

\* A delta adds the row of its block on top of the journals there are.
LEMMA ApplyDeltaOK ==
    ASSUME NoneIsNoRecord, NEW s, StoreOK(s), NEW d, DeltaOK(d), DeltaAccepted(s, d)
    PROVE  /\ StoreOK(apply_delta(s, d)) /\ apply_delta(s, d).identity = s.identity
           /\ apply_delta(s, d).finalized_height = s.finalized_height
  <1> DEFINE t == apply_delta(s, d)
             to == d.to_tip.height
             row == [hash |-> d.to_tip.hash, previous_tip |-> d.from_tip,
                     heads |-> Previous(Part(d.heads, DOMAIN d.heads)),
                     commits |-> Previous(Part(d.commits, DOMAIN d.commits))]
             add == [h \in {to} |-> row]
  <1>1. /\ DOMAIN t = StoreFields /\ t.identity = s.identity /\ t.scan = s.scan
        /\ t.finalized_height = s.finalized_height /\ t.core_snapshot = s.core_snapshot
        /\ t.tip = d.to_tip
        /\ t.rollback_blocks = Updated(s.rollback_blocks, add)
    BY DEF apply_delta, Written, write_tip, write_head, write_commit, StoreOK, StoreFields
  <1>2. row # None /\ row.previous_tip = d.from_tip
    BY DEF NoneIsNoRecord, RowFields
  <1>3. DOMAIN add = {to} /\ add[to] = row
    OBVIOUS
  <1> DEFINE rb == s.rollback_blocks
             nb == Updated(rb, add)
  <1>4. Proper(rb)
    BY DEF StoreOK, JournalOK
  <1> HIDE DEF add, row
  <1>5. /\ DOMAIN nb = DOMAIN rb \cup {to} /\ Proper(nb) /\ nb[to] = row
        /\ \A h \in DOMAIN rb : h # to => nb[h] = rb[h]
    <2> HIDE DEF rb, nb
    <2>1. /\ \A k : k \in DOMAIN nb <=>
                      \/ k \in DOMAIN add /\ add[k] # None
                      \/ k \in DOMAIN rb /\ k \notin DOMAIN add
          /\ \A k \in DOMAIN nb : nb[k] = IF k \in DOMAIN add THEN add[k] ELSE rb[k]
          /\ Proper(nb)
      BY <1>4, UpdatedFacts DEF nb
    <2>2. DOMAIN nb = DOMAIN rb \cup {to}
      BY <1>2, <1>3, <2>1
    <2> QED BY <1>2, <1>3, <2>1, <2>2
  <1>6. /\ s.tip = d.from_tip /\ d.to_tip # None /\ TipOK(d.to_tip) /\ TipOK(s.tip)
        /\ IF s.tip = None THEN to = activation_height ELSE to = s.tip.height + 1
        /\ s.finalized_height \in Option(Height)
        /\ (s.finalized_height # None /\ s.finalized_height >= activation_height) =>
              s.tip # None /\ s.finalized_height <= s.tip.height
        /\ DOMAIN rb = IF s.tip = None THEN {} ELSE Retained(s)
    BY DEF DeltaOK, DeltaAccepted, Before, StoreOK, JournalOK
  <1>7. to \in Height /\ to >= activation_height
    BY <1>6 DEF TipOK
  <1>8. DOMAIN rb \cup {to} =
          {h \in Height : /\ h \in activation_height .. to
                          /\ s.finalized_height # None => h > s.finalized_height}
    <2>1. CASE s.tip = None
      BY <1>6, <1>7, <2>1, HeightFacts DEF Option
    <2>2. CASE s.tip # None
      <3>1. s.tip.height \in Height /\ s.tip.height >= activation_height
        BY <1>6, <2>2 DEF TipOK
      <3> QED BY <1>6, <1>7, <2>2, <3>1, HeightFacts DEF Option, Retained
    <2> QED BY <2>1, <2>2
  <1>9. (s.finalized_height # None /\ s.finalized_height >= activation_height) =>
           s.finalized_height <= to
    <2> SUFFICES ASSUME s.finalized_height # None, s.finalized_height >= activation_height
                 PROVE  s.finalized_height <= to
      OBVIOUS
    <2>1. s.tip # None /\ s.finalized_height <= s.tip.height /\ s.tip.height \in Height
      BY <1>6 DEF TipOK
    <2> QED BY <1>6, <2>1, HeightFacts DEF Option
  <1>10. Before(d.from_tip, to) /\ \A h \in DOMAIN rb : Before(rb[h].previous_tip, h)
    BY DEF DeltaOK, StoreOK, JournalOK
  <1>11. \A h \in DOMAIN nb : Before(nb[h].previous_tip, h)
    BY <1>2, <1>5, <1>10
  <1> HIDE DEF t, rb, nb
  <1>12. t.rollback_blocks = nb
    BY <1>1 DEF rb, nb
  <1>13. JournalOK(t)
    BY <1>1, <1>5, <1>6, <1>8, <1>9, <1>11, <1>12 DEF JournalOK, Retained
  <1>14. t.scan \in Seq(Block) /\ (t.core_snapshot # None => ImageOK(t.core_snapshot))
    BY <1>1 DEF StoreOK
  <1>15. StoreOK(t)
    BY <1>1, <1>13, <1>14 DEF StoreOK
  <1> QED BY <1>1, <1>15 DEF t

\* Rows deleted from a proper map.
LEMMA DeletedRows ==
    ASSUME NEW map, Proper(map), NEW heights
    PROVE  LET kept == Updated(map, [h \in heights |-> None])
           IN  /\ DOMAIN kept = DOMAIN map \ heights /\ Proper(kept)
               /\ \A h \in DOMAIN kept : kept[h] = map[h]
  <1> DEFINE gone == [h \in heights |-> None]
  <1>1. DOMAIN gone = heights /\ \A h \in heights : gone[h] = None
    OBVIOUS
  <1> HIDE DEF gone
  <1>2. /\ \A k : k \in DOMAIN Updated(map, gone) <=>
                    \/ k \in DOMAIN gone /\ gone[k] # None
                    \/ k \in DOMAIN map /\ k \notin DOMAIN gone
        /\ \A k \in DOMAIN Updated(map, gone) :
             Updated(map, gone)[k] = IF k \in DOMAIN gone THEN gone[k] ELSE map[k]
        /\ Proper(Updated(map, gone))
    BY UpdatedFacts
  <1>3. DOMAIN Updated(map, gone) = DOMAIN map \ heights
    BY <1>1, <1>2
  <1> QED BY <1>1, <1>2, <1>3 DEF gone

\* A rewind takes the row of the tip and goes to the tip that row names.
LEMMA RollbackTipOK ==
    ASSUME NEW s, StoreOK(s), Journaled_tip(s)
    PROVE  /\ StoreOK(rollback_tip(s)) /\ rollback_tip(s).identity = s.identity
           /\ rollback_tip(s).finalized_height = s.finalized_height
           /\ rollback_tip(s).scan = s.scan
  <1> DEFINE t == rollback_tip(s)
             rb == s.rollback_blocks
             at == s.tip.height
             back == rb[at].previous_tip
             nb == Updated(rb, [h \in {at} |-> None])
  <1>1. /\ DOMAIN t = StoreFields /\ t.identity = s.identity /\ t.scan = s.scan
        /\ t.finalized_height = s.finalized_height /\ t.core_snapshot = s.core_snapshot
        /\ t.tip = back
        /\ t.rollback_blocks = nb
    BY DEF rollback_tip, DeleteJournal, write_tip, write_head, write_commit, StoreOK, StoreFields
  <1>2. /\ s.tip # None /\ at \in DOMAIN rb /\ Proper(rb) /\ DOMAIN rb = Retained(s)
        /\ \A h \in DOMAIN rb : Before(rb[h].previous_tip, h)
        /\ s.finalized_height \in Option(Height) /\ TipOK(s.tip)
    BY DEF Journaled_tip, StoreOK, JournalOK
  <1>3. at \in Height /\ at >= activation_height
    BY <1>2 DEF TipOK
  <1>4. TipOK(back) /\ IF back = None THEN at = activation_height ELSE at = back.height + 1
    BY <1>2 DEF Before
  <1>5. /\ DOMAIN nb = DOMAIN rb \ {at} /\ Proper(nb)
        /\ \A h \in DOMAIN nb : nb[h] = rb[h]
    <2> HIDE DEF rb, at
    <2> QED BY <1>2, DeletedRows
  <1>6. s.finalized_height # None => s.finalized_height < at
    BY <1>2 DEF Retained
  <1> HIDE DEF t, nb, back
  <1>7. DOMAIN nb = IF back = None THEN {} ELSE Retained(t)
    <2>1. CASE back = None
      BY <1>2, <1>3, <1>4, <1>5, <2>1, HeightFacts DEF Retained
    <2>2. CASE back # None
      <3>1. back.height \in Height /\ back.height >= activation_height /\ at = back.height + 1
        BY <1>4, <2>2 DEF TipOK
      <3> QED BY <1>1, <1>2, <1>3, <1>5, <2>2, <3>1, HeightFacts DEF Retained
    <2> QED BY <2>1, <2>2
  <1>8. (s.finalized_height # None /\ s.finalized_height >= activation_height) =>
          back # None /\ s.finalized_height <= back.height
    <2> SUFFICES ASSUME s.finalized_height # None, s.finalized_height >= activation_height
                 PROVE  back # None /\ s.finalized_height <= back.height
      OBVIOUS
    <2>1. s.finalized_height \in Height /\ s.finalized_height < at
      BY <1>2, <1>6 DEF Option
    <2>2. back # None
      BY <1>3, <1>4, <2>1, HeightFacts
    <2>3. back.height \in Height /\ at = back.height + 1
      BY <1>4, <2>2 DEF TipOK
    <2> QED BY <1>3, <2>1, <2>2, <2>3, HeightFacts
  <1>9. JournalOK(t)
    BY <1>1, <1>2, <1>4, <1>5, <1>7, <1>8 DEF JournalOK
  <1>10. t.scan \in Seq(Block) /\ (t.core_snapshot # None => ImageOK(t.core_snapshot))
    BY <1>1 DEF StoreOK
  <1>11. StoreOK(t)
    BY <1>1, <1>9, <1>10 DEF StoreOK
  <1> QED BY <1>1, <1>11 DEF t

\* Finalization takes the rows at and below its height.
LEMMA FinalizeOK ==
    ASSUME NEW s, StoreOK(s), s.tip # None, NEW height \in Height, height <= s.tip.height
    PROVE  LET t == finalize_through(s, height)
           IN  /\ StoreOK(t) /\ t.identity = s.identity
               /\ \A h \in DOMAIN s.rollback_blocks : h > height => h \in DOMAIN t.rollback_blocks
  <1> DEFINE t == finalize_through(s, height)
             rb == s.rollback_blocks
             old == s.finalized_height
             low == {h \in DOMAIN rb : h <= height}
             nb == Updated(rb, [h \in low |-> None])
             new == IF old = None THEN height ELSE IF old < height THEN height ELSE old
  <1>1. /\ DOMAIN t = StoreFields /\ t.identity = s.identity /\ t.scan = s.scan
        /\ t.finalized_height = new /\ t.core_snapshot = s.core_snapshot
        /\ t.tip = s.tip /\ t.rollback_blocks = nb
    BY DEF finalize_through, DeleteJournal, StoreOK, StoreFields
  <1>2. /\ Proper(rb) /\ DOMAIN rb = Retained(s)
        /\ \A h \in DOMAIN rb : Before(rb[h].previous_tip, h)
        /\ old \in Option(Height) /\ TipOK(s.tip)
        /\ (old # None /\ old >= activation_height) => old <= s.tip.height
    BY DEF StoreOK, JournalOK
  <1>3. /\ DOMAIN nb = DOMAIN rb \ low /\ Proper(nb)
        /\ \A h \in DOMAIN nb : nb[h] = rb[h]
    <2> HIDE DEF rb, low
    <2> QED BY <1>2, DeletedRows
  <1>4. s.tip.height \in Height /\ s.tip.height >= activation_height
    BY <1>2 DEF TipOK
  <1>5. new \in Height /\ new # None /\ (new >= activation_height => new <= s.tip.height)
    BY <1>2, <1>4, HeightFacts DEF Option
  <1> HIDE DEF t, nb
  <1>6. DOMAIN nb = Retained(t)
    BY <1>1, <1>2, <1>3, <1>4, HeightFacts DEF Retained, Option
  <1>7. JournalOK(t)
    BY <1>1, <1>2, <1>3, <1>5, <1>6 DEF JournalOK, Option
  <1>8. t.scan \in Seq(Block) /\ (t.core_snapshot # None => ImageOK(t.core_snapshot))
    BY <1>1 DEF StoreOK
  <1>9. StoreOK(t)
    BY <1>1, <1>7, <1>8 DEF StoreOK
  <1>10. \A h \in DOMAIN rb : h > height => h \in DOMAIN nb
    BY <1>2, <1>3, HeightFacts DEF Retained
  <1> QED BY <1>1, <1>9, <1>10 DEF t

-----------------------------------------------------------------------------
(***************************************************************************)
(* The reducer in memory.  What it journals names the tip it had, whether  *)
(* it was replayed, rolled back or loaded from a stored image.             *)
(***************************************************************************)
MemOK ==
    /\ TypeInv
    /\ TipValid(next_height, tip_height)
    /\ block # None => /\ block.height = next_height /\ UndoTips(undo)
                       /\ undo.previous_next_height = next_height
                       /\ undo.previous_tip_height = tip_height
    /\ Stacked(history, tip_height)
    /\ \A u \in Elems(history) : UndoTips(u)

LEMMA BeginTips ==
    ASSUME NEW b, NEW e, BeginBlock(b, e)
    PROVE  /\ undo'.previous_next_height = next_height
           /\ undo'.previous_tip_height = tip_height
  <1> DEFINE w0 == [db |-> db, undo |-> new_undo(b)]
             w1 == mark_expired(w0, b.height)
             w2 == compact_claimable(w1, b.height)
             w3 == prune_commits(w2, b.height)
             w4 == insert_supplied(w3, supplied(e))
             v  == [next_height |-> next_height, tip_height |-> tip_height,
                    previous_hash |-> previous_hash,
                    commits |-> Updated(db.commits, EmptyMap),
                    heads |-> Updated(db.heads, EmptyMap)]
  <1>1. LeadsTo(w0, v)
    BY DEF LeadsTo, new_undo, UndoFields
  <1> HIDE DEF w0
  <1>2. v.next_height = next_height /\ v.tip_height = tip_height
    OBVIOUS
  <1> HIDE DEF v
  <1>3. LeadsTo(w1, v)
    BY <1>1, StepsLeadTo
  <1> HIDE DEF w1
  <1>4. LeadsTo(w2, v)
    BY <1>3, StepsLeadTo
  <1> HIDE DEF w2
  <1>5. LeadsTo(w3, v)
    BY <1>4, StepsLeadTo
  <1> HIDE DEF w3
  <1>6. LeadsTo(w4, v)
    BY <1>5, StepsLeadTo
  <1>7. undo' = w4.undo
    BY DEF BeginBlock, w0, w1, w2, w3, w4
  <1> HIDE DEF w4
  <1> QED BY <1>2, <1>6, <1>7 DEF LeadsTo

LEMMA ApplyTips ==
    ASSUME TypeInv, ApplyTransaction
    PROVE  /\ undo'.previous_next_height = undo.previous_next_height
           /\ undo'.previous_tip_height = undo.previous_tip_height
  <1> DEFINE t == block.transactions[pos + 1]
             w == [db |-> db, undo |-> undo]
             a == apply_transaction(w, block.height, t)
             v == [next_height |-> undo.previous_next_height,
                   tip_height |-> undo.previous_tip_height,
                   previous_hash |-> undo.previous_hash,
                   commits |-> Updated(db.commits, undo.commits),
                   heads |-> Updated(db.heads, undo.heads)]
  <1>1. block # None /\ pos < Len(block.transactions)
    BY DEF ApplyTransaction
  <1>2. t.operation \in Option(Operation)
    BY <1>1, TransactionInBlock DEF TypeInv, TypeOK, BlockOK, Transaction
  <1>3. undo' = a.undo
    BY DEF ApplyTransaction
  <1> HIDE DEF t
  <1>4. LeadsTo(w, v)
    BY <1>1 DEF LeadsTo, TypeInv
  <1> HIDE DEF w
  <1>5. v.next_height = undo.previous_next_height /\ v.tip_height = undo.previous_tip_height
    OBVIOUS
  <1> HIDE DEF v
  <1>6. LeadsTo(a, v)
    BY <1>2, <1>4, TransactionLeadsTo
  <1> HIDE DEF a
  <1> QED BY <1>3, <1>5, <1>6 DEF LeadsTo

LEMMA LastElem ==
    ASSUME NEW s, IsSeq(s), s # << >>
    PROVE  /\ Len(s) \in Nat /\ Len(s) > 0 /\ s[Len(s)] \in Elems(s)
           /\ IsSeq(SubSeq(s, 1, Len(s) - 1))
           /\ Elems(SubSeq(s, 1, Len(s) - 1)) \subseteq Elems(s)
  <1>1. Len(s) \in Nat
    BY DEF IsSeq
  <1>2. Len(s) > 0
    BY <1>1, EmptySeq
  <1>3. s[Len(s)] \in Elems(s)
    BY <1>1, <1>2 DEF Elems
  <1> QED BY <1>1, <1>2, <1>3, SubSeqFacts, ElemsSubSeq

LEMMA MemBegin ==
    ASSUME MemOK, NEW b \in Block, BeginBlock(b, {})
    PROVE  MemOK'
  <1>1. TypeInv'
    <2>1. Next
      BY DEF Next
    <2> QED BY <2>1, TypeStep DEF MemOK
  <1>2. /\ block' = b /\ b # None /\ b.height = next_height /\ history' = history
        /\ next_height' = next_height /\ tip_height' = tip_height
    BY ValuesAssumption DEF BeginBlock, chainVars
  <1>3. UndoOK(undo')
    BY <1>1, <1>2 DEF TypeInv, TypeOK
  <1>4. UndoTips(undo')
    BY <1>3, BeginTips DEF UndoTips, MemOK
  <1> QED BY <1>1, <1>2, <1>4, BeginTips DEF MemOK

LEMMA MemApply ==
    ASSUME MemOK, ApplyTransaction
    PROVE  MemOK'
  <1>1. TypeInv'
    <2>1. Next
      BY DEF Next
    <2> QED BY <2>1, TypeStep DEF MemOK
  <1>2. /\ block' = block /\ block # None /\ history' = history
        /\ next_height' = next_height /\ tip_height' = tip_height
    BY DEF ApplyTransaction, chainVars
  <1>3. UndoOK(undo')
    BY <1>1, <1>2 DEF TypeInv, TypeOK
  <1>4. UndoTips(undo')
    BY <1>2, <1>3, ApplyTips DEF UndoTips, MemOK
  <1>5. TypeInv
    BY DEF MemOK
  <1> QED BY <1>1, <1>2, <1>4, <1>5, ApplyTips DEF MemOK

\* One journal more.
LEMMA StackedAppend ==
    ASSUME NEW hist, IsSeq(hist), NEW tip \in Option(Height), Stacked(hist, tip),
           NEW u, NEW height \in Height, u.previous_next_height = height,
           tip \in Height => height = tip + 1
    PROVE  Stacked(Append(hist, u), height)
  <1> DEFINE t == Append(hist, u)
             L == Len(hist)
  <1>1. /\ Len(t) = L + 1 /\ L \in Nat /\ t[L + 1] = u
        /\ \A i \in 1 .. L : t[i] = hist[i]
    BY AppendFacts
  <1> HIDE DEF t
  <1>2. height \in Int /\ (tip \in Height => tip \in Int)
    BY HeightFacts
  <1>3. ASSUME NEW i \in 1 .. Len(t)
        PROVE  t[i].previous_next_height = height - (Len(t) - i)
    <2>1. CASE i = L + 1
      BY <1>1, <1>2, <2>1
    <2>2. CASE i # L + 1
      <3>1. i \in 1 .. L /\ hist # << >>
        BY <1>1, <2>2
      <3>2. tip \in Height /\ hist[i].previous_next_height = tip - (L - i)
        BY <3>1 DEF Stacked
      <3> QED BY <1>1, <1>2, <3>1, <3>2
    <2> QED BY <2>1, <2>2
  <1> QED BY <1>3 DEF Stacked, t

LEMMA MemEnd ==
    ASSUME NoneIsNoRecord, MemOK, EndBlock
    PROVE  /\ MemOK' /\ Before(reducer_tip, block.height)
           /\ TipOK(Tip(block.height, block.hash))
  <1>1. TypeInv'
    <2>1. Next
      BY DEF Next
    <2> QED BY <2>1, TypeStep DEF MemOK
  <1>2. /\ block # None /\ block' = None
        /\ next_height' = IF block.height < U32Max THEN block.height + 1 ELSE None
        /\ tip_height' = block.height
        /\ history' = Append(history, undo)
    BY DEF EndBlock
  <1>3. /\ block.height \in Height /\ block.hash \in Hashes /\ block.height = next_height
        /\ previous_hash \in Hashes /\ tip_height \in Option(Height)
        /\ TipValid(next_height, tip_height)
    BY <1>2 DEF MemOK, TypeInv, TypeOK, Option, Block
  <1>4. IF tip_height = None THEN block.height = activation_height
        ELSE /\ tip_height \in Height /\ tip_height >= activation_height
             /\ block.height = tip_height + 1
    BY <1>3, HeightFacts DEF TipValid, Option
  <1>5. block.height >= activation_height
    BY <1>3, <1>4, HeightFacts
  <1>6. TipValid(next_height', tip_height')
    BY <1>2, <1>3, <1>5, HeightFacts DEF TipValid
  <1>7. Elems(history') = Elems(history) \cup {undo}
    BY <1>2, ElemsAppend DEF MemOK, TypeInv
  <1>8. MemOK'
    <2>1. Stacked(history', tip_height')
      BY <1>2, <1>3, <1>4, StackedAppend, HeightFacts DEF MemOK, TypeInv
    <2> QED BY <1>1, <1>2, <1>6, <1>7, <2>1 DEF MemOK
  <1>9. TipOK(Tip(block.height, block.hash))
    BY <1>3, <1>5 DEF TipOK, Tip, TipFields
  <1>10. Before(reducer_tip, block.height)
    <2>1. CASE tip_height = None
      BY <1>4, <2>1 DEF Before, reducer_tip, TipOK
    <2>2. CASE tip_height # None
      <3>1. reducer_tip = Tip(tip_height, previous_hash) /\ reducer_tip # None
        BY <2>2 DEF reducer_tip, Tip, NoneIsNoRecord, TipFields
      <3> QED BY <1>3, <1>4, <2>2, <3>1 DEF Before, TipOK, Tip, TipFields
    <2> QED BY <2>1, <2>2
  <1> QED BY <1>8, <1>9, <1>10

LEMMA MemRollback ==
    ASSUME MemOK, NEW hash, RollbackTip(hash)
    PROVE  /\ MemOK' /\ block' = None /\ tip_height \in Height
           /\ tip_height' = history[Len(history)].previous_tip_height
           /\ IF tip_height' = None THEN tip_height = activation_height
              ELSE tip_height' \in Height /\ tip_height = tip_height' + 1
  <1> DEFINE u == history[Len(history)]
  <1>1. TypeInv'
    <2>1. hash \in Hashes
      BY DEF RollbackTip, MemOK, TypeInv, TypeOK
    <2>2. Next
      BY <2>1 DEF Next
    <2> QED BY <2>2, TypeStep DEF MemOK
  <1>2. /\ block = None /\ block' = None /\ history # << >>
        /\ next_height' = u.previous_next_height /\ tip_height' = u.previous_tip_height
        /\ history' = SubSeq(history, 1, Len(history) - 1)
    BY DEF RollbackTip, callVars
  <1>3. u \in Elems(history) /\ Elems(history') \subseteq Elems(history)
    BY <1>2, LastElem DEF MemOK, TypeInv
  <1> DEFINE L == Len(history)
  <1>4. L \in Nat /\ L > 0 /\ IsSeq(history)
    BY <1>2, LastElem DEF MemOK, TypeInv
  <1>5. /\ tip_height \in Height /\ u.previous_next_height = tip_height
        /\ \A i \in 1 .. L : history[i].previous_next_height = tip_height - (L - i)
    <2>1. /\ tip_height \in Height
          /\ \A i \in 1 .. L : history[i].previous_next_height = tip_height - (L - i)
      BY <1>2 DEF MemOK, Stacked
    <2>2. L \in 1 .. L /\ L - L = 0
      BY <1>4
    <2>3. tip_height - 0 = tip_height
      BY <2>1, HeightFacts
    <2> QED BY <2>1, <2>2, <2>3
  <1>6. UndoTips(u)
    BY <1>3 DEF MemOK
  <1> HIDE DEF u
  <1>7. IF tip_height' = None THEN tip_height = activation_height
        ELSE tip_height' \in Height /\ tip_height = tip_height' + 1
    BY <1>2, <1>5, <1>6, HeightFacts DEF UndoTips, UndoOK, TipValid, Option
  <1>8. /\ Len(history') = L - 1
        /\ \A i \in 1 .. L - 1 : history'[i] = history[i]
    <2> DEFINE n == L - 1
    <2>1. n \in Nat /\ 1 <= n + 1 /\ n <= Len(history) /\ n + 1 - 1 = n
      BY <1>4
    <2>2. history' = SubSeq(history, 1, n)
      BY <1>2
    <2> HIDE DEF n
    <2>3. /\ Len(history') = n + 1 - 1
          /\ \A i \in 1 .. (n + 1 - 1) : history'[i] = history[1 + i - 1]
      BY <1>4, <2>1, <2>2, SubSeqFacts
    <2>4. \A i \in 1 .. n : 1 + i - 1 = i
      BY <2>1
    <2>5. Len(history') = n /\ \A i \in 1 .. n : history'[i] = history[i]
      BY <2>1, <2>3, <2>4
    <2> QED BY <2>5 DEF n
  <1>9. ASSUME history' # << >> PROVE tip_height' \in Height
    <2>1. L - 1 > 0
      BY <1>2, <1>4, <1>8, <1>9, EmptySeq, LastElem
    <2>2. L - 1 \in 1 .. L /\ history[L - 1] \in Elems(history)
      BY <1>4, <2>1 DEF Elems
    <2>3. UndoTips(history[L - 1])
      BY <2>2 DEF MemOK
    <2>4. history[L - 1].previous_next_height >= activation_height
      BY <2>3, HeightFacts DEF UndoTips, UndoOK, TipValid, Option
    <2>5. history[L - 1].previous_next_height = tip_height - 1
      BY <1>4, <1>5, <2>2, HeightFacts
    <2> QED BY <1>5, <1>7, <2>4, <2>5, HeightFacts
  <1>10. Stacked(history', tip_height')
    <2> SUFFICES ASSUME history' # << >>, NEW i \in 1 .. Len(history')
                 PROVE  history'[i].previous_next_height = tip_height' - (Len(history') - i)
      BY <1>9 DEF Stacked
    <2>1. tip_height' \in Height /\ tip_height = tip_height' + 1
      BY <1>7, <1>9, HeightFacts
    <2>2. i \in 1 .. L - 1 /\ i \in 1 .. L
      BY <1>4, <1>8
    <2>3. history'[i].previous_next_height = tip_height - (L - i)
      BY <1>5, <1>8, <2>2
    <2> QED BY <1>4, <1>8, <2>1, <2>2, <2>3, HeightFacts
  <1>11. TipValid(next_height', tip_height')
    BY <1>2, <1>6 DEF UndoTips
  <1>12. MemOK'
    BY <1>1, <1>2, <1>3, <1>10, <1>11 DEF MemOK
  <1> QED BY <1>2, <1>5, <1>7, <1>12 DEF u

LEMMA MemFinalize ==
    ASSUME MemOK, NEW height \in Height, FinalizeThrough(height)
    PROVE  MemOK' /\ block = None /\ block' = None
  <1>1. TypeInv'
    <2>1. Next
      BY DEF Next
    <2> QED BY <2>1, TypeStep DEF MemOK
  <1>2. /\ block = None /\ block' = None
        /\ next_height' = next_height /\ tip_height' = tip_height
    BY DEF FinalizeThrough, callVars, chainVars
  <1>3. PICK n \in 0 .. Len(history) : history' = SubSeq(history, n + 1, Len(history))
    BY DEF FinalizeThrough
  <1>4. Elems(history') \subseteq Elems(history)
    <2>1. IsSeq(history) /\ Len(history) \in Nat
      BY DEF MemOK, TypeInv, IsSeq
    <2> QED BY <1>3, <2>1, ElemsSubSeq
  <1>5. Stacked(history', tip_height')
    <2> DEFINE L == Len(history)
               m == n + 1
    <2>1. /\ IsSeq(history) /\ L \in Nat /\ m \in Nat /\ 1 <= m /\ m <= L + 1
          /\ n \in Nat /\ m = n + 1
      BY DEF MemOK, TypeInv, IsSeq
    <2> HIDE DEF m
    <2>2. /\ Len(history') = L + 1 - m /\ IsSeq(history')
          /\ \A i \in 1 .. (L + 1 - m) : history'[i] = history[m + i - 1]
      BY <1>3, <2>1, SubSeqFacts DEF m
    <2> SUFFICES ASSUME history' # << >>
                 PROVE  /\ tip_height' \in Height
                        /\ \A i \in 1 .. Len(history') : history'[i].previous_next_height
                                                = tip_height' - (Len(history') - i)
      BY DEF Stacked
    <2>3. history # << >>
      <3>1. L + 1 - m # 0
        BY <2>1, <2>2, EmptySeq
      <3>2. L # 0
        BY <2>1, <3>1
      <3> QED BY <3>2
    <2>4. /\ tip_height \in Height
          /\ \A i \in 1 .. L : history[i].previous_next_height = tip_height - (L - i)
      BY <2>3 DEF MemOK, Stacked
    <2>5. ASSUME NEW i \in 1 .. Len(history')
          PROVE  history'[i].previous_next_height = tip_height - (Len(history') - i)
      <3>1. m + i - 1 \in 1 .. L /\ i \in 1 .. (L + 1 - m)
        BY <2>1, <2>2
      <3>2. history'[i].previous_next_height = tip_height - (L - (m + i - 1))
        BY <2>2, <2>4, <3>1
      <3> QED BY <2>1, <2>2, <2>4, <3>1, <3>2, HeightFacts
    <2> QED BY <1>2, <2>4, <2>5
  <1> QED BY <1>1, <1>2, <1>4, <1>5 DEF MemOK

\* The maps after a load: the records that were stored and indexes for them.
LEMMA RebuiltOK ==
    ASSUME NEW c, NEW h, MapOf(c, CommitRef, Commitments), MapOf(h, NameIds, HeadRecord)
    PROVE  DbOK(rebuild_derived_indexes([commits |-> c, heads |-> h]))
  <1> DEFINE d == [commits |-> c, heads |-> h, commits_by_height |-> {},
                   heads_by_future_nf |-> {}, active_heads_by_expiry |-> {},
                   terminal_heads_by_height |-> {}]
  <1>1. DbOK(rebuild_derived_indexes(d))
    <2>1. DbOK(d)
      BY DEF DbOK
    <2> QED BY <2>1, RebuildType
  <1>2. rebuild_derived_indexes(d) = rebuild_derived_indexes([commits |-> c, heads |-> h])
    BY DEF rebuild_derived_indexes
  <1> QED BY <1>1, <1>2

LEMMA MemFresh ==
    ASSUME FreshMemory
    PROVE  MemOK' /\ block' = None
  <1>1. history' = << >> /\ IsSeq(history') /\ Elems(history') = {} /\ Len(history') = 0
    BY DEF FreshMemory, IsSeq, Elems
  <1>2. MapOf(EmptyMap, CommitRef, Commitments) /\ MapOf(EmptyMap, NameIds, HeadRecord)
    BY DEF MapOf, EmptyMap
  <1>3. DbOK(db')
    BY <1>2, RebuiltOK DEF FreshMemory
  <1>4. TypeOK'
    BY <1>1, <1>3, HeightFacts, ValuesAssumption DEF FreshMemory, TypeOK, DbOK, Option
  <1>5. TipValid(next_height', tip_height')
    BY DEF FreshMemory, TipValid
  <1>6. Stacked(history', tip_height')
    BY <1>1 DEF Stacked
  <1> QED BY <1>1, <1>4, <1>5, <1>6 DEF FreshMemory, MemOK, TypeInv

LEMMA MemLoad ==
    ASSUME NEW image, ImageOK(image), LoadImage(image)
    PROVE  MemOK' /\ block' = None
  <1>1. /\ history' = image.history /\ next_height' = image.next_height
        /\ tip_height' = image.tip.height /\ previous_hash' = image.tip.hash
        /\ db' = rebuild_derived_indexes([commits |-> image.commits, heads |-> image.heads])
        /\ block' = None /\ pos' = 0 /\ undo' = None
    BY DEF LoadImage
  <1>2. DbOK(db')
    BY <1>1, RebuiltOK DEF ImageOK
  <1>3. image.tip.height \in Height /\ image.tip.hash \in Hashes
    BY DEF ImageOK, TipOK
  <1>4. IsSeq(history') /\ \A u \in Elems(history') : UndoTips(u)
    BY <1>1 DEF ImageOK
  <1>5. \A i \in 1 .. Len(history') : UndoOK(history'[i])
    BY <1>4 DEF Elems, UndoTips
  <1>6. TypeOK'
    BY <1>1, <1>2, <1>3, <1>5 DEF TypeOK, DbOK, Option, ImageOK
  <1>7. TipValid(next_height', tip_height')
    BY <1>1 DEF ImageOK
  <1>8. Stacked(history', tip_height')
    BY <1>1 DEF ImageOK
  <1> QED BY <1>1, <1>4, <1>6, <1>7, <1>8 DEF MemOK, TypeInv

LEMMA MemImage ==
    ASSUME NoneIsNoRecord, MemOK, tip_height # None
    PROVE  ImageOK(Image)
  <1>1. /\ tip_height \in Height /\ previous_hash \in Hashes
        /\ next_height \in Option(Height) /\ TipValid(next_height, tip_height)
        /\ tip_height >= activation_height
        /\ MapOf(db.commits, CommitRef, Commitments) /\ MapOf(db.heads, NameIds, HeadRecord)
        /\ IsSeq(history) /\ Stacked(history, tip_height)
        /\ \A u \in Elems(history) : UndoTips(u)
    BY DEF MemOK, TypeInv, TypeOK, Option, TipValid
  <1>2. reducer_tip = Tip(tip_height, previous_hash) /\ reducer_tip # None
    BY DEF reducer_tip, Tip, NoneIsNoRecord, TipFields
  <1>3. /\ TipOK(reducer_tip) /\ reducer_tip.height = tip_height
        /\ reducer_tip.hash = previous_hash
    BY <1>1, <1>2 DEF TipOK, Tip, TipFields
  <1> QED BY <1>1, <1>2, <1>3 DEF ImageOK, Image

-----------------------------------------------------------------------------
(***************************************************************************)
(* The inductive invariant.  The database a transaction works on is sound  *)
(* unless a statement has failed in it, in which case it is thrown away;   *)
(* its tip is at the reducer's height, and the savepoint's at the height   *)
(* the reducer falls back to when the block fails.                         *)
(***************************************************************************)
Current_store == IF tx # None THEN tx ELSE disk

\* A view of the database that has not lost its identity or been finalized.
Kin(s) == /\ s.identity = disk.identity
          /\ s.finalized_height \in {None, disk.finalized_height}

StoresInv ==
    /\ disk # None => StoreOK(disk)
    /\ (tx # None /\ ~torn) => StoreOK(tx) /\ Kin(tx)
    /\ savepoint # None => StoreOK(savepoint) /\ Kin(savepoint)
    /\ conn # None => /\ disk # None /\ conn \in Identities
                      /\ disk.identity.minimum_rollback_blocks = conn.minimum_rollback_blocks

CallsInv ==
    /\ tx # None => conn # None
    /\ up => conn # None
    /\ tx = None \/ ~up => /\ block = None /\ delta = None /\ savepoint = None
                           /\ rewind = None /\ ~torn
    /\ savepoint # None => adapter = "sqlite"
    /\ torn => delta # None
    /\ delta # None => block = None
    /\ rewind # None => adapter = "wallet" /\ block = None /\ delta = None

HeightsInv ==
    /\ delta # None => DeltaOK(delta) /\ delta.to_tip.height = tip_height
    /\ (up /\ delta = None) => HeightOf(Current_store.tip) = tip_height
    /\ savepoint # None =>
          IF block # None THEN HeightOf(savepoint.tip) = tip_height
          ELSE HeightOf(savepoint.tip) = history[Len(history)].previous_tip_height

StoreInv == MemOK /\ StoresInv /\ CallsInv /\ HeightsInv

LEMMA StoreInit == SInit => StoreInv
  <1> SUFFICES ASSUME SInit PROVE StoreInv
    OBVIOUS
  <1>1. TypeInv
    BY TypeInit DEF SInit
  <1>2. history = << >> /\ Elems(history) = {}
    BY DEF SInit, Init, Elems
  <1>3. MemOK
    BY <1>1, <1>2 DEF SInit, Init, MemOK, Stacked, TipValid
  <1>4. StoresInv /\ CallsInv /\ HeightsInv
    BY DEF SInit, Init, StoresInv, CallsInv, HeightsInv
  <1> QED BY <1>3, <1>4 DEF StoreInv

LEMMA OpenStep ==
    ASSUME NoneIsNoRecord, StoreInv, NEW id \in Identities, Open(id)
    PROVE  StoreInv'
  <1> USE DEF StoreInv
  <1>1. /\ conn = None /\ conn' = id /\ tx' = tx /\ savepoint' = savepoint /\ delta' = delta
        /\ torn' = torn /\ rewind' = rewind /\ up' = up /\ vars' = vars
    BY DEF Open
  <1>2. /\ tx = None /\ ~up /\ savepoint = None /\ delta = None /\ ~torn /\ rewind = None
        /\ block = None
    BY <1>1 DEF CallsInv
  <1>3. MemOK'
    BY <1>1 DEF MemOK, vars, TypeInv, TypeOK
  <1>4. /\ disk' # None => StoreOK(disk')
        /\ disk' # None
        /\ disk'.identity.minimum_rollback_blocks = id.minimum_rollback_blocks
    <2>1. CASE disk = None
      <3>1. disk' = NewStore(id)
        BY <2>1 DEF Open
      <3>2. disk' # None
        BY <3>1 DEF NoneIsNoRecord, NewStore, StoreFields
      <3> QED BY <3>1, <3>2, NewStoreOK
    <2>2. CASE disk # None
      BY <2>2 DEF Open, identity_matches, StoresInv
    <2> QED BY <2>1, <2>2
  <1>5. StoresInv'
    BY <1>1, <1>2, <1>4 DEF StoresInv
  <1>6. CallsInv'
    BY <1>1, <1>2 DEF CallsInv, vars
  <1>7. HeightsInv'
    BY <1>1, <1>2 DEF HeightsInv
  <1> QED BY <1>3, <1>5, <1>6, <1>7

LEMMA BeginTransactionStep ==
    ASSUME StoreInv, NEW id \in Identities, BeginTransaction(id)
    PROVE  StoreInv'
  <1> USE DEF StoreInv
  <1>1. /\ conn # None /\ conn' = conn /\ disk' = disk /\ tx = None /\ tx' = disk
        /\ savepoint' = savepoint /\ delta' = delta
        /\ torn' = torn /\ rewind' = rewind /\ up' = up /\ vars' = vars
    BY DEF BeginTransaction
  <1>2. /\ savepoint = None /\ delta = None /\ ~torn /\ rewind = None
        /\ block = None /\ disk # None
    BY <1>1 DEF CallsInv, StoresInv
  <1>3. MemOK'
    BY <1>1 DEF MemOK, vars, TypeInv, TypeOK
  <1>5. StoresInv'
    BY <1>1, <1>2 DEF StoresInv, Kin
  <1>6. CallsInv'
    BY <1>1, <1>2 DEF CallsInv, vars
  <1>7. HeightsInv'
    BY <1>1, <1>2 DEF HeightsInv, Current_store, vars
  <1> QED BY <1>3, <1>5, <1>6, <1>7

\* What a call that touches only the scan, the snapshot or the wallet's COMMIT
\* locations leaves alone.
Beside(s, t) == /\ StoreOK(t) /\ t.identity = s.identity /\ t.tip = s.tip
                /\ t.finalized_height = s.finalized_height

LEMMA ScanOK ==
    ASSUME NEW s, StoreOK(s), NEW scan \in Seq(Block)
    PROVE  Beside(s, [s EXCEPT !.scan = scan])
  <1> DEFINE t == [s EXCEPT !.scan = scan]
  <1>1. /\ SameJournal(s, t) /\ t.scan = scan /\ t.core_snapshot = s.core_snapshot
        /\ t.identity = s.identity
    BY DEF SameJournal, StoreOK, StoreFields
  <1> HIDE DEF t
  <1>2. StoreOK(t)
    BY <1>1, SameJournalOK DEF StoreOK
  <1>3. Beside(s, t)
    BY <1>1, <1>2 DEF Beside, SameJournal
  <1> QED BY <1>3 DEF t

LEMMA SnapshotOK ==
    ASSUME NEW s, StoreOK(s), NEW image, image # None => ImageOK(image)
    PROVE  Beside(s, [s EXCEPT !.core_snapshot = image])
  <1> DEFINE t == [s EXCEPT !.core_snapshot = image]
  <1>1. /\ SameJournal(s, t) /\ t.scan = s.scan /\ t.core_snapshot = image
        /\ t.identity = s.identity
    BY DEF SameJournal, StoreOK, StoreFields
  <1> HIDE DEF t
  <1>2. StoreOK(t)
    BY <1>1, SameJournalOK DEF StoreOK
  <1>3. Beside(s, t)
    BY <1>1, <1>2 DEF Beside, SameJournal
  <1> QED BY <1>3 DEF t

LEMMA WalletCommitsOK ==
    ASSUME NEW s, StoreOK(s), NEW places
    PROVE  Beside(s, [s EXCEPT !.wallet_commits = places])
  <1> DEFINE t == [s EXCEPT !.wallet_commits = places]
  <1>1. /\ SameJournal(s, t) /\ t.scan = s.scan /\ t.core_snapshot = s.core_snapshot
        /\ t.identity = s.identity
    BY DEF SameJournal, StoreOK, StoreFields
  <1> HIDE DEF t
  <1>2. StoreOK(t)
    BY <1>1, SameJournalOK DEF StoreOK
  <1>3. Beside(s, t)
    BY <1>1, <1>2 DEF Beside, SameJournal
  <1> QED BY <1>3 DEF t

LEMMA IsNotNone ==
    ASSUME NoneIsNoRecord, NEW s, StoreOK(s)
    PROVE  s # None
  BY DEF NoneIsNoRecord, StoreOK

LEMMA SameMemory == MemOK /\ vars' = vars => MemOK'
  BY DEF MemOK, vars, TypeInv, TypeOK

\* A step between two calls that changes at most the open transaction's side
\* fields keeps the invariant.
LEMMA BesideStep ==
    ASSUME NoneIsNoRecord, StoreInv, tx # None, ~torn, Beside(tx, tx'), vars' = vars,
           disk' = disk, conn' = conn, savepoint' = savepoint, delta' = delta,
           torn' = torn, up' = up,
           rewind' = None \/ (rewind' # None /\ adapter = "wallet" /\ up /\ block = None
                                /\ delta = None)
    PROVE  StoreInv'
  <1> USE DEF StoreInv
  <1>1. MemOK'
    BY SameMemory
  <1>2. tx' # None
    BY IsNotNone DEF Beside
  <1>3. StoresInv'
    BY DEF StoresInv, Kin, Beside
  <1>4. CallsInv'
    BY <1>2 DEF CallsInv, vars
  <1>5. HeightsInv'
    BY <1>2 DEF HeightsInv, Current_store, vars, Beside
  <1> QED BY <1>1, <1>3, <1>4, <1>5

LEMMA BeginBlockStep ==
    ASSUME NoneIsNoRecord, StoreInv, NEW b \in Block, SBeginBlock(b)
    PROVE  StoreInv'
  <1> USE DEF StoreInv
  <1>1. /\ up /\ tx # None /\ block = None /\ savepoint = None /\ delta = None
        /\ rewind = None /\ ~torn
    BY DEF SBeginBlock, Idle
  <1>2. /\ savepoint' = IF adapter = "sqlite" THEN tx ELSE None
        /\ disk' = disk /\ conn' = conn /\ delta' = delta /\ torn' = torn
        /\ rewind' = rewind /\ up' = up /\ BeginBlock(b, {})
    BY DEF SBeginBlock
  <1>3. MemOK'
    BY <1>2, MemBegin
  <1>4. /\ block' = b /\ b # None /\ tip_height' = tip_height /\ history' = history
    BY <1>2, ValuesAssumption DEF BeginBlock, chainVars
  <1>5. StoreOK(tx) /\ Kin(tx)
    BY <1>1 DEF StoresInv
  <1>6. Beside(tx, tx')
    <2>1. CASE tx' = tx
      BY <1>5, <2>1 DEF Beside
    <2>2. CASE tx' = [tx EXCEPT !.scan = Append(@, b)]
      <3>1. Append(tx.scan, b) \in Seq(Block)
        BY <1>5 DEF StoreOK
      <3> QED BY <1>5, <2>2, <3>1, ScanOK
    <2> QED BY <2>1, <2>2 DEF SBeginBlock
  <1>7. tx' # None
    BY <1>6, IsNotNone DEF Beside
  <1>8. StoresInv'
    BY <1>1, <1>2, <1>5, <1>6 DEF StoresInv, Kin, Beside
  <1>9. CallsInv'
    BY <1>1, <1>2, <1>4, <1>7 DEF CallsInv
  <1>10. HeightsInv'
    BY <1>1, <1>2, <1>4, <1>6, <1>7 DEF HeightsInv, Current_store, Beside
  <1> QED BY <1>3, <1>8, <1>9, <1>10

LEMMA ApplyTransactionStep ==
    ASSUME StoreInv, SApplyTransaction
    PROVE  StoreInv'
  <1> USE DEF StoreInv
  <1>1. /\ ApplyTransaction /\ disk' = disk /\ conn' = conn /\ tx' = tx
        /\ savepoint' = savepoint /\ delta' = delta /\ torn' = torn
        /\ rewind' = rewind /\ up' = up
    BY DEF SApplyTransaction, storeVars
  <1>2. MemOK'
    BY <1>1, MemApply
  <1>3. /\ block # None /\ block' = block /\ tip_height' = tip_height /\ history' = history
    BY <1>1 DEF ApplyTransaction, chainVars
  <1>4. StoresInv'
    BY <1>1 DEF StoresInv, Kin
  <1>5. CallsInv'
    BY <1>1, <1>3 DEF CallsInv
  <1>6. HeightsInv'
    BY <1>1, <1>3 DEF HeightsInv, Current_store
  <1> QED BY <1>2, <1>4, <1>5, <1>6

LEMMA EndBlockStep ==
    ASSUME NoneIsNoRecord, StoreInv, SEndBlock
    PROVE  StoreInv'
  <1> USE DEF StoreInv
  <1>1. /\ EndBlock /\ disk' = disk /\ conn' = conn /\ tx' = tx
        /\ savepoint' = savepoint /\ torn' = torn /\ rewind' = rewind /\ up' = up
        /\ delta' = delta_from_undo(reducer_tip, Tip(block.height, block.hash), undo)
    BY DEF SEndBlock
  <1>2. /\ MemOK' /\ Before(reducer_tip, block.height) /\ TipOK(Tip(block.height, block.hash))
    BY <1>1, MemEnd
  <1>3. /\ block # None /\ block' = None /\ tip_height' = block.height
        /\ history' = Append(history, undo)
    BY <1>1 DEF EndBlock
  <1>4. up /\ tx # None /\ ~torn /\ rewind = None
    BY <1>3 DEF CallsInv
  <1>5. DeltaOK(delta') /\ delta'.to_tip.height = tip_height' /\ delta' # None
    <2>1. /\ DOMAIN delta' = DeltaFields /\ delta'.from_tip = reducer_tip
          /\ delta'.to_tip = Tip(block.height, block.hash)
      BY <1>1 DEF delta_from_undo, DeltaFields
    <2>2. delta' # None
      BY <2>1 DEF NoneIsNoRecord
    <2>3. delta'.to_tip # None /\ delta'.to_tip.height = block.height
      BY <2>1 DEF NoneIsNoRecord, Tip, TipFields
    <2> QED BY <1>2, <1>3, <2>1, <2>2, <2>3 DEF DeltaOK
  <1>6. StoresInv'
    BY <1>1 DEF StoresInv, Kin
  <1>7. CallsInv'
    BY <1>1, <1>3, <1>4 DEF CallsInv
  <1>8. history'[Len(history')] = undo /\ undo.previous_tip_height = tip_height
    BY <1>3, AppendFacts DEF MemOK, TypeInv
  <1>9. HeightsInv'
    BY <1>1, <1>3, <1>5, <1>8 DEF HeightsInv
  <1> QED BY <1>2, <1>6, <1>7, <1>9

LEMMA StoreDeltaStep ==
    ASSUME NoneIsNoRecord, StoreInv, StoreDelta
    PROVE  StoreInv'
  <1> USE DEF StoreInv
  <1>1. /\ delta # None /\ ~torn /\ DeltaAccepted(tx, delta) /\ delta' = None
        /\ tx' = apply_delta(tx, delta)
        /\ vars' = vars /\ disk' = disk /\ conn' = conn /\ savepoint' = savepoint
        /\ torn' = torn /\ rewind' = rewind /\ up' = up
    BY DEF StoreDelta, wallet_apply_delta
  <1>2. tx # None /\ up /\ block = None /\ rewind = None
    BY <1>1 DEF CallsInv
  <1>3. StoreOK(tx) /\ Kin(tx) /\ DeltaOK(delta) /\ delta.to_tip.height = tip_height
    BY <1>1, <1>2 DEF StoresInv, HeightsInv
  <1>4. /\ StoreOK(tx') /\ tx'.identity = tx.identity
        /\ tx'.finalized_height = tx.finalized_height
    BY <1>1, <1>3, ApplyDeltaOK
  <1>5. tx' # None
    BY <1>4, IsNotNone
  <1>6. tx'.tip = delta.to_tip
    BY <1>1, <1>3
    DEF apply_delta, Written, write_tip, write_head, write_commit, StoreOK, StoreFields
  <1>7. HeightOf(tx'.tip) = tip_height
    BY <1>3, <1>6 DEF HeightOf, DeltaOK
  <1>8. MemOK'
    BY <1>1, SameMemory
  <1>9. StoresInv'
    BY <1>1, <1>3, <1>4 DEF StoresInv, Kin
  <1>10. CallsInv'
    BY <1>1, <1>2, <1>5 DEF CallsInv, vars
  <1>11. HeightsInv'
    BY <1>1, <1>2, <1>5, <1>7 DEF HeightsInv, Current_store, vars
  <1> QED BY <1>8, <1>9, <1>10, <1>11

LEMMA DeltaFailsStep ==
    ASSUME NoneIsNoRecord, StoreInv, DeltaFails
    PROVE  StoreInv'
  <1> USE DEF StoreInv
  <1>1. /\ delta # None /\ ~torn /\ delta' = delta /\ torn' = TRUE
        /\ vars' = vars /\ disk' = disk /\ conn' = conn /\ savepoint' = savepoint
        /\ rewind' = rewind /\ up' = up
    BY DEF DeltaFails
  <1>2. tx # None /\ up /\ block = None /\ rewind = None /\ conn # None
    BY <1>1 DEF CallsInv
  <1>3. tx' # None
    <2>1. StoreOK(tx)
      BY <1>1, <1>2 DEF StoresInv
    <2>2. \A names, refs : DOMAIN Written(tx, delta, names, refs) = StoreFields
      BY <2>1 DEF Written, write_head, write_commit, StoreOK, StoreFields
    <2>3. tx' = tx \/ \E names, refs : tx' = Written(tx, delta, names, refs)
      BY DEF DeltaFails, PartlyApplied
    <2> QED BY <1>2, <2>2, <2>3 DEF NoneIsNoRecord
  <1>4. MemOK'
    BY <1>1, SameMemory
  <1>5. StoresInv'
    BY <1>1 DEF StoresInv, Kin
  <1>6. CallsInv'
    BY <1>1, <1>2, <1>3 DEF CallsInv, vars
  <1>7. HeightsInv'
    BY <1>1, <1>2 DEF HeightsInv, vars
  <1> QED BY <1>4, <1>5, <1>6, <1>7

LEMMA ReleaseSavepointStep ==
    ASSUME StoreInv, ReleaseSavepoint
    PROVE  StoreInv'
  <1> USE DEF StoreInv
  <1>1. /\ savepoint' = None /\ vars' = vars /\ disk' = disk /\ conn' = conn /\ tx' = tx
        /\ delta' = delta /\ torn' = torn /\ rewind' = rewind /\ up' = up
    BY DEF ReleaseSavepoint
  <1>2. MemOK'
    BY <1>1, SameMemory
  <1>3. StoresInv'
    BY <1>1 DEF StoresInv, Kin
  <1>4. CallsInv'
    BY <1>1 DEF CallsInv, vars
  <1>5. HeightsInv'
    BY <1>1 DEF HeightsInv, Current_store, vars
  <1> QED BY <1>2, <1>3, <1>4, <1>5

LEMMA BlockFailsStep ==
    ASSUME StoreInv, BlockFails
    PROVE  StoreInv'
  <1> USE DEF StoreInv
  <1>1. /\ savepoint # None /\ block = None /\ tx' = savepoint /\ savepoint' = None
        /\ delta' = None /\ torn' = FALSE /\ RollbackTip(previous_hash)
        /\ disk' = disk /\ conn' = conn /\ rewind' = rewind /\ up' = up
    BY DEF BlockFails, SavepointRestored
  <1>2. /\ MemOK' /\ block' = None
        /\ tip_height' = history[Len(history)].previous_tip_height
    BY <1>1, MemRollback
  <1>3. tx # None /\ up /\ adapter = "sqlite" /\ rewind = None
    BY <1>1, AdapterAssumption DEF CallsInv
  <1>4. StoresInv'
    BY <1>1 DEF StoresInv, Kin
  <1>5. CallsInv'
    BY <1>1, <1>2, <1>3 DEF CallsInv
  <1>6. HeightsInv'
    BY <1>1, <1>2 DEF HeightsInv, Current_store
  <1> QED BY <1>2, <1>4, <1>5, <1>6

LEMMA CommitStep ==
    ASSUME StoreInv, Commit
    PROVE  StoreInv'
  <1> USE DEF StoreInv
  <1>1. /\ up /\ tx # None /\ block = None /\ savepoint = None /\ delta = None
        /\ rewind = None /\ ~torn
        /\ disk' = tx /\ tx' = None /\ vars' = vars /\ conn' = conn
        /\ savepoint' = savepoint /\ delta' = delta /\ torn' = torn /\ rewind' = rewind
        /\ up' = up
    BY DEF Commit, Idle
  <1>2. StoreOK(tx) /\ Kin(tx) /\ conn # None
    BY <1>1 DEF StoresInv, CallsInv
  <1>3. MemOK'
    BY <1>1, SameMemory
  <1>4. StoresInv'
    BY <1>1, <1>2 DEF StoresInv, Kin
  <1>5. CallsInv'
    BY <1>1, <1>2 DEF CallsInv, vars
  <1>6. HeightsInv'
    BY <1>1, <1>2 DEF HeightsInv, Current_store, vars
  <1> QED BY <1>3, <1>4, <1>5, <1>6

LEMMA BatchLostStep ==
    ASSUME StoreInv, BatchLost, disk' = disk, conn' = conn \/ conn' = None
    PROVE  StoreInv'
  <1> USE DEF StoreInv
  <1>1. /\ tx' = None /\ savepoint' = None /\ delta' = None
        /\ torn' = FALSE /\ rewind' = None /\ up' = FALSE /\ FreshMemory
    BY DEF BatchLost
  <1>2. MemOK' /\ block' = None
    BY <1>1, MemFresh
  <1>3. StoresInv'
    BY <1>1 DEF StoresInv
  <1>4. CallsInv'
    BY <1>1, <1>2 DEF CallsInv
  <1>5. HeightsInv'
    BY <1>1 DEF HeightsInv
  <1> QED BY <1>2, <1>3, <1>4, <1>5

LEMMA PutSnapshotStep ==
    ASSUME NoneIsNoRecord, StoreInv, PutSnapshot
    PROVE  StoreInv'
  <1> USE DEF StoreInv
  <1>1. /\ up /\ tx # None /\ block = None /\ savepoint = None /\ delta = None
        /\ rewind = None /\ ~torn /\ tx.tip # None
        /\ tx' = [tx EXCEPT !.core_snapshot = Image] /\ vars' = vars /\ disk' = disk
        /\ conn' = conn /\ savepoint' = savepoint /\ delta' = delta /\ torn' = torn
        /\ rewind' = rewind /\ up' = up
    BY DEF PutSnapshot, Idle, put_core_snapshot
  <1>2. StoreOK(tx)
    BY <1>1 DEF StoresInv
  <1>3. tip_height # None
    <2>1. tip_height = tx.tip.height
      BY <1>1 DEF HeightsInv, Current_store, HeightOf
    <2> QED BY <1>1, <1>2, <2>1, HeightFacts DEF StoreOK, JournalOK, TipOK
  <1>4. ImageOK(Image)
    BY <1>3, MemImage
  <1>5. Beside(tx, tx')
    BY <1>1, <1>2, <1>4, SnapshotOK
  <1> QED BY <1>1, <1>5, BesideStep

LEMMA ResumeStep ==
    ASSUME NoneIsNoRecord, StoreInv, Resume
    PROVE  StoreInv'
  <1> USE DEF StoreInv
  <1>1. /\ tx # None /\ ~up /\ up' = TRUE /\ disk' = disk /\ conn' = conn
        /\ savepoint' = savepoint /\ delta' = delta /\ torn' = torn /\ rewind' = rewind
    BY DEF Resume
  <1>2. /\ block = None /\ delta = None /\ savepoint = None /\ rewind = None /\ ~torn
        /\ conn # None
    BY <1>1 DEF CallsInv
  <1>3. StoreOK(tx) /\ Kin(tx)
    BY <1>1, <1>2 DEF StoresInv
  <1>4. /\ MemOK' /\ block' = None /\ StoreOK(tx') /\ Kin(tx')
        /\ HeightOf(tx'.tip) = tip_height'
    <2>1. CASE SnapshotCurrent(tx)
      <3>1. /\ LoadImage(tx.core_snapshot) /\ tx' = tx /\ tx.core_snapshot # None
            /\ tx.core_snapshot.tip = tx.tip
        BY <2>1 DEF Resume, SnapshotCurrent
      <3>2. ImageOK(tx.core_snapshot)
        BY <1>3, <3>1 DEF StoreOK
      <3>3. tip_height' = tx.tip.height /\ tx.tip # None
        BY <3>1, <3>2 DEF LoadImage, ImageOK
      <3> QED BY <1>3, <3>1, <3>2, <3>3, MemLoad DEF HeightOf
    <2>2. CASE ~SnapshotCurrent(tx)
      <3>1. FreshMemory
        BY <2>2 DEF Resume
      <3>2. MemOK' /\ block' = None /\ tip_height' = None
        BY <3>1, MemFresh DEF FreshMemory
      <3>3. CASE adapter = "wallet"
        <4>1. tx' = reset_for_replay(tx)
          BY <2>2, <3>3 DEF Resume
        <4>2. /\ StoreOK(tx') /\ tx'.identity = tx.identity /\ tx'.finalized_height = None
          BY <1>3, <4>1, ResetOK
        <4>3. tx'.tip = None
          BY <1>3, <4>1 DEF reset_for_replay, StoreOK, StoreFields
        <4> QED BY <1>3, <3>2, <4>2, <4>3 DEF Kin, HeightOf
      <3>4. CASE adapter # "wallet"
        <4> DEFINE n == NewStore(tx.identity)
        <4>1. tx' = [n EXCEPT !.scan = tx.scan]
          BY <2>2, <3>4 DEF Resume
        <4>2. StoreOK(n) /\ n.identity = tx.identity /\ n.finalized_height = None /\ n.tip = None
          BY NewStoreOK DEF NewStore
        <4> HIDE DEF n
        <4>3. tx.scan \in Seq(Block)
          BY <1>3 DEF StoreOK
        <4>4. Beside(n, tx')
          BY <4>1, <4>2, <4>3, ScanOK
        <4> QED BY <1>3, <3>2, <4>2, <4>4 DEF Beside, Kin, HeightOf
      <3> QED BY <3>3, <3>4
    <2> QED BY <2>1, <2>2
  <1>5. tx' # None
    BY <1>4, IsNotNone
  <1>6. StoresInv'
    BY <1>1, <1>2, <1>4 DEF StoresInv, Kin
  <1>7. CallsInv'
    BY <1>1, <1>2, <1>4, <1>5 DEF CallsInv
  <1>8. HeightsInv'
    BY <1>1, <1>2, <1>4, <1>5 DEF HeightsInv, Current_store
  <1> QED BY <1>4, <1>6, <1>7, <1>8

LEMMA StoreFinalizeStep ==
    ASSUME NoneIsNoRecord, StoreInv, NEW height \in Height, Finalize(height)
    PROVE  StoreInv'
  <1> USE DEF StoreInv
  <1>1. /\ conn # None /\ tx = None /\ up /\ disk.tip # None /\ height <= disk.tip.height
        /\ disk' = finalize_through(disk, height) /\ FinalizeThrough(height)
        /\ conn' = conn /\ tx' = tx /\ savepoint' = savepoint /\ delta' = delta
        /\ torn' = torn /\ rewind' = rewind /\ up' = up
    BY DEF Finalize
  <1>2. /\ block = None /\ delta = None /\ savepoint = None /\ rewind = None /\ ~torn
        /\ disk # None
    BY <1>1 DEF CallsInv, StoresInv
  <1>3. StoreOK(disk)
    BY <1>2 DEF StoresInv
  <1>4. StoreOK(disk') /\ disk'.identity = disk.identity
    BY <1>1, <1>3, FinalizeOK
  <1>5. disk' # None /\ disk'.tip = disk.tip
    <2>1. disk'.tip = disk.tip
      BY <1>1, <1>3 DEF finalize_through, DeleteJournal, StoreOK, StoreFields
    <2> QED BY <1>4, <2>1, IsNotNone
  <1>6. /\ MemOK' /\ block' = None /\ tip_height' = tip_height
    BY <1>1, MemFinalize DEF FinalizeThrough, chainVars
  <1>7. StoresInv'
    BY <1>1, <1>2, <1>4, <1>5 DEF StoresInv
  <1>8. CallsInv'
    BY <1>1, <1>2, <1>6 DEF CallsInv
  <1>9. HeightsInv'
    BY <1>1, <1>2, <1>5, <1>6 DEF HeightsInv, Current_store
  <1> QED BY <1>6, <1>7, <1>8, <1>9

\* Reducer and rows go back by the same block.
LEMMA TipsFall ==
    ASSUME NEW s, StoreOK(s), Journaled_tip(s), HeightOf(s.tip) = tip_height,
           MemOK, NEW hash, RollbackTip(hash)
    PROVE  HeightOf(rollback_tip(s).tip) = tip_height'
  <1> DEFINE back == s.rollback_blocks[s.tip.height].previous_tip
  <1>1. rollback_tip(s).tip = back
    BY DEF rollback_tip, DeleteJournal, write_tip, write_head, write_commit, StoreOK, StoreFields
  <1>2. Before(back, s.tip.height) /\ s.tip.height = tip_height
    BY DEF StoreOK, JournalOK, Journaled_tip, HeightOf
  <1> HIDE DEF back
  <1>3. /\ tip_height \in Height
        /\ IF tip_height' = None THEN tip_height = activation_height
           ELSE tip_height' \in Height /\ tip_height = tip_height' + 1
        /\ tip_height' \in Option(Height)
        /\ tip_height' # None => tip_height' >= activation_height
    BY MemRollback DEF MemOK, TypeInv, TypeOK, TipValid
  <1>4. CASE back = None
    BY <1>1, <1>2, <1>3, <1>4, HeightFacts DEF Before, HeightOf
  <1>5. CASE back # None
    <2>1. back.height \in Height /\ back.height >= activation_height
          /\ tip_height = back.height + 1
      BY <1>2, <1>5 DEF Before, TipOK
    <2>2. tip_height' # None /\ tip_height' = back.height
      BY <1>3, <2>1, HeightFacts
    <2> QED BY <1>1, <1>5, <2>2 DEF HeightOf
  <1> QED BY <1>4, <1>5

LEMMA ScanThroughOK ==
    ASSUME NEW s, StoreOK(s), NEW height \in Int, ScanIndex(height) <= Len(s.scan)
    PROVE  Beside(s, ScanThrough(s, height))
  <1> DEFINE n == ScanIndex(height)
  <1>1. s.scan \in Seq(Block) /\ n \in Int /\ n <= Len(s.scan)
    BY HeightFacts DEF StoreOK, ScanIndex
  <1> HIDE DEF n
  <1>2. SubSeq(s.scan, 1, n) \in Seq(Block)
    <2>1. CASE n >= 0
      BY <1>1, <2>1
    <2>2. CASE n < 0
      <3>1. SubSeq(s.scan, 1, n) = << >>
        BY <1>1, <2>2
      <3>2. << >> \in Seq(Block)
        OBVIOUS
      <3> QED BY <3>1, <3>2
    <2> QED BY <1>1, <2>1, <2>2
  <1> QED BY <1>2, ScanOK DEF ScanThrough, n

LEMMA ReorganizeTipStep ==
    ASSUME NoneIsNoRecord, StoreInv, NEW hash \in Hashes, ReorganizeTip(hash)
    PROVE  StoreInv'
  <1> USE DEF StoreInv
  <1>1. /\ up /\ tx # None /\ block = None /\ savepoint = None /\ delta = None
        /\ rewind = None /\ ~torn
        /\ Journaled_tip(tx) /\ CaughtUp(tx) /\ RollbackTip(hash)
        /\ tx' = ScanThrough(rollback_tip(tx), tx.tip.height - 1)
        /\ disk' = disk /\ conn' = conn /\ savepoint' = savepoint /\ delta' = delta
        /\ torn' = torn /\ rewind' = rewind /\ up' = up
    BY DEF ReorganizeTip, Idle
  <1>2. StoreOK(tx) /\ Kin(tx) /\ conn # None /\ HeightOf(tx.tip) = tip_height
    BY <1>1 DEF StoresInv, CallsInv, HeightsInv, Current_store
  <1>3. MemOK' /\ block' = None
    BY <1>1, MemRollback
  <1>4. HeightOf(rollback_tip(tx).tip) = tip_height'
    BY <1>1, <1>2, TipsFall
  <1> DEFINE r == rollback_tip(tx)
  <1>5. /\ StoreOK(r) /\ r.identity = tx.identity
        /\ r.finalized_height = tx.finalized_height /\ r.scan = tx.scan
    BY <1>1, <1>2, RollbackTipOK
  <1>6. tx.tip.height \in Height /\ ScanIndex(tx.tip.height) = Len(tx.scan)
    BY <1>1, <1>2 DEF Journaled_tip, CaughtUp, StoreOK, JournalOK, TipOK
  <1>7. tx.tip.height - 1 \in Int /\ ScanIndex(tx.tip.height - 1) <= Len(r.scan)
    BY <1>5, <1>6, HeightFacts DEF ScanIndex
  <1> HIDE DEF r
  <1>8. Beside(r, tx')
    BY <1>1, <1>5, <1>7, ScanThroughOK DEF r
  <1>9. tx' # None /\ HeightOf(tx'.tip) = tip_height'
    BY <1>4, <1>8, IsNotNone DEF Beside, r
  <1>10. StoresInv'
    BY <1>1, <1>2, <1>5, <1>8 DEF StoresInv, Kin, Beside
  <1>11. CallsInv'
    BY <1>1, <1>2, <1>3, <1>9 DEF CallsInv
  <1>12. HeightsInv'
    BY <1>1, <1>9 DEF HeightsInv, Current_store
  <1> QED BY <1>3, <1>10, <1>11, <1>12

LEMMA WalletRewindStep ==
    ASSUME NoneIsNoRecord, StoreInv, NEW height \in Height, WalletRewind(height)
    PROVE  StoreInv'
  <1> USE DEF StoreInv
  <1>1. /\ up /\ tx # None /\ block = None /\ savepoint = None /\ delta = None
        /\ ~torn /\ adapter = "wallet"
        /\ height < activation_height - 1 + Len(tx.scan)
        /\ tx' = ScanThrough(tx, height)
        /\ vars' = vars /\ disk' = disk /\ conn' = conn /\ savepoint' = savepoint
        /\ delta' = delta /\ torn' = torn /\ up' = up
    BY DEF WalletRewind, Idle
  <1>2. StoreOK(tx) /\ tx.scan \in Seq(Block)
    BY <1>1 DEF StoresInv, StoreOK
  <1>3. height \in Int /\ ScanIndex(height) <= Len(tx.scan)
    BY <1>1, <1>2, HeightFacts DEF ScanIndex
  <1>4. Beside(tx, tx')
    BY <1>1, <1>2, <1>3, ScanThroughOK
  <1> QED BY <1>1, <1>4, BesideStep

LEMMA RewindStepStep ==
    ASSUME NoneIsNoRecord, StoreInv, RewindStep
    PROVE  StoreInv'
  <1> USE DEF StoreInv
  <1>1. /\ rewind # None /\ Journaled_tip(tx) /\ RollbackTip(previous_hash)
        /\ tx' = rollback_tip(tx)
        /\ disk' = disk /\ conn' = conn /\ savepoint' = savepoint /\ delta' = delta
        /\ torn' = torn /\ rewind' = rewind /\ up' = up
    BY DEF RewindStep, wallet_rollback_tip
  <1>2. /\ tx # None /\ up /\ block = None /\ delta = None /\ ~torn /\ savepoint = None
        /\ conn # None /\ adapter = "wallet"
    BY <1>1 DEF CallsInv
  <1>3. StoreOK(tx) /\ Kin(tx) /\ HeightOf(tx.tip) = tip_height
    BY <1>2 DEF StoresInv, HeightsInv, Current_store
  <1>4. MemOK' /\ block' = None
    BY <1>1, MemRollback
  <1>5. HeightOf(tx'.tip) = tip_height'
    BY <1>1, <1>3, TipsFall
  <1>6. /\ StoreOK(tx') /\ tx'.identity = tx.identity
        /\ tx'.finalized_height = tx.finalized_height
    BY <1>1, <1>3, RollbackTipOK
  <1>7. tx' # None
    BY <1>6, IsNotNone
  <1>8. StoresInv'
    BY <1>1, <1>2, <1>3, <1>6 DEF StoresInv, Kin
  <1>9. CallsInv'
    BY <1>1, <1>2, <1>4, <1>7 DEF CallsInv
  <1>10. HeightsInv'
    BY <1>1, <1>2, <1>5, <1>7 DEF HeightsInv, Current_store
  <1> QED BY <1>4, <1>8, <1>9, <1>10

LEMMA RewindEndStep ==
    ASSUME NoneIsNoRecord, StoreInv, RewindEnd
    PROVE  StoreInv'
  <1> USE DEF StoreInv
  <1> DEFINE c == ClearStaleSnapshot(tx, rewind.original_tip)
  <1>1. /\ rewind # None /\ rewind' = None
        /\ tx' = forget_wallet_commits(c, rewind.height)
        /\ vars' = vars /\ disk' = disk /\ conn' = conn /\ savepoint' = savepoint
        /\ delta' = delta /\ torn' = torn /\ up' = up
    BY DEF RewindEnd
  <1>2. tx # None /\ ~torn
    BY <1>1 DEF CallsInv
  <1>3. StoreOK(tx)
    BY <1>2 DEF StoresInv
  <1>4. Beside(tx, c)
    <2>1. CASE c = tx
      BY <1>3, <2>1 DEF Beside
    <2>2. CASE c = [tx EXCEPT !.core_snapshot = None]
      BY <1>3, <2>2, SnapshotOK
    <2> QED BY <2>1, <2>2 DEF ClearStaleSnapshot
  <1> HIDE DEF c
  <1>5. Beside(c, tx')
    BY <1>1, <1>4, WalletCommitsOK DEF forget_wallet_commits, Beside
  <1>6. Beside(tx, tx')
    BY <1>4, <1>5 DEF Beside
  <1> QED BY <1>1, <1>2, <1>6, BesideStep

LEMMA RewindResetStep ==
    ASSUME NoneIsNoRecord, StoreInv, RewindReset
    PROVE  StoreInv'
  <1> USE DEF StoreInv
  <1> DEFINE r == reset_for_replay(tx)
  <1>1. /\ rewind # None /\ rewind' = None /\ FreshMemory
        /\ tx' = forget_wallet_commits(r, rewind.height)
        /\ disk' = disk /\ conn' = conn /\ savepoint' = savepoint
        /\ delta' = delta /\ torn' = torn /\ up' = up
    BY DEF RewindReset
  <1>2. /\ tx # None /\ up /\ block = None /\ delta = None /\ ~torn /\ savepoint = None
        /\ conn # None
    BY <1>1 DEF CallsInv
  <1>3. StoreOK(tx) /\ Kin(tx)
    BY <1>2 DEF StoresInv
  <1>4. /\ StoreOK(r) /\ r.identity = tx.identity /\ r.finalized_height = None /\ r.tip = None
    BY <1>3, ResetOK DEF reset_for_replay, StoreOK, StoreFields
  <1> HIDE DEF r
  <1>5. Beside(r, tx')
    BY <1>1, <1>4, WalletCommitsOK DEF forget_wallet_commits
  <1>6. tx' # None
    BY <1>5, IsNotNone DEF Beside
  <1>7. MemOK' /\ block' = None /\ tip_height' = None
    BY <1>1, MemFresh DEF FreshMemory
  <1>8. StoresInv'
    BY <1>1, <1>2, <1>3, <1>4, <1>5 DEF StoresInv, Kin, Beside
  <1>9. CallsInv'
    BY <1>1, <1>2, <1>6, <1>7 DEF CallsInv
  <1>10. HeightsInv'
    BY <1>1, <1>2, <1>4, <1>5, <1>6, <1>7 DEF HeightsInv, Current_store, Beside, HeightOf
  <1> QED BY <1>7, <1>8, <1>9, <1>10

LEMMA RecordWalletCommitStep ==
    ASSUME NoneIsNoRecord, StoreInv, RecordWalletCommit
    PROVE  StoreInv'
  <1> USE DEF StoreInv
  <1>1. /\ up /\ tx # None /\ block = None /\ delta = None /\ rewind = None /\ ~torn
        /\ vars' = vars /\ disk' = disk /\ conn' = conn /\ savepoint' = savepoint
        /\ delta' = delta /\ torn' = torn /\ rewind' = rewind /\ up' = up
    BY DEF RecordWalletCommit, Idle
  <1>2. PICK p \in CommitsIn(tx.scan[Len(tx.scan)]) :
           tx' = record_wallet_commit(tx, p[1], p[2])
    BY DEF RecordWalletCommit
  <1>3. StoreOK(tx)
    BY <1>1 DEF StoresInv
  <1>4. Beside(tx, tx')
    BY <1>2, <1>3, WalletCommitsOK DEF record_wallet_commit
  <1> QED BY <1>1, <1>4, BesideStep

LEMMA ReplayScannedStep ==
    ASSUME NoneIsNoRecord, StoreInv, ReplayScanned
    PROVE  StoreInv'
  <1>1. PICK i \in DOMAIN tx.scan : SBeginBlock(tx.scan[i])
    BY DEF ReplayScanned
  <1>2. tx.scan \in Seq(Block)
    BY <1>1 DEF SBeginBlock, Idle, StoreInv, StoresInv, StoreOK
  <1>3. tx.scan[i] \in Block
    BY <1>1, <1>2
  <1> QED BY <1>1, <1>3, BeginBlockStep

LEMMA SameStep == StoreInv /\ UNCHANGED hostVars => StoreInv'
  <1> SUFFICES ASSUME StoreInv, UNCHANGED hostVars PROVE StoreInv'
    OBVIOUS
  <1>1. vars' = vars /\ storeVars' = storeVars
    BY DEF hostVars
  <1>2. MemOK'
    BY <1>1, SameMemory DEF StoreInv
  <1>3. StoresInv' /\ CallsInv' /\ HeightsInv'
    BY <1>1 DEF StoreInv, StoresInv, CallsInv, HeightsInv, Current_store, Kin, vars, storeVars
  <1> QED BY <1>2, <1>3 DEF StoreInv

\* What the host does with the database: it creates it, commits to it,
\* finalizes it, or leaves it alone.
LEMMA StoreStep ==
    ASSUME NoneIsNoRecord, StoreInv, [SNext]_hostVars
    PROVE  /\ StoreInv'
           /\ \/ disk' = disk \/ disk = None \/ Commit
              \/ \E height \in Height : Finalize(height)
  <1> DEFINE Change == \/ disk' = disk \/ disk = None \/ Commit
                       \/ \E height \in Height : Finalize(height)
  <1> SUFFICES StoreInv' /\ Change
    OBVIOUS
  <1>1. ASSUME NEW id \in Identities, Open(id) PROVE StoreInv' /\ Change
    BY <1>1, OpenStep DEF Open
  <1>2. ASSUME NEW id \in Identities, BeginTransaction(id) PROVE StoreInv' /\ Change
    BY <1>2, BeginTransactionStep DEF BeginTransaction
  <1>3. CASE Resume
    BY <1>3, ResumeStep DEF Resume
  <1>4. CASE SApplyTransaction
    BY <1>4, ApplyTransactionStep DEF SApplyTransaction, storeVars
  <1>5. CASE SEndBlock
    BY <1>5, EndBlockStep DEF SEndBlock
  <1>6. CASE StoreDelta
    BY <1>6, StoreDeltaStep DEF StoreDelta
  <1>7. CASE ReleaseSavepoint
    BY <1>7, ReleaseSavepointStep DEF ReleaseSavepoint
  <1>8. CASE BlockFails
    BY <1>8, BlockFailsStep DEF BlockFails
  <1>9. CASE AbortBatch
    BY <1>9, BatchLostStep DEF AbortBatch
  <1>10. CASE RewindStep
    BY <1>10, RewindStepStep DEF RewindStep
  <1>11. CASE RewindEnd
    BY <1>11, RewindEndStep DEF RewindEnd
  <1>12. CASE RewindReset
    BY <1>12, RewindResetStep DEF RewindReset
  <1>13. CASE Commit
    BY <1>13, CommitStep
  <1>14. CASE ReplayScanned
    BY <1>14, ReplayScannedStep DEF ReplayScanned, SBeginBlock
  <1>15. ASSUME NEW b \in Block, SBeginBlock(b) PROVE StoreInv' /\ Change
    BY <1>15, BeginBlockStep DEF SBeginBlock
  <1>16. CASE DeltaFails
    BY <1>16, DeltaFailsStep DEF DeltaFails
  <1>17. CASE Crash
    BY <1>17, BatchLostStep DEF Crash
  <1>18. CASE PutSnapshot
    BY <1>18, PutSnapshotStep DEF PutSnapshot
  <1>19. CASE RecordWalletCommit
    BY <1>19, RecordWalletCommitStep DEF RecordWalletCommit
  <1>20. ASSUME NEW height \in Height, Finalize(height) PROVE StoreInv' /\ Change
    BY <1>20, StoreFinalizeStep
  <1>21. ASSUME NEW height \in Height, WalletRewind(height) PROVE StoreInv' /\ Change
    BY <1>21, WalletRewindStep DEF WalletRewind
  <1>22. ASSUME NEW hash \in Hashes, ReorganizeTip(hash) PROVE StoreInv' /\ Change
    BY <1>22, ReorganizeTipStep DEF ReorganizeTip
  <1>23. CASE UNCHANGED hostVars
    BY <1>23, SameStep DEF hostVars, storeVars
  <1> HIDE DEF Change
  <1>24. CASE HostStep
    <2>1. ASSUME torn, IF adapter = "sqlite" THEN BlockFails ELSE AbortBatch
          PROVE  BlockFails \/ AbortBatch
      BY <2>1
    <2>2. \/ \E id \in Identities : Open(id) \/ BeginTransaction(id)
          \/ Resume \/ SApplyTransaction \/ SEndBlock \/ StoreDelta \/ ReleaseSavepoint
          \/ BlockFails \/ AbortBatch
          \/ RewindStep \/ RewindEnd \/ RewindReset \/ Commit
      BY <1>24, <2>1 DEF HostStep
    <2> QED BY <2>2, <1>1, <1>2, <1>3, <1>4, <1>5, <1>6, <1>7, <1>8, <1>9, <1>10, <1>11,
               <1>12, <1>13
  <1>25. StoreInv' /\ Change
    <2>1. SNext \/ UNCHANGED hostVars
      OBVIOUS
    <2> QED BY <2>1, <1>14, <1>15, <1>16, <1>8, <1>9, <1>17, <1>18, <1>19, <1>20, <1>21,
               <1>22, <1>23, <1>24 DEF SNext
  <1> QED BY <1>25

\* In every database a reader may meet, after any failed statement, restart,
\* rewind, reset and finalization and with either adapter, the journals reach
\* from the tip down to the finalized height with no gap (apply_delta,
\* rollback_tip, finalize_through, reset_for_replay).
THEOREM JournalsAreComplete ==
    ASSUME NoneIsNoRecord
    PROVE  SSpec => []JournalsReachBack
  <1>1. StoreInv => JournalsReachBack
    <2> SUFFICES ASSUME StoreInv, NEW s \in Views
                 PROVE  /\ (s.finalized_height # None /\ s.finalized_height >= activation_height)
                              => s.tip # None /\ s.finalized_height <= s.tip.height
                        /\ s.tip # None => DOMAIN s.rollback_blocks = Retained(s)
      BY DEF JournalsReachBack, Retained
    <2>1. StoreOK(s)
      BY DEF Views, Settled, StoreInv, StoresInv
    <2> QED BY <2>1 DEF StoreOK, JournalOK
  <1>2. StoreInv /\ [SNext]_hostVars => StoreInv'
    BY StoreStep
  <1> QED BY <1>1, <1>2, StoreInit, PTL DEF SSpec

\* No transaction that leaves the tip in place takes a journal within the
\* retention the database was created with, whatever identity the caller
\* opened it with (initialize_or_validate_metadata, finalize_through).
THEOREM RetentionIsKept ==
    ASSUME NoneIsNoRecord
    PROVE  SSpec => RetentionKept
  <1>1. ASSUME StoreInv, [SNext]_hostVars, disk # None, disk.tip # None, disk'.tip = disk.tip,
               NEW h \in DOMAIN disk.rollback_blocks,
               h > disk.tip.height - disk.identity.minimum_rollback_blocks
        PROVE  h \in DOMAIN disk'.rollback_blocks
    <2>1. CASE disk' = disk
      BY <1>1, <2>1
    <2>2. StoreOK(disk)
      BY <1>1 DEF StoreInv, StoresInv
    <2>3. /\ h \in Retained(disk) /\ h \in Height
          /\ disk.tip.height \in Height
      BY <1>1, <2>2 DEF StoreOK, JournalOK, Retained, TipOK
    <2>4. CASE Commit
      <3>1. disk' = tx /\ StoreOK(tx) /\ Kin(tx)
        BY <1>1, <2>4 DEF Commit, Idle, StoreInv, StoresInv
      <3>2. tx.tip = disk.tip /\ DOMAIN tx.rollback_blocks = Retained(tx)
        BY <1>1, <3>1 DEF StoreOK, JournalOK
      <3>3. h \in Retained(tx)
        BY <2>3, <3>1, <3>2 DEF Retained, Kin
      <3> QED BY <3>1, <3>2, <3>3
    <2>5. ASSUME NEW height \in Height, Finalize(height)
          PROVE  h \in DOMAIN disk'.rollback_blocks
      <3>1. /\ conn # None /\ height <= disk.tip.height
            /\ height <= disk.tip.height - conn.minimum_rollback_blocks
            /\ disk' = finalize_through(disk, height)
        BY <2>5 DEF Finalize, finalize_safe
      <3>2. /\ disk.identity.minimum_rollback_blocks = conn.minimum_rollback_blocks
            /\ conn.minimum_rollback_blocks \in Nat
        BY <1>1, <3>1, IdentitiesAssumption DEF StoreInv, StoresInv
      <3>3. h > height
        BY <1>1, <2>3, <3>1, <3>2, HeightFacts
      <3> QED BY <1>1, <2>2, <3>1, <3>3, FinalizeOK
    <2> QED BY <1>1, <2>1, <2>4, <2>5, StoreStep
  <1>2. StoreInv /\ [SNext]_hostVars =>
          [(disk # None /\ disk.tip # None /\ disk'.tip = disk.tip) =>
              \A h \in DOMAIN disk.rollback_blocks :
                  h > disk.tip.height - disk.identity.minimum_rollback_blocks
                    => h \in DOMAIN disk'.rollback_blocks]_hostVars
    BY <1>1
  <1>3. StoreInv /\ [SNext]_hostVars => StoreInv'
    BY StoreStep
  <1> QED BY <1>2, <1>3, StoreInit, PTL DEF SSpec, RetentionKept

-----------------------------------------------------------------------------
(***************************************************************************)
(* The branch the wallet has scanned.  While a rewind is in progress only  *)
(* what lies at or below its height is on that branch.                     *)
(***************************************************************************)
Scanned(s, height, hash) ==
    /\ ScanIndex(height) \in 1 .. Len(s.scan)
    /\ s.scan[ScanIndex(height)].hash = hash

RowOnBranch(s, h, limit) ==
    LET row == s.rollback_blocks[h]
        back == row.previous_tip
    IN  /\ h <= limit => Scanned(s, h, row.hash)
        /\ (back # None /\ back.height <= limit) => Scanned(s, back.height, back.hash)

OnBranch(s, limit) ==
    /\ (s.tip # None /\ s.tip.height <= limit) => Scanned(s, s.tip.height, s.tip.hash)
    /\ \A h \in DOMAIN s.rollback_blocks : RowOnBranch(s, h, limit)

\* The scan has one block for each height from activation.
ScanOrdered(s) == \A i \in 1 .. Len(s.scan) : s.scan[i].height = activation_height + i - 1

CommitOnBranch(s, c, limit) ==
    LET ref == s.wallet_commits[c]
    IN  /\ ref.height \in Height
        /\ ref.height <= limit =>
              /\ ScanIndex(ref.height) \in 1 .. Len(s.scan)
              /\ <<c, ref>> \in CommitsIn(s.scan[ScanIndex(ref.height)])

CommitsOnBranch(s, limit) ==
    /\ adapter = "sqlite" => DOMAIN s.wallet_commits = {}
    /\ \A c \in DOMAIN s.wallet_commits : CommitOnBranch(s, c, limit)

BranchOK(s, limit) == ScanOrdered(s) /\ OnBranch(s, limit) /\ CommitsOnBranch(s, limit)

SameBranch(s, t) ==
    /\ t.scan = s.scan /\ t.tip = s.tip /\ t.rollback_blocks = s.rollback_blocks
    /\ t.wallet_commits = s.wallet_commits

LEMMA SameBranchOK ==
    ASSUME NEW s, NEW t, NEW limit, BranchOK(s, limit), SameBranch(s, t)
    PROVE  BranchOK(t, limit)
  BY DEF BranchOK, ScanOrdered, OnBranch, RowOnBranch, Scanned, CommitsOnBranch,
         CommitOnBranch, SameBranch

\* No rows and no tip.
LEMMA EmptyBranchOK ==
    ASSUME NEW s, NEW limit, ScanOrdered(s), CommitsOnBranch(s, limit),
           s.tip = None, DOMAIN s.rollback_blocks = {}
    PROVE  BranchOK(s, limit)
  BY DEF BranchOK, OnBranch

LEMMA ResetBranchOK ==
    ASSUME NEW s, StoreOK(s), NEW limit, BranchOK(s, limit)
    PROVE  BranchOK(reset_for_replay(s), limit)
  <1> DEFINE t == reset_for_replay(s)
  <1>1. /\ t.scan = s.scan /\ t.wallet_commits = s.wallet_commits /\ t.tip = None
        /\ t.rollback_blocks = EmptyMap
    BY DEF reset_for_replay, StoreOK, StoreFields
  <1>2. DOMAIN t.rollback_blocks = {}
    BY <1>1 DEF EmptyMap
  <1> HIDE DEF t
  <1>3. ScanOrdered(t) /\ CommitsOnBranch(t, limit)
    BY <1>1 DEF BranchOK, ScanOrdered, CommitsOnBranch, CommitOnBranch
  <1> QED BY <1>1, <1>2, <1>3, EmptyBranchOK DEF t

LEMMA NewBranchOK ==
    ASSUME NEW id, NEW limit
    PROVE  BranchOK(NewStore(id), limit)
  <1> DEFINE t == NewStore(id)
  <1>1. /\ t.scan = << >> /\ t.wallet_commits = EmptyMap /\ t.tip = None
        /\ t.rollback_blocks = EmptyMap
    BY DEF NewStore
  <1>2. DOMAIN t.rollback_blocks = {} /\ DOMAIN t.wallet_commits = {} /\ Len(t.scan) = 0
    BY <1>1 DEF EmptyMap
  <1> HIDE DEF t
  <1>3. ScanOrdered(t) /\ CommitsOnBranch(t, limit)
    BY <1>2 DEF ScanOrdered, CommitsOnBranch
  <1> QED BY <1>1, <1>2, <1>3, EmptyBranchOK DEF t

\* A block is scanned on top.
LEMMA AppendBranchOK ==
    ASSUME NEW s, StoreOK(s), NEW limit, BranchOK(s, limit), NEW b \in Block,
           b.height = activation_height + Len(s.scan)
    PROVE  LET t == [s EXCEPT !.scan = Append(@, b)]
           IN  BranchOK(t, limit) /\ Scanned(t, b.height, b.hash)
  <1> DEFINE t == [s EXCEPT !.scan = Append(@, b)]
             L == Len(s.scan)
  <1>1. /\ t.scan = Append(s.scan, b) /\ t.tip = s.tip
        /\ t.rollback_blocks = s.rollback_blocks /\ t.wallet_commits = s.wallet_commits
    BY DEF StoreOK, StoreFields
  <1>2. s.scan \in Seq(Block) /\ L \in Nat
    BY DEF StoreOK
  <1> HIDE DEF t
  <1>3. /\ Len(t.scan) = L + 1 /\ t.scan[L + 1] = b
        /\ \A i \in 1 .. L : t.scan[i] = s.scan[i]
    BY <1>1, <1>2
  <1>4. \A i \in 1 .. L : i \in 1 .. Len(t.scan)
    BY <1>2, <1>3
  <1>5. ScanOrdered(t)
    <2> SUFFICES ASSUME NEW i \in 1 .. Len(t.scan)
                 PROVE  t.scan[i].height = activation_height + i - 1
      BY DEF ScanOrdered
    <2>1. CASE i = L + 1
      BY <1>2, <1>3, <2>1, HeightFacts
    <2>2. CASE i # L + 1
      <3>1. i \in 1 .. L
        BY <1>2, <1>3, <2>2
      <3> QED BY <1>3, <3>1 DEF BranchOK, ScanOrdered
    <2> QED BY <2>1, <2>2
  <1>6. ASSUME NEW height, NEW hash, Scanned(s, height, hash) PROVE Scanned(t, height, hash)
    BY <1>3, <1>4, <1>6 DEF Scanned
  <1>7. OnBranch(t, limit)
    BY <1>1, <1>6 DEF BranchOK, OnBranch, RowOnBranch
  <1>8. CommitsOnBranch(t, limit)
    BY <1>1, <1>3, <1>4 DEF BranchOK, CommitsOnBranch, CommitOnBranch
  <1>9. Scanned(t, b.height, b.hash)
    <2>1. ScanIndex(b.height) = L + 1 /\ L + 1 \in 1 .. Len(t.scan)
      BY <1>2, <1>3, HeightFacts DEF ScanIndex
    <2> QED BY <1>3, <2>1 DEF Scanned
  <1> QED BY <1>5, <1>7, <1>8, <1>9 DEF BranchOK, t

LEMMA ApplyDeltaBranchOK ==
    ASSUME NoneIsNoRecord, NEW s, StoreOK(s), NEW d, DeltaOK(d), DeltaAccepted(s, d),
           BranchOK(s, U32Max), Scanned(s, d.to_tip.height, d.to_tip.hash)
    PROVE  BranchOK(apply_delta(s, d), U32Max)
  <1> DEFINE t == apply_delta(s, d)
             to == d.to_tip.height
             row == [hash |-> d.to_tip.hash, previous_tip |-> d.from_tip,
                     heads |-> Previous(Part(d.heads, DOMAIN d.heads)),
                     commits |-> Previous(Part(d.commits, DOMAIN d.commits))]
             add == [h \in {to} |-> row]
             rb == s.rollback_blocks
  <1>1. /\ t.scan = s.scan /\ t.tip = d.to_tip /\ t.wallet_commits = s.wallet_commits
        /\ t.rollback_blocks = Updated(rb, add)
    BY DEF apply_delta, Written, write_tip, write_head, write_commit, StoreOK, StoreFields
  <1>2. row.previous_tip = d.from_tip /\ row.hash = d.to_tip.hash
    OBVIOUS
  <1>3. DOMAIN add = {to} /\ add[to] = row
    OBVIOUS
  <1>4. Proper(rb) /\ s.tip = d.from_tip /\ TipOK(s.tip)
    BY DEF StoreOK, JournalOK, DeltaAccepted
  <1> HIDE DEF add, row, t
  <1>5. \A h \in DOMAIN t.rollback_blocks :
          \/ h = to /\ t.rollback_blocks[h] = row
          \/ h \in DOMAIN rb /\ t.rollback_blocks[h] = rb[h]
    <2> HIDE DEF rb
    <2>1. /\ \A k : k \in DOMAIN Updated(rb, add) <=>
                      \/ k \in DOMAIN add /\ add[k] # None
                      \/ k \in DOMAIN rb /\ k \notin DOMAIN add
          /\ \A k \in DOMAIN Updated(rb, add) :
               Updated(rb, add)[k] = IF k \in DOMAIN add THEN add[k] ELSE rb[k]
      BY <1>4, UpdatedFacts
    <2> QED BY <1>1, <1>3, <2>1
  <1>6. ASSUME NEW height, NEW hash, Scanned(s, height, hash) PROVE Scanned(t, height, hash)
    BY <1>1, <1>6 DEF Scanned
  <1>7. (d.from_tip # None /\ d.from_tip.height <= U32Max)
           => Scanned(s, d.from_tip.height, d.from_tip.hash)
    BY <1>4 DEF BranchOK, OnBranch
  <1>8. ASSUME NEW h \in DOMAIN t.rollback_blocks PROVE RowOnBranch(t, h, U32Max)
    <2>1. CASE h = to /\ t.rollback_blocks[h] = row
      BY <1>2, <1>6, <1>7, <2>1 DEF RowOnBranch
    <2>2. CASE h \in DOMAIN rb /\ t.rollback_blocks[h] = rb[h]
      BY <1>6, <2>2 DEF BranchOK, OnBranch, RowOnBranch
    <2> QED BY <1>5, <2>1, <2>2
  <1>9. OnBranch(t, U32Max)
    BY <1>1, <1>6, <1>8 DEF OnBranch
  <1>10. ScanOrdered(t) /\ CommitsOnBranch(t, U32Max)
    BY <1>1 DEF BranchOK, ScanOrdered, CommitsOnBranch, CommitOnBranch
  <1> QED BY <1>9, <1>10 DEF BranchOK, t

LEMMA RollbackBranchOK ==
    ASSUME NEW s, StoreOK(s), Journaled_tip(s), NEW limit, BranchOK(s, limit)
    PROVE  BranchOK(rollback_tip(s), limit)
  <1> DEFINE t == rollback_tip(s)
             rb == s.rollback_blocks
             at == s.tip.height
             back == rb[at].previous_tip
             nb == Updated(rb, [h \in {at} |-> None])
  <1>1. /\ t.scan = s.scan /\ t.tip = back /\ t.wallet_commits = s.wallet_commits
        /\ t.rollback_blocks = nb
    BY DEF rollback_tip, DeleteJournal, write_tip, write_head, write_commit, StoreOK, StoreFields
  <1>2. at \in DOMAIN rb /\ Proper(rb)
    BY DEF Journaled_tip, StoreOK, JournalOK
  <1>3. DOMAIN nb \subseteq DOMAIN rb /\ \A h \in DOMAIN nb : nb[h] = rb[h]
    <2> HIDE DEF rb, at
    <2>1. /\ DOMAIN nb = DOMAIN rb \ {at} /\ Proper(nb)
          /\ \A h \in DOMAIN nb : nb[h] = rb[h]
      BY <1>2, DeletedRows
    <2> HIDE DEF nb
    <2> QED BY <2>1
  <1> HIDE DEF t, nb
  <1>4. OnBranch(t, limit)
    BY <1>1, <1>2, <1>3 DEF BranchOK, OnBranch, RowOnBranch, Scanned
  <1>5. ScanOrdered(t) /\ CommitsOnBranch(t, limit)
    BY <1>1 DEF BranchOK, ScanOrdered, CommitsOnBranch, CommitOnBranch
  <1> QED BY <1>4, <1>5 DEF BranchOK, t

LEMMA FinalizeBranchOK ==
    ASSUME NEW s, StoreOK(s), NEW height, NEW limit, BranchOK(s, limit)
    PROVE  BranchOK(finalize_through(s, height), limit)
  <1> DEFINE t == finalize_through(s, height)
             rb == s.rollback_blocks
             low == {h \in DOMAIN rb : h <= height}
             nb == Updated(rb, [h \in low |-> None])
  <1>1. /\ t.scan = s.scan /\ t.tip = s.tip /\ t.wallet_commits = s.wallet_commits
        /\ t.rollback_blocks = nb
    BY DEF finalize_through, DeleteJournal, StoreOK, StoreFields
  <1>2. Proper(rb)
    BY DEF StoreOK, JournalOK
  <1>3. DOMAIN nb \subseteq DOMAIN rb /\ \A h \in DOMAIN nb : nb[h] = rb[h]
    <2> HIDE DEF rb, low
    <2>1. /\ DOMAIN nb = DOMAIN rb \ low /\ Proper(nb)
          /\ \A h \in DOMAIN nb : nb[h] = rb[h]
      BY <1>2, DeletedRows
    <2> HIDE DEF nb
    <2> QED BY <2>1
  <1> HIDE DEF t, nb
  <1>4. OnBranch(t, limit)
    BY <1>1, <1>3 DEF BranchOK, OnBranch, RowOnBranch, Scanned
  <1>5. ScanOrdered(t) /\ CommitsOnBranch(t, limit)
    BY <1>1 DEF BranchOK, ScanOrdered, CommitsOnBranch, CommitOnBranch
  <1> QED BY <1>4, <1>5 DEF BranchOK, t

\* The scan cut back to a height.
LEMMA CutBranchOK ==
    ASSUME NEW s, StoreOK(s), BranchOK(s, U32Max), NEW height \in Int, height <= U32Max,
           ScanIndex(height) <= Len(s.scan)
    PROVE  BranchOK(ScanThrough(s, height), height)
  <1> DEFINE t == ScanThrough(s, height)
             n == ScanIndex(height)
  <1>1. /\ t.scan = SubSeq(s.scan, 1, n) /\ t.tip = s.tip
        /\ t.rollback_blocks = s.rollback_blocks /\ t.wallet_commits = s.wallet_commits
    BY DEF ScanThrough, StoreOK, StoreFields
  <1>2. s.scan \in Seq(Block) /\ n \in Int /\ n <= Len(s.scan)
        /\ n = height - activation_height + 1
    BY HeightFacts DEF StoreOK, ScanIndex
  <1> HIDE DEF t, n
  <1>3. /\ Len(t.scan) = IF n >= 0 THEN n ELSE 0
        /\ \A i \in 1 .. n : t.scan[i] = s.scan[i] /\ i \in 1 .. Len(t.scan)
    <2>1. CASE n >= 0
      BY <1>1, <1>2, <2>1
    <2>2. CASE n < 0
      <3>1. SubSeq(s.scan, 1, n) = << >>
        BY <1>2, <2>2
      <3>2. t.scan = << >>
        BY <1>1, <3>1
      <3>3. Len(<< >>) = 0
        OBVIOUS
      <3> QED BY <1>2, <2>2, <3>2, <3>3
    <2> QED BY <1>2, <2>1, <2>2
  <1>4. \A i \in 1 .. Len(t.scan) : i \in 1 .. n /\ i \in 1 .. Len(s.scan)
    BY <1>2, <1>3
  <1>5. ScanOrdered(t)
    BY <1>3, <1>4 DEF BranchOK, ScanOrdered
  <1>6. ASSUME NEW k \in Int, k <= height, ScanIndex(k) \in 1 .. Len(s.scan)
        PROVE  ScanIndex(k) \in 1 .. n
    BY <1>2, <1>6, HeightFacts DEF ScanIndex
  <1>7. ASSUME NEW k \in Int, k <= height, NEW hash, k <= U32Max => Scanned(s, k, hash)
        PROVE  Scanned(t, k, hash)
    <2>1. Scanned(s, k, hash)
      BY <1>7, HeightFacts
    <2>2. ScanIndex(k) \in 1 .. n
      BY <1>6, <1>7, <2>1 DEF Scanned
    <2> QED BY <1>3, <2>1, <2>2 DEF Scanned
  <1>8. /\ TipOK(s.tip) /\ \A h \in DOMAIN s.rollback_blocks :
             h \in Int /\ TipOK(s.rollback_blocks[h].previous_tip)
    <2>1. \A h \in DOMAIN s.rollback_blocks : h \in Height
      BY DEF StoreOK, JournalOK, Retained
    <2>2. Height \subseteq Int
      BY HeightFacts
    <2> QED BY <2>1, <2>2 DEF StoreOK, JournalOK, Before
  <1>9. \A tip : (TipOK(tip) /\ tip # None) => tip.height \in Int
    BY HeightFacts DEF TipOK
  <1>10. (t.tip # None /\ t.tip.height <= height) => Scanned(t, t.tip.height, t.tip.hash)
    BY <1>1, <1>7, <1>8, <1>9 DEF BranchOK, OnBranch
  <1>11. ASSUME NEW h \in DOMAIN t.rollback_blocks PROVE RowOnBranch(t, h, height)
    <2> DEFINE row == s.rollback_blocks[h]
               back == row.previous_tip
    <2>1. /\ t.rollback_blocks[h] = row /\ h \in Int
          /\ h <= U32Max => Scanned(s, h, row.hash)
          /\ (back # None /\ back.height <= U32Max) => Scanned(s, back.height, back.hash)
          /\ back # None => back.height \in Int
      BY <1>1, <1>8, <1>9, <1>11 DEF BranchOK, OnBranch, RowOnBranch
    <2> HIDE DEF row
    <2>2. h <= height => Scanned(t, h, row.hash)
      BY <1>7, <2>1
    <2>3. (back # None /\ back.height <= height) => Scanned(t, back.height, back.hash)
      BY <1>7, <2>1
    <2> QED BY <2>1, <2>2, <2>3 DEF RowOnBranch
  <1>12. OnBranch(t, height)
    BY <1>10, <1>11 DEF OnBranch
  <1>13. CommitsOnBranch(t, height)
    <2> SUFFICES ASSUME NEW c \in DOMAIN s.wallet_commits PROVE CommitOnBranch(t, c, height)
      BY <1>1 DEF BranchOK, CommitsOnBranch
    <2> DEFINE ref == s.wallet_commits[c]
    <2>1. /\ ref.height \in Height
          /\ ref.height <= U32Max =>
                /\ ScanIndex(ref.height) \in 1 .. Len(s.scan)
                /\ <<c, ref>> \in CommitsIn(s.scan[ScanIndex(ref.height)])
      BY DEF BranchOK, CommitsOnBranch, CommitOnBranch
    <2>2. t.wallet_commits[c] = ref
      BY <1>1
    <2> HIDE DEF ref
    <2>3. ref.height \in Int /\ ref.height <= U32Max
      BY <2>1, HeightFacts
    <2>4. ref.height <= height => ScanIndex(ref.height) \in 1 .. n
      BY <1>6, <2>1, <2>3
    <2>5. ref.height <= height =>
             /\ ScanIndex(ref.height) \in 1 .. Len(t.scan)
             /\ <<c, ref>> \in CommitsIn(t.scan[ScanIndex(ref.height)])
      BY <1>3, <2>1, <2>3, <2>4
    <2> QED BY <2>1, <2>2, <2>5 DEF CommitOnBranch
  <1> QED BY <1>5, <1>12, <1>13 DEF BranchOK, t

\* Nothing is above the limit.
LEMMA LiftBranchOK ==
    ASSUME NEW s, StoreOK(s), NEW limit \in Int, BranchOK(s, limit),
           s.tip # None => s.tip.height <= limit,
           \A c \in DOMAIN s.wallet_commits : s.wallet_commits[c].height <= limit
    PROVE  BranchOK(s, U32Max)
  <1>1. ASSUME NEW h \in DOMAIN s.rollback_blocks PROVE RowOnBranch(s, h, U32Max)
    <2> DEFINE back == s.rollback_blocks[h].previous_tip
    <2>1. /\ s.tip # None /\ h \in Height /\ h <= s.tip.height /\ s.tip.height \in Height
          /\ Before(back, h) /\ RowOnBranch(s, h, limit)
      BY <1>1 DEF StoreOK, JournalOK, Retained, TipOK, BranchOK, OnBranch
    <2>2. h <= limit
      BY <2>1, HeightFacts
    <2>3. back # None => back.height <= limit
      BY <2>1, <2>2, HeightFacts DEF Before, TipOK
    <2> QED BY <2>1, <2>2, <2>3 DEF RowOnBranch
  <1>2. OnBranch(s, U32Max)
    BY <1>1 DEF OnBranch, BranchOK
  <1>3. CommitsOnBranch(s, U32Max)
    BY DEF BranchOK, CommitsOnBranch, CommitOnBranch
  <1> QED BY <1>2, <1>3 DEF BranchOK

LEMMA ForgetBranchOK ==
    ASSUME NEW s, StoreOK(s), NEW limit \in Int, BranchOK(s, limit),
           s.tip # None => s.tip.height <= limit
    PROVE  BranchOK(forget_wallet_commits(s, limit), U32Max)
  <1> DEFINE t == forget_wallet_commits(s, limit)
             wc == s.wallet_commits
             gone == {c \in DOMAIN wc : wc[c].height > limit}
             none == [c \in gone |-> None]
  <1>1. /\ t.scan = s.scan /\ t.tip = s.tip /\ t.rollback_blocks = s.rollback_blocks
        /\ t.wallet_commits = Updated(wc, none)
    BY DEF forget_wallet_commits, StoreOK, StoreFields
  <1>2. \A c \in DOMAIN Updated(wc, none) :
           c \in DOMAIN wc /\ c \notin gone /\ Updated(wc, none)[c] = wc[c]
    <2> HIDE DEF wc, gone
    <2>1. DOMAIN none = gone /\ \A c \in gone : none[c] = None
      OBVIOUS
    <2> HIDE DEF none
    <2> QED BY <2>1 DEF Updated
  <1>3. StoreOK(t)
    BY WalletCommitsOK DEF forget_wallet_commits, Beside
  <1> HIDE DEF t
  <1>4. \A c \in DOMAIN t.wallet_commits : /\ c \in DOMAIN wc /\ t.wallet_commits[c] = wc[c]
                                           /\ ~(wc[c].height > limit)
    BY <1>1, <1>2
  <1>5. BranchOK(t, limit)
    BY <1>1, <1>4 DEF BranchOK, ScanOrdered, OnBranch, RowOnBranch, Scanned,
                      CommitsOnBranch, CommitOnBranch
  <1>6. \A c \in DOMAIN t.wallet_commits : t.wallet_commits[c].height <= limit
    <2>1. \A c \in DOMAIN t.wallet_commits : t.wallet_commits[c].height \in Height
      BY <1>5 DEF BranchOK, CommitsOnBranch, CommitOnBranch
    <2> QED BY <1>4, <2>1, HeightFacts
  <1> QED BY <1>1, <1>3, <1>5, <1>6, LiftBranchOK DEF t

-----------------------------------------------------------------------------
Limit == IF rewind = None THEN U32Max ELSE rewind.height

BranchInv ==
    /\ disk # None => BranchOK(disk, U32Max)
    /\ savepoint # None => BranchOK(savepoint, U32Max)
    /\ (tx # None /\ ~torn) => BranchOK(tx, Limit)
    /\ block # None => Scanned(tx, block.height, block.hash)
    /\ (delta # None /\ ~torn) => Scanned(tx, delta.to_tip.height, delta.to_tip.hash)
    /\ rewind # None => rewind.height \in Height

\* The next block is one on top of the scan, or the scanned one after the tip.
LEMMA NextIsScanned ==
    ASSUME StoreInv, BranchInv, NEW b \in Block, SBeginBlock(b)
    PROVE  BranchOK(tx', U32Max) /\ Scanned(tx', b.height, b.hash)
  <1>1. /\ up /\ tx # None /\ block = None /\ delta = None /\ rewind = None /\ ~torn
        /\ BeginBlock(b, {})
    BY DEF SBeginBlock, Idle
  <1>2. /\ StoreOK(tx) /\ HeightOf(tx.tip) = tip_height /\ BranchOK(tx, U32Max)
        /\ TipOK(tx.tip) /\ tx.scan \in Seq(Block)
    BY <1>1 DEF StoreInv, StoresInv, HeightsInv, Current_store, BranchInv, Limit, StoreOK, JournalOK
  <1>3. /\ b.height \in Height /\ b.height = next_height /\ tip_height \in Option(Height)
        /\ TipValid(next_height, tip_height)
    BY <1>1 DEF BeginBlock, Block, StoreInv, MemOK, TypeInv, TypeOK
  <1>4. IF tx.tip = None THEN b.height = activation_height
        ELSE /\ tx.tip.height \in Height /\ b.height = tx.tip.height + 1
             /\ Scanned(tx, tx.tip.height, tx.tip.hash)
    <2>1. CASE tx.tip = None
      BY <1>2, <1>3, <2>1 DEF HeightOf, TipValid
    <2>2. CASE tx.tip # None
      <3>1. tx.tip.height \in Height /\ tx.tip.height = tip_height
        BY <1>2, <2>2 DEF TipOK, HeightOf
      <3>2. b.height = tx.tip.height + 1 /\ tx.tip.height <= U32Max
        BY <1>3, <3>1, HeightFacts DEF TipValid
      <3>3. Scanned(tx, tx.tip.height, tx.tip.hash)
        BY <1>2, <2>2, <3>2 DEF BranchOK, OnBranch
      <3> QED BY <2>2, <3>1, <3>2, <3>3
    <2> QED BY <2>1, <2>2
  <1> DEFINE L == Len(tx.scan)
  <1>5. L \in Nat
    BY <1>2
  <1>6. CASE CaughtUp(tx)
    <2>1. tx' = [tx EXCEPT !.scan = Append(@, b)]
      BY <1>6 DEF SBeginBlock
    <2>2. b.height = activation_height + L
      <3>1. CASE tx.scan = << >>
        BY <1>4, <1>6, <3>1, HeightFacts DEF CaughtUp
      <3>2. CASE tx.scan # << >>
        <4>1. tx.tip # None /\ ScanIndex(tx.tip.height) = L
          BY <1>6, <3>2 DEF CaughtUp
        <4> QED BY <1>4, <1>5, <4>1, HeightFacts DEF ScanIndex
      <3> QED BY <3>1, <3>2
    <2> QED BY <1>2, <2>1, <2>2, AppendBranchOK
  <1>7. CASE ~CaughtUp(tx)
    <2>1. tx' = tx /\ b = tx.scan[ScanIndex(next_height)]
      BY <1>7 DEF SBeginBlock
    <2>2. ScanIndex(b.height) \in 1 .. L
      <3>1. CASE tx.tip = None
        <4>1. tx.scan # << >>
          BY <1>7, <3>1 DEF CaughtUp
        <4>2. L > 0
          BY <1>2, <4>1
        <4> QED BY <1>4, <1>5, <3>1, <4>2, HeightFacts DEF ScanIndex
      <3>2. CASE tx.tip # None
        <4>1. /\ ScanIndex(tx.tip.height) \in 1 .. L
              /\ tx.scan[ScanIndex(tx.tip.height)].hash = tx.tip.hash
          BY <1>4, <3>2 DEF Scanned
        <4>2. tx.scan # << >>
          BY <1>5, <4>1
        <4>3. ScanIndex(tx.tip.height) # L
          BY <1>7, <3>2, <4>1, <4>2 DEF CaughtUp
        <4> QED BY <1>4, <1>5, <3>2, <4>1, <4>3, HeightFacts DEF ScanIndex
      <3> QED BY <3>1, <3>2
    <2> QED BY <1>2, <1>3, <2>1, <2>2 DEF Scanned
  <1> QED BY <1>6, <1>7

LEMMA BranchInit == SInit => BranchInv
  BY DEF SInit, Init, BranchInv

LEMMA SameBranchStep ==
    ASSUME BranchInv, disk' = disk, tx' = tx, savepoint' = savepoint \/ savepoint' = None,
           rewind' = rewind, block' = block, delta' = delta, torn' = torn
    PROVE  BranchInv'
  BY DEF BranchInv, Limit

LEMMA BranchBegin ==
    ASSUME StoreInv, BranchInv, NEW b \in Block, SBeginBlock(b)
    PROVE  BranchInv'
  <1>1. /\ up /\ tx # None /\ block = None /\ delta = None /\ rewind = None /\ ~torn
        /\ savepoint' \in {tx, None} /\ disk' = disk /\ delta' = delta /\ torn' = torn
        /\ rewind' = rewind /\ block' = b
    BY DEF SBeginBlock, Idle, BeginBlock
  <1>2. BranchOK(tx', U32Max) /\ Scanned(tx', b.height, b.hash)
    BY NextIsScanned
  <1>3. BranchOK(tx, U32Max)
    BY <1>1 DEF BranchInv, Limit
  <1> QED BY <1>1, <1>2, <1>3 DEF BranchInv, Limit

LEMMA BranchEnd ==
    ASSUME BranchInv, SEndBlock
    PROVE  BranchInv'
  <1>1. /\ disk' = disk /\ tx' = tx /\ savepoint' = savepoint /\ torn' = torn
        /\ rewind' = rewind /\ block # None /\ block' = None
        /\ delta' = delta_from_undo(reducer_tip, Tip(block.height, block.hash), undo)
    BY DEF SEndBlock, EndBlock
  <1>2. delta'.to_tip.height = block.height /\ delta'.to_tip.hash = block.hash
    BY <1>1 DEF delta_from_undo, Tip
  <1> QED BY <1>1, <1>2 DEF BranchInv, Limit

LEMMA BranchDelta ==
    ASSUME NoneIsNoRecord, StoreInv, BranchInv, StoreDelta
    PROVE  BranchInv'
  <1>1. /\ delta # None /\ ~torn /\ DeltaAccepted(tx, delta) /\ delta' = None
        /\ tx' = apply_delta(tx, delta)
        /\ vars' = vars /\ disk' = disk /\ savepoint' = savepoint
        /\ torn' = torn /\ rewind' = rewind
    BY DEF StoreDelta, wallet_apply_delta
  <1>2. /\ tx # None /\ block = None /\ rewind = None
    BY <1>1 DEF StoreInv, CallsInv
  <1>3. /\ StoreOK(tx) /\ DeltaOK(delta) /\ BranchOK(tx, U32Max)
        /\ Scanned(tx, delta.to_tip.height, delta.to_tip.hash)
    BY <1>1, <1>2 DEF StoreInv, StoresInv, HeightsInv, BranchInv, Limit
  <1>4. BranchOK(tx', U32Max)
    BY <1>1, <1>3, ApplyDeltaBranchOK
  <1> QED BY <1>1, <1>2, <1>4 DEF BranchInv, Limit, vars

LEMMA BranchResume ==
    ASSUME StoreInv, BranchInv, Resume
    PROVE  BranchInv'
  <1>1. /\ tx # None /\ ~up /\ disk' = disk /\ block' = None
        /\ savepoint' = savepoint /\ delta' = delta /\ torn' = torn /\ rewind' = rewind
    BY DEF Resume, LoadImage, FreshMemory
  <1>2. delta = None /\ savepoint = None /\ rewind = None /\ ~torn
    BY <1>1 DEF StoreInv, CallsInv
  <1>3. StoreOK(tx) /\ BranchOK(tx, U32Max)
    BY <1>1, <1>2 DEF StoreInv, StoresInv, BranchInv, Limit
  <1>4. BranchOK(tx', U32Max)
    <2>1. CASE tx' = tx
      BY <1>3, <2>1
    <2>2. CASE tx' = reset_for_replay(tx)
      BY <1>3, <2>2, ResetBranchOK
    <2>3. CASE tx' = [NewStore(tx.identity) EXCEPT !.scan = tx.scan]
      <3>1. /\ tx'.scan = tx.scan /\ tx'.tip = None /\ DOMAIN tx'.rollback_blocks = {}
            /\ DOMAIN tx'.wallet_commits = {}
        BY <2>3 DEF NewStore, EmptyMap
      <3>2. ScanOrdered(tx') /\ CommitsOnBranch(tx', U32Max)
        BY <1>3, <3>1 DEF BranchOK, ScanOrdered, CommitsOnBranch
      <3> QED BY <3>1, <3>2, EmptyBranchOK
    <2> QED BY <2>1, <2>2, <2>3 DEF Resume
  <1> QED BY <1>1, <1>2, <1>4 DEF BranchInv, Limit

LEMMA BranchFinalize ==
    ASSUME StoreInv, BranchInv, NEW height \in Height, Finalize(height)
    PROVE  BranchInv'
  <1>1. /\ conn # None /\ tx = None /\ disk' = finalize_through(disk, height)
        /\ tx' = tx /\ savepoint' = savepoint /\ delta' = delta
        /\ torn' = torn /\ rewind' = rewind /\ block' = block
    BY DEF Finalize, FinalizeThrough, callVars
  <1>2. /\ block = None /\ delta = None /\ savepoint = None /\ rewind = None
        /\ disk # None
    BY <1>1 DEF StoreInv, CallsInv, StoresInv
  <1>3. BranchOK(disk', U32Max)
    BY <1>1, <1>2, FinalizeBranchOK DEF StoreInv, StoresInv, BranchInv
  <1> QED BY <1>1, <1>2, <1>3 DEF BranchInv

LEMMA BranchReorganize ==
    ASSUME NoneIsNoRecord, StoreInv, BranchInv, NEW hash, ReorganizeTip(hash)
    PROVE  BranchInv'
  <1>1. /\ up /\ tx # None /\ block = None /\ savepoint = None /\ delta = None
        /\ rewind = None /\ ~torn /\ adapter = "sqlite"
        /\ Journaled_tip(tx) /\ CaughtUp(tx)
        /\ tx' = ScanThrough(rollback_tip(tx), tx.tip.height - 1)
        /\ disk' = disk /\ savepoint' = savepoint /\ delta' = delta
        /\ torn' = torn /\ rewind' = rewind /\ block' = block
    BY DEF ReorganizeTip, Idle, RollbackTip, callVars
  <1> DEFINE r == rollback_tip(tx)
             k == tx.tip.height - 1
  <1>2. StoreOK(tx) /\ BranchOK(tx, U32Max)
    BY <1>1 DEF StoreInv, StoresInv, BranchInv, Limit
  <1>3. StoreOK(r) /\ r.scan = tx.scan /\ BranchOK(r, U32Max)
    BY <1>1, <1>2, RollbackTipOK, RollbackBranchOK
  <1>4. tx.tip.height \in Height /\ ScanIndex(tx.tip.height) = Len(tx.scan)
    BY <1>1, <1>2 DEF Journaled_tip, CaughtUp, StoreOK, JournalOK, TipOK
  <1>5. k \in Int /\ k <= U32Max /\ ScanIndex(k) <= Len(r.scan)
    BY <1>3, <1>4, HeightFacts DEF ScanIndex
  <1>6. r.tip # None => r.tip.height <= k
    <2>1. r.tip = tx.rollback_blocks[tx.tip.height].previous_tip
      BY <1>2 DEF rollback_tip, DeleteJournal, write_tip, write_head, write_commit, StoreOK,
                  StoreFields
    <2>2. Before(r.tip, tx.tip.height)
      BY <1>1, <1>2, <2>1 DEF StoreOK, JournalOK, Journaled_tip
    <2> QED BY <1>4, <2>2, HeightFacts DEF Before, TipOK
  <1> HIDE DEF r, k
  <1>7. tx' = ScanThrough(r, k)
    BY <1>1 DEF r, k
  <1>8. BranchOK(tx', k) /\ Beside(r, tx')
    BY <1>3, <1>5, <1>7, CutBranchOK, ScanThroughOK
  <1>9. DOMAIN tx'.wallet_commits = {}
    BY <1>1, <1>8 DEF BranchOK, CommitsOnBranch
  <1>10. BranchOK(tx', U32Max)
    BY <1>5, <1>6, <1>8, <1>9, LiftBranchOK DEF Beside
  <1> QED BY <1>1, <1>10 DEF BranchInv, Limit

LEMMA BranchWalletRewind ==
    ASSUME NoneIsNoRecord, StoreInv, BranchInv, NEW height \in Height, WalletRewind(height)
    PROVE  BranchInv'
  <1>1. /\ up /\ tx # None /\ block = None /\ savepoint = None /\ delta = None
        /\ rewind = None /\ ~torn
        /\ height < activation_height - 1 + Len(tx.scan)
        /\ tx' = ScanThrough(tx, height)
        /\ rewind' = [height |-> height, original_tip |-> tx.tip]
        /\ vars' = vars /\ disk' = disk /\ savepoint' = savepoint
        /\ delta' = delta /\ torn' = torn
    BY DEF WalletRewind, Idle
  <1>2. rewind' # None /\ rewind'.height = height
    BY <1>1 DEF NoneIsNoRecord, RewindFields
  <1>3. StoreOK(tx) /\ BranchOK(tx, U32Max) /\ tx.scan \in Seq(Block)
    BY <1>1 DEF StoreInv, StoresInv, BranchInv, Limit, StoreOK
  <1>4. height \in Int /\ height <= U32Max /\ ScanIndex(height) <= Len(tx.scan)
    BY <1>1, <1>3, HeightFacts DEF ScanIndex
  <1>5. BranchOK(tx', height)
    BY <1>1, <1>3, <1>4, CutBranchOK
  <1> QED BY <1>1, <1>2, <1>5 DEF BranchInv, Limit, vars

LEMMA BranchRewindStep ==
    ASSUME StoreInv, BranchInv, RewindStep
    PROVE  BranchInv'
  <1>1. /\ rewind # None /\ Journaled_tip(tx)
        /\ tx' = rollback_tip(tx)
        /\ disk' = disk /\ savepoint' = savepoint /\ delta' = delta
        /\ torn' = torn /\ rewind' = rewind /\ block' = block
    BY DEF RewindStep, wallet_rollback_tip, RollbackTip, callVars
  <1>2. tx # None /\ block = None /\ delta = None /\ ~torn /\ savepoint = None
    BY <1>1 DEF StoreInv, CallsInv
  <1>3. StoreOK(tx) /\ BranchOK(tx, Limit)
    BY <1>2 DEF StoreInv, StoresInv, BranchInv
  <1>4. BranchOK(tx', Limit)
    BY <1>1, <1>3, RollbackBranchOK
  <1> QED BY <1>1, <1>2, <1>4 DEF BranchInv, Limit

LEMMA BranchRewindEnd ==
    ASSUME StoreInv, BranchInv, RewindEnd
    PROVE  BranchInv'
  <1> DEFINE c == ClearStaleSnapshot(tx, rewind.original_tip)
  <1>1. /\ rewind # None /\ rewind' = None /\ ~Above
        /\ tx' = forget_wallet_commits(c, rewind.height)
        /\ vars' = vars /\ disk' = disk /\ savepoint' = savepoint
        /\ delta' = delta /\ torn' = torn
    BY DEF RewindEnd
  <1>2. tx # None /\ block = None /\ delta = None /\ ~torn /\ savepoint = None
    BY <1>1 DEF StoreInv, CallsInv
  <1>3. StoreOK(tx) /\ BranchOK(tx, rewind.height) /\ rewind.height \in Height
    BY <1>1, <1>2 DEF StoreInv, StoresInv, BranchInv, Limit
  <1>4. StoreOK(c) /\ SameBranch(tx, c)
    <2>1. CASE c = tx
      BY <1>3, <2>1 DEF SameBranch
    <2>2. CASE c = [tx EXCEPT !.core_snapshot = None]
      <3>1. StoreOK(c)
        BY <1>3, <2>2, SnapshotOK DEF Beside
      <3> QED BY <1>3, <2>2, <3>1 DEF SameBranch, StoreOK, StoreFields
    <2> QED BY <2>1, <2>2 DEF ClearStaleSnapshot
  <1> HIDE DEF c
  <1>5. BranchOK(c, rewind.height) /\ c.tip = tx.tip
    BY <1>3, <1>4, SameBranchOK DEF SameBranch
  <1>6. c.tip # None => c.tip.height <= rewind.height
    BY <1>1, <1>3, <1>5, HeightFacts DEF Above, StoreOK, JournalOK, TipOK
  <1>7. rewind.height \in Int
    BY <1>3, HeightFacts
  <1>8. BranchOK(tx', U32Max)
    BY <1>1, <1>4, <1>5, <1>6, <1>7, ForgetBranchOK
  <1> QED BY <1>1, <1>2, <1>8 DEF BranchInv, Limit, vars

LEMMA BranchRewindReset ==
    ASSUME StoreInv, BranchInv, RewindReset
    PROVE  BranchInv'
  <1> DEFINE r == reset_for_replay(tx)
  <1>1. /\ rewind # None /\ rewind' = None /\ block' = None
        /\ tx' = forget_wallet_commits(r, rewind.height)
        /\ disk' = disk /\ savepoint' = savepoint /\ delta' = delta /\ torn' = torn
    BY DEF RewindReset, FreshMemory
  <1>2. tx # None /\ delta = None /\ ~torn /\ savepoint = None
    BY <1>1 DEF StoreInv, CallsInv
  <1>3. StoreOK(tx) /\ BranchOK(tx, rewind.height) /\ rewind.height \in Height
    BY <1>1, <1>2 DEF StoreInv, StoresInv, BranchInv, Limit
  <1>4. StoreOK(r) /\ r.tip = None /\ BranchOK(r, rewind.height)
    BY <1>3, ResetOK, ResetBranchOK DEF reset_for_replay, StoreOK, StoreFields
  <1> HIDE DEF r
  <1>5. rewind.height \in Int
    BY <1>3, HeightFacts
  <1>6. BranchOK(tx', U32Max)
    BY <1>1, <1>4, <1>5, ForgetBranchOK
  <1> QED BY <1>1, <1>2, <1>6 DEF BranchInv, Limit

\* A COMMIT recorded is one of the last scanned block.
LEMMA BranchRecord ==
    ASSUME StoreInv, BranchInv, RecordWalletCommit
    PROVE  BranchInv'
  <1>1. /\ up /\ tx # None /\ block = None /\ delta = None /\ rewind = None /\ ~torn
        /\ tx.scan # << >> /\ adapter = "wallet"
        /\ vars' = vars /\ disk' = disk /\ savepoint' = savepoint
        /\ delta' = delta /\ torn' = torn /\ rewind' = rewind
    BY DEF RecordWalletCommit, Idle
  <1> DEFINE L == Len(tx.scan)
             b == tx.scan[L]
             wc == tx.wallet_commits
  <1>2. PICK p \in CommitsIn(b) : tx' = record_wallet_commit(tx, p[1], p[2])
    BY DEF RecordWalletCommit
  <1>3. StoreOK(tx) /\ BranchOK(tx, U32Max) /\ tx.scan \in Seq(Block)
    BY <1>1 DEF StoreInv, StoresInv, BranchInv, Limit, StoreOK
  <1>4. L \in 1 .. L /\ b \in Block
    <2>1. L \in Nat /\ L > 0
      BY <1>1, <1>3
    <2> QED BY <1>3, <2>1
  <1>5. b.height = activation_height + L - 1 /\ b.height \in Height
    BY <1>3, <1>4 DEF BranchOK, ScanOrdered, Block
  <1>6. p = <<p[1], p[2]>> /\ p[2].height = b.height
    <2> HIDE DEF b
    <2> QED BY <1>2 DEF CommitsIn
  <1>7. ScanIndex(p[2].height) = L
    BY <1>3, <1>4, <1>5, <1>6, HeightFacts DEF ScanIndex
  <1> DEFINE add == [c \in {p[1]} |-> p[2]]
  <1>8. /\ tx'.scan = tx.scan /\ tx'.tip = tx.tip /\ tx'.rollback_blocks = tx.rollback_blocks
        /\ tx'.wallet_commits = Updated(wc, add)
    BY <1>2, <1>3 DEF record_wallet_commit, StoreOK, StoreFields
  <1>9. \A c \in DOMAIN tx'.wallet_commits :
           \/ c = p[1] /\ tx'.wallet_commits[c] = p[2]
           \/ c \in DOMAIN wc /\ tx'.wallet_commits[c] = wc[c]
    <2> HIDE DEF wc
    <2>1. DOMAIN add = {p[1]} /\ add[p[1]] = p[2]
      OBVIOUS
    <2> HIDE DEF add
    <2>2. tx'.wallet_commits = Updated(wc, add)
      BY <1>8 DEF add
    <2> QED BY <2>1, <2>2 DEF Updated
  <1>10. ASSUME NEW c \in DOMAIN tx'.wallet_commits PROVE CommitOnBranch(tx', c, U32Max)
    <2>1. CASE c = p[1] /\ tx'.wallet_commits[c] = p[2]
      BY <1>2, <1>4, <1>5, <1>6, <1>7, <1>8, <2>1 DEF CommitOnBranch
    <2>2. CASE c \in DOMAIN wc /\ tx'.wallet_commits[c] = wc[c]
      BY <1>3, <1>8, <2>2 DEF BranchOK, CommitsOnBranch, CommitOnBranch
    <2> QED BY <1>9, <2>1, <2>2
  <1>11. BranchOK(tx', U32Max)
    BY <1>1, <1>3, <1>8, <1>10
    DEF BranchOK, ScanOrdered, OnBranch, RowOnBranch, Scanned, CommitsOnBranch
  <1> QED BY <1>1, <1>11 DEF BranchInv, Limit, vars

LEMMA BranchBlockFails ==
    ASSUME StoreInv, BranchInv, BlockFails
    PROVE  BranchInv'
  <1>1. /\ savepoint # None /\ block' = None /\ tx' = savepoint /\ savepoint' = None
        /\ delta' = None /\ torn' = FALSE /\ disk' = disk /\ rewind' = rewind
    BY DEF BlockFails, SavepointRestored, RollbackTip, callVars
  <1>2. rewind = None
    BY <1>1, AdapterAssumption DEF StoreInv, CallsInv
  <1> QED BY <1>1, <1>2 DEF BranchInv, Limit

LEMMA BranchPutSnapshot ==
    ASSUME StoreInv, BranchInv, PutSnapshot
    PROVE  BranchInv'
  <1>1. /\ up /\ tx # None /\ block = None /\ delta = None /\ rewind = None /\ ~torn
        /\ tx' = [tx EXCEPT !.core_snapshot = Image] /\ vars' = vars /\ disk' = disk
        /\ savepoint' = savepoint /\ delta' = delta /\ torn' = torn /\ rewind' = rewind
    BY DEF PutSnapshot, Idle, put_core_snapshot
  <1>2. StoreOK(tx) /\ BranchOK(tx, U32Max)
    BY <1>1 DEF StoreInv, StoresInv, BranchInv, Limit
  <1>3. SameBranch(tx, tx')
    BY <1>1, <1>2 DEF SameBranch, StoreOK, StoreFields
  <1>4. BranchOK(tx', U32Max)
    BY <1>2, <1>3, SameBranchOK
  <1> QED BY <1>1, <1>4 DEF BranchInv, Limit, vars

LEMMA BranchStep ==
    ASSUME NoneIsNoRecord, StoreInv, BranchInv, [SNext]_hostVars
    PROVE  BranchInv'
  <1>1. ASSUME NEW id \in Identities, Open(id) PROVE BranchInv'
    <2>1. /\ conn = None /\ tx' = tx /\ savepoint' = savepoint /\ delta' = delta
          /\ torn' = torn /\ rewind' = rewind /\ vars' = vars
          /\ disk' = disk \/ disk' = NewStore(id)
      BY <1>1 DEF Open
    <2>2. tx = None /\ savepoint = None /\ delta = None /\ rewind = None /\ block = None
      BY <2>1 DEF StoreInv, CallsInv
    <2> QED BY <2>1, <2>2, NewBranchOK DEF BranchInv, vars
  <1>2. ASSUME NEW id \in Identities, BeginTransaction(id) PROVE BranchInv'
    <2>1. /\ tx = None /\ tx' = disk /\ disk' = disk /\ savepoint' = savepoint
          /\ delta' = delta /\ torn' = torn /\ rewind' = rewind /\ vars' = vars
      BY <1>2 DEF BeginTransaction
    <2>2. savepoint = None /\ delta = None /\ rewind = None /\ block = None
      BY <2>1 DEF StoreInv, CallsInv
    <2> QED BY <2>1, <2>2 DEF BranchInv, Limit, vars
  <1>3. CASE Resume
    BY <1>3, BranchResume
  <1>4. CASE SApplyTransaction
    BY <1>4, SameBranchStep DEF SApplyTransaction, ApplyTransaction, storeVars
  <1>5. CASE SEndBlock
    BY <1>5, BranchEnd
  <1>6. CASE StoreDelta
    BY <1>6, BranchDelta
  <1>7. CASE ReleaseSavepoint
    BY <1>7, SameBranchStep DEF ReleaseSavepoint, vars
  <1>8. CASE BlockFails
    BY <1>8, BranchBlockFails
  <1>9. ASSUME BatchLost, disk' = disk PROVE BranchInv'
    BY <1>9 DEF BatchLost, FreshMemory, BranchInv
  <1>10. CASE RewindStep
    BY <1>10, BranchRewindStep
  <1>11. CASE RewindEnd
    BY <1>11, BranchRewindEnd
  <1>12. CASE RewindReset
    BY <1>12, BranchRewindReset
  <1>13. CASE Commit
    <2>1. /\ tx # None /\ block = None /\ savepoint = None /\ delta = None /\ rewind = None
          /\ ~torn /\ disk' = tx /\ tx' = None /\ vars' = vars /\ savepoint' = savepoint
          /\ delta' = delta /\ rewind' = rewind
      BY <1>13 DEF Commit, Idle
    <2> QED BY <2>1 DEF BranchInv, Limit, vars
  <1>14. ASSUME NEW b \in Block, SBeginBlock(b) PROVE BranchInv'
    BY <1>14, BranchBegin
  <1>15. CASE ReplayScanned
    <2>1. PICK i \in DOMAIN tx.scan : SBeginBlock(tx.scan[i])
      BY <1>15 DEF ReplayScanned
    <2>2. tx.scan \in Seq(Block)
      BY <2>1 DEF SBeginBlock, Idle, StoreInv, StoresInv, StoreOK
    <2>3. tx.scan[i] \in Block
      BY <2>1, <2>2
    <2> QED BY <2>1, <2>3, <1>14
  <1>16. CASE DeltaFails
    <2>1. /\ delta # None /\ torn' /\ vars' = vars /\ disk' = disk
          /\ savepoint' = savepoint /\ delta' = delta /\ rewind' = rewind
      BY <1>16 DEF DeltaFails
    <2>2. block = None
      BY <2>1 DEF StoreInv, CallsInv
    <2> QED BY <2>1, <2>2 DEF BranchInv, vars
  <1>17. CASE PutSnapshot
    BY <1>17, BranchPutSnapshot
  <1>18. CASE RecordWalletCommit
    BY <1>18, BranchRecord
  <1>19. ASSUME NEW height \in Height, Finalize(height) PROVE BranchInv'
    BY <1>19, BranchFinalize
  <1>20. ASSUME NEW height \in Height, WalletRewind(height) PROVE BranchInv'
    BY <1>20, BranchWalletRewind
  <1>21. ASSUME NEW hash \in Hashes, ReorganizeTip(hash) PROVE BranchInv'
    BY <1>21, BranchReorganize
  <1>22. CASE UNCHANGED hostVars
    BY <1>22, SameBranchStep DEF hostVars, storeVars, vars
  <1>23. CASE AbortBatch \/ Crash
    BY <1>23, <1>9 DEF AbortBatch, Crash
  <1>24. CASE HostStep
    <2>1. ASSUME torn, IF adapter = "sqlite" THEN BlockFails ELSE AbortBatch
          PROVE  BlockFails \/ AbortBatch
      BY <2>1
    <2>2. \/ \E id \in Identities : Open(id) \/ BeginTransaction(id)
          \/ Resume \/ SApplyTransaction \/ SEndBlock \/ StoreDelta \/ ReleaseSavepoint
          \/ BlockFails \/ AbortBatch
          \/ RewindStep \/ RewindEnd \/ RewindReset \/ Commit
      BY <1>24, <2>1 DEF HostStep
    <2> QED BY <2>2, <1>1, <1>2, <1>3, <1>4, <1>5, <1>6, <1>7, <1>8, <1>23, <1>10, <1>11,
               <1>12, <1>13
  <1>25. SNext \/ UNCHANGED hostVars
    OBVIOUS
  <1> QED BY <1>8, <1>14, <1>15, <1>16, <1>17, <1>18, <1>19, <1>20, <1>21, <1>22, <1>23,
             <1>24, <1>25 DEF SNext

LEMMA BranchViews ==
    ASSUME BranchInv, NEW s \in Views
    PROVE  BranchOK(s, U32Max)
  BY DEF Views, Settled, BranchInv, Limit

LEMMA StoreAndBranch ==
    ASSUME NoneIsNoRecord
    PROVE  (StoreInv /\ BranchInv) /\ [SNext]_hostVars => (StoreInv /\ BranchInv)'
  BY StoreStep, BranchStep

\* No commit leaves rows of a branch the wallet does not have, whichever step
\* failed or the process stopped at, with either adapter: the stored tip and
\* every journaled block are blocks of the scan stored with them
\* (rollback_to_height_or_reset, with_block_savepoint, apply_delta).
THEOREM RowsAreOnBranch ==
    ASSUME NoneIsNoRecord
    PROVE  SSpec => []OnScannedBranch
  <1>1. StoreInv /\ BranchInv => OnScannedBranch
    <2> SUFFICES ASSUME StoreInv, BranchInv, NEW s \in Views
                 PROVE  LET scanned(height, hash) ==
                              /\ ScanIndex(height) \in DOMAIN s.scan
                              /\ s.scan[ScanIndex(height)].hash = hash
                        IN  /\ s.tip # None => scanned(s.tip.height, s.tip.hash)
                            /\ \A h \in DOMAIN s.rollback_blocks :
                                  scanned(h, s.rollback_blocks[h].hash)
      BY DEF OnScannedBranch
    <2>1. StoreOK(s) /\ BranchOK(s, U32Max)
      BY BranchViews DEF Views, Settled, StoreInv, StoresInv
    <2>2. DOMAIN s.scan = 1 .. Len(s.scan)
      BY <2>1 DEF StoreOK
    <2>3. s.tip # None => s.tip.height <= U32Max
      BY <2>1, HeightFacts DEF StoreOK, JournalOK, TipOK
    <2>4. \A h \in DOMAIN s.rollback_blocks : h <= U32Max
      BY <2>1, HeightFacts DEF StoreOK, JournalOK, Retained
    <2> QED BY <2>1, <2>2, <2>3, <2>4 DEF BranchOK, OnBranch, RowOnBranch, Scanned
  <1> QED BY <1>1, StoreInit, BranchInit, StoreAndBranch, PTL DEF SSpec

\* The location recorded for a COMMIT of the wallet is where the scanned chain
\* has it, after every rewind and reset (record_wallet_commit,
\* rollback_to_height_or_reset).
THEOREM LocationsAreCanonical ==
    ASSUME NoneIsNoRecord
    PROVE  SSpec => []WalletCommitsCanonical
  <1>1. StoreInv /\ BranchInv => WalletCommitsCanonical
    <2> SUFFICES ASSUME StoreInv, BranchInv, NEW s \in Views,
                        NEW c \in DOMAIN s.wallet_commits
                 PROVE  LET ref == s.wallet_commits[c]
                        IN  /\ ScanIndex(ref.height) \in DOMAIN s.scan
                            /\ <<c, ref>> \in CommitsIn(s.scan[ScanIndex(ref.height)])
      BY DEF WalletCommitsCanonical
    <2>1. StoreOK(s) /\ BranchOK(s, U32Max)
      BY BranchViews DEF Views, Settled, StoreInv, StoresInv
    <2>2. DOMAIN s.scan = 1 .. Len(s.scan)
      BY <2>1 DEF StoreOK
    <2>3. CommitOnBranch(s, c, U32Max)
      BY <2>1 DEF BranchOK, CommitsOnBranch
    <2> QED BY <2>2, <2>3, HeightFacts DEF CommitOnBranch
  <1> QED BY <1>1, StoreInit, BranchInit, StoreAndBranch, PTL DEF SSpec

-----------------------------------------------------------------------------
(***************************************************************************)
(* The rows and the reducer's records, with the wallet's adapter.  The     *)
(* rows of a journaled block are the undo record of that block, so a       *)
(* rewind takes rows and records to the same place; while a block is being *)
(* applied or its delta waits, the rows are what the undo record leads     *)
(* back to.                                                                *)
(***************************************************************************)
TipOf(u) == IF u.previous_tip_height = None THEN None
            ELSE Tip(u.previous_tip_height, u.previous_hash)

RowIs(row, u) == /\ row.previous_tip = TipOf(u)
                 /\ row.heads = u.heads /\ row.commits = u.commits

RowsMatch(rows, undos) ==
    \A u \in undos : u.previous_next_height \in DOMAIN rows
                        => RowIs(rows[u.previous_next_height], u)

\* The rows are the records, row by row of the journal.
Synced(s) == /\ s.tip = reducer_tip
             /\ s.heads = db.heads /\ s.pending_commits = db.commits
             /\ RowsMatch(s.rollback_blocks, Elems(history))

\* The rows are what the undo record u leads back to.
RowsBefore(s, u) == /\ s.tip = TipOf(u)
                    /\ s.heads = Updated(db.heads, u.heads)
                    /\ s.pending_commits = Updated(db.commits, u.commits)

LastUndo == history[Len(history)]
Earlier  == {history[i] : i \in 1 .. Len(history) - 1}

\* A stored image is of the branch and no higher than the tip; at the tip it
\* is of the rows.
ImageIsRows(s) ==
    LET i == s.core_snapshot
    IN  /\ i.tip = s.tip
        /\ i.heads = s.heads /\ i.commits = s.pending_commits
        /\ RowsMatch(s.rollback_blocks, Elems(i.history))

ImageAgrees(s, limit) ==
    s.core_snapshot # None =>
        LET t == s.core_snapshot.tip
        IN  /\ s.tip # None /\ t.height <= s.tip.height
            /\ t.height <= limit => Scanned(s, t.height, t.hash)
            /\ t.height = s.tip.height => ImageIsRows(s)

RecordsInv ==
    /\ (up /\ block = None /\ delta = None) => Synced(Current_store)
    /\ block # None => /\ undo.previous_hash = previous_hash
                       /\ RowsBefore(tx, undo)
                       /\ RowsMatch(tx.rollback_blocks, Elems(history))
    /\ (delta # None /\ ~torn) =>
          /\ history # << >> /\ RowsBefore(tx, LastUndo)
          /\ RowsMatch(tx.rollback_blocks, Earlier)
          /\ delta = delta_from_undo(TipOf(LastUndo), reducer_tip, LastUndo)

\* A rewind that has moved the tip has still to clear the image.
ImagesInv ==
    /\ disk # None => ImageAgrees(disk, U32Max)
    /\ (tx # None /\ ~torn) =>
          IF rewind = None THEN ImageAgrees(tx, U32Max)
          ELSE IF tx.tip = rewind.original_tip THEN ImageAgrees(tx, rewind.height)
          ELSE /\ rewind.original_tip # None
               /\ rewind.original_tip.height \in Height
               /\ tx.tip # None => tx.tip.height < rewind.original_tip.height

RowsInv == RecordsInv /\ ImagesInv

-----------------------------------------------------------------------------
\* A journal undone and the values it overwrote put back.
LEMMA UpdatedBack ==
    ASSUME NEW map, NEW journal, Proper(map)
    PROVE  Updated(Updated(map, journal), [k \in DOMAIN journal |-> Get(map, k)]) = map
  <1> DEFINE m == Updated(map, journal)
             again == [k \in DOMAIN journal |-> Get(map, k)]
             r == Updated(m, again)
  <1>1. /\ \A k : k \in DOMAIN m <=> \/ k \in DOMAIN journal /\ journal[k] # None
                                     \/ k \in DOMAIN map /\ k \notin DOMAIN journal
        /\ \A k \in DOMAIN m : m[k] = IF k \in DOMAIN journal THEN journal[k] ELSE map[k]
        /\ Proper(m)
    BY UpdatedFacts
  <1>2. DOMAIN again = DOMAIN journal /\ \A k \in DOMAIN journal : again[k] = Get(map, k)
    OBVIOUS
  <1> HIDE DEF m, again
  <1>3. /\ \A k : k \in DOMAIN r <=> \/ k \in DOMAIN again /\ again[k] # None
                                     \/ k \in DOMAIN m /\ k \notin DOMAIN again
        /\ \A k \in DOMAIN r : r[k] = IF k \in DOMAIN again THEN again[k] ELSE m[k]
        /\ Proper(r)
    BY <1>1, UpdatedFacts
  <1> HIDE DEF r
  <1>4. \A k : k \in DOMAIN r <=> k \in DOMAIN map
    BY <1>1, <1>2, <1>3 DEF Get, Proper
  <1>5. DOMAIN r = DOMAIN map
    BY <1>4
  <1>6. \A k \in DOMAIN map : r[k] = map[k]
    BY <1>1, <1>2, <1>3, <1>5 DEF Get
  <1>7. r = [k \in DOMAIN r |-> r[k]] /\ map = [k \in DOMAIN map |-> map[k]]
    BY <1>3 DEF Proper
  <1>8. r = map
    BY <1>5, <1>6, <1>7
  <1> QED BY <1>8 DEF r, m, again

LEMMA ProperRecords ==
    ASSUME TypeInv
    PROVE  Proper(db.heads) /\ Proper(db.commits)
  <1>1. MapOf(db.commits, CommitRef, Commitments) /\ MapOf(db.heads, NameIds, HeadRecord)
    BY DEF TypeInv, TypeOK
  <1> QED BY <1>1, ValuesAssumption DEF MapOf, Proper

\* Block application keeps what the undo record leads back to.
LEMMA BeginLeadsBack ==
    ASSUME TypeInv, NEW b, BeginBlock(b, {})
    PROVE  /\ undo'.previous_hash = previous_hash /\ undo'.previous_tip_height = tip_height
           /\ Updated(db'.heads, undo'.heads) = db.heads
           /\ Updated(db'.commits, undo'.commits) = db.commits
  <1> DEFINE w0 == [db |-> db, undo |-> new_undo(b)]
             w1 == mark_expired(w0, b.height)
             w2 == compact_claimable(w1, b.height)
             w3 == prune_commits(w2, b.height)
             w4 == insert_supplied(w3, supplied({}))
             v  == [next_height |-> next_height, tip_height |-> tip_height,
                    previous_hash |-> previous_hash,
                    commits |-> db.commits, heads |-> db.heads]
  <1>1. LeadsTo(w0, v)
    BY ProperRecords, UpdatedNothing DEF LeadsTo, new_undo, UndoFields
  <1> HIDE DEF w0
  <1>2. /\ v.previous_hash = previous_hash /\ v.commits = db.commits /\ v.heads = db.heads
        /\ v.tip_height = tip_height
    OBVIOUS
  <1> HIDE DEF v
  <1>3. LeadsTo(w1, v)
    BY <1>1, StepsLeadTo
  <1> HIDE DEF w1
  <1>4. LeadsTo(w2, v)
    BY <1>3, StepsLeadTo
  <1> HIDE DEF w2
  <1>5. LeadsTo(w3, v)
    BY <1>4, StepsLeadTo
  <1> HIDE DEF w3
  <1>6. LeadsTo(w4, v)
    BY <1>5, StepsLeadTo
  <1>7. undo' = w4.undo /\ db' = w4.db
    BY DEF BeginBlock, w0, w1, w2, w3, w4
  <1> HIDE DEF w4
  <1> QED BY <1>2, <1>6, <1>7 DEF LeadsTo

LEMMA ApplyLeadsBack ==
    ASSUME TypeInv, ApplyTransaction
    PROVE  /\ undo'.previous_hash = undo.previous_hash
           /\ undo'.previous_tip_height = undo.previous_tip_height
           /\ Updated(db'.heads, undo'.heads) = Updated(db.heads, undo.heads)
           /\ Updated(db'.commits, undo'.commits) = Updated(db.commits, undo.commits)
  <1> DEFINE t == block.transactions[pos + 1]
             w == [db |-> db, undo |-> undo]
             a == apply_transaction(w, block.height, t)
             v == [next_height |-> undo.previous_next_height,
                   tip_height |-> undo.previous_tip_height,
                   previous_hash |-> undo.previous_hash,
                   commits |-> Updated(db.commits, undo.commits),
                   heads |-> Updated(db.heads, undo.heads)]
  <1>1. block # None /\ pos < Len(block.transactions)
    BY DEF ApplyTransaction
  <1>2. t.operation \in Option(Operation)
    BY <1>1, TransactionInBlock DEF TypeInv, TypeOK, BlockOK, Transaction
  <1>3. undo' = a.undo /\ db' = a.db
    BY DEF ApplyTransaction
  <1> HIDE DEF t
  <1>4. LeadsTo(w, v)
    BY <1>1 DEF LeadsTo, TypeInv
  <1> HIDE DEF w
  <1>5. /\ v.previous_hash = undo.previous_hash
        /\ v.tip_height = undo.previous_tip_height
        /\ v.commits = Updated(db.commits, undo.commits)
        /\ v.heads = Updated(db.heads, undo.heads)
    OBVIOUS
  <1> HIDE DEF v
  <1>6. LeadsTo(a, v)
    BY <1>2, <1>4, TransactionLeadsTo
  <1> HIDE DEF a
  <1> QED BY <1>3, <1>5, <1>6 DEF LeadsTo

\* Fewer rows, and fewer undo records, match as before.
LEMMA FewerMatch ==
    ASSUME NEW rows, NEW undos, RowsMatch(rows, undos), NEW less, NEW some,
           DOMAIN less \subseteq DOMAIN rows, \A h \in DOMAIN less : less[h] = rows[h],
           some \subseteq undos
    PROVE  RowsMatch(less, some)
  BY DEF RowsMatch

LEMMA LastAndEarlier ==
    ASSUME MemOK, history # << >>
    PROVE  /\ tip_height \in Height /\ LastUndo.previous_next_height = tip_height
           /\ Elems(history) = Earlier \cup {LastUndo} /\ UndoTips(LastUndo)
           /\ \A u \in Earlier : u.previous_next_height # tip_height
  <1> DEFINE L == Len(history)
  <1>1. /\ L \in Nat /\ L > 0 /\ tip_height \in Int /\ tip_height \in Height
        /\ \A i \in 1 .. L : history[i].previous_next_height = tip_height - (L - i)
    BY LastElem, HeightFacts DEF MemOK, TypeInv, Stacked
  <1>2. history[L].previous_next_height = tip_height
    <2>1. L \in 1 .. L /\ tip_height - (L - L) = tip_height
      BY <1>1
    <2> QED BY <1>1, <2>1
  <1>3. ASSUME NEW i \in 1 .. L - 1 PROVE history[i].previous_next_height # tip_height
    <2>1. i \in 1 .. L /\ tip_height - (L - i) # tip_height
      BY <1>1
    <2> QED BY <1>1, <2>1
  <1>4. 1 .. L = (1 .. L - 1) \cup {L}
    BY <1>1
  <1>5. Elems(history) = Earlier \cup {LastUndo}
    BY <1>4 DEF Elems, Earlier, LastUndo
  <1>6. UndoTips(LastUndo)
    BY <1>5 DEF MemOK
  <1> QED BY <1>1, <1>2, <1>3, <1>5, <1>6 DEF LastUndo, Earlier

\* The reducer and the rows take the last block back together.
LEMMA RollbackSynced ==
    ASSUME MemOK, NEW s, StoreOK(s), Journaled_tip(s), Synced(s), NEW hash, RollbackTip(hash),
           HeightOf(s.tip) = tip_height
    PROVE  LET t == rollback_tip(s)
           IN  /\ t.tip = reducer_tip'
               /\ t.heads = db'.heads /\ t.pending_commits = db'.commits
               /\ RowsMatch(t.rollback_blocks, Elems(history'))
  <1> DEFINE t == rollback_tip(s)
             rb == s.rollback_blocks
             at == s.tip.height
             row == rb[at]
             nb == Updated(rb, [h \in {at} |-> None])
             u == LastUndo
  <1>1. /\ t.tip = row.previous_tip /\ t.heads = Updated(s.heads, row.heads)
        /\ t.pending_commits = Updated(s.pending_commits, row.commits)
        /\ t.rollback_blocks = nb
    BY DEF rollback_tip, DeleteJournal, write_tip, write_head, write_commit, StoreOK, StoreFields
  <1>2. s.tip # None /\ at \in DOMAIN rb /\ Proper(rb) /\ at = tip_height
    BY DEF Journaled_tip, StoreOK, JournalOK, HeightOf
  <1>3. /\ DOMAIN nb \subseteq DOMAIN rb /\ \A h \in DOMAIN nb : nb[h] = rb[h]
    <2> HIDE DEF rb, at
    <2>1. /\ DOMAIN nb = DOMAIN rb \ {at} /\ Proper(nb)
          /\ \A h \in DOMAIN nb : nb[h] = rb[h]
      BY <1>2, DeletedRows
    <2> HIDE DEF nb
    <2> QED BY <2>1
  <1> HIDE DEF nb, t
  <1>4. /\ history # << >> /\ db' = Restored(db, u) /\ previous_hash' = u.previous_hash
        /\ tip_height' = u.previous_tip_height
        /\ history' = SubSeq(history, 1, Len(history) - 1)
    BY DEF RollbackTip, LastUndo
  <1>5. /\ u \in Elems(history) /\ u.previous_next_height = at
    BY <1>2, <1>4, LastAndEarlier
  <1>6. RowIs(row, u)
    BY <1>2, <1>5 DEF Synced, RowsMatch
  <1>7. reducer_tip' = TipOf(u)
    BY <1>4 DEF reducer_tip, TipOf
  <1>8. db'.heads = Updated(db.heads, u.heads) /\ db'.commits = Updated(db.commits, u.commits)
    BY <1>4 DEF Restored, ReplaceHeads, ReplaceCommits
  <1>9. Elems(history') \subseteq Elems(history)
    BY <1>4, LastElem DEF MemOK, TypeInv
  <1>10. RowsMatch(nb, Elems(history'))
    BY <1>3, <1>9, FewerMatch DEF Synced
  <1> HIDE DEF u, row
  <1> QED BY <1>1, <1>6, <1>7, <1>8, <1>10 DEF Synced, RowIs, t

\* A delta writes the records it was made from, and its row is the undo record.
LEMMA DeltaWrites ==
    ASSUME NoneIsNoRecord, MemOK, history # << >>, NEW s, StoreOK(s), NEW d,
           d = delta_from_undo(TipOf(LastUndo), reducer_tip, LastUndo),
           RowsBefore(s, LastUndo)
    PROVE  LET t == apply_delta(s, d)
           IN  /\ t.tip = d.to_tip /\ t.scan = s.scan /\ d.to_tip.height = tip_height
               /\ t.heads = db.heads /\ t.pending_commits = db.commits
               /\ t.core_snapshot = s.core_snapshot
               /\ DOMAIN t.rollback_blocks = DOMAIN s.rollback_blocks \cup {tip_height}
               /\ RowIs(t.rollback_blocks[tip_height], LastUndo)
               /\ \A h \in DOMAIN s.rollback_blocks :
                     h # tip_height => t.rollback_blocks[h] = s.rollback_blocks[h]
  <1> DEFINE t == apply_delta(s, d)
             u == LastUndo
             rb == s.rollback_blocks
             to == d.to_tip.height
             row == [hash |-> d.to_tip.hash, previous_tip |-> d.from_tip,
                     heads |-> Previous(Part(d.heads, DOMAIN d.heads)),
                     commits |-> Previous(Part(d.commits, DOMAIN d.commits))]
             add == [h \in {to} |-> row]
             nb == Updated(rb, add)
  <1>1. /\ t.tip = d.to_tip /\ t.scan = s.scan /\ t.core_snapshot = s.core_snapshot
        /\ t.heads = Updated(s.heads, Current(Part(d.heads, DOMAIN d.heads)))
        /\ t.pending_commits =
              Updated(s.pending_commits, Current(Part(d.commits, DOMAIN d.commits)))
        /\ t.rollback_blocks = nb
    BY DEF apply_delta, Written, write_tip, write_head, write_commit, StoreOK, StoreFields
  <1>2. tip_height \in Height /\ UndoTips(u)
    BY LastAndEarlier
  <1>3. /\ d.from_tip = TipOf(u) /\ d.to_tip = reducer_tip
        /\ d.heads = Changes(u.heads, db.heads) /\ d.commits = Changes(u.commits, db.commits)
    BY DEF delta_from_undo
  <1>4. to = tip_height
    <2>1. reducer_tip = Tip(tip_height, previous_hash)
      BY <1>2, HeightFacts DEF reducer_tip
    <2> QED BY <1>3, <2>1 DEF Tip
  <1>5. ASSUME NEW j, NEW m, j = [k \in DOMAIN j |-> j[k]]
        PROVE  LET c == Part(Changes(j, m), DOMAIN Changes(j, m))
               IN  /\ Previous(c) = j
                   /\ Current(c) = [k \in DOMAIN j |-> Get(m, k)]
    BY <1>5 DEF Part, Changes, Previous, Current
  <1> HIDE DEF u
  <1>6. u.heads = [k \in DOMAIN u.heads |-> u.heads[k]]
        /\ u.commits = [k \in DOMAIN u.commits |-> u.commits[k]]
    BY <1>2 DEF UndoTips, UndoOK, MapOf
  <1>7. /\ row.heads = u.heads /\ row.commits = u.commits /\ row.previous_tip = TipOf(u)
        /\ t.heads = Updated(s.heads, [k \in DOMAIN u.heads |-> Get(db.heads, k)])
        /\ t.pending_commits =
              Updated(s.pending_commits, [k \in DOMAIN u.commits |-> Get(db.commits, k)])
    BY <1>1, <1>3, <1>5, <1>6
  <1>8. row # None
    BY DEF NoneIsNoRecord, RowFields
  <1> HIDE DEF row, t, nb
  <1>9. t.heads = db.heads /\ t.pending_commits = db.commits
    BY <1>7, UpdatedBack, ProperRecords DEF RowsBefore, MemOK, u
  <1>10. RowIs(row, u)
    BY <1>7 DEF RowIs
  <1>11. /\ DOMAIN nb = DOMAIN rb \cup {to} /\ nb[to] = row
         /\ \A h \in DOMAIN rb : h # to => nb[h] = rb[h]
    <2>1. DOMAIN add = {to} /\ add[to] = row
      OBVIOUS
    <2>2. Proper(rb)
      BY DEF StoreOK, JournalOK
    <2> HIDE DEF add, rb
    <2>3. /\ \A k : k \in DOMAIN nb <=>
                      \/ k \in DOMAIN add /\ add[k] # None
                      \/ k \in DOMAIN rb /\ k \notin DOMAIN add
          /\ \A k \in DOMAIN nb : nb[k] = IF k \in DOMAIN add THEN add[k] ELSE rb[k]
      BY <2>2, UpdatedFacts DEF nb
    <2>4. DOMAIN nb = DOMAIN rb \cup {to}
      BY <1>8, <2>1, <2>3
    <2> QED BY <1>8, <2>1, <2>3, <2>4
  <1> HIDE DEF to, rb
  <1> QED BY <1>1, <1>4, <1>9, <1>10, <1>11 DEF t, u, to, rb

\* The delta brings the rows to the records and journals the undo record.
LEMMA DeltaSynced ==
    ASSUME NoneIsNoRecord, MemOK, history # << >>, NEW s, StoreOK(s), NEW d,
           d = delta_from_undo(TipOf(LastUndo), reducer_tip, LastUndo),
           RowsBefore(s, LastUndo), RowsMatch(s.rollback_blocks, Earlier)
    PROVE  Synced(apply_delta(s, d))
  <1> DEFINE t == apply_delta(s, d)
             rb == s.rollback_blocks
             nb == t.rollback_blocks
  <1>1. /\ t.tip = d.to_tip /\ t.heads = db.heads /\ t.pending_commits = db.commits
        /\ DOMAIN nb = DOMAIN rb \cup {tip_height} /\ RowIs(nb[tip_height], LastUndo)
        /\ \A h \in DOMAIN rb : h # tip_height => nb[h] = rb[h]
    BY DeltaWrites
  <1> HIDE DEF t
  <1>2. /\ LastUndo.previous_next_height = tip_height
        /\ Elems(history) = Earlier \cup {LastUndo}
        /\ \A v \in Earlier : v.previous_next_height # tip_height
    BY LastAndEarlier
  <1>3. RowsMatch(nb, Elems(history))
    <2> SUFFICES ASSUME NEW v \in Elems(history), v.previous_next_height \in DOMAIN nb
                 PROVE  RowIs(nb[v.previous_next_height], v)
      BY DEF RowsMatch
    <2>1. CASE v = LastUndo
      BY <1>1, <1>2, <2>1
    <2>2. CASE v \in Earlier
      BY <1>1, <1>2, <2>2 DEF RowsMatch
    <2> QED BY <1>2, <2>1, <2>2
  <1>4. d.to_tip = reducer_tip
    BY DEF delta_from_undo
  <1> QED BY <1>1, <1>3, <1>4 DEF Synced, t

-----------------------------------------------------------------------------
LEMMA ImageHeight ==
    ASSUME NEW s, StoreOK(s), s.core_snapshot # None
    PROVE  /\ s.core_snapshot.tip.height \in Height /\ s.core_snapshot.tip.height \in Int
           /\ s.core_snapshot.tip.height <= U32Max
           /\ s.tip # None => s.tip.height \in Height /\ s.tip.height \in Int
  BY HeightFacts DEF StoreOK, ImageOK, JournalOK, TipOK

LEMMA SameImageAgrees ==
    ASSUME NEW s, NEW t, NEW limit, ImageAgrees(s, limit), t.core_snapshot = s.core_snapshot,
           t.tip = s.tip, t.heads = s.heads, t.pending_commits = s.pending_commits,
           DOMAIN t.rollback_blocks \subseteq DOMAIN s.rollback_blocks,
           \A h \in DOMAIN t.rollback_blocks : t.rollback_blocks[h] = s.rollback_blocks[h],
           \A height, hash : Scanned(s, height, hash) => Scanned(t, height, hash)
    PROVE  ImageAgrees(t, limit)
  <1> SUFFICES ASSUME t.core_snapshot # None
               PROVE  LET i == t.core_snapshot.tip
                      IN  /\ t.tip # None /\ i.height <= t.tip.height
                          /\ i.height <= limit => Scanned(t, i.height, i.hash)
                          /\ i.height = t.tip.height => ImageIsRows(t)
    BY DEF ImageAgrees
  <1>1. LET i == s.core_snapshot.tip
        IN  /\ s.tip # None /\ i.height <= s.tip.height
            /\ i.height <= limit => Scanned(s, i.height, i.hash)
            /\ i.height = s.tip.height => ImageIsRows(s)
    BY DEF ImageAgrees
  <1>2. ImageIsRows(s) => ImageIsRows(t)
    BY FewerMatch DEF ImageIsRows
  <1> QED BY <1>1, <1>2

\* The rows move on and leave the image behind.
LEMMA DeltaImage ==
    ASSUME NEW s, StoreOK(s), ImageAgrees(s, U32Max), NEW d, DeltaOK(d), DeltaAccepted(s, d)
    PROVE  ImageAgrees(apply_delta(s, d), U32Max)
  <1> DEFINE t == apply_delta(s, d)
  <1>1. /\ t.tip = d.to_tip /\ t.scan = s.scan /\ t.core_snapshot = s.core_snapshot
    BY DEF apply_delta, Written, write_tip, write_head, write_commit, StoreOK, StoreFields
  <1> HIDE DEF t
  <1> SUFFICES ASSUME t.core_snapshot # None PROVE ImageAgrees(t, U32Max)
    BY DEF ImageAgrees, t
  <1>2. /\ s.tip # None /\ s.core_snapshot.tip.height <= s.tip.height
        /\ Scanned(s, s.core_snapshot.tip.height, s.core_snapshot.tip.hash)
    BY <1>1, ImageHeight DEF ImageAgrees
  <1>3. /\ t.tip # None /\ t.tip.height = s.tip.height + 1
    BY <1>1, <1>2 DEF DeltaOK, Before, DeltaAccepted
  <1>4. /\ t.core_snapshot.tip.height <= t.tip.height
        /\ t.core_snapshot.tip.height # t.tip.height
    BY <1>1, <1>2, <1>3, ImageHeight
  <1>5. Scanned(t, t.core_snapshot.tip.height, t.core_snapshot.tip.hash)
    BY <1>1, <1>2 DEF Scanned
  <1> QED BY <1>3, <1>4, <1>5 DEF ImageAgrees

LEMMA FinalizeImage ==
    ASSUME NEW s, StoreOK(s), ImageAgrees(s, U32Max), NEW height
    PROVE  LET t == finalize_through(s, height)
           IN  /\ ImageAgrees(t, U32Max)
               /\ t.tip = s.tip /\ t.heads = s.heads /\ t.pending_commits = s.pending_commits
               /\ DOMAIN t.rollback_blocks \subseteq DOMAIN s.rollback_blocks
               /\ \A h \in DOMAIN t.rollback_blocks :
                     t.rollback_blocks[h] = s.rollback_blocks[h]
  <1> DEFINE t == finalize_through(s, height)
             rb == s.rollback_blocks
             low == {h \in DOMAIN rb : h <= height}
             nb == Updated(rb, [h \in low |-> None])
  <1>1. /\ t.scan = s.scan /\ t.tip = s.tip /\ t.core_snapshot = s.core_snapshot
        /\ t.heads = s.heads /\ t.pending_commits = s.pending_commits
        /\ t.rollback_blocks = nb
    BY DEF finalize_through, DeleteJournal, StoreOK, StoreFields
  <1>2. Proper(rb)
    BY DEF StoreOK, JournalOK
  <1>3. DOMAIN nb \subseteq DOMAIN rb /\ \A h \in DOMAIN nb : nb[h] = rb[h]
    <2> HIDE DEF rb, low
    <2>1. /\ DOMAIN nb = DOMAIN rb \ low /\ Proper(nb)
          /\ \A h \in DOMAIN nb : nb[h] = rb[h]
      BY <1>2, DeletedRows
    <2> HIDE DEF nb
    <2> QED BY <2>1
  <1> HIDE DEF t, nb
  <1>4. \A k, hash : Scanned(s, k, hash) => Scanned(t, k, hash)
    BY <1>1 DEF Scanned
  <1>5. ImageAgrees(t, U32Max)
    BY <1>1, <1>3, <1>4, SameImageAgrees
  <1> QED BY <1>1, <1>3, <1>5 DEF t

LEMMA CutImage ==
    ASSUME NEW s, StoreOK(s), ImageAgrees(s, U32Max), NEW height \in Int,
           ScanIndex(height) <= Len(s.scan)
    PROVE  LET t == ScanThrough(s, height)
           IN  /\ ImageAgrees(t, height)
               /\ t.tip = s.tip /\ t.heads = s.heads /\ t.pending_commits = s.pending_commits
               /\ t.rollback_blocks = s.rollback_blocks
  <1> DEFINE t == ScanThrough(s, height)
             n == ScanIndex(height)
  <1>1. /\ t.scan = SubSeq(s.scan, 1, n) /\ t.tip = s.tip
        /\ t.core_snapshot = s.core_snapshot /\ t.rollback_blocks = s.rollback_blocks
        /\ t.heads = s.heads /\ t.pending_commits = s.pending_commits
    BY DEF ScanThrough, StoreOK, StoreFields
  <1>2. s.scan \in Seq(Block) /\ n \in Int /\ n <= Len(s.scan) /\ Len(s.scan) \in Nat
        /\ n = height - activation_height + 1 /\ activation_height \in Int
    BY HeightFacts DEF StoreOK, ScanIndex
  <1> HIDE DEF t, n
  <1>3. ASSUME NEW k \in Int, k <= height, NEW hash, Scanned(s, k, hash)
        PROVE  Scanned(t, k, hash)
    <2>1. ScanIndex(k) = k - activation_height + 1 /\ ScanIndex(k) \in 1 .. Len(s.scan)
      BY <1>3 DEF Scanned, ScanIndex
    <2>2. n >= 0 /\ ScanIndex(k) \in 1 .. n
      BY <1>2, <1>3, <2>1
    <2>3. Len(t.scan) = n /\ t.scan[ScanIndex(k)] = s.scan[ScanIndex(k)]
      BY <1>1, <1>2, <2>2
    <2> QED BY <1>3, <2>2, <2>3 DEF Scanned
  <1>4. ASSUME t.core_snapshot # None PROVE ImageAgrees(t, height)
    <2> DEFINE i == s.core_snapshot.tip
    <2>1. /\ s.tip # None /\ i.height <= s.tip.height /\ Scanned(s, i.height, i.hash)
          /\ i.height = s.tip.height => ImageIsRows(s)
      BY <1>1, <1>4, ImageHeight DEF ImageAgrees
    <2>2. i.height <= height => Scanned(t, i.height, i.hash)
      BY <1>1, <1>3, <1>4, <2>1, ImageHeight
    <2>3. ImageIsRows(s) => ImageIsRows(t)
      BY <1>1 DEF ImageIsRows
    <2> QED BY <1>1, <2>1, <2>2, <2>3 DEF ImageAgrees
  <1>5. ImageAgrees(t, height)
    BY <1>4 DEF ImageAgrees
  <1> QED BY <1>1, <1>5 DEF t

-----------------------------------------------------------------------------
LEMMA RowsInit == SInit => RowsInv
  BY DEF SInit, Init, RowsInv, RecordsInv, ImagesInv

\* The tip is the reducer's, and the undo record's while a block is applied.
LEMMA RowsBegin ==
    ASSUME StoreInv, RowsInv, NEW b \in Block, SBeginBlock(b)
    PROVE  RowsInv'
  <1>1. /\ up /\ tx # None /\ block = None /\ delta = None /\ rewind = None /\ ~torn
        /\ BeginBlock(b, {}) /\ disk' = disk /\ delta' = delta /\ torn' = torn
        /\ rewind' = rewind /\ up' = up
        /\ tx' = tx \/ tx' = [tx EXCEPT !.scan = Append(@, b)]
    BY DEF SBeginBlock, Idle
  <1>2. /\ block' = b /\ b # None /\ history' = history /\ tip_height' = tip_height
        /\ previous_hash' = previous_hash
    BY <1>1, ValuesAssumption DEF BeginBlock, chainVars
  <1>3. StoreOK(tx) /\ TypeInv /\ Synced(tx) /\ ImageAgrees(tx, U32Max)
    BY <1>1 DEF StoreInv, StoresInv, MemOK, RowsInv, RecordsInv, ImagesInv, Current_store
  <1>4. /\ tx'.tip = tx.tip /\ tx'.heads = tx.heads
        /\ tx'.pending_commits = tx.pending_commits
        /\ tx'.rollback_blocks = tx.rollback_blocks /\ tx'.core_snapshot = tx.core_snapshot
    BY <1>1, <1>3 DEF StoreOK, StoreFields
  <1>5. \A height, hash : Scanned(tx, height, hash) => Scanned(tx', height, hash)
    <2>1. CASE tx' = tx
      BY <2>1
    <2>2. CASE tx' = [tx EXCEPT !.scan = Append(@, b)]
      <3> DEFINE L == Len(tx.scan)
      <3>1. tx'.scan = Append(tx.scan, b) /\ tx.scan \in Seq(Block)
        BY <1>3, <2>2 DEF StoreOK, StoreFields
      <3>2. /\ L \in Nat /\ Len(tx'.scan) = L + 1
            /\ \A i \in 1 .. L : tx'.scan[i] = tx.scan[i]
        BY <3>1
      <3>3. \A i \in 1 .. L : i \in 1 .. Len(tx'.scan)
        BY <3>2
      <3> QED BY <3>2, <3>3 DEF Scanned
    <2> QED BY <1>1, <2>1, <2>2
  <1>6. ImageAgrees(tx', U32Max)
    BY <1>3, <1>4, <1>5, SameImageAgrees
  <1>7. /\ undo'.previous_hash = previous_hash /\ undo'.previous_tip_height = tip_height
        /\ Updated(db'.heads, undo'.heads) = db.heads
        /\ Updated(db'.commits, undo'.commits) = db.commits
    BY <1>1, <1>3, BeginLeadsBack
  <1>8. reducer_tip = TipOf(undo')
    BY <1>7 DEF reducer_tip, TipOf
  <1>9. RecordsInv'
    BY <1>1, <1>2, <1>3, <1>4, <1>7, <1>8 DEF RecordsInv, RowsBefore, Synced
  <1>10. ImagesInv'
    BY <1>1, <1>6 DEF RowsInv, ImagesInv
  <1> QED BY <1>9, <1>10 DEF RowsInv

LEMMA RowsApply ==
    ASSUME StoreInv, RowsInv, SApplyTransaction
    PROVE  RowsInv'
  <1>1. /\ block # None /\ block' = block /\ history' = history
        /\ previous_hash' = previous_hash /\ tip_height' = tip_height
        /\ disk' = disk /\ tx' = tx /\ delta' = delta /\ torn' = torn
        /\ rewind' = rewind /\ up' = up /\ ApplyTransaction
    BY DEF SApplyTransaction, storeVars, ApplyTransaction, chainVars
  <1>2. TypeInv /\ delta = None
    BY <1>1 DEF StoreInv, MemOK, CallsInv
  <1>3. /\ undo'.previous_hash = undo.previous_hash
        /\ undo'.previous_tip_height = undo.previous_tip_height
        /\ Updated(db'.heads, undo'.heads) = Updated(db.heads, undo.heads)
        /\ Updated(db'.commits, undo'.commits) = Updated(db.commits, undo.commits)
    BY <1>1, <1>2, ApplyLeadsBack
  <1>4. TipOf(undo') = TipOf(undo)
    BY <1>3 DEF TipOf
  <1>5. RecordsInv'
    BY <1>1, <1>2, <1>3, <1>4 DEF RowsInv, RecordsInv, RowsBefore
  <1>6. ImagesInv'
    BY <1>1 DEF RowsInv, ImagesInv
  <1> QED BY <1>5, <1>6 DEF RowsInv

LEMMA RowsEnd ==
    ASSUME NoneIsNoRecord, StoreInv, RowsInv, SEndBlock
    PROVE  RowsInv'
  <1>1. /\ block # None /\ block' = None /\ history' = Append(history, undo)
        /\ previous_hash' = block.hash /\ tip_height' = block.height /\ db' = db
        /\ delta' = delta_from_undo(reducer_tip, Tip(block.height, block.hash), undo)
        /\ disk' = disk /\ tx' = tx /\ torn' = torn /\ rewind' = rewind /\ up' = up
    BY DEF SEndBlock, EndBlock
  <1>2. /\ block.height \in Height /\ IsSeq(history) /\ undo.previous_tip_height = tip_height
        /\ undo.previous_hash = previous_hash /\ RowsBefore(tx, undo)
        /\ RowsMatch(tx.rollback_blocks, Elems(history))
    BY <1>1 DEF StoreInv, MemOK, TypeInv, TypeOK, Option, Block, RowsInv, RecordsInv
  <1>3. /\ TipOf(undo) = reducer_tip /\ reducer_tip' = Tip(block.height, block.hash)
    BY <1>1, <1>2, HeightFacts DEF TipOf, reducer_tip
  <1> DEFINE L == Len(history)
  <1>4. /\ L \in Nat /\ Len(history') = L + 1 /\ IsSeq(history')
        /\ \A i \in 1 .. L : history'[i] = history[i]
        /\ history'[L + 1] = undo
    BY <1>1, <1>2, AppendFacts
  <1>5. /\ LastUndo' = undo
        /\ Earlier' = Elems(history)
    <2>1. Len(history') - 1 = L
      BY <1>4
    <2>2. Earlier' = {history'[i] : i \in 1 .. L}
      BY <2>1 DEF Earlier
    <2> QED BY <1>4, <2>2 DEF LastUndo, Elems
  <1>6. history' # << >>
    BY <1>4
  <1>7. /\ delta' = delta_from_undo(TipOf(LastUndo), reducer_tip, LastUndo)'
        /\ delta' # None
    <2>1. TipOf(LastUndo)' = TipOf(undo)
      BY <1>5 DEF TipOf
    <2>2. delta' = delta_from_undo(TipOf(LastUndo), reducer_tip, LastUndo)'
      BY <1>1, <1>3, <1>5, <2>1 DEF delta_from_undo
    <2> QED BY <1>1, <2>2 DEF delta_from_undo, NoneIsNoRecord, DeltaFields
  <1>8. RowsBefore(tx, LastUndo)' /\ RowsMatch(tx.rollback_blocks, Earlier)'
    BY <1>1, <1>2, <1>5 DEF RowsBefore, TipOf, RowsMatch
  <1>9. RecordsInv'
    BY <1>1, <1>6, <1>7, <1>8 DEF RecordsInv
  <1>10. ImagesInv'
    BY <1>1 DEF RowsInv, ImagesInv
  <1> QED BY <1>9, <1>10 DEF RowsInv

LEMMA RowsDelta ==
    ASSUME NoneIsNoRecord, StoreInv, RowsInv, StoreDelta
    PROVE  RowsInv'
  <1>1. /\ delta # None /\ ~torn /\ DeltaAccepted(tx, delta) /\ delta' = None
        /\ tx' = apply_delta(tx, delta) /\ vars' = vars /\ disk' = disk
        /\ torn' = torn /\ rewind' = rewind /\ up' = up
    BY DEF StoreDelta, wallet_apply_delta
  <1>2. tx # None /\ block = None /\ rewind = None /\ up
    BY <1>1 DEF StoreInv, CallsInv
  <1>3. StoreOK(tx) /\ DeltaOK(delta) /\ ImageAgrees(tx, U32Max) /\ MemOK
    BY <1>1, <1>2 DEF StoreInv, StoresInv, HeightsInv, RowsInv, ImagesInv
  <1>4. /\ history # << >> /\ RowsBefore(tx, LastUndo)
        /\ RowsMatch(tx.rollback_blocks, Earlier)
        /\ delta = delta_from_undo(TipOf(LastUndo), reducer_tip, LastUndo)
    BY <1>1 DEF RowsInv, RecordsInv
  <1>5. Synced(apply_delta(tx, delta))
    BY <1>3, <1>4, DeltaSynced
  <1>6. ImageAgrees(tx', U32Max)
    BY <1>1, <1>3, DeltaImage
  <1>7. tx' # None
    <2>1. StoreOK(tx')
      BY <1>1, <1>3, ApplyDeltaOK
    <2> QED BY <2>1 DEF StoreOK, NoneIsNoRecord
  <1>8. /\ block' = None /\ history' = history /\ db' = db /\ reducer_tip' = reducer_tip
    BY <1>1, <1>2 DEF vars, reducer_tip
  <1>9. RecordsInv'
    BY <1>1, <1>2, <1>5, <1>7, <1>8 DEF RecordsInv, Synced, Current_store
  <1>10. ImagesInv'
    BY <1>1, <1>2, <1>6 DEF RowsInv, ImagesInv
  <1> QED BY <1>9, <1>10 DEF RowsInv

LEMMA RowsResume ==
    ASSUME NoneIsNoRecord, adapter = "wallet", StoreInv, RowsInv, Resume
    PROVE  RowsInv'
  <1>1. /\ tx # None /\ ~up /\ disk' = disk /\ block' = None
        /\ delta' = delta /\ torn' = torn /\ rewind' = rewind
    BY DEF Resume, LoadImage, FreshMemory
  <1>2. delta = None /\ rewind = None /\ ~torn
    BY <1>1 DEF StoreInv, CallsInv
  <1>3. StoreOK(tx) /\ ImageAgrees(tx, U32Max)
    BY <1>1, <1>2 DEF StoreInv, StoresInv, RowsInv, ImagesInv
  <1>4. tx' # None /\ Synced(tx)' /\ ImageAgrees(tx', U32Max)
    <2>1. CASE SnapshotCurrent(tx)
      <3> DEFINE i == tx.core_snapshot
      <3>1. /\ LoadImage(i) /\ tx' = tx /\ i # None /\ i.tip = tx.tip
        BY <2>1 DEF Resume, SnapshotCurrent
      <3>2. ImageIsRows(tx) /\ ImageOK(i)
        BY <1>3, <3>1 DEF ImageAgrees, StoreOK
      <3>3. /\ i.tip.height # None /\ i.tip = Tip(i.tip.height, i.tip.hash)
        BY <3>2, HeightFacts DEF ImageOK, TipOK
      <3>4. /\ tip_height' = i.tip.height /\ previous_hash' = i.tip.hash
            /\ history' = i.history /\ db'.heads = i.heads /\ db'.commits = i.commits
        BY <3>1 DEF LoadImage, rebuild_derived_indexes
      <3>5. reducer_tip' = i.tip
        BY <3>3, <3>4 DEF reducer_tip
      <3> QED BY <1>1, <1>3, <3>1, <3>2, <3>4, <3>5 DEF Synced, ImageIsRows
    <2>2. CASE ~SnapshotCurrent(tx)
      <3>1. FreshMemory /\ tx' = reset_for_replay(tx)
        BY <2>2 DEF Resume
      <3>2. StoreOK(tx')
        BY <1>3, <3>1, ResetOK
      <3>3. /\ tx'.tip = None /\ tx'.heads = EmptyMap /\ tx'.pending_commits = EmptyMap
            /\ tx'.core_snapshot = None
        BY <1>3, <3>1 DEF reset_for_replay, StoreOK, StoreFields
      <3>4. /\ reducer_tip' = None /\ db'.heads = EmptyMap /\ db'.commits = EmptyMap
            /\ Elems(history') = {}
        BY <3>1 DEF FreshMemory, reducer_tip, rebuild_derived_indexes, Elems
      <3>5. tx' # None
        BY <3>2 DEF StoreOK, NoneIsNoRecord
      <3> QED BY <3>3, <3>4, <3>5 DEF Synced, RowsMatch, ImageAgrees
    <2> QED BY <2>1, <2>2
  <1>5. RecordsInv'
    BY <1>1, <1>2, <1>4 DEF RecordsInv, Current_store, Synced
  <1>6. ImagesInv'
    BY <1>1, <1>2, <1>4 DEF RowsInv, ImagesInv
  <1> QED BY <1>5, <1>6 DEF RowsInv

LEMMA RowsPutSnapshot ==
    ASSUME NoneIsNoRecord, StoreInv, BranchInv, RowsInv, PutSnapshot
    PROVE  RowsInv'
  <1>1. /\ up /\ tx # None /\ block = None /\ delta = None /\ rewind = None /\ ~torn
        /\ tx' = [tx EXCEPT !.core_snapshot = Image] /\ vars' = vars /\ disk' = disk
        /\ delta' = delta /\ torn' = torn /\ rewind' = rewind /\ up' = up
        /\ tx.tip # None
    BY DEF PutSnapshot, Idle, put_core_snapshot
  <1>2. StoreOK(tx) /\ BranchOK(tx, U32Max) /\ Synced(tx)
    BY <1>1 DEF StoreInv, StoresInv, BranchInv, Limit, RowsInv, RecordsInv, Current_store
  <1>3. /\ tx'.scan = tx.scan /\ tx'.tip = tx.tip /\ tx'.heads = tx.heads
        /\ tx'.pending_commits = tx.pending_commits /\ DOMAIN tx' = StoreFields
        /\ tx'.rollback_blocks = tx.rollback_blocks /\ tx'.core_snapshot = Image
    BY <1>1, <1>2 DEF StoreOK, StoreFields
  <1>4. tx' # None
    BY <1>3 DEF NoneIsNoRecord
  <1>5. /\ Image.tip = tx.tip /\ Image.heads = tx.heads
        /\ Image.commits = tx.pending_commits /\ Image.history = history
    BY <1>2 DEF Image, Synced
  <1>6. ImageIsRows(tx')
    BY <1>2, <1>3, <1>5 DEF ImageIsRows, Synced
  <1>7. tx.tip.height \in Int /\ tx.tip.height <= U32Max
    BY <1>1, <1>2, HeightFacts DEF StoreOK, JournalOK, TipOK
  <1>8. Scanned(tx', tx.tip.height, tx.tip.hash)
    BY <1>1, <1>2, <1>3, <1>7 DEF BranchOK, OnBranch, Scanned
  <1>9. ImageAgrees(tx', U32Max)
    BY <1>1, <1>3, <1>5, <1>6, <1>7, <1>8 DEF ImageAgrees
  <1>10. RecordsInv'
    BY <1>1, <1>2, <1>3, <1>4 DEF RecordsInv, Synced, Current_store, reducer_tip, vars
  <1>11. ImagesInv'
    BY <1>1, <1>9 DEF RowsInv, ImagesInv
  <1> QED BY <1>10, <1>11 DEF RowsInv

LEMMA RowsFinalize ==
    ASSUME NoneIsNoRecord, StoreInv, RowsInv, NEW height \in Height, Finalize(height)
    PROVE  RowsInv'
  <1>1. /\ conn # None /\ tx = None /\ up /\ disk' = finalize_through(disk, height)
        /\ FinalizeThrough(height)
        /\ tx' = tx /\ delta' = delta /\ torn' = torn /\ rewind' = rewind /\ up' = up
        /\ block' = block /\ tip_height' = tip_height /\ previous_hash' = previous_hash
        /\ db' = db
    BY DEF Finalize, FinalizeThrough, callVars, chainVars
  <1>2. /\ block = None /\ delta = None /\ disk # None /\ StoreOK(disk)
    BY <1>1 DEF StoreInv, CallsInv, StoresInv
  <1>3. Synced(disk) /\ ImageAgrees(disk, U32Max)
    BY <1>1, <1>2 DEF RowsInv, RecordsInv, ImagesInv, Current_store
  <1>4. /\ ImageAgrees(disk', U32Max)
        /\ disk'.tip = disk.tip /\ disk'.heads = disk.heads
        /\ disk'.pending_commits = disk.pending_commits
        /\ DOMAIN disk'.rollback_blocks \subseteq DOMAIN disk.rollback_blocks
        /\ \A h \in DOMAIN disk'.rollback_blocks :
              disk'.rollback_blocks[h] = disk.rollback_blocks[h]
    BY <1>1, <1>2, <1>3, FinalizeImage
  <1>5. Elems(history') \subseteq Elems(history)
    <2>1. PICK n \in 0 .. Len(history) : history' = SubSeq(history, n + 1, Len(history))
      BY <1>1 DEF FinalizeThrough
    <2>2. IsSeq(history) /\ Len(history) \in Nat
      BY DEF StoreInv, MemOK, TypeInv, IsSeq
    <2> QED BY <2>1, <2>2, ElemsSubSeq
  <1>6. RowsMatch(disk'.rollback_blocks, Elems(history'))
    BY <1>3, <1>4, <1>5, FewerMatch DEF Synced
  <1>7. RecordsInv'
    BY <1>1, <1>2, <1>3, <1>4, <1>6 DEF RecordsInv, Synced, Current_store, reducer_tip
  <1>8. ImagesInv'
    BY <1>1, <1>4 DEF ImagesInv
  <1> QED BY <1>7, <1>8 DEF RowsInv

LEMMA RowsWalletRewind ==
    ASSUME NoneIsNoRecord, StoreInv, RowsInv, NEW height \in Height, WalletRewind(height)
    PROVE  RowsInv'
  <1>1. /\ up /\ tx # None /\ block = None /\ delta = None /\ rewind = None /\ ~torn
        /\ height < activation_height - 1 + Len(tx.scan)
        /\ tx' = ScanThrough(tx, height)
        /\ rewind' = [height |-> height, original_tip |-> tx.tip]
        /\ vars' = vars /\ disk' = disk /\ delta' = delta /\ torn' = torn /\ up' = up
    BY DEF WalletRewind, Idle
  <1>2. rewind' # None /\ rewind'.height = height /\ rewind'.original_tip = tx.tip
    BY <1>1 DEF NoneIsNoRecord, RewindFields
  <1>3. /\ StoreOK(tx) /\ tx.scan \in Seq(Block) /\ Synced(tx) /\ ImageAgrees(tx, U32Max)
    BY <1>1 DEF StoreInv, StoresInv, StoreOK, RowsInv, RecordsInv, ImagesInv, Current_store
  <1>4. height \in Int /\ ScanIndex(height) <= Len(tx.scan)
    BY <1>1, <1>3, HeightFacts DEF ScanIndex
  <1>5. /\ ImageAgrees(tx', height)
        /\ tx'.tip = tx.tip /\ tx'.heads = tx.heads
        /\ tx'.pending_commits = tx.pending_commits
        /\ tx'.rollback_blocks = tx.rollback_blocks
    BY <1>1, <1>3, <1>4, CutImage
  <1>6. tx' # None
    BY <1>1, <1>3, <1>4, ScanThroughOK DEF Beside, StoreOK, NoneIsNoRecord
  <1>7. RecordsInv'
    BY <1>1, <1>3, <1>5, <1>6 DEF RecordsInv, Synced, Current_store, reducer_tip, vars
  <1>8. ImagesInv'
    BY <1>1, <1>2, <1>5 DEF RowsInv, ImagesInv
  <1> QED BY <1>7, <1>8 DEF RowsInv

LEMMA RowsRewindStep ==
    ASSUME NoneIsNoRecord, StoreInv, RowsInv, RewindStep
    PROVE  RowsInv'
  <1>1. /\ rewind # None /\ Journaled_tip(tx) /\ tx' = rollback_tip(tx)
        /\ RollbackTip(previous_hash)
        /\ disk' = disk /\ delta' = delta /\ torn' = torn /\ rewind' = rewind
        /\ block' = block /\ up' = up
    BY DEF RewindStep, wallet_rollback_tip, RollbackTip, callVars
  <1>2. tx # None /\ block = None /\ delta = None /\ ~torn /\ up
    BY <1>1 DEF StoreInv, CallsInv
  <1>3. /\ StoreOK(tx) /\ MemOK /\ Synced(tx) /\ HeightOf(tx.tip) = tip_height
    BY <1>2 DEF StoreInv, StoresInv, HeightsInv, RowsInv, RecordsInv, Current_store
  <1>4. /\ tx'.tip = reducer_tip'
        /\ tx'.heads = db'.heads /\ tx'.pending_commits = db'.commits
        /\ RowsMatch(tx'.rollback_blocks, Elems(history'))
    BY <1>1, <1>3, RollbackSynced
  <1>5. tx' # None
    BY <1>1, <1>3, RollbackTipOK DEF StoreOK, NoneIsNoRecord
  <1>6. RecordsInv'
    BY <1>1, <1>2, <1>4, <1>5 DEF RecordsInv, Synced, Current_store
  <1>7. /\ tx.tip # None /\ tx.tip.height \in Height
        /\ tx'.tip # None => tx'.tip.height \in Height /\ tx'.tip.height < tx.tip.height
    <2>1. tx'.tip = tx.rollback_blocks[tx.tip.height].previous_tip
      BY <1>1, <1>3 DEF rollback_tip, DeleteJournal, write_tip, write_head, write_commit,
                        StoreOK, StoreFields
    <2>2. /\ tx.tip # None /\ tx.tip.height \in Height /\ Before(tx'.tip, tx.tip.height)
      BY <1>1, <1>3, <2>1 DEF StoreOK, JournalOK, Journaled_tip, TipOK
    <2>3. tx'.tip # None => tx'.tip.height \in Height /\ tx.tip.height = tx'.tip.height + 1
      BY <2>2 DEF Before, TipOK
    <2> QED BY <2>2, <2>3, HeightFacts
  <1> DEFINE o == rewind.original_tip
  <1>8. /\ o # None /\ o.height \in Height /\ tx.tip.height <= o.height
    <2>1. CASE tx.tip = o
      BY <1>7, <2>1, HeightFacts
    <2>2. CASE tx.tip # o
      BY <1>1, <1>2, <1>7, <2>2, HeightFacts DEF RowsInv, ImagesInv
    <2> QED BY <2>1, <2>2
  <1>9. tx'.tip # None => tx'.tip.height < o.height
    BY <1>7, <1>8, HeightFacts
  <1>10. tx'.tip # o
    BY <1>7, <1>8, <1>9, HeightFacts
  <1>11. ImagesInv'
    BY <1>1, <1>8, <1>9, <1>10 DEF RowsInv, ImagesInv
  <1> QED BY <1>6, <1>11 DEF RowsInv

\* What forgetting locations leaves alone.
LEMMA ForgetRows ==
    ASSUME NEW s, StoreOK(s), NEW height
    PROVE  LET t == forget_wallet_commits(s, height)
           IN  /\ t.scan = s.scan /\ t.tip = s.tip /\ t.heads = s.heads
               /\ t.pending_commits = s.pending_commits /\ DOMAIN t = StoreFields
               /\ t.rollback_blocks = s.rollback_blocks /\ t.core_snapshot = s.core_snapshot
  BY DEF forget_wallet_commits, StoreOK, StoreFields

LEMMA RowsRewindEnd ==
    ASSUME NoneIsNoRecord, StoreInv, BranchInv, RowsInv, RewindEnd
    PROVE  RowsInv'
  <1> DEFINE c == ClearStaleSnapshot(tx, rewind.original_tip)
  <1>1. /\ rewind # None /\ rewind' = None /\ ~Above
        /\ tx' = forget_wallet_commits(c, rewind.height)
        /\ vars' = vars /\ disk' = disk /\ delta' = delta /\ torn' = torn /\ up' = up
    BY DEF RewindEnd
  <1>2. tx # None /\ block = None /\ delta = None /\ ~torn /\ up
    BY <1>1 DEF StoreInv, CallsInv
  <1>3. /\ StoreOK(tx) /\ Synced(tx)
        /\ tx.tip = rewind.original_tip => ImageAgrees(tx, rewind.height)
    BY <1>1, <1>2 DEF StoreInv, StoresInv, RowsInv, RecordsInv, ImagesInv, Current_store
  <1>4. /\ StoreOK(c) /\ c.tip = tx.tip /\ c.scan = tx.scan /\ c.heads = tx.heads
        /\ c.pending_commits = tx.pending_commits /\ c.rollback_blocks = tx.rollback_blocks
        /\ IF tx.tip = rewind.original_tip THEN c.core_snapshot = tx.core_snapshot
           ELSE c.core_snapshot = None
    <2>1. CASE tx.tip = rewind.original_tip
      BY <1>3, <2>1 DEF ClearStaleSnapshot
    <2>2. CASE tx.tip # rewind.original_tip
      <3>1. c = [tx EXCEPT !.core_snapshot = None]
        BY <2>2 DEF ClearStaleSnapshot
      <3>2. StoreOK(c)
        BY <1>3, <3>1, SnapshotOK DEF Beside
      <3> QED BY <1>3, <2>2, <3>1, <3>2 DEF StoreOK, StoreFields
    <2> QED BY <2>1, <2>2
  <1> HIDE DEF c
  <1>5. /\ tx'.tip = tx.tip /\ tx'.scan = tx.scan /\ tx'.heads = tx.heads
        /\ tx'.pending_commits = tx.pending_commits /\ tx' # None
        /\ tx'.rollback_blocks = tx.rollback_blocks /\ tx'.core_snapshot = c.core_snapshot
    BY <1>1, <1>4, ForgetRows DEF NoneIsNoRecord
  <1>6. ImageAgrees(tx', U32Max)
    <2>1. CASE tx'.core_snapshot = None
      BY <2>1 DEF ImageAgrees
    <2>2. CASE tx'.core_snapshot # None
      <3>1. /\ tx'.core_snapshot = tx.core_snapshot /\ ImageAgrees(tx, rewind.height)
        BY <1>3, <1>4, <1>5, <2>2
      <3> DEFINE i == tx.core_snapshot.tip
      <3>2. /\ tx.tip # None /\ i.height <= tx.tip.height
            /\ i.height <= rewind.height => Scanned(tx, i.height, i.hash)
            /\ i.height = tx.tip.height => ImageIsRows(tx)
        BY <2>2, <3>1 DEF ImageAgrees
      <3>3. i.height \in Int /\ tx.tip.height \in Int
        BY <1>3, <2>2, <3>1, <3>2, ImageHeight
      <3>4. i.height <= rewind.height
        <4>1. rewind.height \in Int /\ ~(tx.tip.height > rewind.height)
          BY <1>1, <3>2, HeightFacts DEF Above, BranchInv
        <4> QED BY <3>2, <3>3, <4>1
      <3>5. Scanned(tx', i.height, i.hash)
        BY <1>5, <3>2, <3>4 DEF Scanned
      <3>6. ImageIsRows(tx) => ImageIsRows(tx')
        BY <1>5, <3>1 DEF ImageIsRows
      <3> QED BY <1>5, <3>1, <3>2, <3>5, <3>6 DEF ImageAgrees
    <2> QED BY <2>1, <2>2
  <1>7. RecordsInv'
    BY <1>1, <1>2, <1>3, <1>5 DEF RecordsInv, Synced, Current_store, reducer_tip, vars
  <1>8. ImagesInv'
    BY <1>1, <1>6 DEF RowsInv, ImagesInv
  <1> QED BY <1>7, <1>8 DEF RowsInv

LEMMA RowsRewindReset ==
    ASSUME NoneIsNoRecord, StoreInv, RowsInv, RewindReset
    PROVE  RowsInv'
  <1> DEFINE r == reset_for_replay(tx)
  <1>1. /\ rewind # None /\ rewind' = None /\ block' = None /\ FreshMemory
        /\ tx' = forget_wallet_commits(r, rewind.height)
        /\ disk' = disk /\ delta' = delta /\ torn' = torn /\ up' = up
    BY DEF RewindReset, FreshMemory
  <1>2. tx # None /\ delta = None /\ ~torn /\ StoreOK(tx)
    BY <1>1 DEF StoreInv, StoresInv, CallsInv
  <1>3. /\ StoreOK(r) /\ r.tip = None /\ r.heads = EmptyMap /\ r.pending_commits = EmptyMap
        /\ r.core_snapshot = None
    BY <1>2, ResetOK DEF reset_for_replay, StoreOK, StoreFields
  <1> HIDE DEF r
  <1>4. /\ tx'.tip = None /\ tx'.heads = EmptyMap /\ tx'.pending_commits = EmptyMap
        /\ tx'.core_snapshot = None /\ tx' # None
    BY <1>1, <1>3, ForgetRows DEF NoneIsNoRecord
  <1>5. /\ reducer_tip' = None /\ db'.heads = EmptyMap /\ db'.commits = EmptyMap
        /\ Elems(history') = {}
    BY <1>1 DEF FreshMemory, reducer_tip, rebuild_derived_indexes, Elems
  <1>6. RecordsInv'
    BY <1>1, <1>2, <1>4, <1>5 DEF RecordsInv, Synced, RowsMatch, Current_store
  <1>7. ImagesInv'
    BY <1>1, <1>2, <1>4 DEF RowsInv, ImagesInv, ImageAgrees
  <1> QED BY <1>6, <1>7 DEF RowsInv

LEMMA RowsRecord ==
    ASSUME NoneIsNoRecord, StoreInv, RowsInv, RecordWalletCommit
    PROVE  RowsInv'
  <1>1. /\ up /\ tx # None /\ block = None /\ delta = None /\ rewind = None /\ ~torn
        /\ vars' = vars /\ disk' = disk /\ delta' = delta /\ torn' = torn
        /\ rewind' = rewind /\ up' = up
    BY DEF RecordWalletCommit, Idle
  <1>2. PICK p \in CommitsIn(tx.scan[Len(tx.scan)]) :
           tx' = record_wallet_commit(tx, p[1], p[2])
    BY DEF RecordWalletCommit
  <1>3. StoreOK(tx) /\ Synced(tx) /\ ImageAgrees(tx, U32Max)
    BY <1>1 DEF StoreInv, StoresInv, RowsInv, RecordsInv, ImagesInv, Current_store
  <1>4. /\ tx'.tip = tx.tip /\ tx'.scan = tx.scan /\ tx'.heads = tx.heads
        /\ tx'.pending_commits = tx.pending_commits /\ DOMAIN tx' = StoreFields
        /\ tx'.rollback_blocks = tx.rollback_blocks /\ tx'.core_snapshot = tx.core_snapshot
    BY <1>2, <1>3 DEF record_wallet_commit, StoreOK, StoreFields
  <1>5. tx' # None /\ \A height, hash : Scanned(tx, height, hash) => Scanned(tx', height, hash)
    BY <1>4 DEF NoneIsNoRecord, Scanned
  <1>6. ImageAgrees(tx', U32Max)
    BY <1>3, <1>4, <1>5, SameImageAgrees
  <1>7. RecordsInv'
    BY <1>1, <1>3, <1>4, <1>5 DEF RecordsInv, Synced, Current_store, reducer_tip, vars
  <1>8. ImagesInv'
    BY <1>1, <1>6 DEF RowsInv, ImagesInv
  <1> QED BY <1>7, <1>8 DEF RowsInv

\* Opening, beginning, committing, losing a batch and a failed statement move
\* whole databases.
LEMMA RowsMoved ==
    ASSUME NoneIsNoRecord, StoreInv, RowsInv
    PROVE  /\ \A id \in Identities : Open(id) \/ BeginTransaction(id) => RowsInv'
           /\ Commit => RowsInv'
           /\ BatchLost /\ disk' = disk => RowsInv'
           /\ DeltaFails => RowsInv'
           /\ UNCHANGED hostVars \/ ReleaseSavepoint => RowsInv'
  <1>1. ASSUME NEW id \in Identities, Open(id) PROVE RowsInv'
    <2>1. /\ conn = None /\ tx' = tx /\ delta' = delta /\ up' = up
          /\ torn' = torn /\ rewind' = rewind /\ vars' = vars
          /\ disk' = disk \/ disk' = NewStore(id)
      BY <1>1 DEF Open
    <2>2. tx = None /\ ~up /\ delta = None /\ block = None
      BY <2>1 DEF StoreInv, CallsInv
    <2>3. ImageAgrees(NewStore(id), U32Max)
      BY DEF ImageAgrees, NewStore
    <2>4. RecordsInv'
      BY <2>1, <2>2 DEF RecordsInv, vars
    <2>5. ImagesInv'
      BY <2>1, <2>2, <2>3 DEF RowsInv, ImagesInv
    <2> QED BY <2>4, <2>5 DEF RowsInv
  <1>2. ASSUME NEW id \in Identities, BeginTransaction(id) PROVE RowsInv'
    <2>1. /\ tx = None /\ tx' = disk /\ disk' = disk /\ up' = up
          /\ delta' = delta /\ torn' = torn /\ rewind' = rewind /\ vars' = vars /\ conn # None
      BY <1>2 DEF BeginTransaction
    <2>2. delta = None /\ rewind = None /\ block = None /\ disk # None
      BY <2>1 DEF StoreInv, CallsInv, StoresInv
    <2>3. RecordsInv'
      BY <2>1, <2>2 DEF RowsInv, RecordsInv, Synced, Current_store, reducer_tip, vars
    <2>4. ImagesInv'
      BY <2>1, <2>2 DEF RowsInv, ImagesInv
    <2> QED BY <2>3, <2>4 DEF RowsInv
  <1>3. ASSUME Commit PROVE RowsInv'
    <2>1. /\ tx # None /\ up /\ block = None /\ delta = None /\ rewind = None /\ ~torn
          /\ disk' = tx /\ tx' = None /\ vars' = vars /\ delta' = delta /\ rewind' = rewind
          /\ up' = up
      BY <1>3 DEF Commit, Idle
    <2>2. RecordsInv'
      BY <2>1 DEF RowsInv, RecordsInv, Synced, Current_store, reducer_tip, vars
    <2>3. ImagesInv'
      BY <2>1 DEF RowsInv, ImagesInv
    <2> QED BY <2>2, <2>3 DEF RowsInv
  <1>4. ASSUME BatchLost, disk' = disk PROVE RowsInv'
    BY <1>4 DEF BatchLost, FreshMemory, RowsInv, RecordsInv, ImagesInv
  <1>5. ASSUME DeltaFails PROVE RowsInv'
    <2>1. /\ delta # None /\ torn' /\ vars' = vars /\ disk' = disk /\ delta' = delta
      BY <1>5 DEF DeltaFails
    <2>2. block = None
      BY <2>1 DEF StoreInv, CallsInv
    <2> QED BY <2>1, <2>2 DEF RowsInv, RecordsInv, ImagesInv, vars
  <1>6. ASSUME UNCHANGED hostVars \/ ReleaseSavepoint PROVE RowsInv'
    <2>1. /\ vars' = vars /\ disk' = disk /\ tx' = tx /\ delta' = delta /\ torn' = torn
          /\ rewind' = rewind /\ up' = up
      BY <1>6 DEF hostVars, storeVars, ReleaseSavepoint
    <2>2. RecordsInv'
      BY <2>1 DEF RowsInv, RecordsInv, Synced, Current_store, reducer_tip, vars, RowsBefore,
                  LastUndo, Earlier, delta_from_undo
    <2>3. ImagesInv'
      BY <2>1 DEF RowsInv, ImagesInv
    <2> QED BY <2>2, <2>3 DEF RowsInv
  <1> QED BY <1>1, <1>2, <1>3, <1>4, <1>5, <1>6

LEMMA RowsStep ==
    ASSUME NoneIsNoRecord, adapter = "wallet", StoreInv, BranchInv, RowsInv, [SNext]_hostVars
    PROVE  RowsInv'
  <1>1. ASSUME NEW b \in Block, SBeginBlock(b) PROVE RowsInv'
    BY <1>1, RowsBegin
  <1>2. CASE ReplayScanned
    <2>1. PICK i \in DOMAIN tx.scan : SBeginBlock(tx.scan[i])
      BY <1>2 DEF ReplayScanned
    <2>2. tx.scan \in Seq(Block)
      BY <2>1 DEF SBeginBlock, Idle, StoreInv, StoresInv, StoreOK
    <2>3. tx.scan[i] \in Block
      BY <2>1, <2>2
    <2> QED BY <1>1, <2>1, <2>3
  <1>3. ~BlockFails /\ \A hash : ~ReorganizeTip(hash)
    BY DEF BlockFails, ReorganizeTip, StoreInv, CallsInv
  <1>4. CASE AbortBatch \/ Crash
    BY <1>4, RowsMoved DEF AbortBatch, Crash
  <1>5. CASE HostStep
    <2>1. \/ \E id \in Identities : Open(id) \/ BeginTransaction(id)
          \/ Resume \/ SApplyTransaction \/ SEndBlock \/ StoreDelta \/ ReleaseSavepoint
          \/ AbortBatch
          \/ RewindStep \/ RewindEnd \/ RewindReset \/ Commit
      BY <1>5 DEF HostStep
    <2> QED BY <2>1, <1>4, RowsMoved, RowsResume, RowsApply, RowsEnd, RowsDelta,
               RowsRewindStep, RowsRewindEnd, RowsRewindReset
  <1>6. SNext \/ UNCHANGED hostVars
    OBVIOUS
  <1> QED BY <1>1, <1>2, <1>3, <1>4, <1>5, <1>6, RowsMoved, RowsPutSnapshot, RowsRecord,
             RowsFinalize, RowsWalletRewind DEF SNext

HostInv == StoreInv /\ BranchInv /\ RowsInv

LEMMA HostStepInv ==
    ASSUME NoneIsNoRecord, adapter = "wallet"
    PROVE  HostInv /\ [SNext]_hostVars => HostInv'
  BY StoreStep, BranchStep, RowsStep DEF HostInv

LEMMA HostInit == SInit => HostInv
  BY StoreInit, BranchInit, RowsInit DEF HostInv

\* With the wallet's adapter the stored tip is the reducer's tip and the head
\* and COMMIT rows are its records, in the open transaction between two calls
\* and in the committed database between two transactions, after deltas,
\* failed statements, rewinds, resets, finalizations and restarts from a
\* stored image (apply_delta, rollback_to_height_or_reset, load_snapshot).
THEOREM RowsAreTheRecords ==
    ASSUME NoneIsNoRecord, adapter = "wallet"
    PROVE  SSpec => []RowsAreRecords
  <1>1. HostInv => RowsAreRecords
    <2> SUFFICES ASSUME HostInv, up, Settled
                 PROVE  LET s == IF tx # None THEN tx ELSE disk
                        IN  /\ s.tip = reducer_tip
                            /\ Records(s) = [heads |-> db.heads, commits |-> db.commits]
      BY DEF RowsAreRecords
    <2>1. Synced(Current_store)
      BY DEF HostInv, RowsInv, RecordsInv, Settled
    <2> QED BY <2>1 DEF Synced, Current_store, Records
  <1> QED BY <1>1, HostInit, HostStepInv, PTL DEF SSpec

\* With the wallet's adapter a snapshot that a restart would load describes the
\* rows beside it: put_core_snapshot wrote it for these rows, and no delta or
\* rewind has come back to its tip since (put_core_snapshot, rollback_to_height).
THEOREM SnapshotsAreOfRows ==
    ASSUME NoneIsNoRecord, adapter = "wallet"
    PROVE  SSpec => []SnapshotIsOfRows
  <1>1. HostInv => SnapshotIsOfRows
    <2> SUFFICES ASSUME HostInv, NEW s \in Views, SnapshotCurrent(s)
                 PROVE  [heads |-> s.core_snapshot.heads, commits |-> s.core_snapshot.commits]
                           = Records(s)
      BY DEF SnapshotIsOfRows
    <2>1. ImageAgrees(s, U32Max)
      BY DEF Views, Settled, HostInv, RowsInv, ImagesInv
    <2>2. ImageIsRows(s)
      BY <2>1 DEF ImageAgrees, SnapshotCurrent
    <2> QED BY <2>2 DEF ImageIsRows, Records
  <1> QED BY <1>1, HostInit, HostStepInv, PTL DEF SSpec

\* A stored snapshot of the wallet is never of a branch it has left: a rewind
\* that moves the tip clears it, and one that does not leaves its block scanned
\* (rollback_to_height).
THEOREM SnapshotsAreOnBranch ==
    ASSUME NoneIsNoRecord
    PROVE  SSpec => []SnapshotOnBranch
  <1>1. CASE adapter = "wallet"
    <2>1. HostInv => SnapshotOnBranch
      <3> SUFFICES ASSUME HostInv, NEW s \in Views, s.core_snapshot # None
                   PROVE  LET t == s.core_snapshot.tip
                          IN  /\ ScanIndex(t.height) \in DOMAIN s.scan
                              /\ s.scan[ScanIndex(t.height)].hash = t.hash
        BY DEF SnapshotOnBranch
      <3>1. ImageAgrees(s, U32Max) /\ StoreOK(s)
        BY DEF Views, Settled, HostInv, RowsInv, ImagesInv, StoreInv, StoresInv
      <3>2. Scanned(s, s.core_snapshot.tip.height, s.core_snapshot.tip.hash)
        BY <3>1, ImageHeight DEF ImageAgrees
      <3>3. DOMAIN s.scan = 1 .. Len(s.scan)
        BY <3>1 DEF StoreOK
      <3> QED BY <3>2, <3>3 DEF Scanned
    <2> QED BY <1>1, <2>1, HostInit, HostStepInv, PTL DEF SSpec
  <1>2. CASE adapter # "wallet"
    <2>1. SnapshotOnBranch
      BY <1>2 DEF SnapshotOnBranch
    <2> QED BY <2>1, PTL
  <1> QED BY <1>1, <1>2

-----------------------------------------------------------------------------
(***************************************************************************)
(* The deltas, with the wallet's adapter.  apply_delta checks every record *)
(* of a delta against the tip it belongs to: the current ones against the  *)
(* block's height, the previous ones against its parent's.  The previous   *)
(* ones may have come back from any number of rewinds and from a stored    *)
(* image, so the invariant is about every tip the undo records lead back   *)
(* to: a record they do not replace on the way is no younger than that     *)
(* tip.                                                                    *)
(***************************************************************************)
HeadSound(head, tip) ==
    /\ tip # None /\ validate_head(head, tip)
    /\ head.producer_epoch = epoch(head.producer.height)

AllSound(heads, tip) == \A n \in DOMAIN heads : HeadSound(heads[n], tip)

\* No undo record of a height from low on, or from low on and below high,
\* journals the name.
Unjournaled(n, low, undos) ==
    \A v \in undos : v.previous_next_height >= low => n \notin DOMAIN v.heads

UnjournaledBelow(n, low, high, undos) ==
    \A v \in undos : (v.previous_next_height >= low /\ v.previous_next_height < high)
                        => n \notin DOMAIN v.heads

\* The heads of today that a rollback through u leaves are sound below u, and
\* so is what an undo record puts back when no earlier one replaces it again.
HeadsReach(heads, undos) ==
    \A n \in DOMAIN heads, u \in undos :
        Unjournaled(n, u.previous_next_height, undos)
            => HeadSound(heads[n], u.previous_tip_height)

UndoReaches(w, u, undos) ==
    \A n \in DOMAIN w.heads :
        (w.heads[n] # None
           /\ UnjournaledBelow(n, u.previous_next_height, w.previous_next_height, undos))
             => HeadSound(w.heads[n], u.previous_tip_height)

UndosReach(undos) ==
    \A w, u \in undos :
        u.previous_next_height <= w.previous_next_height => UndoReaches(w, u, undos)

Past(heads, undos, tip) ==
    AllSound(heads, tip) /\ HeadsReach(heads, undos) /\ UndosReach(undos)

IntHeights(undos) == \A u \in undos : u.previous_next_height \in Int

\* The undo record of the block just applied joins the others.
LEMMA PastExtends ==
    ASSUME NEW heads, NEW undos, NEW u, NEW height, Proper(heads), IntHeights(undos),
           u.previous_next_height \in Int,
           \A v \in undos : v.previous_next_height < u.previous_next_height,
           Past(Updated(heads, u.heads), undos, u.previous_tip_height),
           AllSound(heads, height)
    PROVE  Past(heads, undos \cup {u}, height)
  <1> DEFINE base == Updated(heads, u.heads)
             all == undos \cup {u}
             at == u.previous_next_height
  <1>1. /\ \A k : k \in DOMAIN base <=> \/ k \in DOMAIN u.heads /\ u.heads[k] # None
                                        \/ k \in DOMAIN heads /\ k \notin DOMAIN u.heads
        /\ \A k \in DOMAIN base : base[k] = IF k \in DOMAIN u.heads THEN u.heads[k] ELSE heads[k]
    BY UpdatedFacts
  <1>2. /\ AllSound(base, u.previous_tip_height) /\ HeadsReach(base, undos)
        /\ UndosReach(undos)
    BY DEF Past
  <1> HIDE DEF base
  <1>3. HeadsReach(heads, all)
    <2> SUFFICES ASSUME NEW n \in DOMAIN heads, NEW v \in all,
                        Unjournaled(n, v.previous_next_height, all)
                 PROVE  HeadSound(heads[n], v.previous_tip_height)
      BY DEF HeadsReach
    <2>1. at >= v.previous_next_height
      BY DEF IntHeights
    <2>2. n \notin DOMAIN u.heads
      BY <2>1 DEF Unjournaled
    <2>3. n \in DOMAIN base /\ base[n] = heads[n]
      BY <1>1, <2>2
    <2>4. CASE v = u
      BY <1>2, <2>3, <2>4 DEF AllSound
    <2>5. CASE v \in undos
      <3>1. Unjournaled(n, v.previous_next_height, undos)
        BY DEF Unjournaled
      <3> QED BY <1>2, <2>3, <2>5, <3>1 DEF HeadsReach
    <2> QED BY <2>4, <2>5
  <1>4. UndosReach(all)
    <2> SUFFICES ASSUME NEW w \in all, NEW v \in all,
                        v.previous_next_height <= w.previous_next_height,
                        NEW n \in DOMAIN w.heads, w.heads[n] # None,
                        UnjournaledBelow(n, v.previous_next_height, w.previous_next_height, all)
                 PROVE  HeadSound(w.heads[n], v.previous_tip_height)
      BY DEF UndosReach, UndoReaches
    <2>1. CASE w = u /\ v = u
      <3>1. n \in DOMAIN base /\ base[n] = u.heads[n]
        BY <1>1, <2>1
      <3> QED BY <1>2, <2>1, <3>1 DEF AllSound
    <2>2. CASE w = u /\ v \in undos
      <3>1. n \in DOMAIN base /\ base[n] = u.heads[n]
        BY <1>1, <2>2
      <3>2. Unjournaled(n, v.previous_next_height, undos)
        BY <2>2 DEF Unjournaled, UnjournaledBelow
      <3> QED BY <1>2, <2>2, <3>1, <3>2 DEF HeadsReach
    <2>3. CASE w \in undos
      <3>1. v \in undos
        BY <2>3 DEF IntHeights
      <3>2. UnjournaledBelow(n, v.previous_next_height, w.previous_next_height, undos)
        BY DEF UnjournaledBelow
      <3> QED BY <1>2, <2>3, <3>1, <3>2 DEF UndosReach, UndoReaches
    <2> QED BY <2>1, <2>2, <2>3
  <1> QED BY <1>3, <1>4 DEF Past

\* The last block taken back.
LEMMA PastRollsBack ==
    ASSUME NEW heads, NEW undos, NEW u, NEW tip, Proper(heads), IntHeights(undos),
           u.previous_next_height \in Int,
           \A v \in undos : v.previous_next_height < u.previous_next_height,
           Past(heads, undos \cup {u}, tip)
    PROVE  Past(Updated(heads, u.heads), undos, u.previous_tip_height)
  <1> DEFINE base == Updated(heads, u.heads)
             all == undos \cup {u}
             at == u.previous_next_height
  <1>1. /\ \A k : k \in DOMAIN base <=> \/ k \in DOMAIN u.heads /\ u.heads[k] # None
                                        \/ k \in DOMAIN heads /\ k \notin DOMAIN u.heads
        /\ \A k \in DOMAIN base : base[k] = IF k \in DOMAIN u.heads THEN u.heads[k] ELSE heads[k]
    BY UpdatedFacts
  <1>2. HeadsReach(heads, all) /\ UndosReach(all)
    BY DEF Past
  <1> HIDE DEF base
  <1>3. ASSUME NEW n \in DOMAIN base, NEW v \in all,
               Unjournaled(n, v.previous_next_height, undos)
        PROVE  HeadSound(base[n], v.previous_tip_height)
    <2>1. CASE n \in DOMAIN u.heads
      <3>1. base[n] = u.heads[n] /\ u.heads[n] # None
        BY <1>1, <2>1
      <3>2. UnjournaledBelow(n, v.previous_next_height, at, all)
        BY <1>3 DEF Unjournaled, UnjournaledBelow
      <3>3. v.previous_next_height <= at
        BY DEF IntHeights
      <3>4. UndoReaches(u, v, all)
        BY <1>2, <3>3 DEF UndosReach
      <3> QED BY <2>1, <3>1, <3>2, <3>4 DEF UndoReaches
    <2>2. CASE n \notin DOMAIN u.heads
      <3>1. n \in DOMAIN heads /\ base[n] = heads[n]
        BY <1>1, <2>2
      <3>2. Unjournaled(n, v.previous_next_height, all)
        BY <1>3, <2>2 DEF Unjournaled
      <3> QED BY <1>2, <3>1, <3>2 DEF HeadsReach
    <2> QED BY <2>1, <2>2
  <1>4. AllSound(base, u.previous_tip_height)
    <2>1. \A n : Unjournaled(n, at, undos)
      BY DEF Unjournaled, IntHeights
    <2> QED BY <1>3, <2>1 DEF AllSound
  <1>5. HeadsReach(base, undos)
    BY <1>3 DEF HeadsReach
  <1>6. UndosReach(undos)
    <2> SUFFICES ASSUME NEW w \in undos, NEW v \in undos,
                        v.previous_next_height <= w.previous_next_height,
                        NEW n \in DOMAIN w.heads, w.heads[n] # None,
                        UnjournaledBelow(n, v.previous_next_height, w.previous_next_height,
                                         undos)
                 PROVE  HeadSound(w.heads[n], v.previous_tip_height)
      BY DEF UndosReach, UndoReaches
    <2>1. UnjournaledBelow(n, v.previous_next_height, w.previous_next_height, all)
      BY DEF UnjournaledBelow, IntHeights
    <2> QED BY <1>2, <2>1 DEF UndosReach, UndoReaches
  <1> QED BY <1>4, <1>5, <1>6 DEF Past, base

\* The lowest undo records dropped.
LEMMA PastFinalized ==
    ASSUME NEW heads, NEW undos, NEW kept, NEW tip, IntHeights(undos), kept \subseteq undos,
           \A v \in undos \ kept, u \in kept :
               v.previous_next_height < u.previous_next_height,
           Past(heads, undos, tip)
    PROVE  Past(heads, kept, tip)
  <1>1. HeadsReach(heads, undos) /\ UndosReach(undos) /\ AllSound(heads, tip)
    BY DEF Past
  <1>2. HeadsReach(heads, kept)
    <2> SUFFICES ASSUME NEW n \in DOMAIN heads, NEW v \in kept,
                        Unjournaled(n, v.previous_next_height, kept)
                 PROVE  HeadSound(heads[n], v.previous_tip_height)
      BY DEF HeadsReach
    <2>1. Unjournaled(n, v.previous_next_height, undos)
      BY DEF Unjournaled, IntHeights
    <2> QED BY <1>1, <2>1 DEF HeadsReach
  <1>3. UndosReach(kept)
    <2> SUFFICES ASSUME NEW w \in kept, NEW v \in kept,
                        v.previous_next_height <= w.previous_next_height,
                        NEW n \in DOMAIN w.heads, w.heads[n] # None,
                        UnjournaledBelow(n, v.previous_next_height, w.previous_next_height, kept)
                 PROVE  HeadSound(w.heads[n], v.previous_tip_height)
      BY DEF UndosReach, UndoReaches
    <2>1. UnjournaledBelow(n, v.previous_next_height, w.previous_next_height, undos)
      BY DEF UnjournaledBelow, IntHeights
    <2> QED BY <1>1, <2>1 DEF UndosReach, UndoReaches
  <1> QED BY <1>1, <1>2, <1>3 DEF Past

-----------------------------------------------------------------------------
\* A head at the start of the next block.
LEMMA MarkedSound ==
    ASSUME NEW head \in HeadRecord, NEW tip \in Height, NEW height \in Height,
           height = tip + 1, HeadSound(head, tip)
    PROVE  HeadSound(Marked(head, height), height)
  <1> DEFINE m == Marked(head, height)
  <1>1. /\ tip \in Nat /\ height \in Nat /\ head.producer.height \in Nat
        /\ head.expiry_height \in Nat /\ head.expiry_height \in Height /\ height # None
        /\ head.terminal_height # None => head.terminal_height \in Nat
    BY ValuesAssumption, ParametersAssumption DEF HeadRecord, StateRef, Height, Option
  <1>2. CASE head.terminal_height = None /\ head.expiry_height <= height
    <2>1. /\ m.terminal_height = head.expiry_height /\ m.producer = head.producer
          /\ m.producer_epoch = head.producer_epoch
          /\ m.expiry_height = head.expiry_height
      BY <1>1, <1>2, EndedAtType DEF Marked
    <2> HIDE DEF m
    <2>2. HeadSound(m, height)
      BY <1>1, <1>2, <2>1 DEF HeadSound, validate_head
    <2> QED BY <2>2 DEF m
  <1>3. CASE ~(head.terminal_height = None /\ head.expiry_height <= height)
    <2>1. m = head
      BY <1>3 DEF Marked
    <2> QED BY <1>1, <2>1 DEF HeadSound, validate_head
  <1> QED BY <1>2, <1>3

LEMMA BeginSound ==
    ASSUME MemOK, Coherent(db), NEW b \in Block, BeginBlock(b, {}),
           AllSound(db.heads, tip_height)
    PROVE  AllSound(db'.heads, b.height)
  <1> DEFINE w == [db |-> db, undo |-> new_undo(b)]
             ch == supplied({})
  <1>1. /\ db' = BlockStart(w, b.height, ch).db /\ b.height = next_height
    BY DEF BeginBlock, BlockStart
  <1>2. b.height \in Height /\ MapOf(ch, CommitRef, Commitments)
    BY SuppliedType DEF Block
  <1>3. Coherent(w.db) /\ w.db = db
    OBVIOUS
  <1>4. DbOK(db)
    BY DEF MemOK, TypeInv, TypeOK, DbOK
  <1>5. PairOK(w)
    <2>1. /\ MapOf(EmptyMap, CommitRef, Option(Commitments))
          /\ MapOf(EmptyMap, NameIds, Option(HeadRecord))
      BY DEF MapOf, EmptyMap
    <2>2. /\ previous_hash \in Hashes /\ next_height \in Height /\ b.hash \in Hashes
          /\ tip_height \in Option(Height)
      BY <1>1, <1>2 DEF MemOK, TypeInv, TypeOK, Block
    <2>3. UndoOK(new_undo(b)) /\ DOMAIN new_undo(b) = UndoFields
      BY <1>2, <2>1, <2>2 DEF UndoOK, new_undo, UndoFields
    <2> QED BY <1>4, <2>3 DEF PairOK
  <1> HIDE DEF w, ch
  <1>6. \A n \in DOMAIN db'.heads : /\ n \in DOMAIN db.heads
                                    /\ db'.heads[n] = Marked(db.heads[n], b.height)
    BY <1>1, <1>2, <1>3, <1>5, BlockStartRecords
  <1> SUFFICES ASSUME NEW n \in DOMAIN db'.heads
               PROVE  HeadSound(db'.heads[n], b.height)
    BY DEF AllSound
  <1>7. n \in DOMAIN db.heads /\ HeadSound(db.heads[n], tip_height) /\ db.heads[n] \in HeadRecord
    BY <1>4, <1>6, HeadTypes DEF AllSound
  <1>8. tip_height # None
    BY <1>7 DEF HeadSound
  <1>9. tip_height \in Height /\ b.height = tip_height + 1
    <2>1. tip_height \in Height
      BY <1>8 DEF MemOK, TypeInv, TypeOK, Option
    <2>2. next_height = IF tip_height < U32Max THEN tip_height + 1 ELSE None
      BY <1>8 DEF MemOK, TipValid
    <2> QED BY <1>1, <1>2, <2>1, <2>2, HeightFacts
  <1> QED BY <1>2, <1>6, <1>7, <1>9, MarkedSound

\* A transaction ends heads at its block's height and installs heads of it.
LEMMA ApplySound ==
    ASSUME MemOK, Coherent(db), ApplyTransaction, AllSound(db.heads, block.height)
    PROVE  AllSound(db'.heads, block.height)
  <1> DEFINE w == [db |-> db, undo |-> undo]
             t == block.transactions[pos + 1]
             h == block.height
  <1>1. /\ block # None /\ db' = apply_transaction(w, h, t).db
    BY DEF ApplyTransaction
  <1>2. t \in Transaction
    BY TransactionInBlock DEF ApplyTransaction, MemOK, TypeInv, TypeOK, BlockOK
  <1>3. h \in Height
    BY <1>1 DEF MemOK, TypeInv, TypeOK, Option, Block
  <1>4. DbOK(db)
    BY DEF MemOK, TypeInv, TypeOK, DbOK
  <1>5. PairOK(w) /\ Coherent(w.db) /\ w.db = db
    BY <1>1, <1>4 DEF MemOK, TypeInv, TypeOK, PairOK
  <1>6. EpochsKept(w.db)
    BY <1>5 DEF EpochsKept, AllSound, HeadSound
  <1> HIDE DEF w, t, h
  <1>7. LET op == t.operation
        IN  /\ \A n : n \in DOMAIN db'.heads <=>
                        n \in DOMAIN db.heads \/ (Installs(db, h, t) /\ n = op.name)
            /\ Installs(db, h, t) => db'.heads[op.name] = NewHead(h, t)
            /\ \A n \in DOMAIN db.heads :
                 ~(Installs(db, h, t) /\ n = op.name) =>
                   db'.heads[n] = IF /\ db.heads[n].terminal_height = None
                                     /\ db.heads[n].future_nf \in Nullifiers(t)
                                  THEN EndedAt(db.heads[n], h) ELSE db.heads[n]
    BY <1>1, <1>2, <1>3, <1>5, <1>6, TransactionHeads
  <1>8. h \in Nat /\ h # None
    BY <1>3, ValuesAssumption, ParametersAssumption DEF Height
  <1> SUFFICES ASSUME NEW n \in DOMAIN db'.heads PROVE HeadSound(db'.heads[n], h)
    BY DEF AllSound, h
  <1>9. CASE Installs(db, h, t) /\ n = t.operation.name
    <2>1. db'.heads[n] = NewHead(h, t)
      BY <1>7, <1>9
    <2>2. expiry(h) >= h
      BY <1>8, ParameterFacts DEF expiry
    <2> QED BY <1>8, <2>1, <2>2 DEF NewHead, HeadSound, validate_head
  <1>10. CASE ~(Installs(db, h, t) /\ n = t.operation.name)
    <2> DEFINE head == db.heads[n]
    <2>1. n \in DOMAIN db.heads /\ head \in HeadRecord /\ HeadSound(head, h)
      BY <1>4, <1>7, <1>10, HeadTypes DEF AllSound, h
    <2>2. head.producer.height \in Nat /\ head.producer.height <= h
      BY <2>1, <1>8, ParametersAssumption
      DEF HeadRecord, StateRef, Height, HeadSound, validate_head
    <2>3. CASE db'.heads[n] = head
      BY <2>1, <2>3
    <2>4. CASE db'.heads[n] = EndedAt(head, h)
      <3> DEFINE m == EndedAt(head, h)
      <3>1. /\ m.terminal_height = h /\ m.producer = head.producer
            /\ m.producer_epoch = head.producer_epoch
            /\ m.expiry_height = head.expiry_height
        BY <1>3, <2>1, EndedAtType
      <3> HIDE DEF m, head
      <3>2. HeadSound(m, h)
        BY <1>8, <2>1, <2>2, <3>1 DEF HeadSound, validate_head
      <3> QED BY <2>4, <3>2 DEF m, head
    <2> QED BY <1>7, <1>10, <2>1, <2>3, <2>4
  <1> QED BY <1>9, <1>10

-----------------------------------------------------------------------------
\* While a block is applied its undo record leads back to the parent's heads.
MemPast ==
    /\ Coherent(db)
    /\ block = None => Past(db.heads, Elems(history), tip_height)
    /\ block # None => /\ Past(Updated(db.heads, undo.heads), Elems(history), tip_height)
                       /\ AllSound(db.heads, block.height)
                       /\ undo.previous_hash = previous_hash
                       /\ block.hash # previous_hash

ImageSound(s) ==
    s.core_snapshot # None =>
        Past(s.core_snapshot.heads, Elems(s.core_snapshot.history),
             s.core_snapshot.tip.height)

PastInv ==
    /\ MemPast
    /\ disk # None => ImageSound(disk)
    /\ (tx # None /\ ~torn) => ImageSound(tx)
    /\ (delta # None /\ ~torn) => LastUndo.previous_hash # previous_hash

LEMMA NothingPast == \A tip : Past(EmptyMap, {}, tip)
  BY DEF Past, AllSound, HeadsReach, UndosReach, EmptyMap

LEMMA RebuiltCoherent ==
    ASSUME NEW c, NEW h, MapOf(c, CommitRef, Commitments), MapOf(h, NameIds, HeadRecord)
    PROVE  Coherent(rebuild_derived_indexes([commits |-> c, heads |-> h]))
  <1>1. Proper(c) /\ Proper(h)
    BY ValuesAssumption DEF MapOf, Proper
  <1> QED BY <1>1 DEF Coherent, Shape, CommitsIndexed, HeadsIndexed, rebuild_derived_indexes

LEMMA PastFresh ==
    ASSUME FreshMemory
    PROVE  MemPast'
  <1>1. MapOf(EmptyMap, CommitRef, Commitments) /\ MapOf(EmptyMap, NameIds, HeadRecord)
    BY DEF MapOf, EmptyMap
  <1>2. Coherent(db')
    BY <1>1, RebuiltCoherent DEF FreshMemory
  <1>3. db'.heads = EmptyMap /\ Elems(history') = {} /\ block' = None
    BY DEF FreshMemory, rebuild_derived_indexes, Elems
  <1>4. Past(db'.heads, Elems(history'), tip_height')
    BY <1>3, NothingPast
  <1> QED BY <1>2, <1>3, <1>4 DEF MemPast

LEMMA PastLoad ==
    ASSUME NEW s, s.core_snapshot # None, ImageOK(s.core_snapshot), ImageSound(s),
           LoadImage(s.core_snapshot)
    PROVE  MemPast'
  <1> DEFINE i == s.core_snapshot
  <1>1. /\ history' = i.history /\ tip_height' = i.tip.height /\ block' = None
        /\ db' = rebuild_derived_indexes([commits |-> i.commits, heads |-> i.heads])
    BY DEF LoadImage
  <1>2. Coherent(db')
    BY <1>1, RebuiltCoherent DEF ImageOK
  <1>3. db'.heads = i.heads
    BY <1>1 DEF rebuild_derived_indexes
  <1>4. Past(db'.heads, Elems(history'), tip_height')
    BY <1>1, <1>3 DEF ImageSound
  <1> QED BY <1>1, <1>2, <1>4 DEF MemPast

LEMMA PastBegin ==
    ASSUME MemOK, MemPast, NEW b \in Block, OfChain(b), BeginBlock(b, {})
    PROVE  MemPast'
  <1>1. /\ block = None /\ block' = b /\ b # None /\ b.prev_hash = previous_hash
        /\ history' = history /\ tip_height' = tip_height /\ previous_hash' = previous_hash
    BY ValuesAssumption DEF BeginBlock, chainVars
  <1>2. Past(db.heads, Elems(history), tip_height) /\ Coherent(db)
    BY <1>1 DEF MemPast
  <1>3. Coherent(db')
    <2>1. IndexInv
      BY <1>2 DEF IndexInv, BlockOK, MemOK, TypeInv, TypeOK
    <2>2. Next
      BY DEF Next
    <2> QED BY <2>1, <2>2, IndexStep DEF IndexInv
  <1>4. AllSound(db'.heads, b.height)
    BY <1>2, BeginSound DEF Past
  <1>5. /\ undo'.previous_hash = previous_hash
        /\ Updated(db'.heads, undo'.heads) = db.heads
    BY BeginLeadsBack DEF MemOK
  <1>6. b.hash # previous_hash
    BY <1>1 DEF OfChain
  <1> QED BY <1>1, <1>2, <1>3, <1>4, <1>5, <1>6 DEF MemPast

LEMMA PastApply ==
    ASSUME MemOK, MemPast, ApplyTransaction
    PROVE  MemPast'
  <1>1. /\ block # None /\ block' = block /\ history' = history
        /\ tip_height' = tip_height /\ previous_hash' = previous_hash
    BY DEF ApplyTransaction, chainVars
  <1>2. Coherent(db')
    <2>1. IndexInv
      BY DEF MemPast, IndexInv, BlockOK, MemOK, TypeInv, TypeOK
    <2>2. Next
      BY DEF Next
    <2> QED BY <2>1, <2>2, IndexStep DEF IndexInv
  <1>3. AllSound(db'.heads, block.height)
    BY <1>1, ApplySound DEF MemPast
  <1>4. /\ undo'.previous_hash = undo.previous_hash
        /\ Updated(db'.heads, undo'.heads) = Updated(db.heads, undo.heads)
    BY ApplyLeadsBack DEF MemOK
  <1> QED BY <1>1, <1>2, <1>3, <1>4 DEF MemPast

LEMMA UndoHeights ==
    ASSUME MemOK
    PROVE  IntHeights(Elems(history))
  <1>1. \A u \in Elems(history) : u.previous_next_height \in Height
    BY DEF MemOK, UndoTips, UndoOK
  <1> QED BY <1>1, HeightFacts DEF IntHeights

LEMMA PastEnd ==
    ASSUME MemOK, MemPast, EndBlock
    PROVE  /\ MemPast' /\ LastUndo'.previous_hash # previous_hash'
  <1>1. /\ block # None /\ block' = None /\ history' = Append(history, undo)
        /\ tip_height' = block.height /\ previous_hash' = block.hash /\ db' = db
    BY DEF EndBlock
  <1>2. /\ IsSeq(history) /\ UndoTips(undo)
        /\ undo.previous_next_height = block.height /\ undo.previous_tip_height = tip_height
        /\ TipValid(next_height, tip_height) /\ block.height = next_height
        /\ block.height \in Height /\ tip_height \in Option(Height)
    BY <1>1 DEF MemOK, TypeInv, TypeOK, Option, Block
  <1>3. /\ Coherent(db) /\ AllSound(db.heads, block.height)
        /\ Past(Updated(db.heads, undo.heads), Elems(history), undo.previous_tip_height)
        /\ undo.previous_hash = previous_hash /\ block.hash # previous_hash
    BY <1>1, <1>2 DEF MemPast
  <1>4. /\ Elems(history') = Elems(history) \cup {undo} /\ LastUndo' = undo
    <2>1. /\ Len(history) \in Nat /\ Len(history') = Len(history) + 1
          /\ history'[Len(history) + 1] = undo
      BY <1>1, <1>2, AppendFacts
    <2> QED BY <1>1, <1>2, <2>1, ElemsAppend DEF LastUndo
  <1>5. IntHeights(Elems(history)) /\ undo.previous_next_height \in Int
    BY <1>2, UndoHeights, HeightFacts
  <1>6. \A v \in Elems(history) : v.previous_next_height < undo.previous_next_height
    <2> SUFFICES ASSUME NEW v \in Elems(history)
                 PROVE  v.previous_next_height < block.height
      BY <1>2
    <2> DEFINE L == Len(history)
    <2>1. PICK i \in 1 .. L : v = history[i]
      BY DEF Elems
    <2>2. L \in Nat /\ i \in 1 .. L
      BY <1>2 DEF IsSeq
    <2>3. history # << >>
      BY <2>2
    <2>4. tip_height \in Height /\ v.previous_next_height = tip_height - (L - i)
      BY <2>1, <2>3 DEF MemOK, Stacked
    <2>5. tip_height \in Int /\ block.height = tip_height + 1
      BY <1>2, <2>4, HeightFacts DEF TipValid
    <2> QED BY <2>2, <2>4, <2>5
  <1>7. Past(db.heads, Elems(history) \cup {undo}, block.height)
    <2>1. Proper(db.heads)
      BY <1>3 DEF Coherent
    <2> QED BY <1>3, <1>5, <1>6, <2>1, PastExtends
  <1> QED BY <1>1, <1>3, <1>4, <1>7 DEF MemPast

LEMMA PastRollback ==
    ASSUME MemOK, MemPast, NEW hash, RollbackTip(hash)
    PROVE  MemPast'
  <1>1. /\ block = None /\ block' = None /\ history # << >>
        /\ db' = Restored(db, LastUndo) /\ tip_height' = LastUndo.previous_tip_height
        /\ history' = SubSeq(history, 1, Len(history) - 1)
    BY DEF RollbackTip, callVars, LastUndo
  <1>2. Coherent(db) /\ Past(db.heads, Elems(history), tip_height)
    BY <1>1 DEF MemPast
  <1>3. Coherent(db')
    BY <1>1, <1>2, ReplaceHeadsCoherent, ReplaceCommitsCoherent DEF Restored
  <1>4. db'.heads = Updated(db.heads, LastUndo.heads)
    BY <1>1 DEF Restored, ReplaceHeads, ReplaceCommits
  <1>5. /\ LastUndo.previous_next_height = tip_height /\ tip_height \in Height
        /\ Elems(history) = Earlier \cup {LastUndo}
    BY <1>1, LastAndEarlier
  <1> DEFINE L == Len(history)
  <1>6. /\ L \in Nat /\ L > 0 /\ IsSeq(history) /\ tip_height \in Int
        /\ \A i \in 1 .. L : history[i].previous_next_height = tip_height - (L - i)
    BY <1>1, LastElem, HeightFacts DEF MemOK, TypeInv, Stacked
  <1>7. \A v \in Earlier : v.previous_next_height < tip_height
    <2> SUFFICES ASSUME NEW i \in 1 .. L - 1
                 PROVE  history[i].previous_next_height < tip_height
      BY DEF Earlier
    <2>1. i \in 1 .. L /\ tip_height - (L - i) < tip_height
      BY <1>6
    <2> QED BY <1>6, <2>1
  <1>8. Elems(history') = Earlier
    <2> DEFINE k == L - 1
    <2>1. k \in Nat /\ 1 <= k + 1 /\ k <= L /\ history' = SubSeq(history, 1, k)
      BY <1>1, <1>6
    <2> HIDE DEF k
    <2>2. /\ Len(history') = k + 1 - 1
          /\ \A i \in 1 .. (k + 1 - 1) : history'[i] = history[1 + i - 1]
      BY <1>6, <2>1, SubSeqFacts
    <2>3. Len(history') = k /\ \A i \in 1 .. k : history'[i] = history[i]
      BY <2>1, <2>2
    <2> QED BY <2>3 DEF Elems, Earlier, k
  <1>9. IntHeights(Earlier)
    BY <1>5, UndoHeights DEF IntHeights
  <1>10. Past(db'.heads, Earlier, tip_height')
    <2>1. Proper(db.heads)
      BY <1>2 DEF Coherent
    <2> QED BY <1>1, <1>2, <1>4, <1>5, <1>6, <1>7, <1>9, <2>1, PastRollsBack
  <1> QED BY <1>1, <1>3, <1>8, <1>10 DEF MemPast

LEMMA PastFinalize ==
    ASSUME MemOK, MemPast, NEW height \in Height, FinalizeThrough(height)
    PROVE  MemPast'
  <1>1. /\ block = None /\ block' = None /\ db' = db /\ tip_height' = tip_height
    BY DEF FinalizeThrough, callVars, chainVars
  <1>2. PICK n \in 0 .. Len(history) : history' = SubSeq(history, n + 1, Len(history))
    BY DEF FinalizeThrough
  <1> DEFINE L == Len(history)
             m == n + 1
  <1>3. /\ IsSeq(history) /\ L \in Nat /\ m \in Nat /\ 1 <= m /\ m <= L + 1
    BY DEF MemOK, TypeInv, IsSeq
  <1> HIDE DEF m
  <1>4. /\ Len(history') = L + 1 - m
        /\ \A i \in 1 .. (L + 1 - m) : history'[i] = history[m + i - 1]
    BY <1>2, <1>3, SubSeqFacts DEF m
  <1>5. Elems(history') \subseteq Elems(history)
    BY <1>2, <1>3, ElemsSubSeq DEF m
  <1>6. ASSUME NEW v \in Elems(history) \ Elems(history'), NEW u \in Elems(history')
        PROVE  v.previous_next_height < u.previous_next_height
    <2>1. PICK i \in 1 .. L : v = history[i]
      BY DEF Elems
    <2>2. PICK j \in 1 .. (L + 1 - m) : u = history[m + j - 1]
      BY <1>4 DEF Elems
    <2>3. m + j - 1 \in 1 .. L /\ m + j - 1 >= m
      BY <1>3, <2>2
    <2>4. i < m
      <3> SUFFICES ASSUME i >= m PROVE FALSE
        BY <1>3
      <3>1. i - m + 1 \in 1 .. (L + 1 - m) /\ m + (i - m + 1) - 1 = i
        BY <1>3
      <3>2. v = history'[i - m + 1] /\ i - m + 1 \in 1 .. Len(history')
        BY <1>4, <2>1, <3>1
      <3> QED BY <3>2 DEF Elems
    <2>5. history # << >>
      BY <1>3, <2>1
    <2>6. /\ tip_height \in Int /\ v.previous_next_height = tip_height - (L - i)
          /\ u.previous_next_height = tip_height - (L - (m + j - 1))
      BY <2>1, <2>2, <2>3, <2>5, HeightFacts DEF MemOK, Stacked
    <2> QED BY <1>3, <2>3, <2>4, <2>6
  <1>7. Past(db.heads, Elems(history), tip_height) /\ Coherent(db)
    BY <1>1 DEF MemPast
  <1>8. Past(db.heads, Elems(history'), tip_height)
    BY <1>5, <1>6, <1>7, UndoHeights, PastFinalized
  <1> QED BY <1>1, <1>7, <1>8 DEF MemPast

-----------------------------------------------------------------------------
LEMMA PastInit == SInit => PastInv
  <1> SUFFICES ASSUME SInit PROVE PastInv
    OBVIOUS
  <1>1. Coherent(db) /\ block = None
    BY IndexInit DEF SInit, Init, IndexInv
  <1>2. db.heads = EmptyMap /\ Elems(history) = {}
    BY DEF SInit, Init, Elems
  <1> QED BY <1>1, <1>2, NothingPast DEF PastInv, MemPast, SInit

\* Steps that leave the reducer alone and drop the image or keep it.
LEMMA PastSame ==
    ASSUME PastInv, vars' = vars, disk' = disk, delta' \in {delta, None},
           (tx' # None /\ ~torn') => /\ tx # None /\ ~torn
                                     /\ tx'.core_snapshot \in {None, tx.core_snapshot},
           (delta' # None /\ ~torn') => ~torn
    PROVE  PastInv'
  <1>1. MemPast'
    BY DEF PastInv, MemPast, vars
  <1>2. (tx' # None /\ ~torn') => ImageSound(tx')
    BY DEF PastInv, ImageSound
  <1>3. (delta' # None /\ ~torn') => LastUndo'.previous_hash # previous_hash'
    BY DEF PastInv, LastUndo, vars
  <1> QED BY <1>1, <1>2, <1>3 DEF PastInv

LEMMA PastRows ==
    ASSUME NoneIsNoRecord, StoreInv, PastInv
    PROVE  /\ StoreDelta \/ DeltaFails \/ ReleaseSavepoint => PastInv'
           /\ \A height \in Height : WalletRewind(height) => PastInv'
           /\ RewindEnd \/ RecordWalletCommit \/ UNCHANGED hostVars => PastInv'
  <1>1. ASSUME StoreDelta PROVE PastInv'
    <2>1. /\ delta # None /\ ~torn /\ delta' = None /\ tx' = apply_delta(tx, delta)
          /\ vars' = vars /\ disk' = disk
      BY <1>1 DEF StoreDelta, wallet_apply_delta
    <2>2. tx # None /\ StoreOK(tx)
      BY <2>1 DEF StoreInv, CallsInv, StoresInv
    <2>3. tx'.core_snapshot = tx.core_snapshot
      BY <2>1, <2>2 DEF apply_delta, Written, write_tip, write_head, write_commit,
                        StoreOK, StoreFields
    <2> QED BY <2>1, <2>2, <2>3, PastSame
  <1>2. ASSUME DeltaFails PROVE PastInv'
    <2>1. /\ ~torn /\ torn' /\ delta' = delta /\ vars' = vars /\ disk' = disk
      BY <1>2 DEF DeltaFails
    <2> QED BY <2>1, PastSame
  <1>3. ASSUME ReleaseSavepoint \/ UNCHANGED hostVars PROVE PastInv'
    <2>1. /\ torn' = torn /\ delta' = delta /\ vars' = vars /\ disk' = disk /\ tx' = tx
      BY <1>3 DEF ReleaseSavepoint, hostVars, storeVars
    <2> QED BY <2>1, PastSame
  <1>4. ASSUME NEW height \in Height, WalletRewind(height) PROVE PastInv'
    <2>1. /\ tx # None /\ ~torn /\ torn' = torn /\ delta' = delta /\ vars' = vars
          /\ disk' = disk /\ tx' = ScanThrough(tx, height)
      BY <1>4 DEF WalletRewind, Idle
    <2>2. StoreOK(tx)
      BY <2>1 DEF StoreInv, StoresInv
    <2>3. tx'.core_snapshot = tx.core_snapshot
      BY <2>1, <2>2 DEF ScanThrough, StoreOK, StoreFields
    <2> QED BY <2>1, <2>3, PastSame
  <1>5. ASSUME RewindEnd PROVE PastInv'
    <2>1. /\ rewind # None /\ torn' = torn /\ delta' = delta /\ vars' = vars /\ disk' = disk
          /\ tx' = forget_wallet_commits(ClearStaleSnapshot(tx, rewind.original_tip),
                                         rewind.height)
      BY <1>5 DEF RewindEnd
    <2>2. tx # None /\ ~torn /\ StoreOK(tx)
      BY <2>1 DEF StoreInv, CallsInv, StoresInv
    <2>3. tx'.core_snapshot \in {None, tx.core_snapshot}
      BY <2>1, <2>2 DEF forget_wallet_commits, ClearStaleSnapshot, StoreOK, StoreFields
    <2> QED BY <2>1, <2>2, <2>3, PastSame
  <1>6. ASSUME RecordWalletCommit PROVE PastInv'
    <2>1. /\ tx # None /\ ~torn /\ torn' = torn /\ delta' = delta /\ vars' = vars
          /\ disk' = disk
      BY <1>6 DEF RecordWalletCommit, Idle
    <2>2. PICK p \in CommitsIn(tx.scan[Len(tx.scan)]) :
             tx' = record_wallet_commit(tx, p[1], p[2])
      BY <1>6 DEF RecordWalletCommit
    <2>3. StoreOK(tx)
      BY <2>1 DEF StoreInv, StoresInv
    <2>4. tx'.core_snapshot = tx.core_snapshot
      BY <2>2, <2>3 DEF record_wallet_commit, StoreOK, StoreFields
    <2> QED BY <2>1, <2>4, PastSame
  <1> QED BY <1>1, <1>2, <1>3, <1>4, <1>5, <1>6

\* Whole databases opened, begun, committed and lost.
LEMMA PastMoved ==
    ASSUME StoreInv, PastInv
    PROVE  /\ \A id \in Identities : Open(id) \/ BeginTransaction(id) => PastInv'
           /\ Commit => PastInv'
           /\ BatchLost /\ disk' = disk => PastInv'
  <1>1. ASSUME NEW id \in Identities, Open(id) PROVE PastInv'
    <2>1. /\ conn = None /\ tx' = tx /\ delta' = delta /\ vars' = vars
          /\ disk' = disk \/ disk' = NewStore(id)
      BY <1>1 DEF Open
    <2>2. tx = None /\ delta = None
      BY <2>1 DEF StoreInv, CallsInv
    <2>3. ImageSound(NewStore(id))
      BY DEF ImageSound, NewStore
    <2>4. MemPast'
      BY <2>1 DEF PastInv, MemPast, vars
    <2> QED BY <2>1, <2>2, <2>3, <2>4 DEF PastInv
  <1>2. ASSUME NEW id \in Identities, BeginTransaction(id) PROVE PastInv'
    <2>1. /\ tx = None /\ tx' = disk /\ disk' = disk /\ delta' = delta /\ vars' = vars
      BY <1>2 DEF BeginTransaction
    <2>2. delta = None
      BY <2>1 DEF StoreInv, CallsInv
    <2>3. MemPast'
      BY <2>1 DEF PastInv, MemPast, vars
    <2> QED BY <2>1, <2>2, <2>3 DEF PastInv
  <1>3. ASSUME Commit PROVE PastInv'
    <2>1. /\ tx # None /\ ~torn /\ disk' = tx /\ tx' = None /\ delta = None
          /\ delta' = delta /\ vars' = vars
      BY <1>3 DEF Commit, Idle
    <2>2. MemPast'
      BY <2>1 DEF PastInv, MemPast, vars
    <2> QED BY <2>1, <2>2 DEF PastInv
  <1>4. ASSUME BatchLost, disk' = disk PROVE PastInv'
    BY <1>4, PastFresh DEF BatchLost, PastInv
  <1> QED BY <1>1, <1>2, <1>3, <1>4

LEMMA PastPutSnapshot ==
    ASSUME StoreInv, PastInv, PutSnapshot
    PROVE  PastInv'
  <1>1. /\ up /\ tx # None /\ block = None /\ delta = None /\ ~torn /\ tx.tip # None
        /\ tx' = put_core_snapshot(tx, Image)
        /\ vars' = vars /\ disk' = disk /\ delta' = delta
    BY DEF PutSnapshot, Idle
  <1>2. StoreOK(tx) /\ HeightOf(tx.tip) = tip_height /\ tip_height \in Option(Height)
    BY <1>1 DEF StoreInv, StoresInv, HeightsInv, Current_store, MemOK, TypeInv, TypeOK
  <1>3. tip_height # None
    BY <1>1, <1>2, HeightFacts DEF HeightOf, StoreOK, JournalOK, TipOK
  <1>4. tx'.core_snapshot = Image
    BY <1>1, <1>2 DEF put_core_snapshot, StoreOK, StoreFields
  <1>5. /\ Image.heads = db.heads /\ Image.history = history /\ Image.tip.height = tip_height
    BY <1>3 DEF Image, reducer_tip, Tip
  <1>6. ImageSound(tx')
    BY <1>1, <1>4, <1>5 DEF ImageSound, PastInv, MemPast
  <1>7. MemPast'
    BY <1>1 DEF PastInv, MemPast, vars
  <1> QED BY <1>1, <1>6, <1>7 DEF PastInv

LEMMA PastResume ==
    ASSUME StoreInv, PastInv, Resume, adapter = "wallet"
    PROVE  PastInv'
  <1>1. /\ tx # None /\ ~up /\ disk' = disk /\ delta' = delta /\ torn' = torn
    BY DEF Resume
  <1>2. delta = None /\ ~torn
    BY <1>1 DEF StoreInv, CallsInv
  <1>3. StoreOK(tx) /\ ImageSound(tx)
    BY <1>1, <1>2 DEF StoreInv, StoresInv, PastInv
  <1>4. CASE SnapshotCurrent(tx)
    <2>1. tx.core_snapshot # None /\ LoadImage(tx.core_snapshot) /\ tx' = tx
      BY <1>4 DEF Resume, SnapshotCurrent
    <2>2. MemPast'
      BY <1>3, <2>1, PastLoad DEF StoreOK
    <2> QED BY <1>1, <1>2, <1>3, <2>1, <2>2 DEF PastInv
  <1>5. CASE ~SnapshotCurrent(tx)
    <2>1. FreshMemory /\ tx' = reset_for_replay(tx)
      BY <1>5 DEF Resume
    <2>2. tx'.core_snapshot = None
      BY <1>3, <2>1 DEF reset_for_replay, StoreOK, StoreFields
    <2>3. ImageSound(tx')
      BY <2>2 DEF ImageSound
    <2> QED BY <1>1, <1>2, <2>1, <2>3, PastFresh DEF PastInv
  <1> QED BY <1>4, <1>5

\* The reducer's own steps, and the rewinds.
LEMMA PastMemory ==
    ASSUME StoreInv, PastInv
    PROVE  /\ \A b \in Block : SBeginBlock(b) => PastInv'
           /\ SApplyTransaction \/ SEndBlock \/ RewindStep \/ RewindReset => PastInv'
           /\ \A height \in Height : Finalize(height) => PastInv'
  <1> USE DEF PastInv
  <1>0. MemOK
    BY DEF StoreInv
  <1>1. ASSUME NEW b \in Block, SBeginBlock(b) PROVE PastInv'
    <2>1. /\ tx # None /\ ~torn /\ delta = None /\ delta' = delta /\ torn' = torn
          /\ disk' = disk /\ OfChain(b) /\ BeginBlock(b, {})
          /\ tx' = tx \/ tx' = [tx EXCEPT !.scan = Append(@, b)]
      BY <1>1 DEF SBeginBlock, Idle
    <2>2. StoreOK(tx)
      BY <2>1 DEF StoreInv, StoresInv
    <2>3. tx'.core_snapshot = tx.core_snapshot
      BY <2>1, <2>2 DEF StoreOK, StoreFields
    <2>4. ImageSound(tx')
      BY <2>1, <2>3 DEF ImageSound
    <2> QED BY <1>0, <2>1, <2>4, PastBegin
  <1>2. ASSUME SApplyTransaction PROVE PastInv'
    <2>1. /\ ApplyTransaction /\ block # None /\ UNCHANGED storeVars
      BY <1>2 DEF SApplyTransaction, ApplyTransaction
    <2>2. delta' = None /\ disk' = disk /\ tx' = tx /\ torn' = torn
      BY <2>1 DEF StoreInv, CallsInv, storeVars
    <2> QED BY <1>0, <2>1, <2>2, PastApply
  <1>3. ASSUME SEndBlock PROVE PastInv'
    <2>1. EndBlock /\ disk' = disk /\ tx' = tx /\ torn' = torn
      BY <1>3 DEF SEndBlock
    <2> QED BY <1>0, <2>1, PastEnd
  <1>4. ASSUME RewindStep PROVE PastInv'
    <2>1. /\ rewind # None /\ tx' = rollback_tip(tx) /\ RollbackTip(previous_hash)
          /\ disk' = disk /\ delta' = delta /\ torn' = torn
      BY <1>4 DEF RewindStep, wallet_rollback_tip
    <2>2. tx # None /\ delta = None /\ ~torn /\ StoreOK(tx)
      BY <2>1 DEF StoreInv, StoresInv, CallsInv
    <2>3. tx'.core_snapshot = tx.core_snapshot
      BY <2>1, <2>2 DEF rollback_tip, DeleteJournal, write_tip, write_head, write_commit,
                        StoreOK, StoreFields
    <2>4. ImageSound(tx')
      BY <2>2, <2>3 DEF ImageSound
    <2> QED BY <1>0, <2>1, <2>2, <2>4, PastRollback
  <1>5. ASSUME RewindReset PROVE PastInv'
    <2>1. /\ rewind # None /\ FreshMemory
          /\ tx' = forget_wallet_commits(reset_for_replay(tx), rewind.height)
          /\ disk' = disk /\ delta' = delta
      BY <1>5 DEF RewindReset
    <2>2. tx # None /\ delta = None /\ ~torn /\ StoreOK(tx)
      BY <2>1 DEF StoreInv, StoresInv, CallsInv
    <2>3. tx'.core_snapshot = None
      BY <2>1, <2>2 DEF forget_wallet_commits, reset_for_replay, StoreOK, StoreFields
    <2>4. ImageSound(tx')
      BY <2>3 DEF ImageSound
    <2> QED BY <2>1, <2>2, <2>4, PastFresh
  <1>6. ASSUME NEW height \in Height, Finalize(height) PROVE PastInv'
    <2>1. /\ tx = None /\ conn # None /\ disk' = finalize_through(disk, height) /\ tx' = tx
          /\ FinalizeThrough(height) /\ delta' = delta
      BY <1>6 DEF Finalize
    <2>2. delta = None /\ disk # None /\ StoreOK(disk)
      BY <2>1 DEF StoreInv, StoresInv, CallsInv
    <2>3. disk'.core_snapshot = disk.core_snapshot
      BY <2>1, <2>2 DEF finalize_through, DeleteJournal, StoreOK, StoreFields
    <2>4. ImageSound(disk')
      BY <2>2, <2>3 DEF ImageSound
    <2> QED BY <1>0, <2>1, <2>2, <2>4, PastFinalize
  <1> QED BY <1>1, <1>2, <1>3, <1>4, <1>5, <1>6

LEMMA PastStep ==
    ASSUME NoneIsNoRecord, adapter = "wallet", StoreInv, PastInv, [SNext]_hostVars
    PROVE  PastInv'
  <1>1. CASE ReplayScanned
    <2>1. PICK i \in DOMAIN tx.scan : SBeginBlock(tx.scan[i])
      BY <1>1 DEF ReplayScanned
    <2>2. tx.scan \in Seq(Block)
      BY <2>1 DEF SBeginBlock, Idle, StoreInv, StoresInv, StoreOK
    <2>3. tx.scan[i] \in Block
      BY <2>1, <2>2
    <2> QED BY <2>1, <2>3, PastMemory
  <1>2. ~BlockFails /\ \A hash : ~ReorganizeTip(hash)
    BY DEF BlockFails, ReorganizeTip, StoreInv, CallsInv
  <1>3. CASE AbortBatch \/ Crash
    BY <1>3, PastMoved DEF AbortBatch, Crash
  <1>4. CASE HostStep
    <2>1. \/ \E id \in Identities : Open(id) \/ BeginTransaction(id)
          \/ Resume \/ SApplyTransaction \/ SEndBlock \/ StoreDelta \/ ReleaseSavepoint
          \/ AbortBatch
          \/ RewindStep \/ RewindEnd \/ RewindReset \/ Commit
      BY <1>4 DEF HostStep
    <2> QED BY <2>1, <1>3, PastMoved, PastResume, PastMemory, PastRows
  <1>5. SNext \/ UNCHANGED hostVars
    OBVIOUS
  <1> QED BY <1>1, <1>2, <1>3, <1>4, <1>5, PastMemory, PastPutSnapshot, PastRows DEF SNext

\* What the store asks of a delta whose previous values are the stored ones.
LEMMA DeltaIsAccepted ==
    ASSUME NoneIsNoRecord, MemOK, Coherent(db), DeltaOK(delta), StoreOK(tx),
           tx.identity.coverage.kind = "Complete", history # << >>, RowsBefore(tx, LastUndo),
           delta = delta_from_undo(TipOf(LastUndo), reducer_tip, LastUndo),
           LastUndo.previous_hash # previous_hash, AllSound(db.heads, tip_height),
           \A n \in DOMAIN LastUndo.heads :
              LastUndo.heads[n] # None =>
                 validate_head(LastUndo.heads[n], LastUndo.previous_tip_height)
    PROVE  DeltaAccepted(tx, delta)
  <1> DEFINE u == LastUndo
  <1>1. tip_height \in Height /\ u.previous_next_height = tip_height
    BY LastAndEarlier
  <1>2. /\ delta.from_tip = TipOf(u) /\ delta.to_tip = reducer_tip
        /\ delta.heads = Changes(u.heads, db.heads)
        /\ delta.commits = Changes(u.commits, db.commits)
    BY DEF delta_from_undo
  <1>3. reducer_tip = Tip(tip_height, previous_hash)
    BY <1>1, HeightFacts DEF reducer_tip
  <1>4. delta.to_tip.height = tip_height /\ delta.to_tip.hash = previous_hash
    BY <1>2, <1>3 DEF Tip
  <1>5. /\ HeightOf(delta.from_tip) = u.previous_tip_height
        /\ delta.from_tip # None => delta.from_tip.hash = u.previous_hash
    <2>1. CASE u.previous_tip_height = None
      BY <1>2, <2>1 DEF TipOf, HeightOf
    <2>2. CASE u.previous_tip_height # None
      <3>1. TipOf(u) = Tip(u.previous_tip_height, u.previous_hash) /\ TipOf(u) # None
        BY <2>2 DEF TipOf, Tip, NoneIsNoRecord, TipFields
      <3> QED BY <1>2, <3>1 DEF HeightOf, Tip
    <2> QED BY <2>1, <2>2
  <1>6. tx.tip = delta.from_tip
    BY <1>2 DEF RowsBefore
  <1>7. Sequential(delta)
    BY <1>4, <1>5 DEF Sequential, DeltaOK, Before
  <1>8. Covered(tx, delta)
    BY DEF Covered
  <1>9. delta.to_tip.height \notin DOMAIN tx.rollback_blocks
    BY <1>6, HeightFacts DEF StoreOK, JournalOK, Retained, DeltaOK, Before, TipOK
  <1>10. Proper(db.heads) /\ Proper(db.commits)
    BY DEF Coherent
  <1> HIDE DEF u
  <1>11. ASSUME NEW n \in DOMAIN delta.heads PROVE HeadChangeAccepted(tx, delta, n)
    <2>1. /\ n \in DOMAIN u.heads
          /\ delta.heads[n].previous = u.heads[n] /\ delta.heads[n].current = Get(db.heads, n)
      BY <1>2 DEF Changes
    <2>2. read_head(tx, n) = u.heads[n]
      <3> DEFINE base == Updated(db.heads, u.heads)
      <3>1. /\ n \in DOMAIN base <=> u.heads[n] # None
            /\ n \in DOMAIN base => base[n] = u.heads[n]
        BY <1>10, <2>1, UpdatedFacts
      <3>2. tx.heads = base
        BY DEF RowsBefore, u
      <3> HIDE DEF base
      <3> QED BY <3>1, <3>2 DEF read_head, Get
    <2>3. Get(db.heads, n) # None => validate_head(Get(db.heads, n), tip_height)
      BY DEF AllSound, HeadSound, Get
    <2>4. u.heads[n] # None => validate_head(u.heads[n], u.previous_tip_height)
      BY <2>1 DEF u
    <2> QED BY <1>4, <1>5, <2>1, <2>2, <2>3, <2>4 DEF HeadChangeAccepted
  <1>12. ASSUME NEW r \in DOMAIN delta.commits
         PROVE  read_commit(tx, r) = delta.commits[r].previous
    <2>1. r \in DOMAIN u.commits /\ delta.commits[r].previous = u.commits[r]
      BY <1>2 DEF Changes
    <2> DEFINE base == Updated(db.commits, u.commits)
    <2>2. /\ r \in DOMAIN base <=> u.commits[r] # None
          /\ r \in DOMAIN base => base[r] = u.commits[r]
      BY <1>10, <2>1, UpdatedFacts
    <2>3. tx.pending_commits = base
      BY DEF RowsBefore, u
    <2> HIDE DEF base
    <2> QED BY <2>1, <2>2, <2>3 DEF read_commit, Get
  <1> QED BY <1>6, <1>7, <1>8, <1>9, <1>11, <1>12 DEF DeltaAccepted

\* With the wallet's adapter and complete coverage the store never refuses a
\* delta of the reducer, whatever was rewound, reset, finalized or reloaded
\* before: each previous value is the stored one, each record passes
\* validate_head at its tip, the tips follow one another, and no journal row is
\* in the way (apply_delta, validate_head).
THEOREM DeltasAreTaken ==
    ASSUME NoneIsNoRecord, adapter = "wallet"
    PROVE  SSpec => []DeltaTaken
  <1>1. HostInv /\ PastInv => DeltaTaken
    <2> SUFFICES ASSUME HostInv, PastInv, delta # None, ~torn,
                        tx.identity.coverage.kind = "Complete"
                 PROVE  DeltaAccepted(tx, delta)
      BY DEF DeltaTaken
    <2> DEFINE u == LastUndo
    <2>1. /\ history # << >> /\ RowsBefore(tx, u)
          /\ delta = delta_from_undo(TipOf(u), reducer_tip, u)
          /\ u.previous_hash # previous_hash
      BY DEF HostInv, RowsInv, RecordsInv, PastInv
    <2>2. tx # None /\ block = None /\ StoreOK(tx) /\ MemOK /\ DeltaOK(delta)
      BY DEF HostInv, StoreInv, StoresInv, CallsInv, HeightsInv
    <2>3. /\ tip_height \in Height /\ UndoTips(u) /\ u.previous_next_height = tip_height
          /\ Elems(history) = Earlier \cup {u}
      BY <2>1, <2>2, LastAndEarlier
    <2>4. Past(db.heads, Earlier \cup {u}, tip_height) /\ Coherent(db)
      BY <2>2, <2>3 DEF PastInv, MemPast
    <2>5. AllSound(db.heads, tip_height)
      BY <2>4 DEF Past
    <2> HIDE DEF u
    <2>6. ASSUME NEW n \in DOMAIN u.heads, u.heads[n] # None
          PROVE  validate_head(u.heads[n], u.previous_tip_height)
      <3>1. UndoReaches(u, u, Earlier \cup {u})
        <4>1. u.previous_next_height <= u.previous_next_height
          BY <2>3, HeightFacts
        <4>2. UndosReach(Earlier \cup {u})
          BY <2>4 DEF Past
        <4> QED BY <4>1, <4>2 DEF UndosReach
      <3>2. UnjournaledBelow(n, u.previous_next_height, u.previous_next_height,
                             Earlier \cup {u})
        <4>1. IntHeights(Earlier \cup {u})
          BY <2>2, <2>3, UndoHeights
        <4> QED BY <4>1 DEF UnjournaledBelow, IntHeights
      <3> QED BY <2>6, <3>1, <3>2 DEF UndoReaches, HeadSound
    <2> QED BY <2>1, <2>2, <2>4, <2>5, <2>6, DeltaIsAccepted DEF u
  <1>2. HostInv /\ PastInv /\ [SNext]_hostVars => PastInv'
    BY PastStep DEF HostInv
  <1> QED BY <1>1, <1>2, HostInit, PastInit, HostStepInv, PTL DEF SSpec

-----------------------------------------------------------------------------
(***************************************************************************)
(* The rows and a replay of the scanned blocks, with the wallet's adapter. *)
(* Both recursions of the reference, over the transactions of a block and  *)
(* over the blocks, are compared step by step with what the reducer does.  *)
(***************************************************************************)
Started(d, height) ==
    prune_commits(compact_claimable(mark_expired(
        [db |-> d, undo |-> [heads |-> EmptyMap, commits |-> EmptyMap]],
        height), height), height)

\* f is the application of the first n transactions of b to the records d.
Effects(f, d, b, n) ==
    /\ f = [i \in 0 .. n |-> f[i]]
    /\ f[0] = Started(d, b.height)
    /\ \A i \in 1 .. n : f[i] = apply_transaction(f[i - 1], b.height, b.transactions[i])

LEMMA EffectsExist ==
    ASSUME NEW d, NEW b, NEW n \in Nat
    PROVE  \E f : Effects(f, d, b, n)
  <1> DEFINE S == {m \in 0 .. n : \E f : Effects(f, d, b, m)}
  <1>1. 0 \in S
    <2> DEFINE g == [i \in 0 .. 0 |-> Started(d, b.height)]
    <2>1. Effects(g, d, b, 0) /\ 0 \in 0 .. n
      BY DEF Effects
    <2> HIDE DEF g
    <2> QED BY <2>1
  <1>2. ASSUME NEW m \in 0 .. (n - 1), m \in S PROVE m + 1 \in S
    <2>1. PICK f : Effects(f, d, b, m)
      BY <1>2
    <2> DEFINE v == apply_transaction(f[m], b.height, b.transactions[m + 1])
               g == [i \in 0 .. (m + 1) |-> IF i = m + 1 THEN v ELSE f[i]]
    <2> HIDE DEF v
    <2>2. g[m + 1] = v /\ \A i \in 0 .. m : g[i] = f[i]
      OBVIOUS
    <2>3. g = [i \in 0 .. (m + 1) |-> g[i]]
      OBVIOUS
    <2> HIDE DEF g
    <2>4. ASSUME NEW i \in 1 .. (m + 1)
          PROVE  g[i] = apply_transaction(g[i - 1], b.height, b.transactions[i])
      <3>1. CASE i = m + 1
        BY <2>2, <3>1 DEF v
      <3>2. CASE i # m + 1
        <4>1. i \in 1 .. m /\ i \in 0 .. m /\ i - 1 \in 0 .. m
          BY <3>2
        <4>2. g[i] = f[i] /\ g[i - 1] = f[i - 1]
          BY <2>2, <4>1
        <4> QED BY <2>1, <4>1, <4>2 DEF Effects
      <3> QED BY <3>1, <3>2
    <2>5. g[0] = Started(d, b.height)
      BY <2>1, <2>2 DEF Effects
    <2>6. Effects(g, d, b, m + 1)
      BY <2>3, <2>4, <2>5 DEF Effects
    <2> QED BY <2>6
  <1> HIDE DEF S
  <1>3. 0 .. n \subseteq S
    BY <1>1, <1>2, UpTo
  <1> QED BY <1>3 DEF S

LEMMA EffectIs ==
    ASSUME NEW d, NEW b \in Block, NEW f, Effects(f, d, b, Len(b.transactions))
    PROVE  BlockEffect(d, b) = f[Len(b.transactions)].db
  <1> DEFINE n == Len(b.transactions)
             s(g, i) == IF i = 0 THEN Started(d, b.height)
                        ELSE apply_transaction(g[i - 1], b.height, b.transactions[i])
             R(g) == [i \in 0 .. n |-> s(g, i)]
             c == CHOOSE g : g = R(g)
  <1>1. n \in Nat
    BY DEF Block
  <1>2. BlockEffect(d, b) = c[n].db
    BY DEF BlockEffect, Started
  <1>3. \A i \in 0 .. n : f[i] = s(f, i)
    <2> HIDE DEF n
    <2> QED BY <1>1 DEF Effects, n
  <1> HIDE DEF s
  <1>4. f = R(f)
    BY <1>3 DEF Effects
  <1>5. c = R(c)
    <2> HIDE DEF R
    <2> QED BY <1>4
  <1> HIDE DEF c
  <1>6. \A i \in 0 .. n : c[i] = s(c, i)
    BY <1>5
  <1> DEFINE S == {i \in 0 .. n : c[i] = f[i]}
  <1> HIDE DEF n
  <1>7. 0 \in S
    BY <1>1, <1>3, <1>6 DEF s
  <1>8. ASSUME NEW i \in 0 .. (n - 1), i \in S PROVE i + 1 \in S
    <2>1. i + 1 \in 0 .. n /\ i + 1 # 0 /\ (i + 1) - 1 = i /\ c[i] = f[i]
      BY <1>1, <1>8
    <2>2. s(c, i + 1) = s(f, i + 1)
      BY <2>1 DEF s
    <2> QED BY <1>3, <1>6, <2>1, <2>2
  <1> HIDE DEF S
  <1>9. 0 .. n \subseteq S
    BY <1>1, <1>7, <1>8, UpTo
  <1>10. c[n] = f[n]
    BY <1>1, <1>9 DEF S
  <1> QED BY <1>2, <1>10 DEF n

-----------------------------------------------------------------------------
\* f is the replay of blocks, one value after each.
NoRecords == rebuild_derived_indexes([commits |-> EmptyMap, heads |-> EmptyMap])

Runs(f, blocks, n) ==
    /\ f = [i \in 0 .. n |-> f[i]]
    /\ f[0] = NoRecords
    /\ \A i \in 1 .. n : f[i] = BlockEffect(f[i - 1], blocks[i])

LEMMA RunsExist ==
    ASSUME NEW blocks, NEW n \in Nat
    PROVE  \E f : Runs(f, blocks, n)
  <1> DEFINE S == {m \in 0 .. n : \E f : Runs(f, blocks, m)}
  <1>1. 0 \in S
    <2> DEFINE g == [i \in 0 .. 0 |-> NoRecords]
    <2>1. Runs(g, blocks, 0) /\ 0 \in 0 .. n
      BY DEF Runs
    <2> HIDE DEF g
    <2> QED BY <2>1
  <1>2. ASSUME NEW m \in 0 .. (n - 1), m \in S PROVE m + 1 \in S
    <2>1. PICK f : Runs(f, blocks, m)
      BY <1>2
    <2> DEFINE v == BlockEffect(f[m], blocks[m + 1])
               g == [i \in 0 .. (m + 1) |-> IF i = m + 1 THEN v ELSE f[i]]
    <2> HIDE DEF v
    <2>2. g[m + 1] = v /\ \A i \in 0 .. m : g[i] = f[i]
      OBVIOUS
    <2>3. g = [i \in 0 .. (m + 1) |-> g[i]]
      OBVIOUS
    <2> HIDE DEF g
    <2>4. ASSUME NEW i \in 1 .. (m + 1) PROVE g[i] = BlockEffect(g[i - 1], blocks[i])
      <3>1. CASE i = m + 1
        BY <2>2, <3>1 DEF v
      <3>2. CASE i # m + 1
        <4>1. i \in 1 .. m /\ i \in 0 .. m /\ i - 1 \in 0 .. m
          BY <3>2
        <4>2. g[i] = f[i] /\ g[i - 1] = f[i - 1]
          BY <2>2, <4>1
        <4> QED BY <2>1, <4>1, <4>2 DEF Runs
      <3> QED BY <3>1, <3>2
    <2>5. g[0] = NoRecords
      BY <2>1, <2>2 DEF Runs
    <2>6. Runs(g, blocks, m + 1)
      BY <2>3, <2>4, <2>5 DEF Runs
    <2> QED BY <2>6
  <1> HIDE DEF S
  <1>3. 0 .. n \subseteq S
    BY <1>1, <1>2, UpTo
  <1> QED BY <1>3 DEF S

LEMMA ReplayIs ==
    ASSUME NEW blocks \in Seq(Block), NEW f, Runs(f, blocks, Len(blocks))
    PROVE  Replayed(blocks) = f[Len(blocks)]
  <1> DEFINE n == Len(blocks)
             s(g, i) == IF i = 0 THEN NoRecords ELSE BlockEffect(g[i - 1], blocks[i])
             R(g) == [i \in 0 .. n |-> s(g, i)]
             c == CHOOSE g : g = R(g)
  <1>1. n \in Nat
    OBVIOUS
  <1>2. Replayed(blocks) = c[n]
    BY DEF Replayed, NoRecords
  <1>3. \A i \in 0 .. n : f[i] = s(f, i)
    <2> HIDE DEF n
    <2> QED BY <1>1 DEF Runs, n
  <1> HIDE DEF s
  <1>4. f = R(f)
    BY <1>3 DEF Runs
  <1>5. c = R(c)
    <2> HIDE DEF R
    <2> QED BY <1>4
  <1> HIDE DEF c
  <1>6. \A i \in 0 .. n : c[i] = s(c, i)
    BY <1>5
  <1> DEFINE S == {i \in 0 .. n : c[i] = f[i]}
  <1> HIDE DEF n
  <1>7. 0 \in S
    BY <1>1, <1>3, <1>6 DEF s
  <1>8. ASSUME NEW i \in 0 .. (n - 1), i \in S PROVE i + 1 \in S
    <2>1. i + 1 \in 0 .. n /\ i + 1 # 0 /\ (i + 1) - 1 = i /\ c[i] = f[i]
      BY <1>1, <1>8
    <2>2. s(c, i + 1) = s(f, i + 1)
      BY <2>1 DEF s
    <2> QED BY <1>3, <1>6, <2>1, <2>2
  <1> HIDE DEF S
  <1>9. 0 .. n \subseteq S
    BY <1>1, <1>7, <1>8, UpTo
  <1>10. c[n] = f[n]
    BY <1>1, <1>9 DEF S
  <1> QED BY <1>2, <1>10 DEF n

-----------------------------------------------------------------------------
\* The records after the first n blocks of a chain.
After(ch, n) == Replayed(SubSeq(ch, 1, n))

LEMMA AfterRuns ==
    ASSUME NEW ch \in Seq(Block), NEW n \in 0 .. Len(ch), NEW f, Runs(f, ch, n)
    PROVE  After(ch, n) = f[n]
  <1> DEFINE p == SubSeq(ch, 1, n)
  <1>1. p \in Seq(Block) /\ Len(p) = n /\ \A i \in 1 .. n : p[i] = ch[i]
    OBVIOUS
  <1> HIDE DEF p
  <1>2. Runs(f, p, n)
    BY <1>1 DEF Runs
  <1>3. Replayed(p) = f[n]
    BY <1>1, <1>2, ReplayIs
  <1> QED BY <1>3 DEF After, p

LEMMA RunsPart ==
    ASSUME NEW ch, NEW n \in Nat, NEW f, Runs(f, ch, n), NEW m \in 0 .. n
    PROVE  Runs([i \in 0 .. m |-> f[i]], ch, m)
  <1> DEFINE g == [i \in 0 .. m |-> f[i]]
  <1>1. /\ g = [i \in 0 .. m |-> g[i]] /\ \A i \in 0 .. m : g[i] = f[i]
    OBVIOUS
  <1> HIDE DEF g
  <1>2. ASSUME NEW i \in 1 .. m PROVE g[i] = BlockEffect(g[i - 1], ch[i])
    <2>1. i \in 1 .. n /\ i \in 0 .. m /\ i - 1 \in 0 .. m
      OBVIOUS
    <2> QED BY <1>1, <2>1 DEF Runs
  <1>3. g[0] = NoRecords
    <2>1. 0 \in 0 .. m
      OBVIOUS
    <2> QED BY <1>1, <2>1 DEF Runs
  <1> QED BY <1>1, <1>2, <1>3 DEF Runs, g

LEMMA AfterFacts ==
    ASSUME NEW ch \in Seq(Block)
    PROVE  /\ After(ch, 0) = NoRecords
           /\ \A i \in 1 .. Len(ch) : After(ch, i) = BlockEffect(After(ch, i - 1), ch[i])
  <1> DEFINE n == Len(ch)
  <1>1. n \in Nat
    OBVIOUS
  <1> HIDE DEF n
  <1>2. PICK f : Runs(f, ch, n)
    BY <1>1, RunsExist
  <1>3. ASSUME NEW m \in 0 .. n PROVE After(ch, m) = f[m]
    <2> DEFINE g == [i \in 0 .. m |-> f[i]]
    <2>1. Runs(g, ch, m)
      BY <1>1, <1>2, RunsPart
    <2>2. g[m] = f[m]
      OBVIOUS
    <2> HIDE DEF g
    <2> QED BY <1>1, <2>1, <2>2, AfterRuns DEF n
  <1>4. 0 \in 0 .. n /\ \A i \in 1 .. n : i \in 0 .. n /\ i - 1 \in 0 .. n
    BY <1>1
  <1> QED BY <1>2, <1>3, <1>4 DEF Runs, n

LEMMA AfterPrefix ==
    ASSUME NEW ch \in Seq(Block), NEW dh \in Seq(Block), NEW n \in Nat,
           n <= Len(ch), n <= Len(dh), \A i \in 1 .. n : ch[i] = dh[i]
    PROVE  After(ch, n) = After(dh, n)
  <1> DEFINE p == SubSeq(ch, 1, n)
             q == SubSeq(dh, 1, n)
  <1>1. /\ p \in Seq(Block) /\ Len(p) = n /\ \A i \in 1 .. n : p[i] = ch[i]
        /\ q \in Seq(Block) /\ Len(q) = n /\ \A i \in 1 .. n : q[i] = dh[i]
    OBVIOUS
  <1> HIDE DEF p, q
  <1>2. p = q
    BY <1>1
  <1> QED BY <1>2 DEF After, p, q

\* The indexes are those of the records after every block.
LEMMA EffectCoherent ==
    ASSUME NEW d, Coherent(d), NEW b \in Block
    PROVE  Coherent(BlockEffect(d, b))
  <1> DEFINE n == Len(b.transactions)
  <1>1. n \in Nat /\ \A i \in 1 .. n : b.transactions[i].operation \in Option(Operation)
    <2>1. b.transactions \in Seq(Transaction)
      BY DEF Block
    <2>2. \A i \in 1 .. n : b.transactions[i] \in Transaction
      BY <2>1
    <2> QED BY <2>1, <2>2 DEF Transaction
  <1> HIDE DEF n
  <1>2. PICK f : Effects(f, d, b, n)
    BY <1>1, EffectsExist
  <1>3. Coherent(Started(d, b.height).db)
    <2> DEFINE w == [db |-> d, undo |-> [heads |-> EmptyMap, commits |-> EmptyMap]]
    <2>1. Coherent(w.db)
      OBVIOUS
    <2> HIDE DEF w
    <2>2. Coherent(mark_expired(w, b.height).db)
      BY <2>1, StepsCoherent
    <2>3. Coherent(compact_claimable(mark_expired(w, b.height), b.height).db)
      BY <2>2, StepsCoherent
    <2>4. Coherent(prune_commits(compact_claimable(mark_expired(w, b.height), b.height),
                                 b.height).db)
      BY <2>3, StepsCoherent
    <2> QED BY <2>4 DEF Started, w
  <1> DEFINE S == {i \in 0 .. n : Coherent(f[i].db)}
  <1>4. 0 \in S
    BY <1>1, <1>2, <1>3 DEF Effects
  <1>5. ASSUME NEW i \in 0 .. (n - 1), i \in S PROVE i + 1 \in S
    <2>1. i + 1 \in 1 .. n /\ i + 1 \in 0 .. n /\ (i + 1) - 1 = i
      BY <1>1
    <2>2. f[i + 1] = apply_transaction(f[i], b.height, b.transactions[i + 1])
      BY <1>2, <2>1 DEF Effects
    <2>3. Coherent(f[i + 1].db)
      BY <1>1, <1>5, <2>1, <2>2, TransactionCoherent
    <2> QED BY <2>1, <2>3
  <1> HIDE DEF S
  <1>6. 0 .. n \subseteq S
    BY <1>1, <1>4, <1>5, UpTo
  <1>7. Coherent(f[n].db)
    BY <1>1, <1>6 DEF S
  <1> QED BY <1>2, <1>7, EffectIs DEF n

LEMMA AfterCoherent ==
    ASSUME NEW ch \in Seq(Block), NEW n \in 0 .. Len(ch)
    PROVE  Coherent(After(ch, n))
  <1> DEFINE L == Len(ch)
             S == {i \in 0 .. L : Coherent(After(ch, i))}
  <1>1. L \in Nat /\ \A i \in 1 .. L : ch[i] \in Block
    OBVIOUS
  <1>2. /\ After(ch, 0) = NoRecords
        /\ \A i \in 1 .. L : After(ch, i) = BlockEffect(After(ch, i - 1), ch[i])
    BY AfterFacts
  <1>3. Coherent(NoRecords)
    <2>1. MapOf(EmptyMap, CommitRef, Commitments) /\ MapOf(EmptyMap, NameIds, HeadRecord)
      BY DEF MapOf, EmptyMap
    <2> QED BY <2>1, RebuiltCoherent DEF NoRecords
  <1>4. n \in 0 .. L
    OBVIOUS
  <1> HIDE DEF L
  <1>5. 0 \in S
    BY <1>1, <1>2, <1>3
  <1>6. ASSUME NEW i \in 0 .. (L - 1), i \in S PROVE i + 1 \in S
    <2>1. i + 1 \in 1 .. L /\ i + 1 \in 0 .. L /\ (i + 1) - 1 = i
      BY <1>1
    <2>2. After(ch, i + 1) = BlockEffect(After(ch, i), ch[i + 1])
      BY <1>2, <2>1
    <2>3. Coherent(After(ch, i + 1))
      BY <1>1, <1>6, <2>1, <2>2, EffectCoherent
    <2> QED BY <2>1, <2>3
  <1> HIDE DEF S
  <1>7. 0 .. L \subseteq S
    BY <1>1, <1>5, <1>6, UpTo
  <1> QED BY <1>4, <1>7 DEF S

\* Coherent records are their heads and COMMITs.
LEMMA SameRecords ==
    ASSUME NEW d, NEW e, Coherent(d), Coherent(e), d.heads = e.heads, d.commits = e.commits
    PROVE  d = e
  BY DEF Coherent, Shape, CommitsIndexed, HeadsIndexed

-----------------------------------------------------------------------------
\* What a call does to the records depends on the records only.
LEMMA StartOnRecords ==
    ASSUME NEW w, NEW v, w.db = v.db, NEW height
    PROVE  /\ mark_expired(w, height).db = mark_expired(v, height).db
           /\ compact_claimable(w, height).db = compact_claimable(v, height).db
           /\ prune_commits(w, height).db = prune_commits(v, height).db
  <1>1. mark_expired(w, height).db = mark_expired(v, height).db
    BY DEF mark_expired, replace_head, remember_head
  <1>2. compact_claimable(w, height).db = compact_claimable(v, height).db
    BY DEF compact_claimable, replace_head, remember_head
  <1>3. prune_commits(w, height).db = prune_commits(v, height).db
    BY DEF prune_commits, replace_commit, remember_commit
  <1> QED BY <1>1, <1>2, <1>3

LEMMA TransactionOnRecords ==
    ASSUME NEW w, NEW v, w.db = v.db, NEW height, NEW t,
           t.operation \in Option(Operation)
    PROVE  apply_transaction(w, height, t).db = apply_transaction(v, height, t).db
  <1>1. apply_commit(w, height, t).db = apply_commit(v, height, t).db
    BY DEF apply_commit, replace_commit, remember_commit
  <1>2. apply_reveal(w, height, t).db = apply_reveal(v, height, t).db
    BY DEF apply_reveal, InstallHead, replace_head, remember_head
  <1>3. apply_refresh(w, height, t).db = apply_refresh(v, height, t).db
    BY DEF apply_refresh, InstallHead, replace_head, remember_head
  <1>4. apply_operation(w, height, t).db = apply_operation(v, height, t).db
    <2>1. CASE t.operation = None
      BY <2>1 DEF apply_operation
    <2>2. CASE t.operation # None
      <3>1. t.operation.kind \in {"Commit", "Reveal", "Refresh"}
        BY <2>2 DEF Option, Operation
      <3> QED BY <1>1, <1>2, <1>3, <2>2, <3>1 DEF apply_operation
    <2> QED BY <2>1, <2>2
  <1>5. apply_transaction(w, height, t).db = apply_transaction(v, height, t).db
    BY <1>4 DEF apply_transaction, replace_head, remember_head
  <1> QED BY <1>5

\* A block begins as the replay of it does.
LEMMA BeginsLikeReplay ==
    ASSUME Coherent(db), NEW b, BeginBlock(b, {})
    PROVE  db' = Started(db, b.height).db
  <1> DEFINE w0 == [db |-> db, undo |-> new_undo(b)]
             v0 == [db |-> db, undo |-> [heads |-> EmptyMap, commits |-> EmptyMap]]
             w1 == mark_expired(w0, b.height)
             v1 == mark_expired(v0, b.height)
             w2 == compact_claimable(w1, b.height)
             v2 == compact_claimable(v1, b.height)
             w3 == prune_commits(w2, b.height)
             v3 == prune_commits(v2, b.height)
  <1>1. db' = insert_supplied(w3, supplied({})).db /\ Started(db, b.height) = v3
    BY DEF BeginBlock, Started
  <1>2. w0.db = v0.db /\ Coherent(w0.db)
    OBVIOUS
  <1> HIDE DEF w0, v0
  <1>3. w1.db = v1.db /\ Coherent(w1.db)
    BY <1>2, StartOnRecords, StepsCoherent
  <1> HIDE DEF w1, v1
  <1>4. w2.db = v2.db /\ Coherent(w2.db)
    BY <1>3, StartOnRecords, StepsCoherent
  <1> HIDE DEF w2, v2
  <1>5. w3.db = v3.db /\ Coherent(w3.db)
    BY <1>4, StartOnRecords, StepsCoherent
  <1> HIDE DEF w3, v3
  <1>6. DOMAIN supplied({}) = {}
    BY DEF supplied
  <1> DEFINE e == supplied({})
  <1>7. insert_supplied(w3, e).db = ReplaceCommits(w3.db, e)
    BY DEF insert_supplied, replace_commit, remember_commit
  <1>8. Coherent(insert_supplied(w3, e).db)
    BY <1>5, StepsCoherent
  <1> DEFINE d == ReplaceCommits(w3.db, e)
  <1>9. d.commits = Updated(w3.db.commits, e) /\ d.heads = w3.db.heads
    BY DEF ReplaceCommits
  <1> HIDE DEF e, d
  <1>10. Updated(w3.db.commits, e) = w3.db.commits
    BY <1>5, <1>6 DEF Updated, Proper, Coherent, e
  <1>11. d = w3.db
    BY <1>5, <1>7, <1>8, <1>9, <1>10, SameRecords DEF d
  <1> QED BY <1>1, <1>5, <1>7, <1>11 DEF d, e

-----------------------------------------------------------------------------
\* The number of blocks up to a tip.
BlocksTo(tip) == IF tip = None THEN 0 ELSE ScanIndex(tip.height)

\* A journal row leads from the records after its block to those before it.
RowUndoes(row, ch, i) ==
    /\ Updated(After(ch, i).heads, row.heads) = After(ch, i - 1).heads
    /\ Updated(After(ch, i).commits, row.commits) = After(ch, i - 1).commits

\* The rows are a replay of ch up to the tip, and stay one when rolled back.
Replays(s, ch) ==
    /\ ch \in Seq(Block) /\ BlocksTo(s.tip) \in 0 .. Len(ch)
    /\ s.heads = After(ch, BlocksTo(s.tip)).heads
    /\ s.pending_commits = After(ch, BlocksTo(s.tip)).commits
    /\ \A h \in DOMAIN s.rollback_blocks :
          RowUndoes(s.rollback_blocks[h], ch, ScanIndex(h))

\* The same rows, with no more of the journal.
RowsOf(s, t) ==
    /\ t.tip = s.tip /\ t.heads = s.heads /\ t.pending_commits = s.pending_commits
    /\ DOMAIN t.rollback_blocks \subseteq DOMAIN s.rollback_blocks
    /\ \A h \in DOMAIN t.rollback_blocks : t.rollback_blocks[h] = s.rollback_blocks[h]

LEMMA RowsOfReplay ==
    ASSUME NEW s, NEW t, NEW ch, Replays(s, ch), RowsOf(s, t)
    PROVE  Replays(t, ch)
  BY DEF Replays, RowsOf

LEMMA EmptyReplays ==
    ASSUME NEW s, NEW ch \in Seq(Block), s.tip = None, s.heads = EmptyMap,
           s.pending_commits = EmptyMap, s.rollback_blocks = EmptyMap
    PROVE  Replays(s, ch)
  <1>1. BlocksTo(s.tip) = 0 /\ 0 \in 0 .. Len(ch)
    BY DEF BlocksTo
  <1>2. After(ch, 0).heads = EmptyMap /\ After(ch, 0).commits = EmptyMap
    BY AfterFacts DEF NoRecords, rebuild_derived_indexes
  <1>3. DOMAIN s.rollback_blocks = {}
    BY DEF EmptyMap
  <1> QED BY <1>1, <1>2, <1>3 DEF Replays

\* Only the blocks up to the tip matter.
LEMMA OtherChain ==
    ASSUME NEW s, StoreOK(s), NEW ch, Replays(s, ch), NEW dh \in Seq(Block),
           BlocksTo(s.tip) <= Len(dh), \A i \in 1 .. BlocksTo(s.tip) : ch[i] = dh[i]
    PROVE  Replays(s, dh)
  <1> DEFINE n == BlocksTo(s.tip)
  <1>1. /\ ch \in Seq(Block) /\ n \in Nat /\ n <= Len(ch) /\ Len(ch) \in Nat
        /\ Len(dh) \in Nat /\ n <= Len(dh) /\ \A i \in 1 .. n : ch[i] = dh[i]
    BY DEF Replays
  <1> HIDE DEF n
  <1>2. ASSUME NEW m \in 0 .. n PROVE After(ch, m) = After(dh, m)
    <2>1. m \in Nat /\ m <= Len(ch) /\ m <= Len(dh) /\ \A i \in 1 .. m : ch[i] = dh[i]
      BY <1>1
    <2> QED BY <1>1, <2>1, AfterPrefix
  <1>3. ASSUME NEW h \in DOMAIN s.rollback_blocks
        PROVE  ScanIndex(h) \in 0 .. n /\ ScanIndex(h) - 1 \in 0 .. n
    <2>1. s.tip # None /\ h \in activation_height .. s.tip.height /\ s.tip.height \in Height
      BY DEF StoreOK, JournalOK, Retained, TipOK
    <2>2. n = ScanIndex(s.tip.height)
      BY <2>1 DEF n, BlocksTo
    <2> QED BY <2>1, <2>2, HeightFacts DEF ScanIndex
  <1>4. n \in 0 .. n /\ n \in 0 .. Len(dh)
    BY <1>1
  <1>5. /\ s.heads = After(dh, n).heads /\ s.pending_commits = After(dh, n).commits
    BY <1>2, <1>4 DEF Replays, n
  <1>6. ASSUME NEW h \in DOMAIN s.rollback_blocks
        PROVE  RowUndoes(s.rollback_blocks[h], dh, ScanIndex(h))
    <2>1. RowUndoes(s.rollback_blocks[h], ch, ScanIndex(h))
      BY DEF Replays
    <2>2. /\ After(ch, ScanIndex(h)) = After(dh, ScanIndex(h))
          /\ After(ch, ScanIndex(h) - 1) = After(dh, ScanIndex(h) - 1)
      BY <1>2, <1>3
    <2> QED BY <2>1, <2>2 DEF RowUndoes
  <1> QED BY <1>4, <1>5, <1>6 DEF Replays, n

\* The tip before the row's block is one block short of it.
LEMMA BlocksBefore ==
    ASSUME NEW tip, NEW h \in Height, Before(tip, h)
    PROVE  BlocksTo(tip) = ScanIndex(h) - 1 /\ BlocksTo(tip) \in Nat
  <1>1. CASE tip = None
    BY <1>1, HeightFacts DEF Before, BlocksTo, ScanIndex
  <1>2. CASE tip # None
    <2>1. tip.height \in Height /\ tip.height >= activation_height /\ h = tip.height + 1
      BY <1>2 DEF Before, TipOK
    <2> QED BY <1>2, <2>1, HeightFacts DEF BlocksTo, ScanIndex
  <1> QED BY <1>1, <1>2

LEMMA RollbackReplays ==
    ASSUME NEW s, StoreOK(s), Journaled_tip(s), NEW ch, Replays(s, ch)
    PROVE  Replays(rollback_tip(s), ch)
  <1> DEFINE t == rollback_tip(s)
             rb == s.rollback_blocks
             at == s.tip.height
             row == rb[at]
             nb == Updated(rb, [h \in {at} |-> None])
  <1>1. /\ t.tip = row.previous_tip /\ t.rollback_blocks = nb
        /\ t.heads = Updated(s.heads, row.heads)
        /\ t.pending_commits = Updated(s.pending_commits, row.commits)
    BY DEF rollback_tip, DeleteJournal, write_tip, write_head, write_commit, StoreOK, StoreFields
  <1>2. /\ s.tip # None /\ at \in DOMAIN rb /\ Proper(rb)
        /\ Before(row.previous_tip, at) /\ TipOK(s.tip)
    BY DEF Journaled_tip, StoreOK, JournalOK
  <1>3. at \in Height
    BY <1>2 DEF TipOK
  <1>4. /\ DOMAIN nb = DOMAIN rb \ {at} /\ \A h \in DOMAIN nb : nb[h] = rb[h]
    <2> HIDE DEF rb, at
    <2> QED BY <1>2, DeletedRows
  <1> DEFINE n == ScanIndex(at)
  <1>5. BlocksTo(s.tip) = n
    BY <1>2 DEF BlocksTo
  <1>6. BlocksTo(row.previous_tip) = n - 1 /\ n - 1 \in Nat /\ n \in Int
    BY <1>2, <1>3, BlocksBefore, HeightFacts DEF ScanIndex
  <1>7. /\ ch \in Seq(Block) /\ n \in 0 .. Len(ch)
        /\ s.heads = After(ch, n).heads /\ s.pending_commits = After(ch, n).commits
        /\ \A h \in DOMAIN rb : RowUndoes(rb[h], ch, ScanIndex(h))
    BY <1>5 DEF Replays
  <1>8. RowUndoes(row, ch, n)
    BY <1>2, <1>7
  <1> HIDE DEF t, nb, row, n
  <1>9. n - 1 \in 0 .. Len(ch)
    BY <1>6, <1>7
  <1>10. t.heads = After(ch, n - 1).heads /\ t.pending_commits = After(ch, n - 1).commits
    BY <1>1, <1>7, <1>8 DEF RowUndoes
  <1>11. \A h \in DOMAIN nb : RowUndoes(nb[h], ch, ScanIndex(h))
    BY <1>4, <1>7
  <1> QED BY <1>1, <1>6, <1>7, <1>9, <1>10, <1>11 DEF Replays, t

\* The rows and the reducer are one block further.
LEMMA DeltaReplays ==
    ASSUME NoneIsNoRecord, MemOK, history # << >>, NEW s, StoreOK(s), NEW d, DeltaOK(d),
           d = delta_from_undo(TipOf(LastUndo), reducer_tip, LastUndo),
           RowsBefore(s, LastUndo),
           NEW ch, Replays(s, ch), s.tip = d.from_tip,
           ScanIndex(d.to_tip.height) \in 1 .. Len(ch),
           db.heads = After(ch, ScanIndex(d.to_tip.height)).heads,
           db.commits = After(ch, ScanIndex(d.to_tip.height)).commits
    PROVE  Replays(apply_delta(s, d), ch)
  <1> DEFINE t == apply_delta(s, d)
             to == d.to_tip.height
             n == ScanIndex(to)
             rb == s.rollback_blocks
             nb == t.rollback_blocks
  <1>1. /\ t.tip = d.to_tip /\ to = tip_height
        /\ t.heads = db.heads /\ t.pending_commits = db.commits
        /\ DOMAIN nb = DOMAIN rb \cup {to} /\ \A h \in DOMAIN rb : h # to => nb[h] = rb[h]
        /\ RowIs(nb[to], LastUndo)
    BY DeltaWrites
  <1> HIDE DEF t
  <1>2. tip_height \in Height
    BY LastAndEarlier
  <1>3. BlocksTo(s.tip) = n - 1
    BY <1>1, <1>2, BlocksBefore DEF DeltaOK
  <1>4. BlocksTo(t.tip) = n
    BY <1>1 DEF BlocksTo, DeltaOK
  <1>5. /\ ch \in Seq(Block) /\ n \in 1 .. Len(ch)
        /\ s.heads = After(ch, n - 1).heads /\ s.pending_commits = After(ch, n - 1).commits
        /\ \A h \in DOMAIN rb : RowUndoes(rb[h], ch, ScanIndex(h))
    BY <1>3 DEF Replays
  <1>6. /\ t.heads = After(ch, n).heads /\ t.pending_commits = After(ch, n).commits
    BY <1>1
  <1>7. RowUndoes(nb[to], ch, n)
    <2>1. /\ Updated(After(ch, n).heads, LastUndo.heads) = After(ch, n - 1).heads
          /\ Updated(After(ch, n).commits, LastUndo.commits) = After(ch, n - 1).commits
      BY <1>5 DEF RowsBefore
    <2> QED BY <1>1, <2>1 DEF RowUndoes, RowIs
  <1>8. ASSUME NEW h \in DOMAIN nb PROVE RowUndoes(nb[h], ch, ScanIndex(h))
    <2>1. CASE h = to
      BY <1>7, <2>1
    <2>2. CASE h # to
      <3>1. h \in DOMAIN rb /\ nb[h] = rb[h]
        BY <1>1, <2>2
      <3> QED BY <1>5, <3>1
    <2> QED BY <2>1, <2>2
  <1>9. n \in 0 .. Len(ch)
    BY <1>5
  <1>10. Replays(t, ch)
    BY <1>4, <1>5, <1>6, <1>8, <1>9 DEF Replays
  <1> QED BY <1>10 DEF t

-----------------------------------------------------------------------------
\* ch goes on from scan.
Continues(ch, scan) == Len(scan) <= Len(ch) /\ \A i \in 1 .. Len(scan) : ch[i] = scan[i]

\* The block in progress is the next scanned one, its first pos transactions
\* applied as in the replay.
BlockReplays ==
    LET i == ScanIndex(block.height)
    IN  /\ i \in 1 .. Len(tx.scan) /\ tx.scan[i] = block
        /\ \E f : /\ Effects(f, After(tx.scan, i - 1), block, Len(block.transactions))
                  /\ f[pos].db = db

DeltaOfReplay ==
    LET i == ScanIndex(delta.to_tip.height)
    IN  /\ i \in 1 .. Len(tx.scan)
        /\ db.heads = After(tx.scan, i).heads /\ db.commits = After(tx.scan, i).commits

\* While a rewind is in progress the scan is already cut; the rows are still
\* of the longer chain.
ReplayInv ==
    /\ disk # None => Replays(disk, disk.scan)
    /\ (tx # None /\ ~torn /\ rewind = None) => Replays(tx, tx.scan)
    /\ (tx # None /\ ~torn /\ rewind # None) =>
          \E ch : Replays(tx, ch) /\ Continues(ch, tx.scan)
    /\ block # None => BlockReplays
    /\ (delta # None /\ ~torn) => DeltaOfReplay

LEMMA ReplayInit == SInit => ReplayInv
  BY DEF SInit, Init, ReplayInv

\* The block begun is the next one of the scan, which it joins if it is new.
LEMMA ScanGrows ==
    ASSUME StoreInv, BranchInv, NEW b \in Block, SBeginBlock(b),
           BlocksTo(tx.tip) \in 0 .. Len(tx.scan)
    PROVE  LET n == BlocksTo(tx.tip)
               L == Len(tx.scan)
           IN  /\ ScanIndex(b.height) = n + 1 /\ n \in Nat /\ L \in Nat
               /\ tx'.scan \in Seq(Block) /\ n + 1 \in 1 .. Len(tx'.scan)
               /\ tx'.scan[n + 1] = b /\ Len(tx'.scan) \in Nat /\ L <= Len(tx'.scan)
               /\ \A k \in 1 .. L : tx'.scan[k] = tx.scan[k]
               /\ RowsOf(tx, tx') /\ tx'.core_snapshot = tx.core_snapshot
               /\ tx'.scan = tx.scan \/ (n = L /\ tx'.scan = Append(tx.scan, b))
  <1>1. /\ up /\ tx # None /\ block = None /\ delta = None /\ rewind = None /\ ~torn
        /\ BeginBlock(b, {})
    BY DEF SBeginBlock, Idle
  <1>2. b.height = next_height
    BY <1>1 DEF BeginBlock
  <1>3. /\ StoreOK(tx)
        /\ tx.scan \in Seq(Block) /\ TipOK(tx.tip) /\ HeightOf(tx.tip) = tip_height
        /\ TipValid(next_height, tip_height)
    BY <1>1 DEF StoreInv, StoresInv, HeightsInv, MemOK, StoreOK, JournalOK, Current_store
  <1>4. b.height \in Height
    BY DEF Block
  <1> DEFINE n == BlocksTo(tx.tip)
             i == ScanIndex(b.height)
             L == Len(tx.scan)
  <1>5. i = n + 1 /\ n \in Nat
    <2>1. Before(tx.tip, b.height)
      <3>1. CASE tx.tip = None
        BY <1>2, <1>3, <3>1 DEF Before, HeightOf, TipValid
      <3>2. CASE tx.tip # None
        <4>1. tx.tip.height \in Height /\ tx.tip.height = tip_height /\ tip_height # None
          BY <1>3, <3>2, HeightFacts DEF TipOK, HeightOf
        <4>2. b.height = tx.tip.height + 1
          BY <1>2, <1>3, <1>4, <4>1, HeightFacts DEF TipValid
        <4> QED BY <1>3, <3>2, <4>2 DEF Before
      <3> QED BY <3>1, <3>2
    <2>2. n = i - 1 /\ n \in Nat /\ i \in Int
      BY <1>4, <2>1, BlocksBefore, HeightFacts DEF ScanIndex
    <2> QED BY <2>2
  <1>6. n \in 0 .. L /\ L \in Nat
    BY <1>3
  <1>7. CASE CaughtUp(tx)
    <2>1. tx' = [tx EXCEPT !.scan = Append(@, b)]
      BY <1>7 DEF SBeginBlock
    <2>2. /\ tx'.scan = Append(tx.scan, b) /\ RowsOf(tx, tx')
          /\ tx'.core_snapshot = tx.core_snapshot
      BY <1>3, <2>1 DEF StoreOK, StoreFields, RowsOf
    <2>3. n = L
      <3>1. CASE tx.scan = << >>
        BY <1>7, <3>1 DEF CaughtUp, BlocksTo
      <3>2. CASE tx.scan # << >>
        BY <1>7, <3>2 DEF CaughtUp, BlocksTo
      <3> QED BY <3>1, <3>2
    <2> HIDE DEF n, i
    <2>4. /\ tx'.scan \in Seq(Block) /\ Len(tx'.scan) = L + 1
          /\ \A k \in 1 .. L : tx'.scan[k] = tx.scan[k]
          /\ tx'.scan[L + 1] = b
      BY <1>3, <2>2
    <2> QED BY <1>5, <1>6, <2>2, <2>3, <2>4 DEF n, i
  <1>8. CASE ~CaughtUp(tx)
    <2>1. tx' = tx /\ b = tx.scan[i]
      BY <1>2, <1>8 DEF SBeginBlock
    <2>2. n # L
      <3>1. CASE tx.tip = None
        <4>1. tx.scan # << >>
          BY <1>8, <3>1 DEF CaughtUp
        <4>2. L # 0
          BY <1>3, <4>1
        <4> QED BY <3>1, <4>2 DEF BlocksTo
      <3>2. CASE tx.tip # None
        <4>1. Scanned(tx, tx.tip.height, tx.tip.hash)
          <5>1. tx.tip.height <= U32Max
            BY <1>3, <3>2, HeightFacts DEF TipOK
          <5> QED BY <1>1, <3>2, <5>1 DEF BranchInv, BranchOK, OnBranch, Limit
        <4>2. tx.scan # << >>
          BY <1>6, <4>1 DEF Scanned
        <4>3. ScanIndex(tx.tip.height) = L => tx.scan[L].hash = tx.tip.hash
          BY <4>1 DEF Scanned
        <4> QED BY <1>8, <3>2, <4>2, <4>3 DEF CaughtUp, BlocksTo
      <3> QED BY <3>1, <3>2
    <2>3. RowsOf(tx, tx')
      BY <2>1 DEF RowsOf
    <2> HIDE DEF n, i
    <2>4. i \in 1 .. L
      BY <1>5, <1>6, <2>2
    <2> QED BY <1>3, <1>5, <1>6, <2>1, <2>3, <2>4 DEF n, i
  <1> QED BY <1>7, <1>8

LEMMA ReplayBegin ==
    ASSUME StoreInv, BranchInv, RowsInv, PastInv, ReplayInv, NEW b \in Block, SBeginBlock(b)
    PROVE  ReplayInv'
  <1>1. /\ up /\ tx # None /\ block = None /\ delta = None /\ rewind = None /\ ~torn
        /\ BeginBlock(b, {}) /\ disk' = disk /\ delta' = delta /\ torn' = torn
        /\ rewind' = rewind
    BY DEF SBeginBlock, Idle
  <1>2. /\ block' = b /\ b # None /\ pos' = 0 /\ b.height = next_height
    BY <1>1, ValuesAssumption DEF BeginBlock
  <1>3. /\ StoreOK(tx) /\ Synced(tx) /\ Replays(tx, tx.scan) /\ Coherent(db)
        /\ tx.scan \in Seq(Block) /\ TipOK(tx.tip) /\ HeightOf(tx.tip) = tip_height
        /\ TipValid(next_height, tip_height)
    BY <1>1 DEF StoreInv, StoresInv, HeightsInv, MemOK, StoreOK, JournalOK, RowsInv,
                RecordsInv, Current_store, PastInv, MemPast, ReplayInv
  <1>4. b.height \in Height /\ b.transactions \in Seq(Transaction)
    BY DEF Block
  <1> DEFINE n == BlocksTo(tx.tip)
             i == ScanIndex(b.height)
             L == Len(tx.scan)
  <1>5. n \in 0 .. L
    BY <1>3 DEF Replays
  <1>6. i = n + 1 /\ n \in Nat /\ L \in Nat
    BY <1>5, ScanGrows
  <1>7. /\ tx'.scan \in Seq(Block) /\ n + 1 \in 1 .. Len(tx'.scan) /\ tx'.scan[n + 1] = b
        /\ Len(tx'.scan) \in Nat /\ L <= Len(tx'.scan)
        /\ \A k \in 1 .. L : tx'.scan[k] = tx.scan[k]
        /\ RowsOf(tx, tx')
    BY <1>5, ScanGrows
  <1>8. /\ BlocksTo(tx.tip) <= Len(tx'.scan)
        /\ \A k \in 1 .. BlocksTo(tx.tip) : tx.scan[k] = tx'.scan[k]
    <2> HIDE DEF i
    <2> QED BY <1>5, <1>6, <1>7
  <1>9. Replays(tx, tx'.scan)
    BY <1>3, <1>7, <1>8, OtherChain
  <1>10. Replays(tx', tx'.scan)
    BY <1>7, <1>9, RowsOfReplay
  <1>11. db = After(tx'.scan, n)
    <2>1. db.heads = After(tx'.scan, n).heads /\ db.commits = After(tx'.scan, n).commits
      BY <1>3, <1>9 DEF Replays, Synced
    <2>2. Coherent(After(tx'.scan, n))
      BY <1>7, <1>9, AfterCoherent DEF Replays
    <2> QED BY <1>3, <2>1, <2>2, SameRecords
  <1>12. db' = Started(db, b.height).db
    BY <1>1, <1>3, BeginsLikeReplay
  <1>13. BlockReplays'
    <2>1. PICK f : Effects(f, db, b, Len(b.transactions))
      <3>1. Len(b.transactions) \in Nat
        BY <1>4
      <3> QED BY <3>1, EffectsExist
    <2>2. f[0].db = db'
      BY <1>12, <2>1 DEF Effects
    <2>3. db = After(tx'.scan, i - 1)
      <3> HIDE DEF i, n
      <3>1. i - 1 = n
        BY <1>6
      <3> QED BY <1>11, <3>1
    <2>4. Effects(f, After(tx'.scan, i - 1), b, Len(b.transactions)) /\ f[pos'].db = db'
      BY <1>2, <2>1, <2>2, <2>3
    <2> HIDE DEF i
    <2>5. \E g : Effects(g, After(tx'.scan, i - 1), b, Len(b.transactions)) /\ g[pos'].db = db'
      BY <2>4
    <2>6. i \in 1 .. Len(tx'.scan) /\ tx'.scan[i] = b
      BY <1>6, <1>7
    <2> QED BY <1>2, <2>5, <2>6 DEF BlockReplays, i
  <1> QED BY <1>1, <1>2, <1>10, <1>13 DEF ReplayInv

\* One more transaction is applied as in the replay.
LEMMA AppliedReplays ==
    ASSUME MemOK, ApplyTransaction, BlockReplays, tx' = tx
    PROVE  BlockReplays'
  <1>1. /\ block # None /\ block' = block /\ pos' = pos + 1
        /\ pos < Len(block.transactions)
        /\ db' = apply_transaction([db |-> db, undo |-> undo], block.height,
                                   block.transactions[pos + 1]).db
    BY DEF ApplyTransaction
  <1>2. BlockOK
    BY DEF MemOK, TypeInv, TypeOK, BlockOK
  <1> DEFINE i == ScanIndex(block.height)
             t == block.transactions[pos + 1]
             w == [db |-> db, undo |-> undo]
  <1>3. /\ i \in 1 .. Len(tx.scan) /\ tx.scan[i] = block
        /\ \E f : /\ Effects(f, After(tx.scan, i - 1), block, Len(block.transactions))
                  /\ f[pos].db = db
    BY DEF BlockReplays
  <1>4. PICK f : /\ Effects(f, After(tx.scan, i - 1), block, Len(block.transactions))
                 /\ f[pos].db = db
    BY <1>3
  <1>5. t.operation \in Option(Operation)
    BY <1>1, <1>2, TransactionInBlock DEF Transaction
  <1>6. pos + 1 \in 1 .. Len(block.transactions) /\ (pos + 1) - 1 = pos
    <2>1. block.transactions \in Seq(Transaction) /\ pos \in Nat
      BY <1>1, <1>2 DEF BlockOK, Option, Block
    <2> QED BY <1>1, <2>1
  <1>7. f[pos + 1] = apply_transaction(f[pos], block.height, t)
    BY <1>4, <1>6 DEF Effects
  <1>8. w.db = f[pos].db
    BY <1>4
  <1> HIDE DEF t, w, i
  <1>9. apply_transaction(w, block.height, t).db = apply_transaction(f[pos], block.height, t).db
    BY <1>5, <1>8, TransactionOnRecords
  <1>10. f[pos'].db = db'
    BY <1>1, <1>7, <1>9 DEF t, w
  <1> QED BY <1>1, <1>3, <1>4, <1>10 DEF BlockReplays, i

LEMMA ReplayApply ==
    ASSUME StoreInv, ReplayInv, SApplyTransaction
    PROVE  ReplayInv'
  <1>1. /\ block # None /\ block' = block /\ disk' = disk /\ tx' = tx /\ delta' = delta
        /\ torn' = torn /\ rewind' = rewind /\ ApplyTransaction
    BY DEF SApplyTransaction, storeVars, ApplyTransaction
  <1>2. delta = None /\ MemOK /\ BlockReplays
    BY <1>1 DEF StoreInv, CallsInv, ReplayInv
  <1>3. BlockReplays'
    BY <1>1, <1>2, AppliedReplays
  <1> QED BY <1>1, <1>2, <1>3 DEF ReplayInv

LEMMA ReplayEnd ==
    ASSUME NoneIsNoRecord, StoreInv, ReplayInv, SEndBlock
    PROVE  ReplayInv'
  <1>1. /\ block # None /\ block' = None /\ db' = db /\ pos = Len(block.transactions)
        /\ delta' = delta_from_undo(reducer_tip, Tip(block.height, block.hash), undo)
        /\ disk' = disk /\ tx' = tx /\ torn' = torn /\ rewind' = rewind
    BY DEF SEndBlock, EndBlock
  <1>2. delta'.to_tip.height = block.height
    BY <1>1 DEF delta_from_undo, Tip
  <1> DEFINE i == ScanIndex(block.height)
  <1>3. /\ i \in 1 .. Len(tx.scan) /\ tx.scan[i] = block
        /\ \E f : /\ Effects(f, After(tx.scan, i - 1), block, Len(block.transactions))
                  /\ f[pos].db = db
    BY <1>1 DEF ReplayInv, BlockReplays
  <1>4. PICK f : /\ Effects(f, After(tx.scan, i - 1), block, Len(block.transactions))
                 /\ f[pos].db = db
    BY <1>3
  <1>5. block \in Block /\ tx # None /\ ~torn /\ StoreOK(tx)
    BY <1>1 DEF StoreInv, StoresInv, CallsInv, MemOK, TypeInv, TypeOK, Option
  <1>6. tx.scan \in Seq(Block)
    BY <1>5 DEF StoreOK
  <1> HIDE DEF i
  <1>7. BlockEffect(After(tx.scan, i - 1), block) = db
    BY <1>1, <1>4, <1>5, EffectIs
  <1>8. After(tx.scan, i) = db
    BY <1>3, <1>6, <1>7, AfterFacts
  <1>9. DeltaOfReplay'
    BY <1>1, <1>2, <1>3, <1>8 DEF DeltaOfReplay, i
  <1> QED BY <1>1, <1>9 DEF ReplayInv

LEMMA ReplayDelta ==
    ASSUME NoneIsNoRecord, StoreInv, RowsInv, ReplayInv, StoreDelta
    PROVE  ReplayInv'
  <1>1. /\ delta # None /\ ~torn /\ DeltaAccepted(tx, delta) /\ delta' = None
        /\ tx' = apply_delta(tx, delta) /\ vars' = vars /\ disk' = disk
        /\ torn' = torn /\ rewind' = rewind
    BY DEF StoreDelta, wallet_apply_delta
  <1>2. tx # None /\ block = None /\ rewind = None
    BY <1>1 DEF StoreInv, CallsInv
  <1>3. StoreOK(tx) /\ DeltaOK(delta) /\ MemOK /\ Replays(tx, tx.scan)
    BY <1>1, <1>2 DEF StoreInv, StoresInv, HeightsInv, ReplayInv
  <1>4. /\ history # << >> /\ RowsBefore(tx, LastUndo)
        /\ RowsMatch(tx.rollback_blocks, Earlier)
        /\ delta = delta_from_undo(TipOf(LastUndo), reducer_tip, LastUndo)
    BY <1>1 DEF RowsInv, RecordsInv
  <1>5. tx.tip = delta.from_tip
    BY <1>1 DEF DeltaAccepted
  <1>6. /\ ScanIndex(delta.to_tip.height) \in 1 .. Len(tx.scan)
        /\ db.heads = After(tx.scan, ScanIndex(delta.to_tip.height)).heads
        /\ db.commits = After(tx.scan, ScanIndex(delta.to_tip.height)).commits
    BY <1>1 DEF ReplayInv, DeltaOfReplay
  <1>7. Replays(apply_delta(tx, delta), tx.scan)
    BY <1>3, <1>4, <1>5, <1>6, DeltaReplays
  <1>8. apply_delta(tx, delta).scan = tx.scan
    BY <1>3, <1>4, DeltaWrites
  <1>9. block' = None
    BY <1>1, <1>2 DEF vars
  <1> QED BY <1>1, <1>2, <1>7, <1>8, <1>9 DEF ReplayInv

-----------------------------------------------------------------------------
LEMMA ReplayRewinds ==
    ASSUME NoneIsNoRecord, StoreInv, BranchInv, ReplayInv
    PROVE  /\ \A height \in Height : WalletRewind(height) => ReplayInv'
           /\ RewindStep => ReplayInv'
           /\ RewindEnd => ReplayInv'
           /\ RewindReset => ReplayInv'
  <1>0. disk # None => Replays(disk, disk.scan)
    BY DEF ReplayInv
  <1>1. ASSUME NEW height \in Height, WalletRewind(height) PROVE ReplayInv'
    <2>1. /\ tx # None /\ block = None /\ delta = None /\ rewind = None /\ ~torn
          /\ tx' = ScanThrough(tx, height) /\ delta' = delta /\ vars' = vars /\ disk' = disk
          /\ torn' = torn /\ rewind' # None /\ height < activation_height - 1 + Len(tx.scan)
      BY <1>1 DEF WalletRewind, Idle, NoneIsNoRecord, RewindFields
    <2>2. StoreOK(tx) /\ Replays(tx, tx.scan)
      BY <2>1 DEF StoreInv, StoresInv, ReplayInv
    <2> DEFINE n == ScanIndex(height)
    <2>3. /\ tx.scan \in Seq(Block) /\ n \in Int /\ n <= Len(tx.scan)
      <3>1. tx.scan \in Seq(Block) /\ Len(tx.scan) \in Nat
        BY <2>2 DEF StoreOK
      <3> QED BY <2>1, <3>1, HeightFacts DEF ScanIndex
    <2>4. tx'.scan = SubSeq(tx.scan, 1, n) /\ RowsOf(tx, tx')
      BY <2>1, <2>2 DEF ScanThrough, StoreOK, StoreFields, RowsOf
    <2> HIDE DEF n
    <2>5. Continues(tx.scan, tx'.scan)
      <3>1. CASE n >= 0
        BY <2>3, <2>4, <3>1 DEF Continues
      <3>2. CASE n < 0
        <4>1. SubSeq(tx.scan, 1, n) = << >>
          BY <2>3, <3>2
        <4>2. Len(<< >>) = 0 /\ Len(tx.scan) \in Nat
          BY <2>3
        <4>3. Len(tx'.scan) = 0
          BY <2>4, <4>1, <4>2
        <4> QED BY <4>2, <4>3 DEF Continues
      <3> QED BY <2>3, <3>1, <3>2
    <2>6. Replays(tx', tx.scan)
      BY <2>2, <2>4, RowsOfReplay
    <2>7. block' = None
      BY <2>1 DEF vars
    <2> QED BY <1>0, <2>1, <2>5, <2>6, <2>7 DEF ReplayInv
  <1>2. ASSUME RewindStep PROVE ReplayInv'
    <2>1. /\ rewind # None /\ rewind' = rewind /\ tx' = rollback_tip(tx) /\ Journaled_tip(tx)
          /\ disk' = disk /\ delta' = delta /\ torn' = torn /\ block' = block
      BY <1>2 DEF RewindStep, wallet_rollback_tip, RollbackTip, callVars
    <2>2. tx # None /\ block = None /\ delta = None /\ ~torn /\ StoreOK(tx)
      BY <2>1 DEF StoreInv, StoresInv, CallsInv
    <2>3. PICK ch : Replays(tx, ch) /\ Continues(ch, tx.scan)
      BY <2>1, <2>2 DEF ReplayInv
    <2>4. Replays(rollback_tip(tx), ch)
      BY <2>1, <2>2, <2>3, RollbackReplays
    <2>5. tx'.scan = tx.scan
      BY <2>1, <2>2, RollbackTipOK
    <2> QED BY <1>0, <2>1, <2>2, <2>3, <2>4, <2>5 DEF ReplayInv
  <1>3. ASSUME RewindEnd PROVE ReplayInv'
    <2>1. /\ rewind # None /\ ~Above /\ rewind' = None /\ torn' = torn /\ delta' = delta
          /\ vars' = vars /\ disk' = disk
          /\ tx' = forget_wallet_commits(ClearStaleSnapshot(tx, rewind.original_tip),
                                         rewind.height)
      BY <1>3 DEF RewindEnd
    <2>2. tx # None /\ block = None /\ delta = None /\ ~torn /\ StoreOK(tx)
      BY <2>1 DEF StoreInv, CallsInv, StoresInv
    <2>3. PICK ch : Replays(tx, ch) /\ Continues(ch, tx.scan)
      BY <2>1, <2>2 DEF ReplayInv
    <2>4. tx'.scan = tx.scan /\ RowsOf(tx, tx')
      BY <2>1, <2>2 DEF forget_wallet_commits, ClearStaleSnapshot, StoreOK, StoreFields, RowsOf
    <2>5. tx.scan \in Seq(Block) /\ Len(tx.scan) \in Nat
      BY <2>2 DEF StoreOK
    <2>6. BlocksTo(tx.tip) <= Len(tx.scan)
      <3>1. CASE tx.tip = None
        BY <2>5, <3>1 DEF BlocksTo
      <3>2. CASE tx.tip # None
        <4>1. tx.tip.height \in Height /\ rewind.height \in Height
          BY <2>1, <2>2, <3>2 DEF StoreOK, JournalOK, TipOK, BranchInv
        <4>2. tx.tip.height <= rewind.height
          BY <2>1, <3>2, <4>1, HeightFacts DEF Above
        <4>3. Scanned(tx, tx.tip.height, tx.tip.hash)
          BY <2>1, <2>2, <3>2, <4>2 DEF BranchInv, BranchOK, OnBranch, Limit
        <4> QED BY <2>5, <3>2, <4>3 DEF Scanned, BlocksTo
      <3> QED BY <3>1, <3>2
    <2>7. \A i \in 1 .. BlocksTo(tx.tip) : ch[i] = tx.scan[i]
      <3>1. BlocksTo(tx.tip) \in Nat
        BY <2>3 DEF Replays
      <3> QED BY <2>3, <2>5, <2>6, <3>1 DEF Continues
    <2>8. Replays(tx, tx.scan)
      BY <2>2, <2>3, <2>5, <2>6, <2>7, OtherChain
    <2>9. Replays(tx', tx'.scan)
      BY <2>4, <2>8, RowsOfReplay
    <2>10. block' = None
      BY <2>1, <2>2 DEF vars
    <2> QED BY <1>0, <2>1, <2>2, <2>9, <2>10 DEF ReplayInv
  <1>4. ASSUME RewindReset PROVE ReplayInv'
    <2>1. /\ rewind # None /\ rewind' = None /\ FreshMemory
          /\ tx' = forget_wallet_commits(reset_for_replay(tx), rewind.height)
          /\ disk' = disk /\ delta' = delta
      BY <1>4 DEF RewindReset
    <2>2. tx # None /\ delta = None /\ ~torn /\ StoreOK(tx)
      BY <2>1 DEF StoreInv, StoresInv, CallsInv
    <2>3. /\ tx'.tip = None /\ tx'.heads = EmptyMap /\ tx'.pending_commits = EmptyMap
          /\ tx'.rollback_blocks = EmptyMap /\ tx'.scan = tx.scan
      BY <2>1, <2>2 DEF forget_wallet_commits, reset_for_replay, StoreOK, StoreFields
    <2>4. tx'.scan \in Seq(Block)
      BY <2>2, <2>3 DEF StoreOK
    <2>5. Replays(tx', tx'.scan)
      BY <2>3, <2>4, EmptyReplays
    <2>6. block' = None
      BY <2>1 DEF FreshMemory
    <2> QED BY <1>0, <2>1, <2>2, <2>5, <2>6 DEF ReplayInv
  <1> QED BY <1>1, <1>2, <1>3, <1>4

\* The rows that finalization leaves.
LEMMA FinalizedRows ==
    ASSUME NEW s, StoreOK(s), NEW height
    PROVE  LET t == finalize_through(s, height)
           IN  RowsOf(s, t) /\ t.scan = s.scan /\ t.core_snapshot = s.core_snapshot
  <1> DEFINE t == finalize_through(s, height)
             rb == s.rollback_blocks
             low == {h \in DOMAIN rb : h <= height}
             nb == Updated(rb, [h \in low |-> None])
  <1>1. /\ t.scan = s.scan /\ t.tip = s.tip /\ t.heads = s.heads
        /\ t.pending_commits = s.pending_commits /\ t.rollback_blocks = nb
        /\ t.core_snapshot = s.core_snapshot
    BY DEF finalize_through, DeleteJournal, StoreOK, StoreFields
  <1>2. Proper(rb)
    BY DEF StoreOK, JournalOK
  <1>3. DOMAIN nb \subseteq DOMAIN rb /\ \A h \in DOMAIN nb : nb[h] = rb[h]
    <2> HIDE DEF rb, low
    <2> QED BY <1>2, DeletedRows
  <1> HIDE DEF t, nb
  <1>4. RowsOf(s, t)
    BY <1>1, <1>3 DEF RowsOf
  <1> QED BY <1>1, <1>4 DEF t

\* A snapshot stored or loaded, finalization, and a COMMIT of the wallet.
LEMMA ReplayCalls ==
    ASSUME adapter = "wallet", StoreInv, ReplayInv
    PROVE  /\ PutSnapshot \/ Resume \/ RecordWalletCommit => ReplayInv'
           /\ \A height \in Height : Finalize(height) => ReplayInv'
  <1>0. disk # None => Replays(disk, disk.scan)
    BY DEF ReplayInv
  <1>1. ASSUME PutSnapshot PROVE ReplayInv'
    <2>1. /\ tx # None /\ block = None /\ delta = None /\ rewind = None /\ ~torn
          /\ tx' = put_core_snapshot(tx, Image) /\ vars' = vars /\ disk' = disk
          /\ delta' = delta /\ rewind' = rewind
      BY <1>1 DEF PutSnapshot, Idle
    <2>2. StoreOK(tx) /\ Replays(tx, tx.scan)
      BY <2>1 DEF StoreInv, StoresInv, ReplayInv
    <2>3. tx'.scan = tx.scan /\ RowsOf(tx, tx')
      BY <2>1, <2>2 DEF put_core_snapshot, StoreOK, StoreFields, RowsOf
    <2>4. Replays(tx', tx'.scan)
      BY <2>2, <2>3, RowsOfReplay
    <2>5. block' = None
      BY <2>1 DEF vars
    <2> QED BY <1>0, <2>1, <2>4, <2>5 DEF ReplayInv
  <1>2. ASSUME Resume PROVE ReplayInv'
    <2>1. /\ tx # None /\ ~up /\ disk' = disk /\ delta' = delta /\ rewind' = rewind
          /\ torn' = torn /\ block' = None
          /\ tx' = tx \/ tx' = reset_for_replay(tx)
      BY <1>2 DEF Resume, LoadImage, FreshMemory
    <2>2. delta = None /\ rewind = None /\ ~torn
      BY <2>1 DEF StoreInv, CallsInv
    <2>3. StoreOK(tx) /\ Replays(tx, tx.scan)
      BY <2>1, <2>2 DEF StoreInv, StoresInv, ReplayInv
    <2>4. ASSUME tx' = reset_for_replay(tx) PROVE Replays(tx', tx'.scan)
      <3>1. /\ tx'.tip = None /\ tx'.heads = EmptyMap /\ tx'.pending_commits = EmptyMap
            /\ tx'.rollback_blocks = EmptyMap /\ tx'.scan = tx.scan
        BY <2>3, <2>4 DEF reset_for_replay, StoreOK, StoreFields
      <3>2. tx'.scan \in Seq(Block)
        BY <2>3, <3>1 DEF StoreOK
      <3> QED BY <3>1, <3>2, EmptyReplays
    <2>5. Replays(tx', tx'.scan)
      BY <2>1, <2>3, <2>4
    <2> QED BY <1>0, <2>1, <2>2, <2>5 DEF ReplayInv
  <1>3. ASSUME RecordWalletCommit PROVE ReplayInv'
    <2>1. /\ tx # None /\ block = None /\ delta = None /\ rewind = None /\ ~torn
          /\ vars' = vars /\ disk' = disk /\ delta' = delta /\ rewind' = rewind
      BY <1>3 DEF RecordWalletCommit, Idle
    <2>2. PICK p \in CommitsIn(tx.scan[Len(tx.scan)]) :
             tx' = record_wallet_commit(tx, p[1], p[2])
      BY <1>3 DEF RecordWalletCommit
    <2>3. StoreOK(tx) /\ Replays(tx, tx.scan)
      BY <2>1 DEF StoreInv, StoresInv, ReplayInv
    <2>4. tx'.scan = tx.scan /\ RowsOf(tx, tx')
      BY <2>2, <2>3 DEF record_wallet_commit, StoreOK, StoreFields, RowsOf
    <2>5. Replays(tx', tx'.scan)
      BY <2>3, <2>4, RowsOfReplay
    <2>6. block' = None
      BY <2>1 DEF vars
    <2> QED BY <1>0, <2>1, <2>5, <2>6 DEF ReplayInv
  <1>4. ASSUME NEW height \in Height, Finalize(height) PROVE ReplayInv'
    <2>1. /\ tx = None /\ conn # None /\ disk' = finalize_through(disk, height) /\ tx' = tx
          /\ delta' = delta /\ block' = block
      BY <1>4 DEF Finalize, FinalizeThrough, callVars
    <2>2. delta = None /\ block = None /\ disk # None /\ StoreOK(disk)
      BY <2>1 DEF StoreInv, StoresInv, CallsInv
    <2>3. RowsOf(disk, disk') /\ disk'.scan = disk.scan
      BY <2>1, <2>2, FinalizedRows
    <2>4. Replays(disk', disk'.scan)
      BY <1>0, <2>2, <2>3, RowsOfReplay
    <2> QED BY <2>1, <2>2, <2>4 DEF ReplayInv
  <1> QED BY <1>1, <1>2, <1>3, <1>4

\* Whole databases opened, begun, committed and lost, and statements that fail.
LEMMA ReplayMoved ==
    ASSUME StoreInv, ReplayInv
    PROVE  /\ \A id \in Identities : Open(id) \/ BeginTransaction(id) => ReplayInv'
           /\ Commit => ReplayInv'
           /\ BatchLost /\ disk' = disk => ReplayInv'
           /\ DeltaFails => ReplayInv'
           /\ UNCHANGED hostVars \/ ReleaseSavepoint => ReplayInv'
  <1>1. ASSUME NEW id \in Identities, Open(id) PROVE ReplayInv'
    <2>1. /\ conn = None /\ tx' = tx /\ delta' = delta /\ vars' = vars
          /\ disk' = disk \/ disk' = NewStore(id)
      BY <1>1 DEF Open
    <2>2. tx = None /\ delta = None /\ block = None
      BY <2>1 DEF StoreInv, CallsInv
    <2>3. /\ NewStore(id).tip = None /\ NewStore(id).heads = EmptyMap
          /\ NewStore(id).pending_commits = EmptyMap /\ NewStore(id).rollback_blocks = EmptyMap
          /\ NewStore(id).scan = << >>
      BY DEF NewStore
    <2>4. NewStore(id).scan \in Seq(Block)
      BY <2>3
    <2>5. Replays(NewStore(id), NewStore(id).scan)
      BY <2>3, <2>4, EmptyReplays
    <2>6. block' = None
      BY <2>1, <2>2 DEF vars
    <2> QED BY <2>1, <2>2, <2>5, <2>6 DEF ReplayInv
  <1>2. ASSUME NEW id \in Identities, BeginTransaction(id) PROVE ReplayInv'
    <2>1. /\ tx = None /\ tx' = disk /\ disk' = disk /\ delta' = delta /\ vars' = vars
          /\ rewind' = rewind /\ torn' = torn
      BY <1>2 DEF BeginTransaction
    <2>2. delta = None /\ rewind = None /\ block = None
      BY <2>1 DEF StoreInv, CallsInv
    <2>3. block' = None
      BY <2>1, <2>2 DEF vars
    <2> QED BY <2>1, <2>2, <2>3 DEF ReplayInv
  <1>3. ASSUME Commit PROVE ReplayInv'
    <2>1. /\ tx # None /\ block = None /\ delta = None /\ rewind = None /\ ~torn
          /\ disk' = tx /\ tx' = None /\ vars' = vars /\ delta' = delta
      BY <1>3 DEF Commit, Idle
    <2>2. block' = None
      BY <2>1 DEF vars
    <2> QED BY <2>1, <2>2 DEF ReplayInv
  <1>4. ASSUME BatchLost, disk' = disk PROVE ReplayInv'
    BY <1>4 DEF BatchLost, FreshMemory, ReplayInv
  <1>5. ASSUME DeltaFails PROVE ReplayInv'
    <2>1. /\ delta # None /\ torn' /\ vars' = vars /\ disk' = disk
      BY <1>5 DEF DeltaFails
    <2>2. block' = None
      BY <2>1 DEF StoreInv, CallsInv, vars
    <2> QED BY <2>1, <2>2 DEF ReplayInv
  <1>6. ASSUME UNCHANGED hostVars \/ ReleaseSavepoint PROVE ReplayInv'
    <2>1. /\ vars' = vars /\ disk' = disk /\ tx' = tx /\ delta' = delta /\ torn' = torn
          /\ rewind' = rewind
      BY <1>6 DEF hostVars, storeVars, ReleaseSavepoint
    <2>2. (block # None => BlockReplays) => (block' # None => BlockReplays')
      BY <2>1 DEF vars, BlockReplays
    <2>3. DeltaOfReplay => DeltaOfReplay'
      BY <2>1 DEF vars, DeltaOfReplay
    <2> QED BY <2>1, <2>2, <2>3 DEF ReplayInv
  <1> QED BY <1>1, <1>2, <1>3, <1>4, <1>5, <1>6

LEMMA ReplayStep ==
    ASSUME NoneIsNoRecord, adapter = "wallet", HostInv, PastInv, ReplayInv, [SNext]_hostVars
    PROVE  ReplayInv'
  <1>0. StoreInv /\ BranchInv /\ RowsInv
    BY DEF HostInv
  <1>1. ASSUME NEW b \in Block, SBeginBlock(b) PROVE ReplayInv'
    BY <1>0, <1>1, ReplayBegin
  <1>2. CASE ReplayScanned
    <2>1. PICK i \in DOMAIN tx.scan : SBeginBlock(tx.scan[i])
      BY <1>2 DEF ReplayScanned
    <2>2. tx.scan \in Seq(Block)
      BY <1>0, <2>1 DEF SBeginBlock, Idle, StoreInv, StoresInv, StoreOK
    <2>3. tx.scan[i] \in Block
      BY <2>1, <2>2
    <2> QED BY <1>1, <2>1, <2>3
  <1>3. ~BlockFails /\ \A hash : ~ReorganizeTip(hash)
    BY <1>0 DEF BlockFails, ReorganizeTip, StoreInv, CallsInv
  <1>4. CASE AbortBatch \/ Crash
    BY <1>0, <1>4, ReplayMoved DEF AbortBatch, Crash
  <1>5. CASE HostStep
    <2>1. \/ \E id \in Identities : Open(id) \/ BeginTransaction(id)
          \/ Resume \/ SApplyTransaction \/ SEndBlock \/ StoreDelta \/ ReleaseSavepoint
          \/ AbortBatch
          \/ RewindStep \/ RewindEnd \/ RewindReset \/ Commit
      BY <1>5 DEF HostStep
    <2> QED BY <1>0, <1>4, <2>1, ReplayMoved, ReplayCalls, ReplayApply, ReplayEnd, ReplayDelta,
               ReplayRewinds
  <1>6. SNext \/ UNCHANGED hostVars
    OBVIOUS
  <1> QED BY <1>0, <1>1, <1>2, <1>3, <1>4, <1>5, <1>6, ReplayMoved, ReplayCalls,
             ReplayRewinds DEF SNext

\* With the wallet's adapter the stored heads and COMMITs are those a fresh
\* reducer computes from the scanned blocks up to the stored tip, in the
\* committed database and in the open one between two calls, whatever was
\* stored, failed, rewound, reset, finalized, reloaded and replayed before
\* (docs/decisions/0005: bootstrap authority is replay).
THEOREM ReplayRebuilds ==
    ASSUME NoneIsNoRecord, adapter = "wallet"
    PROVE  SSpec => []RowsAreReplay
  <1>1. ReplayInv => RowsAreReplay
    <2> SUFFICES ASSUME ReplayInv, NEW s \in Views
                 PROVE  LET n == IF s.tip = None THEN 0 ELSE ScanIndex(s.tip.height)
                            d == Replayed(SubSeq(s.scan, 1, n))
                        IN  /\ n <= Len(s.scan)
                            /\ Records(s) = [heads |-> d.heads, commits |-> d.commits]
      BY DEF RowsAreReplay
    <2>1. \/ s = disk /\ disk # None
          \/ s = tx /\ tx # None /\ ~torn /\ rewind = None
      BY DEF Views, Settled
    <2>2. Replays(s, s.scan)
      BY <2>1 DEF ReplayInv
    <2>3. BlocksTo(s.tip) = IF s.tip = None THEN 0 ELSE ScanIndex(s.tip.height)
      BY DEF BlocksTo
    <2>4. BlocksTo(s.tip) <= Len(s.scan)
      BY <2>2 DEF Replays
    <2> HIDE DEF BlocksTo
    <2>5. Records(s) = [heads |-> After(s.scan, BlocksTo(s.tip)).heads,
                        commits |-> After(s.scan, BlocksTo(s.tip)).commits]
      BY <2>2 DEF Replays, Records
    <2> QED BY <2>3, <2>4, <2>5 DEF After
  <1>2. HostInv /\ PastInv /\ [SNext]_hostVars => PastInv'
    BY PastStep DEF HostInv
  <1>3. HostInv /\ PastInv /\ ReplayInv /\ [SNext]_hostVars => ReplayInv'
    BY ReplayStep
  <1> QED BY <1>1, <1>2, <1>3, HostInit, PastInit, ReplayInit, HostStepInv, PTL DEF SSpec

-----------------------------------------------------------------------------
(***************************************************************************)
(* The store's own adapter.  A block taken back leaves the stored image in *)
(* place, so an image can be of a branch the scan has left; what saves it  *)
(* is that a block hash stands for the block and, with its prev_hash, for  *)
(* the branch below.  So both the rows and the reducer are compared with   *)
(* the replay, and an image with the replay of a chain of its own.         *)
(***************************************************************************)
\* C has one block for each hash, and every scanned block is of C.  A block hash
\* covers the header and through it the block; in MCStore, where a hash is the
\* whole branch, C is the set of blocks of that form.
HashesName(C) == C \subseteq Block /\ \A b, c \in C : b.hash = c.hash => b = c

ScansFrom(C) ==
    /\ disk # None => \A i \in 1 .. Len(disk.scan) : disk.scan[i] \in C
    /\ tx # None => \A i \in 1 .. Len(tx.scan) : tx.scan[i] \in C

HashAt(ch, n) == IF n = 0 THEN ActivationParentHash ELSE ch[n].hash
TipAt(ch, n) == IF n = 0 THEN None ELSE Tip(activation_height + n - 1, ch[n].hash)

Chained(ch) == \A k \in 1 .. Len(ch) : ch[k].prev_hash = HashAt(ch, k - 1)

\* An undo record leads from the records after its block to those before it.
UndoFollows(u, ch, n) ==
    LET i == ScanIndex(u.previous_next_height)
    IN  i \in 1 .. n /\ RowUndoes(u, ch, i) /\ u.previous_hash = HashAt(ch, i - 1)

SoundTo(ch, n) ==
    \A k \in 1 .. n : AllSound(After(ch, k).heads, activation_height + k - 1)

\* The past of a reducer that has applied n blocks of a chain.
PastFollows(ch, n, hash, undos) ==
    /\ n \in 0 .. Len(ch) /\ hash = HashAt(ch, n) /\ SoundTo(ch, n)
    /\ \A u \in undos : UndoFollows(u, ch, n)

RecordsAfter(heads, commits, ch, n) ==
    heads = After(ch, n).heads /\ commits = After(ch, n).commits

\* Two chains that agree up to a block.
Agree(ch, dh, n) ==
    /\ ch \in Seq(Block) /\ dh \in Seq(Block) /\ n \in Nat /\ n <= Len(ch) /\ n <= Len(dh)
    /\ \A i \in 1 .. n : ch[i] = dh[i]

LEMMA HashNamesBranch ==
    ASSUME NEW C, HashesName(C), NEW ch \in Seq(Block), NEW dh \in Seq(Block),
           \A i \in 1 .. Len(ch) : ch[i] \in C, \A i \in 1 .. Len(dh) : dh[i] \in C,
           Chained(ch), Chained(dh), NEW n \in Nat, n <= Len(ch), n <= Len(dh),
           HashAt(ch, n) = HashAt(dh, n)
    PROVE  Agree(ch, dh, n)
  <1> DEFINE S == {j \in 0 .. n : n - j > 0 => ch[n - j] = dh[n - j]}
  <1>1. Len(ch) \in Nat /\ Len(dh) \in Nat
    OBVIOUS
  <1>2. ASSUME NEW k \in 1 .. n, ch[k].hash = dh[k].hash PROVE ch[k] = dh[k]
    <2>1. k \in 1 .. Len(ch) /\ k \in 1 .. Len(dh)
      BY <1>1
    <2> QED BY <1>2, <2>1 DEF HashesName
  <1>3. 0 \in S
    <2>1. n > 0 => n \in 1 .. n /\ n # 0
      OBVIOUS
    <2>2. n > 0 => ch[n].hash = dh[n].hash
      BY <2>1 DEF HashAt
    <2>3. n > 0 => ch[n] = dh[n]
      BY <1>2, <2>1, <2>2
    <2>4. n - 0 = n /\ 0 \in 0 .. n
      OBVIOUS
    <2> QED BY <2>3, <2>4
  <1>4. ASSUME NEW j \in 0 .. (n - 1), j \in S PROVE j + 1 \in S
    <2> DEFINE k == n - j
    <2>1. k \in 1 .. n /\ n - (j + 1) = k - 1 /\ j + 1 \in 0 .. n /\ n - j > 0
      OBVIOUS
    <2>2. ch[k] = dh[k]
      BY <1>4, <2>1
    <2> HIDE DEF k
    <2>3. k \in 1 .. Len(ch) /\ k \in 1 .. Len(dh)
      BY <1>1, <2>1
    <2>4. HashAt(ch, k - 1) = HashAt(dh, k - 1)
      BY <2>2, <2>3 DEF Chained
    <2>5. k - 1 > 0 => ch[k - 1] = dh[k - 1]
      <3> SUFFICES ASSUME k - 1 > 0 PROVE ch[k - 1] = dh[k - 1]
        OBVIOUS
      <3>1. k - 1 \in 1 .. n /\ k - 1 # 0
        BY <2>1
      <3>2. ch[k - 1].hash = dh[k - 1].hash
        BY <2>4, <3>1 DEF HashAt
      <3> QED BY <1>2, <3>1, <3>2
    <2> QED BY <2>1, <2>5
  <1> HIDE DEF S
  <1>5. 0 .. n \subseteq S
    BY <1>3, <1>4, UpTo
  <1>6. ASSUME NEW i \in 1 .. n PROVE ch[i] = dh[i]
    <2>1. n - i \in 0 .. n /\ n - (n - i) = i /\ i > 0
      OBVIOUS
    <2> QED BY <1>5, <2>1 DEF S
  <1> QED BY <1>6 DEF Agree

LEMMA AgreeAfter ==
    ASSUME NEW ch, NEW dh, NEW n, Agree(ch, dh, n), NEW m \in 0 .. n
    PROVE  /\ After(ch, m) = After(dh, m) /\ HashAt(ch, m) = HashAt(dh, m)
           /\ TipAt(ch, m) = TipAt(dh, m)
  <1>1. /\ ch \in Seq(Block) /\ dh \in Seq(Block) /\ m \in Nat /\ n \in Nat
        /\ Len(ch) \in Nat /\ Len(dh) \in Nat /\ n <= Len(ch) /\ n <= Len(dh)
        /\ \A i \in 1 .. n : ch[i] = dh[i]
    BY DEF Agree
  <1>2. m <= Len(ch) /\ m <= Len(dh) /\ \A i \in 1 .. m : ch[i] = dh[i]
    BY <1>1
  <1>3. After(ch, m) = After(dh, m)
    BY <1>1, <1>2, AfterPrefix
  <1>4. m # 0 => ch[m] = dh[m]
    BY <1>1, <1>2
  <1> QED BY <1>3, <1>4 DEF HashAt, TipAt

\* What is said about the first n blocks holds of every chain that has them.
LEMMA PastAgrees ==
    ASSUME NEW ch, NEW dh, NEW n, Agree(ch, dh, n), NEW hash, NEW undos,
           PastFollows(ch, n, hash, undos)
    PROVE  PastFollows(dh, n, hash, undos)
  <1>1. n \in Nat /\ n \in 0 .. n /\ n \in 0 .. Len(dh)
    BY DEF Agree
  <1>2. HashAt(dh, n) = hash
    BY <1>1, AgreeAfter DEF PastFollows
  <1>3. ASSUME NEW k \in 1 .. n PROVE AllSound(After(dh, k).heads, activation_height + k - 1)
    <2>1. k \in 0 .. n
      OBVIOUS
    <2>2. After(ch, k) = After(dh, k)
      BY <2>1, AgreeAfter
    <2> QED BY <2>2 DEF PastFollows, SoundTo
  <1>4. ASSUME NEW u \in undos PROVE UndoFollows(u, dh, n)
    <2> DEFINE i == ScanIndex(u.previous_next_height)
    <2>1. i \in 1 .. n /\ RowUndoes(u, ch, i) /\ u.previous_hash = HashAt(ch, i - 1)
      BY DEF PastFollows, UndoFollows
    <2> HIDE DEF i
    <2>2. i \in 0 .. n /\ i - 1 \in 0 .. n
      BY <1>1, <2>1
    <2>3. /\ After(ch, i) = After(dh, i) /\ After(ch, i - 1) = After(dh, i - 1)
          /\ HashAt(ch, i - 1) = HashAt(dh, i - 1)
      BY <2>2, AgreeAfter
    <2>4. RowUndoes(u, dh, i)
      BY <2>1, <2>3 DEF RowUndoes
    <2> QED BY <2>1, <2>3, <2>4 DEF UndoFollows, i
  <1> QED BY <1>1, <1>2, <1>3, <1>4 DEF PastFollows, SoundTo

TipsFollow(s, ch) ==
    /\ s.tip = TipAt(ch, BlocksTo(s.tip))
    /\ \A h \in DOMAIN s.rollback_blocks :
          s.rollback_blocks[h].previous_tip = TipAt(ch, ScanIndex(h) - 1)

RowsFollow(s, ch) == Replays(s, ch) /\ TipsFollow(s, ch)

\* A stored image is of some chain of C.
ImageFollows(i, C) ==
    LET n == ScanIndex(i.tip.height)
    IN  \E ch \in Seq(Block) :
            /\ Chained(ch) /\ \A k \in 1 .. Len(ch) : ch[k] \in C
            /\ RecordsAfter(i.heads, i.commits, ch, n)
            /\ PastFollows(ch, n, i.tip.hash, Elems(i.history))

StoreFollows(s, C) ==
    /\ Chained(s.scan) /\ RowsFollow(s, s.scan)
    /\ s.core_snapshot # None => ImageFollows(s.core_snapshot, C)

LEMMA SameRowsFollow ==
    ASSUME NEW s, NEW t, NEW ch, RowsFollow(s, ch), RowsOf(s, t)
    PROVE  RowsFollow(t, ch)
  <1>1. Replays(t, ch)
    BY RowsOfReplay DEF RowsFollow
  <1> QED BY <1>1 DEF RowsFollow, TipsFollow, RowsOf

LEMMA EmptyFollows ==
    ASSUME NEW s, NEW ch \in Seq(Block), s.tip = None, s.heads = EmptyMap,
           s.pending_commits = EmptyMap, s.rollback_blocks = EmptyMap
    PROVE  RowsFollow(s, ch)
  <1>1. Replays(s, ch)
    BY EmptyReplays
  <1>2. DOMAIN s.rollback_blocks = {}
    BY DEF EmptyMap
  <1> QED BY <1>1, <1>2 DEF RowsFollow, TipsFollow, TipAt, BlocksTo

LEMMA RowsAgree ==
    ASSUME NEW s, StoreOK(s), NEW ch, RowsFollow(s, ch), NEW dh,
           Agree(ch, dh, BlocksTo(s.tip))
    PROVE  RowsFollow(s, dh)
  <1> DEFINE n == BlocksTo(s.tip)
  <1>1. n \in Nat /\ n \in 0 .. n
    BY DEF Agree
  <1>2. Replays(s, dh)
    BY OtherChain DEF RowsFollow, Agree
  <1>3. s.tip = TipAt(dh, n)
    <2>1. TipAt(ch, n) = TipAt(dh, n)
      BY <1>1, AgreeAfter
    <2> QED BY <2>1 DEF RowsFollow, TipsFollow
  <1>4. ASSUME NEW h \in DOMAIN s.rollback_blocks
        PROVE  s.rollback_blocks[h].previous_tip = TipAt(dh, ScanIndex(h) - 1)
    <2>1. s.tip # None /\ h \in activation_height .. s.tip.height /\ s.tip.height \in Height
      BY DEF StoreOK, JournalOK, Retained, TipOK
    <2>2. n = ScanIndex(s.tip.height)
      BY <2>1 DEF BlocksTo
    <2> HIDE DEF n
    <2>3. ScanIndex(h) - 1 \in 0 .. n
      BY <2>1, <2>2, HeightFacts DEF ScanIndex
    <2>4. TipAt(ch, ScanIndex(h) - 1) = TipAt(dh, ScanIndex(h) - 1)
      BY <2>3, AgreeAfter DEF n
    <2> QED BY <2>4 DEF RowsFollow, TipsFollow
  <1> QED BY <1>2, <1>3, <1>4 DEF RowsFollow, TipsFollow

LEMMA RowsFollowBack ==
    ASSUME NEW s, StoreOK(s), Journaled_tip(s), NEW ch, RowsFollow(s, ch)
    PROVE  LET t == rollback_tip(s)
           IN  /\ RowsFollow(t, ch) /\ BlocksTo(s.tip) \in 1 .. Len(ch)
               /\ BlocksTo(t.tip) = BlocksTo(s.tip) - 1
               /\ t.scan = s.scan /\ t.core_snapshot = s.core_snapshot
  <1> DEFINE t == rollback_tip(s)
             rb == s.rollback_blocks
             at == s.tip.height
             row == rb[at]
             nb == Updated(rb, [h \in {at} |-> None])
             n == ScanIndex(at)
  <1>1. /\ t.tip = row.previous_tip /\ t.rollback_blocks = nb
        /\ t.scan = s.scan /\ t.core_snapshot = s.core_snapshot
    BY DEF rollback_tip, DeleteJournal, write_tip, write_head, write_commit, StoreOK, StoreFields
  <1>2. /\ s.tip # None /\ at \in DOMAIN rb /\ Proper(rb)
        /\ Before(row.previous_tip, at) /\ TipOK(s.tip)
    BY DEF Journaled_tip, StoreOK, JournalOK
  <1>3. at \in Height
    BY <1>2 DEF TipOK
  <1>4. /\ DOMAIN nb = DOMAIN rb \ {at} /\ \A h \in DOMAIN nb : nb[h] = rb[h]
    <2> HIDE DEF rb, at
    <2> QED BY <1>2, DeletedRows
  <1>5. BlocksTo(s.tip) = n
    BY <1>2 DEF BlocksTo
  <1>6. BlocksTo(row.previous_tip) = n - 1 /\ n - 1 \in Nat /\ n \in Int
    BY <1>2, <1>3, BlocksBefore, HeightFacts DEF ScanIndex
  <1>7. Replays(t, ch)
    BY RollbackReplays DEF RowsFollow
  <1>8. n \in 0 .. Len(ch)
    BY <1>5 DEF RowsFollow, Replays
  <1>9. \A h \in DOMAIN rb : rb[h].previous_tip = TipAt(ch, ScanIndex(h) - 1)
    BY DEF RowsFollow, TipsFollow
  <1> HIDE DEF t, nb, n
  <1>10. t.tip = TipAt(ch, n - 1)
    BY <1>1, <1>2, <1>9 DEF n
  <1>11. TipsFollow(t, ch)
    BY <1>1, <1>4, <1>6, <1>9, <1>10 DEF TipsFollow
  <1>12. n \in 1 .. Len(ch)
    BY <1>6, <1>8
  <1> QED BY <1>1, <1>5, <1>6, <1>7, <1>11, <1>12 DEF RowsFollow, t

LEMMA RowsFollowDelta ==
    ASSUME NoneIsNoRecord, MemOK, history # << >>, NEW s, StoreOK(s), NEW d, DeltaOK(d),
           d = delta_from_undo(TipOf(LastUndo), reducer_tip, LastUndo),
           RowsBefore(s, LastUndo), NEW ch, RowsFollow(s, ch),
           BlocksTo(reducer_tip) \in 0 .. Len(ch),
           RecordsAfter(db.heads, db.commits, ch, BlocksTo(reducer_tip)),
           previous_hash = HashAt(ch, BlocksTo(reducer_tip))
    PROVE  RowsFollow(apply_delta(s, d), ch)
  <1> DEFINE t == apply_delta(s, d)
             to == d.to_tip.height
             n == ScanIndex(to)
             rb == s.rollback_blocks
             nb == t.rollback_blocks
  <1>1. /\ t.tip = d.to_tip /\ to = tip_height
        /\ DOMAIN nb = DOMAIN rb \cup {to} /\ \A h \in DOMAIN rb : h # to => nb[h] = rb[h]
        /\ RowIs(nb[to], LastUndo)
    BY DeltaWrites
  <1>2. tip_height \in Height
    BY LastAndEarlier
  <1>3. d.from_tip = TipOf(LastUndo) /\ d.to_tip = reducer_tip
    BY DEF delta_from_undo
  <1>4. s.tip = d.from_tip
    BY <1>3 DEF RowsBefore
  <1>5. reducer_tip = Tip(tip_height, previous_hash) /\ reducer_tip # None
    BY <1>2, HeightFacts DEF reducer_tip, NoneIsNoRecord, Tip, TipFields
  <1>6. BlocksTo(reducer_tip) = n /\ BlocksTo(t.tip) = n
    BY <1>1, <1>3, <1>5 DEF BlocksTo
  <1>7. BlocksTo(s.tip) = n - 1 /\ n - 1 \in Nat /\ n \in Int
    <2>1. Before(s.tip, to) /\ to \in Height
      BY <1>1, <1>2, <1>4 DEF DeltaOK
    <2> QED BY <2>1, BlocksBefore, HeightFacts DEF ScanIndex
  <1>8. n \in 1 .. Len(ch)
    <2> HIDE DEF n
    <2>1. n \in 0 .. Len(ch)
      BY <1>6
    <2> QED BY <1>7, <2>1
  <1>9. Replays(t, ch)
    <2>1. db.heads = After(ch, n).heads /\ db.commits = After(ch, n).commits
      BY <1>6 DEF RecordsAfter
    <2>2. Replays(s, ch)
      BY DEF RowsFollow
    <2> HIDE DEF n
    <2> QED BY <1>4, <1>8, <2>1, <2>2, DeltaReplays DEF n
  <1> HIDE DEF t
  <1>10. t.tip = TipAt(ch, n)
    <2>1. n # 0 /\ previous_hash = ch[n].hash
      BY <1>6, <1>8 DEF HashAt
    <2>2. activation_height + n - 1 = tip_height
      BY <1>1, <1>2, HeightFacts DEF ScanIndex
    <2> QED BY <1>1, <1>3, <1>5, <2>1, <2>2 DEF TipAt
  <1>11. \A h \in DOMAIN rb : rb[h].previous_tip = TipAt(ch, ScanIndex(h) - 1)
    BY DEF RowsFollow, TipsFollow
  <1>12. nb[to].previous_tip = TipAt(ch, n - 1)
    <2>1. s.tip = TipAt(ch, n - 1)
      BY <1>7 DEF RowsFollow, TipsFollow
    <2> QED BY <1>1, <1>3, <1>4, <2>1 DEF RowIs
  <1>13. TipsFollow(t, ch)
    BY <1>1, <1>6, <1>10, <1>11, <1>12 DEF TipsFollow
  <1> QED BY <1>9, <1>13 DEF RowsFollow, t

\* The number of blocks the reducer has applied.
Applied == BlocksTo(reducer_tip)

LEMMA AppliedIs ==
    ASSUME NoneIsNoRecord, MemOK
    PROVE  /\ Applied = (IF tip_height = None THEN 0 ELSE ScanIndex(tip_height))
           /\ Applied \in Nat
           /\ next_height # None => ScanIndex(next_height) = Applied + 1
  <1>1. tip_height \in Option(Height) /\ TipValid(next_height, tip_height)
        /\ next_height \in Option(Height)
    BY DEF MemOK, TypeInv, TypeOK
  <1>2. CASE tip_height = None
    BY <1>1, <1>2, HeightFacts DEF Applied, BlocksTo, reducer_tip, TipValid, ScanIndex
  <1>3. CASE tip_height # None
    <2>1. reducer_tip = Tip(tip_height, previous_hash) /\ reducer_tip # None
      BY <1>3 DEF reducer_tip, NoneIsNoRecord, Tip, TipFields
    <2>2. tip_height \in Height /\ tip_height >= activation_height
      BY <1>1, <1>3 DEF Option, TipValid
    <2>3. Applied = ScanIndex(tip_height)
      BY <2>1 DEF Applied, BlocksTo, Tip
    <2>4. ScanIndex(tip_height) \in Nat
      BY <2>2, HeightFacts DEF ScanIndex
    <2>5. next_height # None => next_height = tip_height + 1
      BY <1>1, <1>3, <2>2, HeightFacts DEF TipValid
    <2>6. next_height # None => ScanIndex(next_height) = ScanIndex(tip_height) + 1
      BY <2>2, <2>5, HeightFacts DEF ScanIndex
    <2> QED BY <1>3, <2>3, <2>4, <2>6
  <1> QED BY <1>2, <1>3

\* The tip of the reducer is that of the chain it follows.
LEMMA TipIsOfChain ==
    ASSUME NoneIsNoRecord, MemOK, NEW ch, previous_hash = HashAt(ch, Applied)
    PROVE  reducer_tip = TipAt(ch, Applied)
  <1>1. tip_height \in Option(Height) /\ TipValid(next_height, tip_height)
    BY DEF MemOK, TypeInv, TypeOK
  <1>2. CASE tip_height = None
    BY <1>2, AppliedIs DEF reducer_tip, TipAt
  <1>3. CASE tip_height # None
    <2>1. tip_height \in Height /\ tip_height >= activation_height
      BY <1>1, <1>3 DEF Option, TipValid
    <2>2. Applied = ScanIndex(tip_height)
      BY <1>3, AppliedIs
    <2>3. Applied # 0 /\ activation_height + Applied - 1 = tip_height
      BY <2>1, <2>2, HeightFacts DEF ScanIndex
    <2> QED BY <1>3, <2>3 DEF reducer_tip, TipAt, HashAt
  <1> QED BY <1>2, <1>3

MemoryFollows(ch) ==
    /\ PastFollows(ch, Applied, previous_hash, Elems(history))
    /\ RecordsAfter(db.heads, db.commits, ch, Applied)

LEMMA MemoryAgrees ==
    ASSUME NEW ch, MemoryFollows(ch), NEW dh, Agree(ch, dh, Applied)
    PROVE  MemoryFollows(dh)
  <1>1. Applied \in 0 .. Applied
    BY DEF Agree
  <1>2. After(ch, Applied) = After(dh, Applied)
    BY <1>1, AgreeAfter
  <1>3. PastFollows(dh, Applied, previous_hash, Elems(history))
    BY PastAgrees DEF MemoryFollows
  <1> QED BY <1>2, <1>3 DEF MemoryFollows, RecordsAfter

\* The reducer takes its last block back.
LEMMA MemoryBack ==
    ASSUME NoneIsNoRecord, MemOK, Coherent(db), NEW hash, RollbackTip(hash),
           NEW ch \in Seq(Block), MemoryFollows(ch)
    PROVE  /\ Coherent(db)' /\ Applied' = Applied - 1 /\ Applied' \in Nat
           /\ PastFollows(ch, Applied', previous_hash', Elems(history'))
           /\ RecordsAfter(db'.heads, db'.commits, ch, Applied')
  <1> DEFINE n == Applied
             u == LastUndo
  <1>1. /\ block' = None /\ history # << >> /\ db' = Restored(db, u)
        /\ previous_hash' = u.previous_hash
        /\ history' = SubSeq(history, 1, Len(history) - 1)
    BY DEF RollbackTip, callVars, LastUndo
  <1>2. /\ MemOK' /\ tip_height \in Height
        /\ IF tip_height' = None THEN tip_height = activation_height
           ELSE tip_height' \in Height /\ tip_height = tip_height' + 1
    BY MemRollback
  <1>3. n = ScanIndex(tip_height) /\ n \in Nat
    BY <1>2, AppliedIs, HeightFacts
  <1>4. Applied' = (IF tip_height' = None THEN 0 ELSE ScanIndex(tip_height')) /\ Applied' \in Nat
    <2>1. CASE tip_height' = None
      BY <2>1 DEF Applied, BlocksTo, reducer_tip
    <2>2. CASE tip_height' # None
      <3>1. tip_height' \in Height /\ tip_height' >= activation_height
        BY <1>2, <2>2 DEF MemOK, TipValid
      <3>2. reducer_tip' = Tip(tip_height', previous_hash') /\ reducer_tip' # None
        BY <2>2 DEF reducer_tip, NoneIsNoRecord, Tip, TipFields
      <3>3. Applied' = ScanIndex(tip_height')
        BY <3>2 DEF Applied, BlocksTo, Tip
      <3>4. \A x \in Height : x >= activation_height => ScanIndex(x) \in Nat
        BY HeightFacts DEF ScanIndex
      <3> QED BY <2>2, <3>1, <3>3, <3>4
    <2> QED BY <2>1, <2>2
  <1>5. Applied' = n - 1
    <2> HIDE DEF n
    <2>1. CASE tip_height' = None
      BY <1>2, <1>3, <1>4, <2>1, HeightFacts DEF ScanIndex
    <2>2. CASE tip_height' # None
      BY <1>2, <1>3, <1>4, <2>2, HeightFacts DEF ScanIndex
    <2> QED BY <2>1, <2>2
  <1>6. Coherent(db')
    BY <1>1, ReplaceHeadsCoherent, ReplaceCommitsCoherent DEF Restored
  <1>7. /\ db'.heads = Updated(db.heads, u.heads)
        /\ db'.commits = Updated(db.commits, u.commits)
    BY <1>1 DEF Restored, ReplaceHeads, ReplaceCommits
  <1>8. /\ u.previous_next_height = tip_height /\ u \in Elems(history)
        /\ Elems(history) = Earlier \cup {u}
        /\ \A v \in Earlier : v.previous_next_height # tip_height
    BY <1>1, LastAndEarlier
  <1>9. RowUndoes(u, ch, n) /\ n \in 1 .. n /\ u.previous_hash = HashAt(ch, n - 1)
    <2>1. UndoFollows(u, ch, n)
      BY <1>8 DEF MemoryFollows, PastFollows
    <2> QED BY <1>3, <1>8, <2>1 DEF UndoFollows
  <1>10. Elems(history') = Earlier
    <2> DEFINE L == Len(history)
               k == L - 1
    <2>1. L \in Nat /\ L > 0 /\ IsSeq(history)
      BY <1>1, LastElem DEF MemOK, TypeInv
    <2>2. k \in Nat /\ 1 <= k + 1 /\ k <= L /\ history' = SubSeq(history, 1, k)
      BY <1>1, <2>1
    <2> HIDE DEF k
    <2>3. /\ Len(history') = k + 1 - 1
          /\ \A i \in 1 .. (k + 1 - 1) : history'[i] = history[1 + i - 1]
      BY <2>1, <2>2, SubSeqFacts
    <2>4. Len(history') = k /\ \A i \in 1 .. k : history'[i] = history[i]
      BY <2>2, <2>3
    <2> QED BY <2>4 DEF Elems, Earlier, k
  <1> HIDE DEF n, u
  <1>11. RecordsAfter(db'.heads, db'.commits, ch, n - 1)
    BY <1>7, <1>9 DEF MemoryFollows, RecordsAfter, RowUndoes, n
  <1>12. n \in 0 .. Len(ch) /\ SoundTo(ch, n) /\ \A v \in Earlier : UndoFollows(v, ch, n)
    BY <1>8 DEF MemoryFollows, PastFollows, n
  <1>13. n - 1 \in 0 .. Len(ch) /\ \A k \in 1 .. n - 1 : k \in 1 .. n
    BY <1>3, <1>9, <1>12
  <1>14. ASSUME NEW v \in Earlier PROVE UndoFollows(v, ch, n - 1)
    <2> DEFINE i == ScanIndex(v.previous_next_height)
    <2>1. i \in 1 .. n /\ RowUndoes(v, ch, i) /\ v.previous_hash = HashAt(ch, i - 1)
      BY <1>12 DEF UndoFollows
    <2>2. v.previous_next_height \in Height /\ v.previous_next_height # tip_height
      BY <1>8 DEF MemOK, UndoTips, UndoOK
    <2>3. i # n
      BY <1>2, <1>3, <2>2, HeightFacts DEF ScanIndex
    <2> HIDE DEF i
    <2>4. i \in 1 .. n - 1
      BY <1>3, <2>1, <2>3
    <2> QED BY <2>1, <2>4 DEF UndoFollows, i
  <1>15. SoundTo(ch, n - 1)
    BY <1>12, <1>13 DEF SoundTo
  <1>16. PastFollows(ch, n - 1, previous_hash', Elems(history'))
    BY <1>1, <1>9, <1>10, <1>13, <1>14, <1>15 DEF PastFollows, u
  <1> QED BY <1>4, <1>5, <1>6, <1>11, <1>16 DEF n

\* A fresh reducer follows every chain.
LEMMA MemoryFresh ==
    ASSUME FreshMemory, NEW ch \in Seq(Block)
    PROVE  Coherent(db)' /\ MemoryFollows(ch)'
  <1>1. /\ tip_height' = None /\ previous_hash' = ActivationParentHash /\ history' = << >>
        /\ db' = NoRecords
    BY DEF FreshMemory, NoRecords
  <1>2. Coherent(db')
    <2>1. MapOf(EmptyMap, CommitRef, Commitments) /\ MapOf(EmptyMap, NameIds, HeadRecord)
      BY DEF MapOf, EmptyMap
    <2> QED BY <1>1, <2>1, RebuiltCoherent DEF NoRecords
  <1>3. Applied' = 0
    BY <1>1 DEF Applied, BlocksTo, reducer_tip
  <1>4. db' = After(ch, 0) /\ HashAt(ch, 0) = ActivationParentHash
    BY <1>1, AfterFacts DEF HashAt
  <1>5. Elems(history') = {}
    <2>1. Len(<< >>) = 0
      OBVIOUS
    <2> QED BY <1>1, <2>1 DEF Elems
  <1>6. 0 \in 0 .. Len(ch) /\ 1 .. 0 = {}
    OBVIOUS
  <1>7. PastFollows(ch, 0, previous_hash', Elems(history'))
    BY <1>1, <1>4, <1>5, <1>6 DEF PastFollows, SoundTo
  <1>8. RecordsAfter(db'.heads, db'.commits, ch, 0)
    BY <1>4 DEF RecordsAfter
  <1> QED BY <1>2, <1>3, <1>7, <1>8 DEF MemoryFollows

-----------------------------------------------------------------------------
(***************************************************************************)
(* The invariant.  A savepoint is of the same chain as the transaction, so *)
(* a failed block takes rows and reducer to the same block of it.          *)
(***************************************************************************)
BlockFollows ==
    /\ PastFollows(tx.scan, Applied, previous_hash, Elems(history))
    /\ BlockReplays /\ RowsBefore(tx, undo) /\ undo.previous_hash = previous_hash
    /\ AllSound(db.heads, block.height) /\ block.hash # previous_hash

DeltaFollows ==
    /\ history # << >> /\ RowsBefore(tx, LastUndo)
    /\ delta = delta_from_undo(TipOf(LastUndo), reducer_tip, LastUndo)
    /\ LastUndo.previous_hash # previous_hash

OwnStores(C) ==
    /\ disk # None => StoreFollows(disk, C)
    /\ tx # None => tx.scan \in Seq(Block)
    /\ (tx # None /\ ~torn) => StoreFollows(tx, C)
    /\ savepoint # None => StoreFollows(savepoint, C) /\ Continues(tx.scan, savepoint.scan)

OwnMemory ==
    /\ Coherent(db)
    /\ (up /\ block = None) => MemoryFollows(Current_store.scan)
    /\ block # None => BlockFollows
    /\ (delta # None /\ ~torn) => DeltaFollows

OwnInv(C) == OwnStores(C) /\ OwnMemory

LEMMA OwnInit == ASSUME NEW C, SInit PROVE OwnInv(C)
  <1>1. Coherent(db)
    BY IndexInit DEF SInit, Init, IndexInv
  <1> QED BY <1>1 DEF SInit, Init, OwnInv, OwnStores, OwnMemory

\* The store and the reducer are at the same block.
LEMMA SameBlock ==
    ASSUME NoneIsNoRecord, MemOK, NEW s, TipOK(s.tip), HeightOf(s.tip) = tip_height
    PROVE  BlocksTo(s.tip) = Applied
  <1>1. s.tip # None => s.tip.height \in Height
    BY DEF TipOK
  <1> QED BY <1>1, AppliedIs, HeightFacts DEF HeightOf, BlocksTo

\* Between two calls rows and records are those of the replay.
LEMMA MemorySynced ==
    ASSUME NoneIsNoRecord, MemOK, NEW s, StoreOK(s), HeightOf(s.tip) = tip_height,
           RowsFollow(s, s.scan), MemoryFollows(s.scan)
    PROVE  /\ BlocksTo(s.tip) = Applied /\ s.tip = reducer_tip
           /\ s.heads = db.heads /\ s.pending_commits = db.commits
  <1>1. BlocksTo(s.tip) = Applied
    BY SameBlock DEF StoreOK, JournalOK
  <1>2. s.tip = reducer_tip
    <2>1. previous_hash = HashAt(s.scan, Applied)
      BY DEF MemoryFollows, PastFollows
    <2>2. reducer_tip = TipAt(s.scan, Applied)
      BY <2>1, TipIsOfChain
    <2> QED BY <1>1, <2>2 DEF RowsFollow, TipsFollow
  <1> QED BY <1>1, <1>2 DEF RowsFollow, Replays, MemoryFollows, RecordsAfter

LEMMA ChainGrows ==
    ASSUME NEW ch \in Seq(Block), Chained(ch), NEW b \in Block,
           b.prev_hash = HashAt(ch, Len(ch))
    PROVE  Chained(Append(ch, b))
  <1> DEFINE L == Len(ch)
             dh == Append(ch, b)
  <1>1. /\ L \in Nat /\ Len(dh) = L + 1 /\ dh[L + 1] = b /\ \A k \in 1 .. L : dh[k] = ch[k]
    OBVIOUS
  <1> HIDE DEF L, dh
  <1>2. \A k \in 0 .. L : HashAt(dh, k) = HashAt(ch, k)
    BY <1>1 DEF HashAt
  <1>3. ASSUME NEW k \in 1 .. L + 1 PROVE dh[k].prev_hash = HashAt(dh, k - 1)
    <2>1. k - 1 \in 0 .. L
      BY <1>1
    <2>2. HashAt(dh, k - 1) = HashAt(ch, k - 1)
      BY <1>2, <2>1
    <2>3. CASE k = L + 1
      BY <1>1, <2>2, <2>3 DEF L
    <2>4. CASE k # L + 1
      <3>1. k \in 1 .. L
        BY <1>1, <2>4
      <3> QED BY <1>1, <2>2, <3>1 DEF Chained, L
    <2> QED BY <2>3, <2>4
  <1> QED BY <1>1, <1>3 DEF Chained, dh

\* The heads of a reducer that follows a sound chain are sound.
LEMMA MemorySound ==
    ASSUME NoneIsNoRecord, MemOK, NEW ch \in Seq(Block), MemoryFollows(ch)
    PROVE  AllSound(db.heads, tip_height)
  <1>1. Applied \in Nat /\ tip_height \in Option(Height)
    BY AppliedIs DEF MemOK, TypeInv, TypeOK
  <1>2. CASE Applied = 0
    <2>1. db.heads = EmptyMap
      BY <1>2, AfterFacts DEF MemoryFollows, RecordsAfter, NoRecords, rebuild_derived_indexes
    <2> QED BY <2>1 DEF AllSound, EmptyMap
  <1>3. CASE Applied # 0
    <2>1. tip_height # None /\ Applied = ScanIndex(tip_height)
      BY <1>3, AppliedIs
    <2>2. Applied \in 1 .. Applied /\ activation_height + Applied - 1 = tip_height
      BY <1>1, <1>3, <2>1, HeightFacts DEF Option, ScanIndex
    <2>3. AllSound(After(ch, Applied).heads, activation_height + Applied - 1)
      BY <2>2 DEF MemoryFollows, PastFollows, SoundTo
    <2> QED BY <2>2, <2>3 DEF MemoryFollows, RecordsAfter
  <1> QED BY <1>2, <1>3

LEMMA OwnBegin ==
    ASSUME NoneIsNoRecord, NEW C, StoreInv, BranchInv, OwnInv(C), NEW b \in Block,
           SBeginBlock(b)
    PROVE  OwnInv(C)'
  <1>1. /\ up /\ tx # None /\ block = None /\ delta = None /\ rewind = None /\ ~torn
        /\ BeginBlock(b, {}) /\ disk' = disk /\ delta' = delta /\ torn' = torn
        /\ savepoint' = tx \/ savepoint' = None
        /\ OfChain(b)
    BY DEF SBeginBlock, Idle
  <1>2. /\ block' = b /\ b # None /\ pos' = 0 /\ b.height = next_height
        /\ b.prev_hash = previous_hash /\ history' = history /\ tip_height' = tip_height
        /\ previous_hash' = previous_hash
    BY <1>1, ValuesAssumption DEF BeginBlock, chainVars
  <1>3. /\ StoreOK(tx) /\ MemOK /\ HeightOf(tx.tip) = tip_height
        /\ Coherent(db) /\ MemoryFollows(tx.scan) /\ StoreFollows(tx, C)
        /\ tx.scan \in Seq(Block)
    BY <1>1 DEF StoreInv, StoresInv, HeightsInv, StoreOK, Current_store, OwnInv, OwnStores,
                OwnMemory
  <1>4. Chained(tx.scan) /\ RowsFollow(tx, tx.scan)
    BY <1>3 DEF StoreFollows
  <1> DEFINE n == Applied
             L == Len(tx.scan)
  <1>5. /\ BlocksTo(tx.tip) = n /\ tx.tip = reducer_tip
        /\ tx.heads = db.heads /\ tx.pending_commits = db.commits
    BY <1>3, <1>4, MemorySynced
  <1>6. n \in 0 .. L
    BY <1>3 DEF MemoryFollows, PastFollows
  <1>7. /\ ScanIndex(b.height) = n + 1 /\ n \in Nat /\ L \in Nat
        /\ tx'.scan \in Seq(Block) /\ n + 1 \in 1 .. Len(tx'.scan)
        /\ tx'.scan[n + 1] = b /\ Len(tx'.scan) \in Nat /\ L <= Len(tx'.scan)
        /\ \A k \in 1 .. L : tx'.scan[k] = tx.scan[k]
        /\ RowsOf(tx, tx') /\ tx'.core_snapshot = tx.core_snapshot
        /\ tx'.scan = tx.scan \/ (n = L /\ tx'.scan = Append(tx.scan, b))
    BY <1>5, <1>6, ScanGrows
  <1> HIDE DEF n
  <1>8. Agree(tx.scan, tx'.scan, n)
    BY <1>3, <1>6, <1>7 DEF Agree
  <1>9. MemoryFollows(tx'.scan)
    BY <1>3, <1>8, MemoryAgrees DEF n
  <1>10. RowsFollow(tx', tx'.scan)
    <2>1. RowsFollow(tx, tx'.scan)
      BY <1>3, <1>4, <1>5, <1>8, RowsAgree
    <2> QED BY <1>7, <2>1, SameRowsFollow
  <1>11. Chained(tx'.scan)
    <2>1. CASE tx'.scan = tx.scan
      BY <1>4, <2>1
    <2>2. CASE n = L /\ tx'.scan = Append(tx.scan, b)
      <3>1. b.prev_hash = HashAt(tx.scan, Len(tx.scan))
        BY <1>2, <1>3, <2>2 DEF MemoryFollows, PastFollows, n
      <3> QED BY <1>3, <1>4, <2>2, <3>1, ChainGrows
    <2> QED BY <1>7, <2>1, <2>2
  <1>12. OwnStores(C)'
    <2>1. StoreFollows(tx', C)
      BY <1>3, <1>7, <1>10, <1>11 DEF StoreFollows
    <2>2. Continues(tx'.scan, tx.scan)
      BY <1>7 DEF Continues
    <2> QED BY <1>1, <1>3, <1>7, <2>1, <2>2 DEF OwnInv, OwnStores
  <1>13. db = After(tx'.scan, n)
    <2>1. db.heads = After(tx'.scan, n).heads /\ db.commits = After(tx'.scan, n).commits
      BY <1>9 DEF MemoryFollows, RecordsAfter, n
    <2>2. n \in 0 .. Len(tx'.scan)
      BY <1>7
    <2>3. Coherent(After(tx'.scan, n))
      BY <1>7, <2>2, AfterCoherent
    <2> QED BY <1>3, <2>1, <2>3, SameRecords
  <1>14. db' = Started(db, b.height).db
    BY <1>1, <1>3, BeginsLikeReplay
  <1>15. Coherent(db')
    <2>1. IndexInv
      BY <1>3 DEF IndexInv, BlockOK, MemOK, TypeInv, TypeOK
    <2>2. Next
      BY <1>1 DEF Next
    <2> QED BY <2>1, <2>2, IndexStep DEF IndexInv
  <1>16. BlockReplays'
    <2> DEFINE i == ScanIndex(b.height)
    <2>1. PICK f : Effects(f, db, b, Len(b.transactions))
      <3>1. Len(b.transactions) \in Nat
        BY DEF Block
      <3> QED BY <3>1, EffectsExist
    <2>2. f[0].db = db'
      BY <1>14, <2>1 DEF Effects
    <2>3. i - 1 = n /\ i \in 1 .. Len(tx'.scan) /\ tx'.scan[i] = b
      BY <1>7
    <2> HIDE DEF i
    <2>4. Effects(f, After(tx'.scan, i - 1), b, Len(b.transactions)) /\ f[pos'].db = db'
      BY <1>2, <1>13, <2>1, <2>2, <2>3
    <2>5. \E g : Effects(g, After(tx'.scan, i - 1), b, Len(b.transactions)) /\ g[pos'].db = db'
      BY <2>4
    <2> QED BY <1>2, <2>3, <2>5 DEF BlockReplays, i
  <1>17. /\ undo'.previous_hash = previous_hash /\ undo'.previous_tip_height = tip_height
         /\ Updated(db'.heads, undo'.heads) = db.heads
         /\ Updated(db'.commits, undo'.commits) = db.commits
    BY <1>1, <1>3, BeginLeadsBack DEF MemOK
  <1>18. RowsBefore(tx, undo)'
    <2>1. reducer_tip = TipOf(undo)'
      BY <1>17 DEF reducer_tip, TipOf
    <2> QED BY <1>5, <1>7, <1>17, <2>1 DEF RowsBefore, RowsOf
  <1>19. AllSound(db'.heads, b.height)
    <2>1. AllSound(db.heads, tip_height)
      BY <1>3, MemorySound
    <2> QED BY <1>1, <1>3, <2>1, BeginSound
  <1>20. b.hash # previous_hash
    BY <1>1, <1>2 DEF OfChain
  <1>21. PastFollows(tx.scan, Applied, previous_hash, Elems(history))'
    <2>1. Applied' = Applied
      BY <1>2 DEF Applied, reducer_tip
    <2> QED BY <1>2, <1>9, <2>1 DEF MemoryFollows
  <1>22. BlockFollows'
    BY <1>2, <1>16, <1>17, <1>18, <1>19, <1>20, <1>21 DEF BlockFollows
  <1> QED BY <1>1, <1>2, <1>12, <1>15, <1>22 DEF OwnInv, OwnMemory

LEMMA OwnApply ==
    ASSUME NEW C, StoreInv, OwnInv(C), SApplyTransaction
    PROVE  OwnInv(C)'
  <1>1. /\ block # None /\ block' = block /\ pos' = pos + 1
        /\ pos < Len(block.transactions) /\ disk' = disk /\ tx' = tx /\ delta' = delta
        /\ torn' = torn /\ savepoint' = savepoint /\ up' = up
        /\ history' = history /\ tip_height' = tip_height /\ previous_hash' = previous_hash
        /\ ApplyTransaction
        /\ db' = apply_transaction([db |-> db, undo |-> undo], block.height,
                                   block.transactions[pos + 1]).db
    BY DEF SApplyTransaction, storeVars, ApplyTransaction, chainVars
  <1>2. delta = None /\ MemOK /\ Coherent(db) /\ BlockFollows
    BY <1>1 DEF StoreInv, CallsInv, OwnInv, OwnMemory
  <1>3. BlockReplays'
    BY <1>1, <1>2, AppliedReplays DEF BlockFollows
  <1>4. Coherent(db')
    <2>1. IndexInv
      BY <1>2 DEF IndexInv, BlockOK, MemOK, TypeInv, TypeOK
    <2>2. Next
      BY <1>1 DEF Next
    <2> QED BY <2>1, <2>2, IndexStep DEF IndexInv
  <1>5. AllSound(db'.heads, block.height)
    BY <1>1, <1>2, ApplySound DEF BlockFollows
  <1>6. /\ undo'.previous_hash = undo.previous_hash
        /\ undo'.previous_tip_height = undo.previous_tip_height
        /\ Updated(db'.heads, undo'.heads) = Updated(db.heads, undo.heads)
        /\ Updated(db'.commits, undo'.commits) = Updated(db.commits, undo.commits)
    BY <1>1, <1>2, ApplyLeadsBack DEF MemOK
  <1>7. RowsBefore(tx, undo)'
    BY <1>1, <1>2, <1>6 DEF BlockFollows, RowsBefore, TipOf
  <1>8. PastFollows(tx.scan, Applied, previous_hash, Elems(history))'
    <2>1. Applied' = Applied
      BY <1>1 DEF Applied, reducer_tip
    <2> QED BY <1>1, <1>2, <2>1 DEF BlockFollows
  <1>9. BlockFollows'
    BY <1>1, <1>2, <1>3, <1>5, <1>6, <1>7, <1>8 DEF BlockFollows
  <1>10. OwnStores(C)'
    BY <1>1 DEF OwnInv, OwnStores
  <1> QED BY <1>1, <1>2, <1>4, <1>9, <1>10 DEF OwnInv, OwnMemory

LEMMA OwnEnd ==
    ASSUME NoneIsNoRecord, NEW C, StoreInv, OwnInv(C), SEndBlock
    PROVE  OwnInv(C)'
  <1>1. /\ block # None /\ block' = None /\ history' = Append(history, undo)
        /\ previous_hash' = block.hash /\ tip_height' = block.height /\ db' = db
        /\ pos = Len(block.transactions)
        /\ delta' = delta_from_undo(reducer_tip, Tip(block.height, block.hash), undo)
        /\ disk' = disk /\ tx' = tx /\ torn' = torn /\ savepoint' = savepoint /\ up' = up
    BY DEF SEndBlock, EndBlock
  <1>2. /\ MemOK /\ BlockFollows /\ Coherent(db) /\ up /\ tx # None /\ ~torn /\ delta = None
        /\ StoreOK(tx) /\ HeightOf(tx.tip) = tip_height /\ StoreFollows(tx, C)
    BY <1>1 DEF StoreInv, StoresInv, CallsInv, HeightsInv, Current_store, OwnInv, OwnStores,
                OwnMemory
  <1>3. /\ block \in Block /\ block.height \in Height /\ IsSeq(history)
        /\ undo.previous_tip_height = tip_height /\ undo.previous_next_height = block.height
        /\ block.height = next_height /\ undo.previous_hash = previous_hash
        /\ tx.scan \in Seq(Block)
    BY <1>1, <1>2 DEF MemOK, TypeInv, TypeOK, Option, Block, BlockFollows, StoreOK
  <1> DEFINE n == Applied
             i == ScanIndex(block.height)
             ch == tx.scan
  <1>4. n \in Nat /\ i = n + 1
    BY <1>2, <1>3, AppliedIs, HeightFacts
  <1>5. /\ i \in 1 .. Len(ch) /\ ch[i] = block
        /\ \E f : /\ Effects(f, After(ch, i - 1), block, Len(block.transactions))
                  /\ f[pos].db = db
    BY <1>2 DEF BlockFollows, BlockReplays
  <1>6. After(ch, i) = db
    <2>1. PICK f : /\ Effects(f, After(ch, i - 1), block, Len(block.transactions))
                   /\ f[pos].db = db
      BY <1>5
    <2> HIDE DEF i
    <2>2. BlockEffect(After(ch, i - 1), block) = db
      BY <1>1, <1>3, <2>1, EffectIs
    <2> QED BY <1>3, <1>5, <2>2, AfterFacts
  <1>7. reducer_tip' = Tip(block.height, block.hash) /\ Applied' = i
    <2>1. reducer_tip' = Tip(block.height, block.hash)
      BY <1>1, <1>3, HeightFacts DEF reducer_tip
    <2>2. reducer_tip' # None
      BY <2>1 DEF NoneIsNoRecord, Tip, TipFields
    <2>3. BlocksTo(reducer_tip') = ScanIndex(block.height)
      BY <2>1, <2>2 DEF BlocksTo, Tip
    <2> QED BY <2>1, <2>3 DEF Applied, BlocksTo, ScanIndex
  <1>8. activation_height + i - 1 = block.height
    BY <1>3, HeightFacts DEF ScanIndex
  <1>9. BlocksTo(tx.tip) = n
    BY <1>2, SameBlock DEF StoreOK, JournalOK
  <1>10. /\ PastFollows(ch, n, previous_hash, Elems(history))
         /\ AllSound(db.heads, block.height) /\ block.hash # previous_hash
         /\ RowsBefore(tx, undo)
    BY <1>2 DEF BlockFollows
  <1>11. UndoFollows(undo, ch, i)
    <2>1. tx.heads = After(ch, n).heads /\ tx.pending_commits = After(ch, n).commits
      BY <1>2, <1>9 DEF StoreFollows, RowsFollow, Replays
    <2> HIDE DEF i, n
    <2>2. i \in 1 .. i /\ i - 1 = n
      BY <1>4
    <2>3. RowUndoes(undo, ch, i)
      BY <1>6, <1>10, <2>1, <2>2 DEF RowUndoes, RowsBefore
    <2>4. previous_hash = HashAt(ch, n)
      BY <1>10 DEF PastFollows
    <2> QED BY <1>3, <2>2, <2>3, <2>4 DEF UndoFollows, i
  <1> HIDE DEF i, n
  <1>12. ASSUME NEW u \in Elems(history) PROVE UndoFollows(u, ch, i)
    <2>1. UndoFollows(u, ch, n)
      BY <1>10 DEF PastFollows
    <2>2. \A k \in 1 .. n : k \in 1 .. i
      BY <1>4
    <2> QED BY <2>1, <2>2 DEF UndoFollows
  <1>13. SoundTo(ch, i)
    <2> SUFFICES ASSUME NEW k \in 1 .. i
                 PROVE  AllSound(After(ch, k).heads, activation_height + k - 1)
      BY DEF SoundTo
    <2>1. CASE k = i
      BY <1>6, <1>8, <1>10, <2>1
    <2>2. CASE k # i
      <3>1. k \in 1 .. n
        BY <1>4, <2>2
      <3> QED BY <1>10, <3>1 DEF PastFollows, SoundTo
    <2> QED BY <2>1, <2>2
  <1> DEFINE M == Len(history)
  <1>14. /\ M \in Nat /\ Len(history') = M + 1 /\ history'[M + 1] = undo
         /\ Elems(history') = Elems(history) \cup {undo}
    BY <1>1, <1>3, AppendFacts, ElemsAppend
  <1>15. MemoryFollows(Current_store.scan)'
    <2>1. i # 0 /\ i \in 0 .. Len(ch)
      BY <1>5
    <2>2. HashAt(ch, i) = previous_hash'
      BY <1>1, <1>5, <2>1 DEF HashAt
    <2>3. PastFollows(ch, i, previous_hash', Elems(history'))
      BY <1>11, <1>12, <1>13, <1>14, <2>1, <2>2 DEF PastFollows
    <2>4. RecordsAfter(db'.heads, db'.commits, ch, i)
      BY <1>1, <1>6 DEF RecordsAfter
    <2>5. Current_store' = tx
      BY <1>1, <1>2 DEF Current_store
    <2> QED BY <1>7, <2>3, <2>4, <2>5 DEF MemoryFollows
  <1>16. LastUndo' = undo /\ history' # << >>
    BY <1>14 DEF LastUndo
  <1>17. TipOf(undo) = reducer_tip
    BY <1>3 DEF TipOf, reducer_tip
  <1>18. DeltaFollows'
    <2>1. TipOf(LastUndo)' = TipOf(undo)
      BY <1>16 DEF TipOf
    <2>2. delta' = delta_from_undo(TipOf(LastUndo), reducer_tip, LastUndo)'
      BY <1>1, <1>7, <1>16, <1>17, <2>1 DEF delta_from_undo
    <2>3. RowsBefore(tx, LastUndo)'
      BY <1>1, <1>10, <1>16, <2>1 DEF RowsBefore
    <2> QED BY <1>1, <1>3, <1>10, <1>16, <2>2, <2>3 DEF DeltaFollows
  <1>19. OwnStores(C)'
    BY <1>1 DEF OwnInv, OwnStores
  <1> QED BY <1>1, <1>2, <1>15, <1>18, <1>19 DEF OwnInv, OwnMemory

LEMMA OwnDelta ==
    ASSUME NoneIsNoRecord, NEW C, StoreInv, OwnInv(C)
    PROVE  /\ StoreDelta => OwnInv(C)'
           /\ DeltaFails => OwnInv(C)'
  <1>1. ASSUME StoreDelta PROVE OwnInv(C)'
    <2>1. /\ delta # None /\ ~torn /\ delta' = None
          /\ tx' = apply_delta(tx, delta) /\ vars' = vars /\ disk' = disk
          /\ torn' = torn /\ savepoint' = savepoint /\ up' = up
      BY <1>1 DEF StoreDelta, wallet_apply_delta
    <2>2. tx # None /\ block = None /\ up
      BY <2>1 DEF StoreInv, CallsInv
    <2>3. /\ StoreOK(tx) /\ DeltaOK(delta) /\ MemOK /\ StoreFollows(tx, C) /\ Coherent(db)
          /\ MemoryFollows(tx.scan) /\ DeltaFollows /\ tx.scan \in Seq(Block)
      BY <2>1, <2>2 DEF StoreInv, StoresInv, HeightsInv, OwnInv, OwnStores, OwnMemory,
                        Current_store
    <2>4. RowsFollow(apply_delta(tx, delta), tx.scan)
      <3>1. /\ Applied \in 0 .. Len(tx.scan) /\ previous_hash = HashAt(tx.scan, Applied)
            /\ RecordsAfter(db.heads, db.commits, tx.scan, Applied)
        BY <2>3 DEF MemoryFollows, PastFollows
      <3>2. RowsFollow(tx, tx.scan)
        BY <2>3 DEF StoreFollows
      <3> QED BY <2>3, <3>1, <3>2, RowsFollowDelta DEF DeltaFollows, Applied
    <2>5. /\ apply_delta(tx, delta).scan = tx.scan
          /\ apply_delta(tx, delta).core_snapshot = tx.core_snapshot
      BY <2>3 DEF apply_delta, Written, write_tip, write_head, write_commit, StoreOK, StoreFields
    <2> DEFINE t == apply_delta(tx, delta)
    <2> HIDE DEF t
    <2>6. StoreFollows(t, C)
      BY <2>3, <2>4, <2>5 DEF StoreFollows, t
    <2>7. OwnStores(C)'
      BY <2>1, <2>3, <2>5, <2>6 DEF OwnInv, OwnStores, t
    <2>8. /\ block' = None /\ db' = db /\ previous_hash' = previous_hash
          /\ history' = history /\ tip_height' = tip_height
      BY <2>1, <2>2 DEF vars
    <2>9. Current_store'.scan = tx.scan
      <3>1. tx'.scan = tx.scan
        BY <2>1, <2>5
      <3>2. tx' # None
        <4>1. DOMAIN tx' = StoreFields
          BY <2>1, <2>3 DEF apply_delta, Written, write_tip, write_head, write_commit, StoreOK
        <4> QED BY <4>1 DEF NoneIsNoRecord
      <3> QED BY <3>1, <3>2 DEF Current_store
    <2>10. MemoryFollows(Current_store.scan)'
      <3>1. Applied' = Applied
        BY <2>8 DEF Applied, reducer_tip
      <3> QED BY <2>3, <2>8, <2>9, <3>1 DEF MemoryFollows
    <2> QED BY <2>1, <2>3, <2>7, <2>8, <2>10 DEF OwnInv, OwnMemory
  <1>2. ASSUME DeltaFails PROVE OwnInv(C)'
    <2>1. /\ delta # None /\ ~torn /\ torn' /\ vars' = vars /\ disk' = disk /\ delta' = delta
          /\ savepoint' = savepoint /\ up' = up
          /\ tx' \in PartlyApplied(tx, delta) \/ tx' = tx
      BY <1>2 DEF DeltaFails
    <2>2. tx # None /\ block = None /\ up
      BY <2>1 DEF StoreInv, CallsInv
    <2>3. /\ StoreOK(tx) /\ Coherent(db) /\ MemoryFollows(tx.scan) /\ tx.scan \in Seq(Block)
      BY <2>1, <2>2 DEF StoreInv, StoresInv, OwnInv, OwnStores, OwnMemory, Current_store
    <2>4. tx'.scan = tx.scan /\ tx' # None
      <3>1. CASE tx' = tx
        BY <2>2, <3>1
      <3>2. CASE tx' \in PartlyApplied(tx, delta)
        <4>1. PICK names, refs : tx' = Written(tx, delta, names, refs)
          BY <3>2 DEF PartlyApplied
        <4>2. tx'.scan = tx.scan /\ DOMAIN tx' = StoreFields
          BY <2>3, <4>1 DEF Written, write_head, write_commit, StoreOK, StoreFields
        <4> QED BY <4>2 DEF NoneIsNoRecord
      <3> QED BY <2>1, <3>1, <3>2
    <2>5. /\ block' = None /\ db' = db /\ previous_hash' = previous_hash
          /\ history' = history /\ tip_height' = tip_height
      BY <2>1, <2>2 DEF vars
    <2>6. MemoryFollows(Current_store.scan)'
      <3>1. Applied' = Applied
        BY <2>5 DEF Applied, reducer_tip
      <3>2. Current_store'.scan = tx.scan
        BY <2>4 DEF Current_store
      <3> QED BY <2>3, <2>5, <3>1, <3>2 DEF MemoryFollows
    <2>7. OwnStores(C)'
      BY <2>1, <2>2, <2>3, <2>4 DEF OwnInv, OwnStores
    <2> QED BY <2>1, <2>3, <2>5, <2>6, <2>7 DEF OwnInv, OwnMemory
  <1> QED BY <1>1, <1>2

LEMMA SameBlockAfter ==
    ASSUME NoneIsNoRecord, NEW s, TipOK(s.tip), HeightOf(s.tip) = tip_height'
    PROVE  BlocksTo(s.tip) = Applied'
  <1>1. CASE s.tip = None
    <2>1. reducer_tip' = None
      BY <1>1 DEF HeightOf, reducer_tip
    <2> QED BY <1>1, <2>1 DEF Applied, BlocksTo
  <1>2. CASE s.tip # None
    <2>1. tip_height' = s.tip.height /\ tip_height' # None
      BY <1>2, HeightFacts DEF TipOK, HeightOf
    <2>2. reducer_tip' = Tip(tip_height', previous_hash') /\ reducer_tip' # None
      BY <2>1 DEF reducer_tip, NoneIsNoRecord, Tip, TipFields
    <2>3. Applied' = ScanIndex(tip_height')
      BY <2>2 DEF Applied, BlocksTo, Tip, ScanIndex
    <2> QED BY <1>2, <2>1, <2>3 DEF BlocksTo
  <1> QED BY <1>1, <1>2

\* A failed block: the savepoint is of the chain the reducer falls back on.
LEMMA OwnBlockFails ==
    ASSUME NoneIsNoRecord, NEW C, StoreInv, OwnInv(C), BlockFails
    PROVE  OwnInv(C)'
  <1>1. /\ savepoint # None /\ block = None /\ tx' = savepoint /\ savepoint' = None
        /\ delta' = None /\ torn' = FALSE /\ RollbackTip(previous_hash)
        /\ disk' = disk /\ up' = up
    BY DEF BlockFails, SavepointRestored
  <1>2. /\ tx # None /\ up /\ MemOK /\ StoreOK(savepoint)
        /\ HeightOf(savepoint.tip) = history[Len(history)].previous_tip_height
    BY <1>1 DEF StoreInv, StoresInv, CallsInv, HeightsInv
  <1>3. /\ tx.scan \in Seq(Block) /\ MemoryFollows(tx.scan) /\ Coherent(db)
        /\ StoreFollows(savepoint, C) /\ Continues(tx.scan, savepoint.scan)
    BY <1>1, <1>2 DEF OwnInv, OwnStores, OwnMemory, Current_store
  <1>4. block' = None /\ tip_height' = history[Len(history)].previous_tip_height
    BY <1>1, <1>2, MemRollback
  <1>5. /\ Coherent(db)' /\ Applied' \in Nat
        /\ PastFollows(tx.scan, Applied', previous_hash', Elems(history'))
        /\ RecordsAfter(db'.heads, db'.commits, tx.scan, Applied')
    BY <1>1, <1>2, <1>3, MemoryBack
  <1>6. BlocksTo(savepoint.tip) = Applied'
    <2>1. TipOK(savepoint.tip)
      BY <1>2 DEF StoreOK, JournalOK
    <2> QED BY <1>2, <1>4, <2>1, SameBlockAfter
  <1>7. savepoint.scan \in Seq(Block) /\ Applied' <= Len(savepoint.scan)
    BY <1>3, <1>6 DEF StoreFollows, RowsFollow, Replays
  <1> DEFINE m == Applied'
             dh == savepoint.scan
             ch == tx.scan
  <1>8. Agree(ch, dh, m)
    <2> HIDE DEF m, dh, ch
    <2>1. m \in Nat /\ dh \in Seq(Block) /\ ch \in Seq(Block) /\ m <= Len(dh)
          /\ Len(dh) <= Len(ch) /\ \A i \in 1 .. Len(dh) : ch[i] = dh[i]
      BY <1>3, <1>5, <1>7 DEF Continues, m, dh, ch
    <2>2. Len(dh) \in Nat /\ Len(ch) \in Nat
      BY <2>1
    <2>3. m <= Len(ch) /\ \A i \in 1 .. m : ch[i] = dh[i]
      BY <2>1, <2>2
    <2> QED BY <2>1, <2>3 DEF Agree
  <1>9. PastFollows(dh, m, previous_hash', Elems(history'))
    BY <1>5, <1>8, PastAgrees
  <1>10. RecordsAfter(db'.heads, db'.commits, dh, m)
    <2>1. m \in 0 .. m
      BY <1>5
    <2>2. After(ch, m) = After(dh, m)
      BY <1>8, <2>1, AgreeAfter
    <2> QED BY <1>5, <2>2 DEF RecordsAfter
  <1>11. MemoryFollows(Current_store.scan)'
    <2>1. Current_store' = savepoint
      BY <1>1 DEF Current_store
    <2> QED BY <1>9, <1>10, <2>1 DEF MemoryFollows
  <1>12. OwnStores(C)'
    BY <1>1, <1>3, <1>7 DEF OwnInv, OwnStores
  <1> QED BY <1>1, <1>4, <1>5, <1>11, <1>12 DEF OwnInv, OwnMemory

\* A tip given back.  The image stays, of whatever chain it was.
LEMMA OwnReorganize ==
    ASSUME NoneIsNoRecord, NEW C, StoreInv, OwnInv(C), NEW hash, ReorganizeTip(hash)
    PROVE  OwnInv(C)'
  <1>1. /\ up /\ tx # None /\ block = None /\ savepoint = None /\ delta = None /\ ~torn
        /\ Journaled_tip(tx) /\ CaughtUp(tx) /\ RollbackTip(hash)
        /\ tx' = ScanThrough(rollback_tip(tx), tx.tip.height - 1)
        /\ disk' = disk /\ savepoint' = savepoint /\ delta' = delta
        /\ torn' = torn /\ up' = up
    BY DEF ReorganizeTip, Idle
  <1>2. StoreOK(tx) /\ HeightOf(tx.tip) = tip_height /\ MemOK
    BY <1>1 DEF StoreInv, StoresInv, HeightsInv, Current_store
  <1>3. /\ tx.scan \in Seq(Block) /\ MemoryFollows(tx.scan) /\ Coherent(db)
        /\ StoreFollows(tx, C)
    BY <1>1 DEF OwnInv, OwnStores, OwnMemory, Current_store
  <1>4. Chained(tx.scan) /\ RowsFollow(tx, tx.scan)
    BY <1>3 DEF StoreFollows
  <1> DEFINE t == rollback_tip(tx)
             ch == tx.scan
             n == BlocksTo(tx.tip)
             m == n - 1
             dh == SubSeq(ch, 1, m)
  <1>5. /\ RowsFollow(t, ch) /\ n \in 1 .. Len(ch) /\ BlocksTo(t.tip) = m
        /\ t.scan = ch /\ t.core_snapshot = tx.core_snapshot
    BY <1>1, <1>2, <1>4, RowsFollowBack
  <1>6. StoreOK(t)
    BY <1>1, <1>2, RollbackTipOK
  <1>7. n = ScanIndex(tx.tip.height) /\ tx.tip.height \in Height
    BY <1>1, <1>2 DEF Journaled_tip, BlocksTo, StoreOK, JournalOK, TipOK
  <1>8. ScanIndex(tx.tip.height - 1) = m
    BY <1>7, HeightFacts DEF ScanIndex
  <1> HIDE DEF t, n
  <1>9. /\ tx'.scan = dh /\ RowsOf(t, tx') /\ tx'.core_snapshot = tx.core_snapshot
        /\ DOMAIN tx' = StoreFields
    <2>1. tx' = [t EXCEPT !.scan = SubSeq(@, 1, m)]
      BY <1>1, <1>8 DEF ScanThrough, t
    <2> QED BY <1>5, <1>6, <2>1 DEF StoreOK, StoreFields, RowsOf
  <1>10. m \in Nat /\ Len(ch) \in Nat /\ n \in Nat /\ m <= Len(ch)
    BY <1>3, <1>5
  <1> HIDE DEF m
  <1>11. dh \in Seq(Block) /\ Len(dh) = m /\ \A i \in 1 .. m : dh[i] = ch[i]
    BY <1>3, <1>10
  <1> HIDE DEF dh, ch
  <1>12. Agree(ch, dh, m)
    BY <1>3, <1>10, <1>11 DEF Agree, ch
  <1>13. RowsFollow(tx', dh)
    <2>1. RowsFollow(t, dh)
      BY <1>5, <1>6, <1>12, RowsAgree
    <2> QED BY <1>9, <2>1, SameRowsFollow
  <1>14. Chained(dh)
    <2> SUFFICES ASSUME NEW k \in 1 .. m PROVE dh[k].prev_hash = HashAt(dh, k - 1)
      BY <1>11 DEF Chained
    <2>1. k - 1 \in 0 .. m /\ k \in 1 .. Len(ch)
      BY <1>10
    <2>2. HashAt(ch, k - 1) = HashAt(dh, k - 1)
      BY <1>12, <2>1, AgreeAfter
    <2>3. ch[k].prev_hash = HashAt(ch, k - 1)
      BY <1>4, <2>1 DEF Chained, ch
    <2> QED BY <1>11, <2>2, <2>3
  <1>15. StoreFollows(tx', C)
    BY <1>3, <1>9, <1>13, <1>14 DEF StoreFollows
  <1>16. /\ Coherent(db)' /\ Applied' = Applied - 1
         /\ PastFollows(ch, Applied', previous_hash', Elems(history'))
         /\ RecordsAfter(db'.heads, db'.commits, ch, Applied')
    BY <1>1, <1>2, <1>3, MemoryBack DEF ch
  <1>17. Applied' = m
    <2>1. n = Applied
      BY <1>2, SameBlock DEF n, StoreOK, JournalOK
    <2> QED BY <1>16, <2>1 DEF m
  <1>18. PastFollows(dh, m, previous_hash', Elems(history'))
    BY <1>12, <1>16, <1>17, PastAgrees
  <1>19. RecordsAfter(db'.heads, db'.commits, dh, m)
    <2>1. m \in 0 .. m
      BY <1>10
    <2>2. After(ch, m) = After(dh, m)
      BY <1>12, <2>1, AgreeAfter
    <2> QED BY <1>16, <1>17, <2>2 DEF RecordsAfter
  <1>20. tx' # None
    BY <1>9 DEF NoneIsNoRecord
  <1>21. MemoryFollows(Current_store.scan)'
    <2>1. Current_store'.scan = dh
      BY <1>9, <1>20 DEF Current_store
    <2> QED BY <1>17, <1>18, <1>19, <2>1 DEF MemoryFollows
  <1>22. block' = None
    BY <1>1 DEF RollbackTip, callVars
  <1>23. OwnStores(C)'
    BY <1>1, <1>9, <1>11, <1>15 DEF OwnInv, OwnStores
  <1> QED BY <1>1, <1>16, <1>21, <1>22, <1>23 DEF OwnInv, OwnMemory

\* An image of the stored tip is of the scanned chain: the tip's hash names it.
LEMMA ImageOfScan ==
    ASSUME NEW C, HashesName(C), NEW s, StoreOK(s), StoreFollows(s, C),
           \A k \in 1 .. Len(s.scan) : s.scan[k] \in C, SnapshotCurrent(s)
    PROVE  LET i == s.core_snapshot
               n == BlocksTo(s.tip)
           IN  /\ ImageOK(i) /\ i.tip = s.tip /\ s.tip # None
               /\ RecordsAfter(i.heads, i.commits, s.scan, n)
               /\ PastFollows(s.scan, n, i.tip.hash, Elems(i.history))
  <1> DEFINE i == s.core_snapshot
             n == ScanIndex(i.tip.height)
             dh == s.scan
  <1>1. i # None /\ i.tip = s.tip /\ ImageOK(i) /\ s.tip # None
    BY DEF SnapshotCurrent, StoreOK, ImageOK
  <1>2. BlocksTo(s.tip) = n
    BY <1>1 DEF BlocksTo
  <1>3. PICK ch \in Seq(Block) :
            /\ Chained(ch) /\ \A k \in 1 .. Len(ch) : ch[k] \in C
            /\ RecordsAfter(i.heads, i.commits, ch, n)
            /\ PastFollows(ch, n, i.tip.hash, Elems(i.history))
    BY <1>1 DEF StoreFollows, ImageFollows
  <1>4. /\ dh \in Seq(Block) /\ Chained(dh) /\ RowsFollow(s, dh)
    BY DEF StoreFollows, StoreOK
  <1>5. n \in 0 .. Len(dh) /\ s.tip = TipAt(dh, n)
    BY <1>2, <1>4 DEF RowsFollow, TipsFollow, Replays
  <1>6. n \in 0 .. Len(ch) /\ HashAt(ch, n) = i.tip.hash
    BY <1>3 DEF PastFollows
  <1> HIDE DEF n
  <1>7. n # 0 /\ s.tip.hash = dh[n].hash
    BY <1>1, <1>5 DEF TipAt, Tip
  <1>8. HashAt(ch, n) = HashAt(dh, n)
    BY <1>1, <1>6, <1>7 DEF HashAt
  <1>9. n \in Nat /\ n <= Len(ch) /\ n <= Len(dh) /\ n \in 0 .. n
    BY <1>3, <1>4, <1>5, <1>6
  <1> HIDE DEF dh
  <1>10. Agree(ch, dh, n)
    BY <1>3, <1>4, <1>8, <1>9, HashNamesBranch DEF dh
  <1>11. PastFollows(dh, n, i.tip.hash, Elems(i.history))
    BY <1>3, <1>10, PastAgrees
  <1>12. RecordsAfter(i.heads, i.commits, dh, n)
    <2>1. After(ch, n) = After(dh, n)
      BY <1>9, <1>10, AgreeAfter
    <2> QED BY <1>3, <2>1 DEF RecordsAfter
  <1> QED BY <1>1, <1>2, <1>11, <1>12 DEF dh

LEMMA OwnSnapshot ==
    ASSUME NoneIsNoRecord, NEW C, StoreInv, OwnInv(C), ScansFrom(C), PutSnapshot
    PROVE  OwnInv(C)'
  <1>1. /\ up /\ tx # None /\ block = None /\ savepoint = None /\ delta = None /\ ~torn
        /\ tx' = [tx EXCEPT !.core_snapshot = Image] /\ tx.tip # None /\ vars' = vars
        /\ disk' = disk /\ savepoint' = savepoint /\ delta' = delta /\ torn' = torn /\ up' = up
    BY DEF PutSnapshot, Idle, put_core_snapshot
  <1>2. StoreOK(tx) /\ HeightOf(tx.tip) = tip_height /\ MemOK
    BY <1>1 DEF StoreInv, StoresInv, HeightsInv, Current_store
  <1>3. /\ tx.scan \in Seq(Block) /\ MemoryFollows(tx.scan) /\ Coherent(db)
        /\ StoreFollows(tx, C) /\ \A k \in 1 .. Len(tx.scan) : tx.scan[k] \in C
    BY <1>1 DEF OwnInv, OwnStores, OwnMemory, Current_store, ScansFrom
  <1>4. tip_height # None
    BY <1>1, <1>2, HeightFacts DEF HeightOf, StoreOK, JournalOK, TipOK
  <1>5. reducer_tip = Tip(tip_height, previous_hash)
    BY <1>4 DEF reducer_tip
  <1>6. Image.tip.hash = previous_hash /\ ScanIndex(Image.tip.height) = Applied
    BY <1>2, <1>4, <1>5, AppliedIs DEF Image, Tip
  <1>7. ImageFollows(Image, C)
    <2>1. /\ Image.heads = db.heads /\ Image.commits = db.commits /\ Image.history = history
      BY DEF Image
    <2>2. /\ RecordsAfter(Image.heads, Image.commits, tx.scan, ScanIndex(Image.tip.height))
          /\ PastFollows(tx.scan, ScanIndex(Image.tip.height), Image.tip.hash,
                         Elems(Image.history))
      BY <1>3, <1>6, <2>1 DEF MemoryFollows
    <2>3. Chained(tx.scan)
      BY <1>3 DEF StoreFollows
    <2> QED BY <1>3, <2>2, <2>3 DEF ImageFollows
  <1>8. /\ tx'.scan = tx.scan /\ RowsOf(tx, tx') /\ tx'.core_snapshot = Image
        /\ DOMAIN tx' = StoreFields
    BY <1>1, <1>2 DEF StoreOK, StoreFields, RowsOf
  <1>9. StoreFollows(tx', C)
    <2>1. RowsFollow(tx', tx'.scan)
      BY <1>3, <1>8, SameRowsFollow DEF StoreFollows
    <2> QED BY <1>3, <1>7, <1>8, <2>1 DEF StoreFollows
  <1>10. tx' # None
    BY <1>8 DEF NoneIsNoRecord
  <1>11. /\ block' = None /\ db' = db /\ previous_hash' = previous_hash
         /\ history' = history /\ tip_height' = tip_height
    BY <1>1 DEF vars
  <1>12. MemoryFollows(Current_store.scan)'
    <2>1. Applied' = Applied
      BY <1>11 DEF Applied, reducer_tip
    <2>2. Current_store'.scan = tx.scan
      BY <1>8, <1>10 DEF Current_store
    <2> QED BY <1>3, <1>11, <2>1, <2>2 DEF MemoryFollows
  <1>13. OwnStores(C)'
    BY <1>1, <1>3, <1>8, <1>9 DEF OwnInv, OwnStores
  <1> QED BY <1>1, <1>3, <1>11, <1>12, <1>13 DEF OwnInv, OwnMemory

\* A restart: the image of the stored tip, or an empty database to replay into.
LEMMA OwnResume ==
    ASSUME NoneIsNoRecord, adapter = "sqlite", NEW C, HashesName(C), StoreInv, OwnInv(C),
           ScansFrom(C), Resume
    PROVE  OwnInv(C)'
  <1>1. /\ tx # None /\ ~up /\ disk' = disk /\ savepoint' = savepoint /\ delta' = delta
        /\ torn' = torn
    BY DEF Resume
  <1>2. block = None /\ delta = None /\ savepoint = None /\ ~torn
    BY <1>1 DEF StoreInv, CallsInv
  <1>3. /\ StoreOK(tx) /\ tx.scan \in Seq(Block) /\ StoreFollows(tx, C)
        /\ \A k \in 1 .. Len(tx.scan) : tx.scan[k] \in C
    BY <1>1, <1>2 DEF StoreInv, StoresInv, OwnInv, OwnStores, ScansFrom
  <1>4. CASE SnapshotCurrent(tx)
    <2> DEFINE i == tx.core_snapshot
               n == BlocksTo(tx.tip)
    <2>1. LoadImage(i) /\ tx' = tx
      BY <1>4 DEF Resume
    <2>2. /\ ImageOK(i) /\ i.tip = tx.tip /\ tx.tip # None
          /\ RecordsAfter(i.heads, i.commits, tx.scan, n)
          /\ PastFollows(tx.scan, n, i.tip.hash, Elems(i.history))
      BY <1>3, <1>4, ImageOfScan
    <2>3. /\ history' = i.history /\ tip_height' = i.tip.height /\ block' = None
          /\ previous_hash' = i.tip.hash
          /\ db' = rebuild_derived_indexes([commits |-> i.commits, heads |-> i.heads])
      BY <2>1 DEF LoadImage
    <2>4. Coherent(db')
      BY <2>2, <2>3, RebuiltCoherent DEF ImageOK
    <2>5. db'.heads = i.heads /\ db'.commits = i.commits
      BY <2>3 DEF rebuild_derived_indexes
    <2>6. n = Applied'
      <3>1. HeightOf(tx.tip) = tip_height' /\ TipOK(tx.tip)
        BY <1>3, <2>2, <2>3 DEF HeightOf, StoreOK, JournalOK
      <3> QED BY <3>1, SameBlockAfter
    <2> HIDE DEF i, n
    <2>7. MemoryFollows(Current_store.scan)'
      <3>1. Current_store' = tx
        BY <1>1, <2>1 DEF Current_store
      <3> QED BY <2>2, <2>3, <2>5, <2>6, <3>1 DEF MemoryFollows
    <2>8. OwnStores(C)'
      BY <1>1, <1>2, <1>3, <2>1 DEF OwnInv, OwnStores
    <2> QED BY <1>1, <1>2, <2>3, <2>4, <2>7, <2>8 DEF OwnInv, OwnMemory
  <1>5. CASE ~SnapshotCurrent(tx)
    <2> DEFINE e == NewStore(tx.identity)
    <2>1. FreshMemory /\ tx' = [e EXCEPT !.scan = tx.scan]
      BY <1>5 DEF Resume
    <2>2. /\ tx'.tip = None /\ tx'.heads = EmptyMap /\ tx'.pending_commits = EmptyMap
          /\ tx'.rollback_blocks = EmptyMap /\ tx'.core_snapshot = None
          /\ tx'.scan = tx.scan /\ DOMAIN tx' = StoreFields
      BY <2>1 DEF NewStore, StoreFields
    <2>3. RowsFollow(tx', tx.scan)
      BY <1>3, <2>2, EmptyFollows
    <2>4. StoreFollows(tx', C)
      BY <1>3, <2>2, <2>3 DEF StoreFollows
    <2>5. Coherent(db)' /\ MemoryFollows(tx.scan)'
      <3>1. /\ Coherent(db)'
            /\ \A ch \in Seq(Block) :
                 /\ PastFollows(ch, Applied', previous_hash', Elems(history'))
                 /\ RecordsAfter(db'.heads, db'.commits, ch, Applied')
        <4>1. << >> \in Seq(Block)
          OBVIOUS
        <4> QED BY <2>1, <4>1, MemoryFresh DEF MemoryFollows
      <3> QED BY <1>3, <2>2, <3>1 DEF MemoryFollows
    <2>6. block' = None
      BY <2>1 DEF FreshMemory
    <2>7. tx' # None
      BY <2>2 DEF NoneIsNoRecord
    <2>8. MemoryFollows(Current_store.scan)'
      BY <2>5, <2>7 DEF Current_store
    <2>9. OwnStores(C)'
      BY <1>1, <1>2, <1>3, <2>2, <2>4 DEF OwnInv, OwnStores
    <2> QED BY <1>1, <1>2, <2>5, <2>6, <2>8, <2>9 DEF OwnInv, OwnMemory
  <1> QED BY <1>4, <1>5

LEMMA OwnFinalize ==
    ASSUME NEW C, StoreInv, OwnInv(C), NEW height \in Height, Finalize(height)
    PROVE  OwnInv(C)'
  <1>1. /\ conn # None /\ tx = None /\ up /\ disk' = finalize_through(disk, height)
        /\ FinalizeThrough(height) /\ savepoint' = savepoint
        /\ tx' = tx /\ delta' = delta /\ torn' = torn /\ up' = up
        /\ block' = block /\ tip_height' = tip_height /\ previous_hash' = previous_hash
        /\ db' = db
    BY DEF Finalize, FinalizeThrough, callVars, chainVars
  <1>2. /\ block = None /\ delta = None /\ savepoint = None /\ disk # None /\ StoreOK(disk)
    BY <1>1 DEF StoreInv, CallsInv, StoresInv
  <1>3. StoreFollows(disk, C) /\ MemoryFollows(disk.scan) /\ Coherent(db)
    BY <1>1, <1>2 DEF OwnInv, OwnStores, OwnMemory, Current_store
  <1>4. /\ RowsOf(disk, disk') /\ disk'.scan = disk.scan
        /\ disk'.core_snapshot = disk.core_snapshot
    BY <1>1, <1>2, FinalizedRows
  <1>5. StoreFollows(disk', C)
    <2>1. RowsFollow(disk', disk'.scan)
      BY <1>3, <1>4, SameRowsFollow DEF StoreFollows
    <2> QED BY <1>3, <1>4, <2>1 DEF StoreFollows
  <1>6. Elems(history') \subseteq Elems(history)
    <2>1. PICK n \in 0 .. Len(history) : history' = SubSeq(history, n + 1, Len(history))
      BY <1>1 DEF FinalizeThrough
    <2>2. IsSeq(history) /\ Len(history) \in Nat
      BY DEF StoreInv, MemOK, TypeInv, IsSeq
    <2> QED BY <2>1, <2>2, ElemsSubSeq
  <1>7. MemoryFollows(Current_store.scan)'
    <2>1. Applied' = Applied
      BY <1>1 DEF Applied, reducer_tip
    <2>2. Current_store'.scan = disk.scan
      BY <1>1, <1>4 DEF Current_store
    <2>3. PastFollows(disk.scan, Applied, previous_hash, Elems(history'))
      BY <1>3, <1>6 DEF MemoryFollows, PastFollows
    <2> QED BY <1>1, <1>3, <2>1, <2>2, <2>3 DEF MemoryFollows
  <1>8. OwnStores(C)'
    BY <1>1, <1>2, <1>5 DEF OwnStores
  <1> QED BY <1>1, <1>2, <1>3, <1>7, <1>8 DEF OwnInv, OwnMemory

\* Whole databases opened, begun, committed and lost.
LEMMA OwnMoved ==
    ASSUME NEW C, StoreInv, OwnInv(C)
    PROVE  /\ \A id \in Identities : Open(id) \/ BeginTransaction(id) => OwnInv(C)'
           /\ Commit => OwnInv(C)'
           /\ BatchLost /\ disk' = disk => OwnInv(C)'
           /\ UNCHANGED hostVars \/ ReleaseSavepoint => OwnInv(C)'
  <1>0. Coherent(db) /\ (disk # None => StoreFollows(disk, C) /\ StoreOK(disk))
    BY DEF OwnInv, OwnStores, OwnMemory, StoreInv, StoresInv
  <1>1. ASSUME NEW id \in Identities, Open(id) PROVE OwnInv(C)'
    <2>1. /\ conn = None /\ tx' = tx /\ delta' = delta /\ vars' = vars /\ up' = up
          /\ savepoint' = savepoint
          /\ disk' = disk \/ disk' = NewStore(id)
      BY <1>1 DEF Open
    <2>2. tx = None /\ delta = None /\ block = None /\ ~up /\ savepoint = None
      BY <2>1 DEF StoreInv, CallsInv
    <2> DEFINE e == NewStore(id)
    <2>3. /\ e.tip = None /\ e.heads = EmptyMap /\ e.pending_commits = EmptyMap
          /\ e.rollback_blocks = EmptyMap /\ e.scan = << >> /\ e.core_snapshot = None
      BY DEF NewStore
    <2> HIDE DEF e
    <2>4. e.scan \in Seq(Block) /\ Len(e.scan) = 0
      BY <2>3
    <2>5. StoreFollows(e, C)
      <3>1. RowsFollow(e, e.scan)
        BY <2>3, <2>4, EmptyFollows
      <3>2. Chained(e.scan)
        BY <2>4 DEF Chained
      <3> QED BY <2>3, <3>1, <3>2 DEF StoreFollows
    <2>6. disk' # None => StoreFollows(disk', C)
      BY <1>0, <2>1, <2>5 DEF e
    <2>7. block' = None /\ db' = db
      BY <2>1, <2>2 DEF vars
    <2> QED BY <1>0, <2>1, <2>2, <2>6, <2>7 DEF OwnInv, OwnStores, OwnMemory
  <1>2. ASSUME NEW id \in Identities, BeginTransaction(id) PROVE OwnInv(C)'
    <2>1. /\ conn # None /\ tx = None /\ tx' = disk /\ disk' = disk /\ delta' = delta
          /\ vars' = vars /\ torn' = torn /\ up' = up /\ savepoint' = savepoint
      BY <1>2 DEF BeginTransaction
    <2>2. delta = None /\ block = None /\ savepoint = None /\ disk # None
      BY <2>1 DEF StoreInv, CallsInv, StoresInv
    <2>3. /\ block' = None /\ db' = db /\ history' = history /\ tip_height' = tip_height
          /\ previous_hash' = previous_hash
      BY <2>1, <2>2 DEF vars
    <2>4. up => MemoryFollows(disk.scan)
      BY <2>1, <2>2 DEF OwnInv, OwnMemory, Current_store
    <2>5. up' => MemoryFollows(Current_store.scan)'
      <3>1. Applied' = Applied
        BY <2>3 DEF Applied, reducer_tip
      <3>2. Current_store' = disk
        BY <2>1, <2>2 DEF Current_store
      <3> QED BY <2>1, <2>3, <2>4, <3>1, <3>2 DEF MemoryFollows
    <2>6. OwnStores(C)'
      BY <1>0, <2>1, <2>2 DEF OwnStores, StoreOK
    <2> QED BY <1>0, <2>1, <2>2, <2>3, <2>5, <2>6 DEF OwnInv, OwnMemory
  <1>3. ASSUME Commit PROVE OwnInv(C)'
    <2>1. /\ up /\ tx # None /\ block = None /\ delta = None /\ ~torn /\ savepoint = None
          /\ disk' = tx /\ tx' = None /\ vars' = vars /\ delta' = delta /\ up' = up
          /\ savepoint' = savepoint
      BY <1>3 DEF Commit, Idle
    <2>2. /\ block' = None /\ db' = db /\ history' = history /\ tip_height' = tip_height
          /\ previous_hash' = previous_hash
      BY <2>1 DEF vars
    <2>3. MemoryFollows(tx.scan) /\ StoreFollows(tx, C)
      BY <2>1 DEF OwnInv, OwnMemory, OwnStores, Current_store
    <2>4. MemoryFollows(Current_store.scan)'
      <3>1. Applied' = Applied
        BY <2>2 DEF Applied, reducer_tip
      <3>2. Current_store' = tx
        BY <2>1 DEF Current_store
      <3> QED BY <2>2, <2>3, <3>1, <3>2 DEF MemoryFollows
    <2>5. OwnStores(C)'
      BY <2>1, <2>3 DEF OwnStores
    <2> QED BY <1>0, <2>1, <2>2, <2>4, <2>5 DEF OwnInv, OwnMemory
  <1>4. ASSUME BatchLost, disk' = disk PROVE OwnInv(C)'
    <2>1. /\ tx' = None /\ savepoint' = None /\ delta' = None /\ up' = FALSE
          /\ FreshMemory /\ block' = None
      BY <1>4 DEF BatchLost, FreshMemory
    <2>2. Coherent(db)'
      <3>1. << >> \in Seq(Block)
        OBVIOUS
      <3> QED BY <2>1, <3>1, MemoryFresh
    <2> QED BY <1>0, <1>4, <2>1, <2>2 DEF OwnInv, OwnStores, OwnMemory
  <1>5. ASSUME UNCHANGED hostVars \/ ReleaseSavepoint PROVE OwnInv(C)'
    <2>1. /\ vars' = vars /\ disk' = disk /\ tx' = tx /\ delta' = delta /\ torn' = torn
          /\ up' = up /\ savepoint' \in {savepoint, None}
      BY <1>5 DEF hostVars, storeVars, ReleaseSavepoint
    <2>2. /\ block' = block /\ db' = db /\ history' = history /\ tip_height' = tip_height
          /\ previous_hash' = previous_hash /\ undo' = undo /\ pos' = pos
      BY <2>1 DEF vars
    <2>3. Applied' = Applied /\ reducer_tip' = reducer_tip /\ LastUndo' = LastUndo
      BY <2>2 DEF Applied, reducer_tip, LastUndo
    <2>4. (up /\ block = None) => MemoryFollows(Current_store.scan)'
      <3>1. Current_store' = Current_store
        BY <2>1 DEF Current_store
      <3>2. (up /\ block = None) => MemoryFollows(Current_store.scan)
        BY DEF OwnInv, OwnMemory
      <3> QED BY <2>2, <2>3, <3>1, <3>2 DEF MemoryFollows
    <2>5. BlockFollows => BlockFollows'
      <3>1. BlockReplays => BlockReplays'
        BY <2>1, <2>2 DEF BlockReplays
      <3> QED BY <2>1, <2>2, <2>3, <3>1 DEF BlockFollows, RowsBefore, TipOf
    <2>6. DeltaFollows => DeltaFollows'
      BY <2>1, <2>2, <2>3 DEF DeltaFollows, RowsBefore, TipOf, delta_from_undo
    <2>7. OwnStores(C)'
      BY <2>1 DEF OwnInv, OwnStores
    <2> QED BY <2>1, <2>2, <2>4, <2>5, <2>6, <2>7 DEF OwnInv, OwnMemory
  <1> QED BY <1>1, <1>2, <1>3, <1>4, <1>5

LEMMA OwnStep ==
    ASSUME NoneIsNoRecord, adapter = "sqlite", NEW C, HashesName(C), StoreInv, BranchInv,
           ScansFrom(C), OwnInv(C), [SNext]_hostVars
    PROVE  OwnInv(C)'
  <1>1. ASSUME NEW b \in Block, SBeginBlock(b) PROVE OwnInv(C)'
    BY <1>1, OwnBegin
  <1>2. CASE ReplayScanned
    <2>1. PICK i \in DOMAIN tx.scan : SBeginBlock(tx.scan[i])
      BY <1>2 DEF ReplayScanned
    <2>2. tx.scan \in Seq(Block)
      BY <2>1 DEF SBeginBlock, Idle, StoreInv, StoresInv, StoreOK
    <2>3. tx.scan[i] \in Block
      BY <2>1, <2>2
    <2> QED BY <1>1, <2>1, <2>3
  <1>3. /\ ~RewindStep /\ ~RewindEnd /\ ~RewindReset /\ ~RecordWalletCommit
        /\ \A height : ~WalletRewind(height)
    BY DEF RewindStep, RewindEnd, RewindReset, RecordWalletCommit, WalletRewind, StoreInv,
           CallsInv
  <1>4. CASE AbortBatch \/ Crash
    BY <1>4, OwnMoved DEF AbortBatch, Crash
  <1>5. CASE BlockFails
    BY <1>5, OwnBlockFails
  <1>6. CASE HostStep
    <2>1. \/ \E id \in Identities : Open(id) \/ BeginTransaction(id)
          \/ Resume \/ SApplyTransaction \/ SEndBlock \/ StoreDelta \/ ReleaseSavepoint
          \/ BlockFails \/ Commit
      BY <1>3, <1>6 DEF HostStep
    <2> QED BY <1>5, <2>1, OwnMoved, OwnResume, OwnApply, OwnEnd, OwnDelta
  <1>7. SNext \/ UNCHANGED hostVars
    OBVIOUS
  <1> QED BY <1>1, <1>2, <1>3, <1>4, <1>5, <1>6, <1>7, OwnMoved, OwnDelta, OwnSnapshot,
             OwnFinalize, OwnReorganize DEF SNext

\* The heads a delta replaces were sound at the tip before it.
LEMMA OwnPreviousSound ==
    ASSUME NoneIsNoRecord, MemOK, Coherent(db), DeltaOK(delta), StoreOK(tx),
           RowsFollow(tx, tx.scan), MemoryFollows(tx.scan), DeltaFollows,
           NEW n \in DOMAIN LastUndo.heads, LastUndo.heads[n] # None
    PROVE  validate_head(LastUndo.heads[n], LastUndo.previous_tip_height)
  <1> DEFINE u == LastUndo
             m == BlocksTo(tx.tip)
             ch == tx.scan
  <1>1. /\ history # << >> /\ RowsBefore(tx, u)
        /\ delta = delta_from_undo(TipOf(u), reducer_tip, u)
    BY DEF DeltaFollows
  <1>2. tip_height \in Height /\ tip_height # None
    BY <1>1, LastAndEarlier, HeightFacts
  <1>3. tx.tip = TipOf(u) /\ delta.from_tip = tx.tip /\ delta.to_tip.height = tip_height
    BY <1>1, <1>2 DEF RowsBefore, delta_from_undo, reducer_tip, Tip
  <1>4. m = ScanIndex(tip_height) - 1 /\ m \in Nat /\ Applied = ScanIndex(tip_height)
    <2>1. Before(tx.tip, tip_height)
      BY <1>3 DEF DeltaOK
    <2> QED BY <1>2, <2>1, BlocksBefore, AppliedIs
  <1>5. tx.heads[n] = u.heads[n] /\ n \in DOMAIN tx.heads
    <2>1. Proper(db.heads)
      BY DEF Coherent
    <2> DEFINE base == Updated(db.heads, u.heads)
    <2>2. n \in DOMAIN base /\ base[n] = u.heads[n]
      BY <2>1, UpdatedFacts
    <2>3. tx.heads = base
      BY <1>1 DEF RowsBefore
    <2> HIDE DEF base
    <2> QED BY <2>2, <2>3
  <1>6. tx.heads = After(ch, m).heads /\ ch \in Seq(Block)
    BY DEF RowsFollow, Replays
  <1>7. m # 0
    <2> SUFFICES ASSUME m = 0 PROVE FALSE
      OBVIOUS
    <2>1. tx.heads = EmptyMap
      BY <1>6, AfterFacts DEF NoRecords, rebuild_derived_indexes
    <2> QED BY <1>5, <2>1 DEF EmptyMap
  <1>8. u.previous_tip_height = activation_height + m - 1
    <2>1. tx.tip # None
      BY <1>7 DEF BlocksTo
    <2>2. tx.tip.height \in Height /\ m = ScanIndex(tx.tip.height)
      BY <2>1 DEF BlocksTo, StoreOK, JournalOK, TipOK
    <2>3. tx.tip.height = u.previous_tip_height
      BY <1>3, <2>1 DEF TipOf, Tip
    <2> QED BY <2>2, <2>3, HeightFacts DEF ScanIndex
  <1>9. AllSound(After(ch, m).heads, activation_height + m - 1)
    <2>1. SoundTo(ch, Applied)
      BY DEF MemoryFollows, PastFollows
    <2> HIDE DEF m
    <2>2. Applied = m + 1
      <3>1. ScanIndex(tip_height) \in Int
        BY <1>2, HeightFacts DEF ScanIndex
      <3> QED BY <1>4, <3>1
    <2>3. m \in 1 .. Applied
      BY <1>4, <1>7, <2>2
    <2> QED BY <2>1, <2>3 DEF SoundTo
  <1> QED BY <1>5, <1>6, <1>8, <1>9 DEF AllSound, HeadSound

LEMMA OwnInductive ==
    ASSUME NoneIsNoRecord, adapter = "sqlite", NEW C, HashesName(C)
    PROVE  (StoreInv /\ BranchInv /\ OwnInv(C)) /\ ScansFrom(C) /\ [SNext]_hostVars
              => (StoreInv /\ BranchInv /\ OwnInv(C))'
  BY StoreStep, BranchStep, OwnStep

\* With the store's own adapter, too, the stored heads and COMMITs are those a
\* fresh reducer computes from the scanned blocks up to the stored tip, through
\* failed blocks and their savepoints, tips given back, restarts from an older
\* image and finalization, as long as a block hash names one block
\* (with_block_savepoint, rollback_tip, put_core_snapshot; docs/decisions/0005).
THEOREM OwnReplayRebuilds ==
    ASSUME NoneIsNoRecord, adapter = "sqlite", NEW C, HashesName(C)
    PROVE  SSpec /\ []ScansFrom(C) => []RowsAreReplay
  <1>1. OwnInv(C) => RowsAreReplay
    <2> SUFFICES ASSUME OwnInv(C), NEW s \in Views
                 PROVE  LET n == IF s.tip = None THEN 0 ELSE ScanIndex(s.tip.height)
                            d == Replayed(SubSeq(s.scan, 1, n))
                        IN  /\ n <= Len(s.scan)
                            /\ Records(s) = [heads |-> d.heads, commits |-> d.commits]
      BY DEF RowsAreReplay
    <2>1. Replays(s, s.scan)
      BY DEF Views, Settled, OwnInv, OwnStores, StoreFollows, RowsFollow
    <2>2. BlocksTo(s.tip) = IF s.tip = None THEN 0 ELSE ScanIndex(s.tip.height)
      BY DEF BlocksTo
    <2>3. BlocksTo(s.tip) <= Len(s.scan)
      BY <2>1 DEF Replays
    <2> HIDE DEF BlocksTo
    <2>4. Records(s) = [heads |-> After(s.scan, BlocksTo(s.tip)).heads,
                        commits |-> After(s.scan, BlocksTo(s.tip)).commits]
      BY <2>1 DEF Replays, Records
    <2> QED BY <2>2, <2>3, <2>4 DEF After
  <1>2. SInit => StoreInv /\ BranchInv /\ OwnInv(C)
    BY StoreInit, BranchInit, OwnInit
  <1> QED BY <1>1, <1>2, OwnInductive, PTL DEF SSpec

\* Between two calls of the store's own adapter the stored tip is the reducer's
\* and the rows are the records it holds: a failed block takes both to the block
\* before it, and an image loaded after a restart is of the stored branch, as
\* long as a block hash names one block (with_block_savepoint, rollback_tip).
THEOREM OwnRowsAreTheRecords ==
    ASSUME NoneIsNoRecord, adapter = "sqlite", NEW C, HashesName(C)
    PROVE  SSpec /\ []ScansFrom(C) => []RowsAreRecords
  <1>1. StoreInv /\ OwnInv(C) => RowsAreRecords
    <2> SUFFICES ASSUME StoreInv, OwnInv(C), up, Settled
                 PROVE  LET s == IF tx # None THEN tx ELSE disk
                        IN  /\ s.tip = reducer_tip
                            /\ Records(s) = [heads |-> db.heads, commits |-> db.commits]
      BY DEF RowsAreRecords
    <2> DEFINE s == Current_store
    <2>1. block = None /\ delta = None /\ ~torn /\ disk # None
      BY DEF Settled, StoreInv, CallsInv, StoresInv
    <2>2. StoreOK(s) /\ StoreFollows(s, C) /\ HeightOf(s.tip) = tip_height /\ MemOK
      BY <2>1 DEF StoreInv, StoresInv, HeightsInv, OwnInv, OwnStores, Current_store
    <2>3. RowsFollow(s, s.scan) /\ MemoryFollows(s.scan)
      BY <2>1, <2>2 DEF OwnInv, OwnMemory, StoreFollows
    <2> HIDE DEF s
    <2>4. s.tip = reducer_tip /\ s.heads = db.heads /\ s.pending_commits = db.commits
      BY <2>2, <2>3, MemorySynced
    <2> QED BY <2>4 DEF s, Current_store, Records
  <1>2. SInit => StoreInv /\ BranchInv /\ OwnInv(C)
    BY StoreInit, BranchInit, OwnInit
  <1> QED BY <1>1, <1>2, OwnInductive, PTL DEF SSpec

\* With the store's own adapter a snapshot is left in place when its block is
\* given back and may be of another branch; one whose tip is the stored tip
\* describes the rows beside it all the same, because that tip's hash names the
\* branch (put_core_snapshot, rollback_tip).
THEOREM OwnSnapshotsAreOfRows ==
    ASSUME NoneIsNoRecord, adapter = "sqlite", NEW C, HashesName(C)
    PROVE  SSpec /\ []ScansFrom(C) => []SnapshotIsOfRows
  <1>1. StoreInv /\ OwnInv(C) /\ ScansFrom(C) => SnapshotIsOfRows
    <2> SUFFICES ASSUME StoreInv, OwnInv(C), ScansFrom(C), NEW s \in Views, SnapshotCurrent(s)
                 PROVE  [heads |-> s.core_snapshot.heads, commits |-> s.core_snapshot.commits]
                           = Records(s)
      BY DEF SnapshotIsOfRows
    <2>1. /\ StoreOK(s) /\ StoreFollows(s, C)
          /\ \A k \in 1 .. Len(s.scan) : s.scan[k] \in C
      BY DEF Views, Settled, StoreInv, StoresInv, OwnInv, OwnStores, ScansFrom
    <2>2. RecordsAfter(s.core_snapshot.heads, s.core_snapshot.commits, s.scan, BlocksTo(s.tip))
      BY <2>1, ImageOfScan
    <2> QED BY <2>1, <2>2 DEF StoreFollows, RowsFollow, Replays, RecordsAfter, Records
  <1>2. SInit => StoreInv /\ BranchInv /\ OwnInv(C)
    BY StoreInit, BranchInit, OwnInit
  <1> QED BY <1>1, <1>2, OwnInductive, PTL DEF SSpec

\* With the store's own adapter and complete coverage no delta of the reducer is
\* refused, whatever failed, was given back, finalized or reloaded before: its
\* previous values are the stored ones, its records and those it replaces pass
\* validate_head, and no journal row is in the way (apply_delta, validate_head).
THEOREM OwnDeltasAreTaken ==
    ASSUME NoneIsNoRecord, adapter = "sqlite", NEW C, HashesName(C)
    PROVE  SSpec /\ []ScansFrom(C) => []DeltaTaken
  <1>1. StoreInv /\ OwnInv(C) => DeltaTaken
    <2> SUFFICES ASSUME StoreInv, OwnInv(C), delta # None, ~torn,
                        tx.identity.coverage.kind = "Complete"
                 PROVE  DeltaAccepted(tx, delta)
      BY DEF DeltaTaken
    <2>1. tx # None /\ block = None /\ up /\ StoreOK(tx) /\ MemOK /\ DeltaOK(delta)
      BY DEF StoreInv, StoresInv, CallsInv, HeightsInv
    <2>2. /\ Coherent(db) /\ MemoryFollows(tx.scan) /\ DeltaFollows
          /\ RowsFollow(tx, tx.scan) /\ tx.scan \in Seq(Block)
      BY <2>1 DEF OwnInv, OwnMemory, OwnStores, Current_store, StoreFollows
    <2>3. AllSound(db.heads, tip_height)
      BY <2>1, <2>2, MemorySound
    <2>4. ASSUME NEW n \in DOMAIN LastUndo.heads, LastUndo.heads[n] # None
          PROVE  validate_head(LastUndo.heads[n], LastUndo.previous_tip_height)
      BY <2>1, <2>2, <2>4, OwnPreviousSound
    <2> QED BY <2>1, <2>2, <2>3, <2>4, DeltaIsAccepted DEF DeltaFollows
  <1>2. SInit => StoreInv /\ BranchInv /\ OwnInv(C)
    BY StoreInit, BranchInit, OwnInit
  <1> QED BY <1>1, <1>2, OwnInductive, PTL DEF SSpec
=============================================================================
