--------------------------- MODULE ReducerProofs ----------------------------
(***************************************************************************)
(* What holds of the reducer for every value of the parameters, every      *)
(* block and every sequence of calls: the derived indexes list exactly its *)
(* records, rollback is exact and implements RewindableView, every         *)
(* variable keeps its type, and the snapshot of an idle reducer loads: its *)
(* records, its journals and their linkage pass every check that           *)
(* load_snapshot makes.                                                    *)
(*                                                                         *)
(* The records change only through ReplaceHeads and ReplaceCommits, so the *)
(* lemmas about those two carry each of the proofs; the rest follows the   *)
(* operations down to them.                                                *)
(***************************************************************************)
EXTENDS ReducerRollback, ScheduleFacts

-----------------------------------------------------------------------------
(***************************************************************************)
(* The derived indexes.                                                    *)
(***************************************************************************)
\* The maps are a record of exactly these fields.
Shape(d) == d = [commits |-> d.commits, heads |-> d.heads,
                 commits_by_height |-> d.commits_by_height,
                 heads_by_future_nf |-> d.heads_by_future_nf,
                 active_heads_by_expiry |-> d.active_heads_by_expiry,
                 terminal_heads_by_height |-> d.terminal_heads_by_height]

CommitsIndexed(d) == d.commits_by_height = ByHeight(DOMAIN d.commits)

HeadsIndexed(d) ==
    /\ d.heads_by_future_nf = ByNf(d.heads, DOMAIN d.heads)
    /\ d.active_heads_by_expiry = ByExpiry(d.heads, DOMAIN d.heads)
    /\ d.terminal_heads_by_height = ByTerminal(d.heads, DOMAIN d.heads)

\* A function that never takes the None that stands for a missing key.
Proper(map) == /\ map = [k \in DOMAIN map |-> map[k]]
               /\ \A k \in DOMAIN map : map[k] # None

\* The inductive form of IndexesCoherent.
Coherent(d) == /\ Shape(d)
               /\ Proper(d.commits) /\ Proper(d.heads)
               /\ CommitsIndexed(d)
               /\ HeadsIndexed(d)

\* Where an updated map is defined, and what it holds there.
LEMMA UpdatedFacts ==
    ASSUME NEW map, NEW changes, Proper(map)
    PROVE  /\ \A k : k \in DOMAIN Updated(map, changes) <=>
                       \/ k \in DOMAIN changes /\ changes[k] # None
                       \/ k \in DOMAIN map /\ k \notin DOMAIN changes
           /\ \A k \in DOMAIN Updated(map, changes) :
                Updated(map, changes)[k] =
                  IF k \in DOMAIN changes THEN changes[k] ELSE map[k]
           /\ Proper(Updated(map, changes))
  BY DEF Updated, Proper

\* Replacing heads moves their entries in the three head indexes.
LEMMA ReplaceHeadsCoherent ==
    ASSUME NEW d, NEW changes, Coherent(d)
    PROVE  Coherent(ReplaceHeads(d, changes))
  <1> DEFINE e == ReplaceHeads(d, changes)
             new == {n \in DOMAIN changes : changes[n] # None}
             old == DOMAIN d.heads \cap DOMAIN changes
             U == Updated(d.heads, changes)
  <1>1. /\ Shape(e)
        /\ e.commits = d.commits /\ e.commits_by_height = d.commits_by_height
        /\ e.heads = U
        /\ e.heads_by_future_nf =
             (d.heads_by_future_nf \ ByNf(d.heads, old)) \cup ByNf(changes, new)
        /\ e.active_heads_by_expiry =
             (d.active_heads_by_expiry \ ByExpiry(d.heads, old))
                \cup ByExpiry(changes, new)
        /\ e.terminal_heads_by_height =
             (d.terminal_heads_by_height \ ByTerminal(d.heads, old))
                \cup ByTerminal(changes, new)
    BY DEF ReplaceHeads, Shape
  <1>2. /\ \A n : n \in DOMAIN U <=> \/ n \in new
                                     \/ n \in DOMAIN d.heads /\ n \notin old
        /\ \A n \in new : U[n] = changes[n]
        /\ \A n \in DOMAIN d.heads \ old : U[n] = d.heads[n]
        /\ Proper(U)
    BY UpdatedFacts DEF Coherent
  <1> HIDE DEF e, new, old, U
  <1>3. ByNf(U, DOMAIN U) =
          (ByNf(d.heads, DOMAIN d.heads) \ ByNf(d.heads, old)) \cup ByNf(changes, new)
    BY <1>2 DEF ByNf
  <1>4. ByExpiry(U, DOMAIN U) =
          (ByExpiry(d.heads, DOMAIN d.heads) \ ByExpiry(d.heads, old))
            \cup ByExpiry(changes, new)
    BY <1>2 DEF ByExpiry
  <1>5. ByTerminal(U, DOMAIN U) =
          (ByTerminal(d.heads, DOMAIN d.heads) \ ByTerminal(d.heads, old))
            \cup ByTerminal(changes, new)
    BY <1>2 DEF ByTerminal
  <1>6. Coherent(e)
    BY <1>1, <1>2, <1>3, <1>4, <1>5 DEF Coherent, HeadsIndexed, CommitsIndexed
  <1> QED BY <1>6 DEF e

\* Replacing COMMITs moves their entries in the height index.
LEMMA ReplaceCommitsCoherent ==
    ASSUME NEW d, NEW changes, Coherent(d)
    PROVE  Coherent(ReplaceCommits(d, changes))
  <1> DEFINE e == ReplaceCommits(d, changes)
             new == {r \in DOMAIN changes : changes[r] # None}
             old == DOMAIN d.commits \cap DOMAIN changes
             U == Updated(d.commits, changes)
  <1>1. /\ Shape(e)
        /\ e.heads = d.heads /\ e.heads_by_future_nf = d.heads_by_future_nf
        /\ e.active_heads_by_expiry = d.active_heads_by_expiry
        /\ e.terminal_heads_by_height = d.terminal_heads_by_height
        /\ e.commits = U
        /\ e.commits_by_height =
             (d.commits_by_height \ ByHeight(old)) \cup ByHeight(new)
    BY DEF ReplaceCommits, Shape
  <1>2. /\ \A r : r \in DOMAIN U <=> \/ r \in new
                                     \/ r \in DOMAIN d.commits /\ r \notin old
        /\ Proper(U)
    BY UpdatedFacts DEF Coherent
  <1> HIDE DEF e, new, old, U
  <1>3. ByHeight(DOMAIN U) = (ByHeight(DOMAIN d.commits) \ ByHeight(old))
                               \cup ByHeight(new)
    BY <1>2 DEF ByHeight
  <1>4. Coherent(e)
    BY <1>1, <1>2, <1>3 DEF Coherent, HeadsIndexed, CommitsIndexed
  <1> QED BY <1>4 DEF e

-----------------------------------------------------------------------------
\* Block-start lifecycle, evidence and the operations change the records only
\* through the two replacements.
LEMMA StepsCoherent ==
    ASSUME NEW w, Coherent(w.db), NEW height, NEW changes, NEW tx, NEW name, NEW head
    PROVE  /\ Coherent(mark_expired(w, height).db)
           /\ Coherent(compact_claimable(w, height).db)
           /\ Coherent(prune_commits(w, height).db)
           /\ Coherent(insert_supplied(w, changes).db)
           /\ Coherent(InstallHead(w, name, head).db)
           /\ Coherent(apply_commit(w, height, tx).db)
  <1>1. Coherent(mark_expired(w, height).db)
    BY ReplaceHeadsCoherent DEF mark_expired, replace_head, remember_head
  <1>2. Coherent(compact_claimable(w, height).db)
    BY ReplaceHeadsCoherent DEF compact_claimable, replace_head, remember_head
  <1>3. Coherent(prune_commits(w, height).db)
    BY ReplaceCommitsCoherent DEF prune_commits, replace_commit, remember_commit
  <1>4. Coherent(insert_supplied(w, changes).db)
    BY ReplaceCommitsCoherent DEF insert_supplied, replace_commit, remember_commit
  <1>5. Coherent(InstallHead(w, name, head).db)
    BY ReplaceHeadsCoherent DEF InstallHead, replace_head, remember_head
  <1>6. Coherent(apply_commit(w, height, tx).db)
    BY ReplaceCommitsCoherent DEF apply_commit, replace_commit, remember_commit
  <1> QED BY <1>1, <1>2, <1>3, <1>4, <1>5, <1>6

LEMMA OperationCoherent ==
    ASSUME NEW w, Coherent(w.db), NEW height, NEW tx,
           tx.operation \in Option(Operation)
    PROVE  Coherent(apply_operation(w, height, tx).db)
  <1>1. CASE tx.operation = None
    BY <1>1 DEF apply_operation
  <1>2. CASE tx.operation # None
    <2>1. tx.operation.kind \in {"Commit", "Reveal", "Refresh"}
      BY <1>2 DEF Option, Operation
    <2>2. Coherent(apply_reveal(w, height, tx).db)
      BY StepsCoherent DEF apply_reveal
    <2>3. Coherent(apply_refresh(w, height, tx).db)
      BY StepsCoherent DEF apply_refresh
    <2>4. Coherent(apply_commit(w, height, tx).db)
      BY StepsCoherent
    <2> QED BY <1>2, <2>1, <2>2, <2>3, <2>4 DEF apply_operation
  <1> QED BY <1>1, <1>2

LEMMA TransactionCoherent ==
    ASSUME NEW w, Coherent(w.db), NEW height, NEW tx,
           tx.operation \in Option(Operation)
    PROVE  Coherent(apply_transaction(w, height, tx).db)
  <1>1. Coherent(apply_operation(w, height, tx).db)
    BY OperationCoherent
  <1> QED BY <1>1, ReplaceHeadsCoherent
          DEF apply_transaction, replace_head, remember_head

-----------------------------------------------------------------------------
\* A transaction of the block in progress is a Transaction.
BlockOK == block \in Option(Block) /\ pos \in Nat

IndexInv == Coherent(db) /\ BlockOK

LEMMA TransactionInBlock ==
    ASSUME BlockOK, block # None, pos < Len(block.transactions)
    PROVE  block.transactions[pos + 1] \in Transaction
  <1>1. block.transactions \in Seq(Transaction)
    BY DEF BlockOK, Block, Option
  <1>2. pos + 1 \in 1 .. Len(block.transactions)
    BY <1>1 DEF BlockOK
  <1> QED BY <1>1, <1>2

LEMMA IndexInit == Init => IndexInv
  <1> SUFFICES ASSUME Init PROVE IndexInv
    OBVIOUS
  <1>1. Coherent(db)
    BY DEF Init, Coherent, Shape, Proper, CommitsIndexed, HeadsIndexed, EmptyMap,
           ByHeight, ByNf, ByExpiry, ByTerminal
  <1>2. BlockOK
    BY DEF Init, BlockOK, Option
  <1> QED BY <1>1, <1>2 DEF IndexInv

LEMMA IndexStep == IndexInv /\ [Next]_vars => IndexInv'
  <1> SUFFICES ASSUME IndexInv, [Next]_vars PROVE IndexInv'
    OBVIOUS
  <1> USE DEF IndexInv
  <1>1. ASSUME NEW b \in Block, NEW e \in SUBSET ReferencedCommit, BeginBlock(b, e)
        PROVE  IndexInv'
    <2> DEFINE w0 == [db |-> db, undo |-> new_undo(b)]
               w1 == mark_expired(w0, b.height)
               w2 == compact_claimable(w1, b.height)
               w3 == prune_commits(w2, b.height)
               w4 == insert_supplied(w3, supplied(e))
    <2>1. Coherent(w0.db)
      OBVIOUS
    <2> HIDE DEF w0
    <2>2. Coherent(w1.db)
      BY <2>1, StepsCoherent
    <2> HIDE DEF w1
    <2>3. Coherent(w2.db)
      BY <2>2, StepsCoherent
    <2> HIDE DEF w2
    <2>4. Coherent(w3.db)
      BY <2>3, StepsCoherent
    <2> HIDE DEF w3
    <2>5. Coherent(w4.db)
      BY <2>4, StepsCoherent
    <2>6. db' = w4.db /\ block' = b /\ pos' = 0
      BY <1>1 DEF BeginBlock, w0, w1, w2, w3, w4
    <2> QED BY <2>5, <2>6 DEF BlockOK, Option
  <1>2. CASE ApplyTransaction
    <2> DEFINE tx == block.transactions[pos + 1]
    <2>1. tx.operation \in Option(Operation)
      BY <1>2, TransactionInBlock DEF ApplyTransaction, Transaction
    <2> HIDE DEF tx
    <2>2. Coherent(apply_transaction([db |-> db, undo |-> undo],
                                     block.height, tx).db)
      BY <2>1, TransactionCoherent
    <2>3. Coherent(db')
      BY <1>2, <2>2 DEF ApplyTransaction, tx
    <2>4. BlockOK'
      BY <1>2 DEF ApplyTransaction, BlockOK
    <2> QED BY <2>3, <2>4
  <1>3. CASE EndBlock
    BY <1>3 DEF EndBlock, BlockOK, Option
  <1>4. ASSUME NEW hash \in Hashes, RollbackTip(hash) PROVE IndexInv'
    <2>1. Coherent(Restored(db, history[Len(history)]))
      BY ReplaceHeadsCoherent, ReplaceCommitsCoherent DEF Restored
    <2> QED BY <1>4, <2>1 DEF RollbackTip, callVars, BlockOK
  <1>5. ASSUME NEW height \in Height, FinalizeThrough(height) PROVE IndexInv'
    BY <1>5 DEF FinalizeThrough, callVars, BlockOK
  <1>6. CASE Restart
    <2>1. Coherent(rebuild_derived_indexes(db))
      BY DEF Coherent, Shape, CommitsIndexed, HeadsIndexed, rebuild_derived_indexes
    <2> QED BY <1>6, <2>1 DEF Restart, callVars, BlockOK
  <1>7. CASE UNCHANGED vars
    BY <1>7 DEF vars, BlockOK
  <1> QED BY <1>1, <1>2, <1>3, <1>4, <1>5, <1>6, <1>7 DEF Next

\* In every state every run of the reducer can reach, the derived indexes are
\* what rebuild_derived_indexes would compute from the records: the walks of
\* mark_expired, compact_claimable, prune_commits and spend detection miss no
\* record and meet no leftover entry.
THEOREM IndexCoherence == Spec => []IndexesCoherent
  <1>1. IndexInv => IndexesCoherent
    BY DEF IndexInv, Coherent, Shape, CommitsIndexed, HeadsIndexed,
           IndexesCoherent, rebuild_derived_indexes
  <1> QED BY <1>1, IndexInit, IndexStep, PTL DEF Spec

-----------------------------------------------------------------------------
(***************************************************************************)
(* Rollback.  Two facts about maps carry the argument: overwriting a key   *)
(* that the journal holds does not change what the journal leads back to   *)
(* (UpdatedTwice), and adding a key to the journal with its current value  *)
(* does not either (UpdatedJournaled).                                     *)
(***************************************************************************)
LEMMA UpdatedTwice ==
    ASSUME NEW map, NEW changes, NEW journal, DOMAIN changes \subseteq DOMAIN journal
    PROVE  Updated(Updated(map, changes), journal) = Updated(map, journal)
  BY DEF Updated

LEMMA UpdatedJournaled ==
    ASSUME NEW map, NEW journal, NEW keys
    PROVE  Updated(map, Journaled(journal, map, keys)) = Updated(map, journal)
  BY DEF Updated, Journaled, Get

LEMMA UpdatedNothing ==
    ASSUME NEW map, Proper(map)
    PROVE  Updated(map, EmptyMap) = map
  BY DEF Updated, EmptyMap, Proper

-----------------------------------------------------------------------------
UndoFields == {"height", "hash", "previous_hash", "previous_next_height",
               "previous_tip_height", "commits", "heads"}

\* The undo record of the pair w leads from its maps back to the view v.
LeadsTo(w, v) ==
    /\ DOMAIN w.undo = UndoFields
    /\ w.undo.previous_next_height = v.next_height
    /\ w.undo.previous_tip_height = v.tip_height
    /\ w.undo.previous_hash = v.previous_hash
    /\ Updated(w.db.commits, w.undo.commits) = v.commits
    /\ Updated(w.db.heads, w.undo.heads) = v.heads

LEMMA RememberHead ==
    ASSUME NEW w, NEW v, LeadsTo(w, v), NEW names
    PROVE  /\ LeadsTo(remember_head(w, names), v)
           /\ names \subseteq DOMAIN remember_head(w, names).undo.heads
  <1> DEFINE r == remember_head(w, names)
  <1>1. /\ r.db = w.db /\ DOMAIN r.undo = UndoFields
        /\ r.undo.heads = Journaled(w.undo.heads, w.db.heads, names)
        /\ r.undo.commits = w.undo.commits
        /\ r.undo.previous_next_height = w.undo.previous_next_height
        /\ r.undo.previous_tip_height = w.undo.previous_tip_height
        /\ r.undo.previous_hash = w.undo.previous_hash
    BY DEF remember_head, LeadsTo, UndoFields
  <1> HIDE DEF r
  <1>2. LeadsTo(r, v)
    BY <1>1, UpdatedJournaled DEF LeadsTo
  <1>3. names \subseteq DOMAIN r.undo.heads
    BY <1>1 DEF Journaled
  <1> QED BY <1>2, <1>3 DEF r

LEMMA RememberCommit ==
    ASSUME NEW w, NEW v, LeadsTo(w, v), NEW refs
    PROVE  /\ LeadsTo(remember_commit(w, refs), v)
           /\ refs \subseteq DOMAIN remember_commit(w, refs).undo.commits
  <1> DEFINE r == remember_commit(w, refs)
  <1>1. /\ r.db = w.db /\ DOMAIN r.undo = UndoFields
        /\ r.undo.commits = Journaled(w.undo.commits, w.db.commits, refs)
        /\ r.undo.heads = w.undo.heads
        /\ r.undo.previous_next_height = w.undo.previous_next_height
        /\ r.undo.previous_tip_height = w.undo.previous_tip_height
        /\ r.undo.previous_hash = w.undo.previous_hash
    BY DEF remember_commit, LeadsTo, UndoFields
  <1> HIDE DEF r
  <1>2. LeadsTo(r, v)
    BY <1>1, UpdatedJournaled DEF LeadsTo
  <1>3. refs \subseteq DOMAIN r.undo.commits
    BY <1>1 DEF Journaled
  <1> QED BY <1>2, <1>3 DEF r

LEMMA ReplaceHead ==
    ASSUME NEW w, NEW v, LeadsTo(w, v), NEW changes,
           DOMAIN changes \subseteq DOMAIN w.undo.heads
    PROVE  LeadsTo(replace_head(w, changes), v)
  BY UpdatedTwice DEF LeadsTo, replace_head, ReplaceHeads

LEMMA ReplaceCommit ==
    ASSUME NEW w, NEW v, LeadsTo(w, v), NEW changes,
           DOMAIN changes \subseteq DOMAIN w.undo.commits
    PROVE  LeadsTo(replace_commit(w, changes), v)
  BY UpdatedTwice DEF LeadsTo, replace_commit, ReplaceCommits

\* Every piece of block application journals what it is about to replace.
LEMMA StepsLeadTo ==
    ASSUME NEW w, NEW v, LeadsTo(w, v),
           NEW height, NEW changes, NEW tx, NEW name, NEW head
    PROVE  /\ LeadsTo(mark_expired(w, height), v)
           /\ LeadsTo(compact_claimable(w, height), v)
           /\ LeadsTo(prune_commits(w, height), v)
           /\ LeadsTo(insert_supplied(w, changes), v)
           /\ LeadsTo(InstallHead(w, name, head), v)
           /\ LeadsTo(apply_commit(w, height, tx), v)
  <1>1. LeadsTo(mark_expired(w, height), v)
    BY RememberHead, ReplaceHead DEF mark_expired
  <1>2. LeadsTo(compact_claimable(w, height), v)
    BY RememberHead, ReplaceHead DEF compact_claimable
  <1>3. LeadsTo(prune_commits(w, height), v)
    BY RememberCommit, ReplaceCommit DEF prune_commits
  <1>4. LeadsTo(insert_supplied(w, changes), v)
    BY RememberCommit, ReplaceCommit DEF insert_supplied
  <1>5. LeadsTo(InstallHead(w, name, head), v)
    BY RememberHead, ReplaceHead DEF InstallHead
  <1>6. LeadsTo(apply_commit(w, height, tx), v)
    BY RememberCommit, ReplaceCommit DEF apply_commit
  <1> QED BY <1>1, <1>2, <1>3, <1>4, <1>5, <1>6

LEMMA TransactionLeadsTo ==
    ASSUME NEW w, NEW v, LeadsTo(w, v), NEW height, NEW tx,
           tx.operation \in Option(Operation)
    PROVE  LeadsTo(apply_transaction(w, height, tx), v)
  <1>1. LeadsTo(apply_operation(w, height, tx), v)
    <2>1. CASE tx.operation = None
      BY <2>1 DEF apply_operation
    <2>2. CASE tx.operation # None
      <3>1. tx.operation.kind \in {"Commit", "Reveal", "Refresh"}
        BY <2>2 DEF Option, Operation
      <3>2. LeadsTo(apply_reveal(w, height, tx), v)
        BY StepsLeadTo DEF apply_reveal
      <3>3. LeadsTo(apply_refresh(w, height, tx), v)
        BY StepsLeadTo DEF apply_refresh
      <3>4. LeadsTo(apply_commit(w, height, tx), v)
        BY StepsLeadTo
      <3> QED BY <2>2, <3>1, <3>2, <3>3, <3>4 DEF apply_operation
    <2> QED BY <2>1, <2>2
  <1> DEFINE after == apply_operation(w, height, tx)
  <1> HIDE DEF after
  <1>2. \A names, changes :
          DOMAIN changes \subseteq names =>
            LeadsTo(replace_head(remember_head(after, names), changes), v)
    BY <1>1, RememberHead, ReplaceHead DEF after
  <1> QED BY <1>2 DEF apply_transaction, after

-----------------------------------------------------------------------------
(***************************************************************************)
(* Sequences over whatever they hold: the journals and the views are never *)
(* looked into here.                                                       *)
(***************************************************************************)
Elems(s) == {s[i] : i \in 1 .. Len(s)}
IsSeq(s) == s \in Seq(Elems(s))

LEMMA SeqIsSeq ==
    ASSUME NEW S, NEW s \in Seq(S)
    PROVE  IsSeq(s)
  <1>1. Len(s) \in Nat /\ s \in [1 .. Len(s) -> S]
    OBVIOUS
  <1>2. s \in [1 .. Len(s) -> Elems(s)]
    BY <1>1 DEF Elems
  <1>3. s \in Seq(Elems(s))
    BY <1>1, <1>2
  <1> QED BY <1>3 DEF IsSeq

LEMMA AppendFacts ==
    ASSUME NEW s, IsSeq(s), NEW e
    PROVE  /\ IsSeq(Append(s, e))
           /\ Len(s) \in Nat
           /\ Len(Append(s, e)) = Len(s) + 1
           /\ \A i \in 1 .. Len(s) : Append(s, e)[i] = s[i]
           /\ Append(s, e)[Len(s) + 1] = e
  <1> DEFINE S == Elems(s) \cup {e}
             t == Append(s, e)
  <1>1. s \in Seq(Elems(s)) /\ Len(s) \in Nat
    BY DEF IsSeq
  <1>2. s \in Seq(S)
    BY <1>1
  <1>3. e \in S
    OBVIOUS
  <1> HIDE DEF S
  <1>4. /\ t \in Seq(S) /\ Len(t) = Len(s) + 1
        /\ \A i \in 1 .. Len(s) : t[i] = s[i]
        /\ t[Len(s) + 1] = e
    BY <1>1, <1>2, <1>3
  <1> HIDE DEF t
  <1>5. IsSeq(t)
    BY <1>4, SeqIsSeq
  <1> QED BY <1>1, <1>4, <1>5 DEF t

LEMMA SubSeqFacts ==
    ASSUME NEW s, IsSeq(s), NEW m \in Nat, NEW n \in Nat,
           1 <= m, m <= n + 1, n <= Len(s)
    PROVE  /\ IsSeq(SubSeq(s, m, n))
           /\ Len(SubSeq(s, m, n)) = n + 1 - m
           /\ \A i \in 1 .. (n + 1 - m) : SubSeq(s, m, n)[i] = s[m + i - 1]
  <1> DEFINE S == Elems(s)
             t == SubSeq(s, m, n)
  <1>1. s \in Seq(S) /\ Len(s) \in Nat
    BY DEF IsSeq
  <1> HIDE DEF S
  <1>2. /\ t \in Seq(S) /\ Len(t) = n + 1 - m
        /\ \A i \in 1 .. (n + 1 - m) : t[i] = s[m + i - 1]
    BY <1>1
  <1> HIDE DEF t
  <1>3. IsSeq(t)
    BY <1>2, SeqIsSeq
  <1> QED BY <1>2, <1>3 DEF t

LEMMA ElemsAppend ==
    ASSUME NEW s, IsSeq(s), NEW e
    PROVE  Elems(Append(s, e)) = Elems(s) \cup {e}
  <1> DEFINE t == Append(s, e)
  <1>1. /\ Len(s) \in Nat /\ Len(t) = Len(s) + 1
        /\ \A i \in 1 .. Len(s) : t[i] = s[i]
        /\ t[Len(s) + 1] = e
    BY AppendFacts
  <1> HIDE DEF t
  <1>2. \A i \in 1 .. Len(t) : i = Len(s) + 1 \/ i \in 1 .. Len(s)
    BY <1>1
  <1>3. /\ Len(s) + 1 \in 1 .. Len(t)
        /\ \A i \in 1 .. Len(s) : i \in 1 .. Len(t)
    BY <1>1
  <1>4. Elems(t) = Elems(s) \cup {e}
    BY <1>1, <1>2, <1>3 DEF Elems
  <1> QED BY <1>4 DEF t

LEMMA ElemsSubSeq ==
    ASSUME NEW s, IsSeq(s), NEW m \in Nat, NEW n \in Nat,
           1 <= m, m <= n + 1, n <= Len(s)
    PROVE  Elems(SubSeq(s, m, n)) \subseteq Elems(s)
  <1> DEFINE t == SubSeq(s, m, n)
  <1>1. Len(t) = n + 1 - m /\ \A i \in 1 .. (n + 1 - m) : t[i] = s[m + i - 1]
    BY SubSeqFacts
  <1>2. Len(s) \in Nat
    BY DEF IsSeq
  <1> HIDE DEF t
  <1>3. \A i \in 1 .. Len(t) : m + i - 1 \in 1 .. Len(s)
    BY <1>1, <1>2
  <1>4. Elems(t) \subseteq Elems(s)
    BY <1>1, <1>3 DEF Elems
  <1> QED BY <1>4 DEF t

LEMMA EmptySeq ==
    ASSUME NEW s, IsSeq(s), Len(s) = 0
    PROVE  s = << >>
  BY DEF IsSeq

LEMMA SeqEqual ==
    ASSUME NEW s, NEW t, IsSeq(s), IsSeq(t), Len(s) = Len(t),
           \A i \in 1 .. Len(s) : s[i] = t[i]
    PROVE  s = t
  <1>1. s \in Seq(Elems(s) \cup Elems(t)) /\ t \in Seq(Elems(s) \cup Elems(t))
    BY DEF IsSeq
  <1> QED BY <1>1

-----------------------------------------------------------------------------
(***************************************************************************)
(* The inductive invariant.  JournalsExact alone is not inductive: a block *)
(* starts from maps that must be proper, its undo record must have its     *)
(* fields, and its height is the one the view before it was waiting for.   *)
(***************************************************************************)
InProgress == block # None =>
                 /\ DOMAIN undo = UndoFields
                 /\ trail # << >>
                 /\ trail[Len(trail)].next_height = block.height

RollbackInv == /\ IndexInv
               /\ IsSeq(history) /\ IsSeq(trail)
               /\ InProgress
               /\ JournalsExact

\* The ghost steps are steps of the reducer.
LEMMA HNextIsNext == [HNext]_hvars => [Next]_vars
  BY DEF HNext, Next, HBeginBlock, HApplyTransaction, HEndBlock, HRollbackTip,
         HFinalizeThrough, HRestart, hvars, vars

\* Undo records older than the last one, and the last one, of JournalsExact.
LEMMA UndosFacts ==
    ASSUME RollbackInv
    PROVE  /\ Len(history) \in Nat /\ Len(trail) \in Nat
           /\ block = None => Undos = history
           /\ block # None => /\ Undos = Append(history, undo)
                              /\ Len(trail) = Len(history) + 1
                              /\ Undos[Len(trail)] = undo
           /\ \A i \in 1 .. Len(history) : Undos[i] = history[i]
  BY AppendFacts DEF RollbackInv, JournalsExact, Undos, IsSeq

\* In the middle of a block the undo record leads back to the view before it.
LEMMA LastLeadsTo ==
    ASSUME RollbackInv, block # None
    PROVE  LeadsTo([db |-> db, undo |-> undo], trail[Len(trail)])
  <1>1. trail[Len(trail)] = Rewound(View, undo)
    BY UndosFacts DEF RollbackInv, JournalsExact
  <1> QED BY <1>1 DEF LeadsTo, Rewound, View, RollbackInv, InProgress

LEMMA RollbackInit == HInit => RollbackInv
  <1> SUFFICES ASSUME HInit PROVE RollbackInv
    OBVIOUS
  <1>1. IndexInv
    BY IndexInit DEF HInit
  <1>2. IsSeq(<< >>)
    BY DEF IsSeq
  <1>3. /\ history = << >> /\ trail = << >> /\ block = None
    BY DEF HInit, Init
  <1>4. InProgress /\ JournalsExact
    BY <1>3 DEF InProgress, JournalsExact, Undos
  <1> QED BY <1>1, <1>2, <1>3, <1>4 DEF RollbackInv

LEMMA BeginStep ==
    ASSUME RollbackInv, NEW b \in Block, NEW e \in SUBSET ReferencedCommit,
           HBeginBlock(b, e), IndexInv'
    PROVE  RollbackInv'
  <1> DEFINE w0 == [db |-> db, undo |-> new_undo(b)]
             w1 == mark_expired(w0, b.height)
             w2 == compact_claimable(w1, b.height)
             w3 == prune_commits(w2, b.height)
             w4 == insert_supplied(w3, supplied(e))
  <1>1. LeadsTo(w0, View)
    <2>1. Proper(db.commits) /\ Proper(db.heads)
      BY DEF RollbackInv, IndexInv, Coherent
    <2> QED BY <2>1, UpdatedNothing DEF LeadsTo, View, new_undo, UndoFields
  <1> HIDE DEF w0
  <1>2. LeadsTo(w1, View)
    BY <1>1, StepsLeadTo
  <1> HIDE DEF w1
  <1>3. LeadsTo(w2, View)
    BY <1>2, StepsLeadTo
  <1> HIDE DEF w2
  <1>4. LeadsTo(w3, View)
    BY <1>3, StepsLeadTo
  <1> HIDE DEF w3
  <1>5. LeadsTo(w4, View)
    BY <1>4, StepsLeadTo
  <1> HIDE DEF w4
  <1>6. /\ block = None /\ block' = b /\ b # None
        /\ b.height = next_height
        /\ db' = w4.db /\ undo' = w4.undo
        /\ next_height' = next_height /\ tip_height' = tip_height
        /\ previous_hash' = previous_hash /\ history' = history
        /\ trail' = Append(trail, View)
    BY ValuesAssumption
    DEF HBeginBlock, BeginBlock, chainVars, w0, w1, w2, w3, w4
  <1>7. Rewound(View', undo') = View
    BY <1>5, <1>6 DEF LeadsTo, Rewound, View
  <1>8. /\ IsSeq(trail') /\ IsSeq(history')
        /\ Len(trail') = Len(trail) + 1 /\ Len(trail) = Len(history)
        /\ Len(trail) \in Nat
        /\ \A i \in 1 .. Len(trail) : trail'[i] = trail[i]
        /\ trail'[Len(trail')] = View
        /\ Undos' = Append(history, undo')
        /\ Len(Undos') = Len(history) + 1
        /\ \A i \in 1 .. Len(history) : Undos'[i] = Undos[i]
        /\ Undos'[Len(trail')] = undo'
    BY <1>6, AppendFacts DEF RollbackInv, JournalsExact, Undos
  <1>9. InProgress'
    <2>1. DOMAIN undo' = UndoFields
      BY <1>5, <1>6 DEF LeadsTo
    <2>2. trail' # << >>
      BY <1>8
    <2>3. View.next_height = next_height
      BY DEF View
    <2> QED BY <1>6, <1>8, <2>1, <2>2, <2>3 DEF InProgress
  <1>10. JournalsExact'
    <2> SUFFICES ASSUME NEW i \in 1 .. Len(trail')
                 PROVE  trail'[i] = Rewound(IF i = Len(trail') THEN View'
                                            ELSE trail'[i + 1], Undos'[i])
      BY <1>8 DEF JournalsExact
    <2>1. CASE i = Len(trail')
      BY <2>1, <1>7, <1>8
    <2>2. CASE i # Len(trail')
      <3>1. i \in 1 .. Len(trail)
        BY <2>2, <1>8
      <3>2. trail[i] = Rewound(IF i = Len(trail) THEN View ELSE trail[i + 1], Undos[i])
        BY <3>1 DEF RollbackInv, JournalsExact
      <3>3. trail'[i + 1] = IF i = Len(trail) THEN View ELSE trail[i + 1]
        BY <3>1, <1>8
      <3> QED BY <2>2, <3>1, <3>2, <3>3, <1>8
    <2> QED BY <2>1, <2>2
  <1> QED BY <1>8, <1>9, <1>10 DEF RollbackInv

LEMMA ApplyStep ==
    ASSUME RollbackInv, HApplyTransaction, IndexInv'
    PROVE  RollbackInv'
  <1> DEFINE tx == block.transactions[pos + 1]
             w == apply_transaction([db |-> db, undo |-> undo], block.height, tx)
             v == trail[Len(trail)]
  <1>1. block # None
    BY DEF HApplyTransaction, ApplyTransaction
  <1>2. tx.operation \in Option(Operation)
    BY TransactionInBlock
    DEF HApplyTransaction, ApplyTransaction, RollbackInv, IndexInv, Transaction
  <1>3. LeadsTo([db |-> db, undo |-> undo], v)
    BY <1>1, LastLeadsTo
  <1> HIDE DEF tx, v
  <1>4. LeadsTo(w, v)
    BY <1>2, <1>3, TransactionLeadsTo
  <1> HIDE DEF w
  <1>5. /\ db' = w.db /\ undo' = w.undo /\ block' = block
        /\ history' = history /\ trail' = trail
    BY DEF HApplyTransaction, ApplyTransaction, chainVars, tx, w
  <1>6. v = Rewound(View, undo)
    BY <1>1, UndosFacts DEF RollbackInv, JournalsExact, v
  <1>7. v = Rewound(View', undo')
    BY <1>4, <1>5, <1>6 DEF LeadsTo, Rewound, View
  <1>8. InProgress'
    BY <1>1, <1>4, <1>5 DEF LeadsTo, InProgress, RollbackInv
  <1>9. /\ Undos' = Append(history, undo')
        /\ Len(Undos') = Len(Undos)
        /\ Undos'[Len(trail)] = undo'
        /\ Len(trail) = Len(history) + 1 /\ Len(history) \in Nat
        /\ \A i \in 1 .. Len(history) : Undos'[i] = Undos[i]
    BY <1>1, <1>5, AppendFacts, UndosFacts DEF RollbackInv, Undos
  <1>10. JournalsExact'
    <2> SUFFICES ASSUME NEW i \in 1 .. Len(trail')
                 PROVE  trail'[i] = Rewound(IF i = Len(trail') THEN View'
                                            ELSE trail'[i + 1], Undos'[i])
      BY <1>5, <1>9 DEF RollbackInv, JournalsExact
    <2>1. CASE i = Len(trail)
      BY <2>1, <1>5, <1>7, <1>9 DEF v
    <2>2. CASE i # Len(trail)
      BY <2>2, <1>5, <1>9 DEF RollbackInv, JournalsExact
    <2> QED BY <2>1, <2>2
  <1> QED BY <1>5, <1>8, <1>10 DEF RollbackInv

LEMMA EndStep ==
    ASSUME RollbackInv, HEndBlock, IndexInv'
    PROVE  RollbackInv'
  <1>1. /\ block # None /\ block' = None /\ db' = db /\ trail' = trail
        /\ history' = Append(history, undo)
    BY DEF HEndBlock, EndBlock
  <1>2. Undos' = Undos
    BY <1>1 DEF Undos
  <1>3. /\ View'.commits = View.commits /\ View'.heads = View.heads
    BY <1>1 DEF View
  <1>4. \A u : Rewound(View', u) = Rewound(View, u)
    BY <1>3 DEF Rewound
  <1>5. JournalsExact'
    BY <1>1, <1>2, <1>4 DEF RollbackInv, JournalsExact
  <1>6. IsSeq(history')
    BY <1>1, AppendFacts DEF RollbackInv
  <1> QED BY <1>1, <1>5, <1>6 DEF RollbackInv, InProgress

LEMMA RollbackStep ==
    ASSUME RollbackInv, NEW hash \in Hashes, HRollbackTip(hash), IndexInv'
    PROVE  /\ RollbackInv'
           /\ View' = trail[Len(trail)]
  <1> DEFINE L == Len(trail)
             u == history[L]
  <1>1. /\ block = None /\ history # << >> /\ block' = None
        /\ trail' = SubSeq(trail, 1, L - 1)
        /\ history' = SubSeq(history, 1, Len(history) - 1)
    BY DEF HRollbackTip, RollbackTip, callVars
  <1>2. /\ Len(history) = L /\ L \in Nat /\ L # 0 /\ Undos = history
    BY <1>1, UndosFacts, EmptySeq DEF RollbackInv, JournalsExact
  <1>3. View' = Rewound(View, u)
    <2>1. /\ db' = Restored(db, u)
          /\ previous_hash' = u.previous_hash
          /\ next_height' = u.previous_next_height
          /\ tip_height' = u.previous_tip_height
      BY <1>2 DEF HRollbackTip, RollbackTip
    <2>2. /\ db'.commits = Updated(db.commits, u.commits)
          /\ db'.heads = Updated(db.heads, u.heads)
      BY <2>1 DEF Restored, ReplaceHeads, ReplaceCommits
    <2> QED BY <2>1, <2>2 DEF Rewound, View
  <1>4. View' = trail[L]
    BY <1>2, <1>3 DEF RollbackInv, JournalsExact
  <1>5. /\ IsSeq(trail') /\ IsSeq(history')
        /\ Len(trail') = L - 1 /\ Len(history') = L - 1
        /\ \A i \in 1 .. L - 1 : trail'[i] = trail[i] /\ history'[i] = history[i]
    BY <1>1, <1>2, SubSeqFacts DEF RollbackInv
  <1>6. Undos' = history'
    BY <1>1 DEF Undos
  <1>7. JournalsExact'
    BY <1>2, <1>4, <1>5, <1>6 DEF RollbackInv, JournalsExact
  <1> QED BY <1>1, <1>4, <1>5, <1>7 DEF RollbackInv, InProgress

LEMMA FinalizeStep ==
    ASSUME RollbackInv, NEW height \in Height, HFinalizeThrough(height), IndexInv'
    PROVE  /\ RollbackInv'
           /\ View' = View
           /\ \E n \in 0 .. Len(trail) : trail' = SubSeq(trail, n + 1, Len(trail))
  <1> DEFINE L == Len(trail)
  <1>1. /\ block = None /\ block' = None /\ db' = db
        /\ next_height' = next_height /\ tip_height' = tip_height
        /\ previous_hash' = previous_hash
        /\ trail' = SubSeq(trail, L - Len(history') + 1, L)
    BY DEF HFinalizeThrough, FinalizeThrough, callVars, chainVars
  <1>2. /\ Len(history) = L /\ L \in Nat /\ Undos = history /\ Undos' = history'
    BY <1>1, UndosFacts DEF RollbackInv, JournalsExact, Undos
  <1>3. PICK n \in 0 .. L : history' = SubSeq(history, n + 1, L)
    BY <1>2 DEF HFinalizeThrough, FinalizeThrough
  <1>4. /\ IsSeq(history') /\ Len(history') = L - n
        /\ \A i \in 1 .. L - n : history'[i] = history[n + i]
    BY <1>2, <1>3, SubSeqFacts DEF RollbackInv
  <1>5. trail' = SubSeq(trail, n + 1, L)
    BY <1>1, <1>2, <1>4
  <1>6. /\ IsSeq(trail') /\ Len(trail') = L - n
        /\ \A i \in 1 .. L - n : trail'[i] = trail[n + i]
    BY <1>2, <1>5, SubSeqFacts DEF RollbackInv
  <1>7. View' = View
    BY <1>1 DEF View
  <1>8. JournalsExact'
    <2> SUFFICES ASSUME NEW i \in 1 .. L - n
                 PROVE  trail'[i] = Rewound(IF i = L - n THEN View
                                            ELSE trail'[i + 1], history'[i])
      BY <1>2, <1>4, <1>6, <1>7 DEF JournalsExact
    <2>1. trail[n + i] = Rewound(IF n + i = L THEN View ELSE trail[n + i + 1],
                                 history[n + i])
      BY <1>2 DEF RollbackInv, JournalsExact
    <2>2. i # L - n => trail'[i + 1] = trail[n + i + 1]
      BY <1>2, <1>6
    <2> QED BY <1>2, <1>4, <1>6, <2>1, <2>2
  <1>9. RollbackInv'
    BY <1>1, <1>4, <1>6, <1>8 DEF RollbackInv, InProgress
  <1> QED BY <1>5, <1>7, <1>9

LEMMA RestartStep ==
    ASSUME RollbackInv, HRestart, IndexInv'
    PROVE  /\ RollbackInv'
           /\ View' = View
  <1>1. /\ block' = block /\ undo' = undo /\ history' = history /\ trail' = trail
        /\ View' = View
    BY DEF HRestart, Restart, chainVars, callVars, View, rebuild_derived_indexes
  <1>2. Undos' = Undos
    BY <1>1 DEF Undos
  <1> QED BY <1>1, <1>2 DEF RollbackInv, InProgress, JournalsExact

LEMMA RollbackInvStep == RollbackInv /\ [HNext]_hvars => RollbackInv'
  <1> SUFFICES ASSUME RollbackInv, [HNext]_hvars PROVE RollbackInv'
    OBVIOUS
  <1>1. IndexInv'
    BY IndexStep, HNextIsNext DEF RollbackInv
  <1>2. CASE UNCHANGED hvars
    BY <1>1, <1>2 DEF hvars, vars, RollbackInv, InProgress, JournalsExact, Undos, View
  <1>3. CASE HNext
    BY <1>1, <1>3, BeginStep, ApplyStep, EndStep, RollbackStep, FinalizeStep,
       RestartStep DEF HNext
  <1> QED BY <1>2, <1>3

\* Whatever blocks are applied, rolled back and finalized, in whatever order,
\* every retained undo record leads exactly to the view before its block, at
\* every step of the block that fills it.
THEOREM RollbackExact == HSpec => []JournalsExact
  <1>1. RollbackInv => JournalsExact
    BY DEF RollbackInv
  <1> QED BY <1>1, RollbackInit, RollbackInvStep, PTL DEF HSpec

-----------------------------------------------------------------------------
(***************************************************************************)
(* The refinement.                                                         *)
(***************************************************************************)
\* The mapping of ReducerRollback!Abstract.
AbsView == IF block = None THEN View ELSE trail[Len(trail)]
AbsPast == IF block = None THEN trail ELSE SubSeq(trail, 1, Len(trail) - 1)

\* Starting a block is invisible: the view is still the one before it.
LEMMA BeginStutters ==
    ASSUME RollbackInv, NEW b \in Block, NEW e \in SUBSET ReferencedCommit,
           HBeginBlock(b, e)
    PROVE  AbsView' = AbsView /\ AbsPast' = AbsPast
  <1>1. /\ block = None /\ block' # None
        /\ trail' = Append(trail, View)
    BY ValuesAssumption DEF HBeginBlock, BeginBlock
  <1>2. /\ Len(trail) \in Nat /\ IsSeq(trail) /\ IsSeq(trail')
        /\ Len(trail') = Len(trail) + 1
        /\ \A i \in 1 .. Len(trail) : trail'[i] = trail[i]
        /\ trail'[Len(trail')] = View
    BY <1>1, AppendFacts DEF RollbackInv
  <1>3. SubSeq(trail', 1, Len(trail') - 1) = trail
    <2> DEFINE t == SubSeq(trail', 1, Len(trail') - 1)
    <2>1. IsSeq(t) /\ Len(t) = Len(trail) /\ \A i \in 1 .. Len(trail) : t[i] = trail[i]
      BY <1>2, SubSeqFacts
    <2> HIDE DEF t
    <2>2. t = trail
      BY <2>1, <1>2, SeqEqual
    <2> QED BY <2>2 DEF t
  <1> QED BY <1>1, <1>2, <1>3 DEF AbsView, AbsPast

\* The end of a block extends the view by the height it was waiting for.
LEMMA EndAdvances ==
    ASSUME RollbackInv, HEndBlock
    PROVE  AbsView'.tip_height = AbsView.next_height /\ AbsPast' = Append(AbsPast, AbsView)
  <1> DEFINE L == Len(trail)
             t == SubSeq(trail, 1, L - 1)
             a == Append(t, trail[L])
  <1>1. /\ block # None /\ block' = None /\ trail' = trail
        /\ tip_height' = block.height
        /\ trail[L].next_height = block.height
    BY DEF HEndBlock, EndBlock, RollbackInv, InProgress
  <1>2. L \in Nat /\ L # 0
    BY <1>1, UndosFacts
  <1>3. IsSeq(t) /\ Len(t) = L - 1 /\ \A i \in 1 .. L - 1 : t[i] = trail[i]
    <2> DEFINE k == L - 1
    <2>1. IsSeq(trail) /\ k \in Nat /\ k <= Len(trail)
      BY <1>2 DEF RollbackInv
    <2> HIDE DEF k
    <2>2. /\ IsSeq(SubSeq(trail, 1, k)) /\ Len(SubSeq(trail, 1, k)) = k
          /\ \A i \in 1 .. k : SubSeq(trail, 1, k)[i] = trail[i]
      BY <2>1, SubSeqFacts
    <2> QED BY <2>2 DEF k
  <1> HIDE DEF t
  <1>4. IsSeq(a) /\ Len(a) = L /\ \A i \in 1 .. L : a[i] = trail[i]
    BY <1>2, <1>3, AppendFacts
  <1> HIDE DEF a
  <1>5. a = trail
    BY <1>4, SeqEqual DEF RollbackInv
  <1>6. AbsView = trail[L] /\ AbsPast = t /\ AbsPast' = trail /\ AbsView' = View'
    BY <1>1 DEF AbsView, AbsPast, t
  <1>7. View'.tip_height = block.height
    BY <1>1 DEF View
  <1> QED BY <1>1, <1>5, <1>6, <1>7 DEF a

LEMMA RefinementStep ==
    ASSUME RollbackInv, RollbackInv', [HNext]_hvars
    PROVE  \/ AbsView'.tip_height = AbsView.next_height
                /\ AbsPast' = Append(AbsPast, AbsView)
           \/ /\ AbsPast # << >>
              /\ AbsView' = AbsPast[Len(AbsPast)]
              /\ AbsPast' = SubSeq(AbsPast, 1, Len(AbsPast) - 1)
           \/ /\ \E n \in 0 .. Len(AbsPast) :
                    AbsPast' = SubSeq(AbsPast, n + 1, Len(AbsPast))
              /\ AbsView' = AbsView
           \/ AbsView' = AbsView /\ AbsPast' = AbsPast
  <1>1. ASSUME NEW b \in Block, NEW e \in SUBSET ReferencedCommit, HBeginBlock(b, e)
        PROVE  AbsView' = AbsView /\ AbsPast' = AbsPast
    BY <1>1, BeginStutters
  <1>2. CASE HApplyTransaction
    BY <1>2 DEF HApplyTransaction, ApplyTransaction, AbsView, AbsPast
  <1>3. CASE HEndBlock
    BY <1>3, EndAdvances
  <1>4. ASSUME NEW hash \in Hashes, HRollbackTip(hash)
        PROVE  /\ AbsPast # << >>
               /\ AbsView' = AbsPast[Len(AbsPast)]
               /\ AbsPast' = SubSeq(AbsPast, 1, Len(AbsPast) - 1)
    <2>1. /\ block = None /\ block' = None /\ history # << >>
          /\ trail' = SubSeq(trail, 1, Len(trail) - 1)
      BY <1>4 DEF HRollbackTip, RollbackTip, callVars
    <2>2. View' = trail[Len(trail)]
      BY <1>4, RollbackStep DEF RollbackInv
    <2>3. trail # << >>
      BY <2>1, UndosFacts, EmptySeq DEF RollbackInv, JournalsExact
    <2> QED BY <2>1, <2>2, <2>3 DEF AbsView, AbsPast
  <1>5. ASSUME NEW height \in Height, HFinalizeThrough(height)
        PROVE  /\ \E n \in 0 .. Len(AbsPast) :
                    AbsPast' = SubSeq(AbsPast, n + 1, Len(AbsPast))
               /\ AbsView' = AbsView
    <2>1. block = None /\ block' = None
      BY <1>5 DEF HFinalizeThrough, FinalizeThrough, callVars
    <2> QED BY <1>5, <2>1, FinalizeStep DEF RollbackInv, AbsView, AbsPast
  <1>6. CASE HRestart
    <2>1. block = None /\ block' = None /\ trail' = trail
      BY <1>6 DEF HRestart, Restart, callVars
    <2> QED BY <1>6, <2>1, RestartStep DEF RollbackInv, AbsView, AbsPast
  <1>7. CASE UNCHANGED hvars
    BY <1>7 DEF hvars, vars, AbsView, AbsPast, View
  <1> QED BY <1>1, <1>2, <1>3, <1>4, <1>5, <1>6, <1>7 DEF HNext

\* The reducer, which stores only overwritten values, implements the
\* specification that stores every past view whole: rollback restores all of
\* the view before the block, and nothing else ever changes a past view.
THEOREM ReducerIsRewindable == HSpec => Rewindable
  <1>1. HInit => Abstract!Init
    BY DEF HInit, Init, Abstract!Init
  <1>2. RollbackInv /\ RollbackInv' /\ [HNext]_hvars
          => [Abstract!Next]_<<AbsView, AbsPast>>
    <2> SUFFICES ASSUME RollbackInv, RollbackInv', [HNext]_hvars
                 PROVE  [Abstract!Next]_<<AbsView, AbsPast>>
      OBVIOUS
    <2> QED BY RefinementStep DEF Abstract!Next, Abstract!Advance, Abstract!Rewind,
                Abstract!Forget, AbsView, AbsPast
  <1> QED BY <1>1, <1>2, RollbackInit, RollbackInvStep, PTL
          DEF HSpec, Rewindable, Abstract!Spec, AbsView, AbsPast

-----------------------------------------------------------------------------
(***************************************************************************)
(* Types: heights stay inside u32, maps and journals hold records of their *)
(* types, through every call.                                              *)
(***************************************************************************)
LEMMA UpdatedMap ==
    ASSUME NEW K, NEW V, NEW map, NEW changes, None \notin V,
           MapOf(map, K, V), MapOf(changes, K, Option(V))
    PROVE  MapOf(Updated(map, changes), K, V)
  BY DEF MapOf, Updated, Option

LEMMA JournaledMap ==
    ASSUME NEW K, NEW V, NEW map, NEW journal, NEW keys, keys \subseteq K,
           MapOf(map, K, V), MapOf(journal, K, Option(V))
    PROVE  MapOf(Journaled(journal, map, keys), K, Option(V))
  BY DEF MapOf, Journaled, Get, Option

DbOK(d) == /\ MapOf(d.commits, CommitRef, Commitments)
           /\ MapOf(d.heads, NameIds, HeadRecord)
           /\ d.commits_by_height \subseteq Height \X CommitRef
           /\ d.heads_by_future_nf \subseteq Fields \X NameIds
           /\ d.active_heads_by_expiry \subseteq Height \X NameIds
           /\ d.terminal_heads_by_height \subseteq Height \X NameIds

\* A pair of maps and undo record, as block application passes it on.
PairOK(w) == DbOK(w.db) /\ UndoOK(w.undo) /\ DOMAIN w.undo = UndoFields

HeadChanges(changes) == MapOf(changes, NameIds, Option(HeadRecord))
CommitChanges(changes) == MapOf(changes, CommitRef, Option(Commitments))

LEMMA ReplaceHeadsType ==
    ASSUME NEW d, NEW changes, DbOK(d), HeadChanges(changes)
    PROVE  DbOK(ReplaceHeads(d, changes))
  <1> DEFINE e == ReplaceHeads(d, changes)
             new == {n \in DOMAIN changes : changes[n] # None}
  <1>1. MapOf(Updated(d.heads, changes), NameIds, HeadRecord)
    BY UpdatedMap, ValuesAssumption DEF DbOK, HeadChanges
  <1>2. \A n \in new : n \in NameIds /\ changes[n] \in HeadRecord
    BY DEF HeadChanges, MapOf, Option
  <1>3. ByNf(changes, new) \subseteq Fields \X NameIds
    BY <1>2 DEF ByNf, HeadRecord
  <1>4. ByExpiry(changes, new) \subseteq Height \X NameIds
    BY <1>2 DEF ByExpiry, HeadRecord
  <1>5. ByTerminal(changes, new) \subseteq Height \X NameIds
    BY <1>2 DEF ByTerminal, HeadRecord, Option
  <1> QED BY <1>1, <1>3, <1>4, <1>5 DEF DbOK, ReplaceHeads

LEMMA ReplaceCommitsType ==
    ASSUME NEW d, NEW changes, DbOK(d), CommitChanges(changes)
    PROVE  DbOK(ReplaceCommits(d, changes))
  <1> DEFINE new == {r \in DOMAIN changes : changes[r] # None}
  <1>1. MapOf(Updated(d.commits, changes), CommitRef, Commitments)
    BY UpdatedMap, ValuesAssumption DEF DbOK, CommitChanges
  <1>2. \A r \in new : r \in CommitRef
    BY DEF CommitChanges, MapOf
  <1>3. ByHeight(new) \subseteq Height \X CommitRef
    BY <1>2 DEF ByHeight, CommitRef
  <1> QED BY <1>1, <1>3 DEF DbOK, ReplaceCommits

LEMMA ReplacePairType ==
    ASSUME NEW w, PairOK(w), NEW changes
    PROVE  /\ HeadChanges(changes) => PairOK(replace_head(w, changes))
           /\ CommitChanges(changes) => PairOK(replace_commit(w, changes))
  BY ReplaceHeadsType, ReplaceCommitsType DEF PairOK, replace_head, replace_commit

LEMMA RememberPairType ==
    ASSUME NEW w, PairOK(w), NEW keys
    PROVE  /\ keys \subseteq NameIds => PairOK(remember_head(w, keys))
           /\ keys \subseteq CommitRef => PairOK(remember_commit(w, keys))
  <1>1. ASSUME keys \subseteq NameIds PROVE PairOK(remember_head(w, keys))
    <2> DEFINE u == remember_head(w, keys).undo
    <2>1. MapOf(Journaled(w.undo.heads, w.db.heads, keys), NameIds, Option(HeadRecord))
      BY <1>1, JournaledMap DEF PairOK, DbOK, UndoOK
    <2>2. /\ u.heads = Journaled(w.undo.heads, w.db.heads, keys)
          /\ u.commits = w.undo.commits
          /\ u.height = w.undo.height /\ u.hash = w.undo.hash
          /\ u.previous_hash = w.undo.previous_hash
          /\ u.previous_next_height = w.undo.previous_next_height
          /\ u.previous_tip_height = w.undo.previous_tip_height
          /\ DOMAIN u = UndoFields
          /\ remember_head(w, keys).db = w.db
      BY DEF remember_head, PairOK, UndoFields
    <2> HIDE DEF u
    <2>3. UndoOK(u)
      BY <2>1, <2>2 DEF PairOK, UndoOK
    <2> QED BY <2>2, <2>3 DEF PairOK, u
  <1>2. ASSUME keys \subseteq CommitRef PROVE PairOK(remember_commit(w, keys))
    <2> DEFINE u == remember_commit(w, keys).undo
    <2>1. MapOf(Journaled(w.undo.commits, w.db.commits, keys), CommitRef,
                Option(Commitments))
      BY <1>2, JournaledMap DEF PairOK, DbOK, UndoOK
    <2>2. /\ u.commits = Journaled(w.undo.commits, w.db.commits, keys)
          /\ u.heads = w.undo.heads
          /\ u.height = w.undo.height /\ u.hash = w.undo.hash
          /\ u.previous_hash = w.undo.previous_hash
          /\ u.previous_next_height = w.undo.previous_next_height
          /\ u.previous_tip_height = w.undo.previous_tip_height
          /\ DOMAIN u = UndoFields
          /\ remember_commit(w, keys).db = w.db
      BY DEF remember_commit, PairOK, UndoFields
    <2> HIDE DEF u
    <2>3. UndoOK(u)
      BY <2>1, <2>2 DEF PairOK, UndoOK
    <2> QED BY <2>2, <2>3 DEF PairOK, u
  <1> QED BY <1>1, <1>2

-----------------------------------------------------------------------------
LEMMA ThroughType ==
    ASSUME NEW A, NEW B, NEW index, index \subseteq A \X B, NEW h
    PROVE  Through(index, h) \subseteq B
  BY DEF Through

\* Block-start lifecycle and evidence keep the pair typed.
LEMMA LifecycleType ==
    ASSUME NEW w, PairOK(w), NEW height, NEW changes
    PROVE  /\ PairOK(mark_expired(w, height))
           /\ PairOK(compact_claimable(w, height))
           /\ PairOK(prune_commits(w, height))
           /\ MapOf(changes, CommitRef, Commitments)
                => PairOK(insert_supplied(w, changes))
  <1>1. PairOK(mark_expired(w, height))
    <2> DEFINE expired == Through(w.db.active_heads_by_expiry, height)
               present == expired \cap DOMAIN w.db.heads
               ch == [n \in present |->
                        [w.db.heads[n] EXCEPT !.terminal_height =
                                                w.db.heads[n].expiry_height]]
    <2>1. expired \subseteq NameIds
      BY ThroughType DEF PairOK, DbOK
    <2>2. \A n \in present : w.db.heads[n].expiry_height \in Height
      BY DEF PairOK, DbOK, MapOf, HeadRecord
    <2>3. HeadChanges(ch)
      <3>1. \A n \in present : n \in NameIds /\ w.db.heads[n] \in HeadRecord
        BY DEF PairOK, DbOK, MapOf
      <3>2. \A n \in present :
              [w.db.heads[n] EXCEPT !.terminal_height = w.db.heads[n].expiry_height]
                \in HeadRecord
        BY <2>2, <3>1 DEF HeadRecord, Option
      <3> QED BY <3>1, <3>2 DEF HeadChanges, MapOf, Option
    <2> HIDE DEF expired, ch
    <2> QED BY <2>1, <2>3, RememberPairType, ReplacePairType
            DEF mark_expired, expired, ch
  <1>2. PairOK(compact_claimable(w, height))
    <2> DEFINE claimable == Through(w.db.terminal_heads_by_height,
                                    height - cooldown_blocks)
    <2>1. claimable \subseteq NameIds
      BY ThroughType DEF PairOK, DbOK
    <2>2. HeadChanges([n \in claimable |-> None])
      BY <2>1 DEF HeadChanges, MapOf, Option
    <2> HIDE DEF claimable
    <2> QED BY <2>1, <2>2, RememberPairType, ReplacePairType
            DEF compact_claimable, claimable
  <1>3. PairOK(prune_commits(w, height))
    <2> DEFINE expired == Through(w.db.commits_by_height, height - commit_ttl_blocks)
    <2>1. expired \subseteq CommitRef
      BY ThroughType DEF PairOK, DbOK
    <2>2. CommitChanges([r \in expired |-> None])
      BY <2>1 DEF CommitChanges, MapOf, Option
    <2> HIDE DEF expired
    <2> QED BY <2>1, <2>2, RememberPairType, ReplacePairType
            DEF prune_commits, expired
  <1>4. ASSUME MapOf(changes, CommitRef, Commitments)
        PROVE  PairOK(insert_supplied(w, changes))
    <2>1. CommitChanges(changes) /\ DOMAIN changes \subseteq CommitRef
      BY <1>4 DEF CommitChanges, MapOf, Option
    <2> QED BY <2>1, RememberPairType, ReplacePairType DEF insert_supplied
  <1> QED BY <1>1, <1>2, <1>3, <1>4

LEMMA SuppliedType ==
    ASSUME NEW e \in SUBSET ReferencedCommit
    PROVE  MapOf(supplied(e), CommitRef, Commitments)
  <1>1. \A r \in {x.reference : x \in e} :
          (CHOOSE x \in e : x.reference = r) \in e
    OBVIOUS
  <1>2. \A r \in {x.reference : x \in e} :
          (CHOOSE x \in e : x.reference = r).commitment \in Commitments
    BY <1>1 DEF ReferencedCommit
  <1>3. {x.reference : x \in e} \subseteq CommitRef
    BY DEF ReferencedCommit
  <1> QED BY <1>2, <1>3 DEF supplied, MapOf

-----------------------------------------------------------------------------
\* The parts of a transaction that carries a REVEAL or a REFRESH.
LEMMA NewHeadType ==
    ASSUME NEW height \in Height, height >= activation_height, expiry_fits(height),
           NEW tx \in Transaction, tx.operation # None,
           tx.operation.kind \in {"Reveal", "Refresh"},
           HasAction(tx, tx.operation.action_index)
    PROVE  tx.operation.name \in NameIds /\ NewHead(height, tx) \in HeadRecord
  <1> DEFINE op == tx.operation
  <1>1. op \in Operation
    BY DEF Transaction, Option
  <1>2. /\ op.name \in NameIds /\ op.ua \in Uas /\ op.action_index \in Height
        /\ op.successor_future_nf \in Fields
    BY <1>1 DEF Operation
  <1>3. /\ tx.tx_index \in Height /\ tx.txid \in Txids /\ tx.actions \in Seq(Action)
    BY DEF Transaction
  <1>4. tx.actions[op.action_index + 1] \in Action
    BY <1>3 DEF HasAction
  <1>5. tx.actions[op.action_index + 1].commitment \in Fields
    BY <1>4 DEF Action
  <1>6. expiry(height) \in Height
    BY ParameterFacts, ParametersAssumption DEF expiry_fits, expiry, Height
  <1>7. epoch(height) \in Height
    <2>1. /\ height \in Nat /\ U32Max \in Nat /\ height <= U32Max
          /\ height - activation_height \in Nat
          /\ height - activation_height <= height
          /\ epoch_blocks \in Nat /\ epoch_blocks > 0
      BY ParameterFacts, ParametersAssumption DEF Height
    <2>2. \A x \in Nat, k \in Nat : k > 0 => x \div k \in Nat /\ x \div k <= x
      OBVIOUS
    <2> QED BY <2>1, <2>2 DEF epoch, Height
  <1> HIDE DEF op
  <1> QED BY <1>2, <1>3, <1>5, <1>6, <1>7
          DEF NewHead, HeadRecord, StateRef, Option, op

\* A transaction keeps the pair typed, whatever it carries.
LEMMA OperationType ==
    ASSUME NEW w, PairOK(w), NEW height \in Height, NEW tx \in Transaction
    PROVE  PairOK(apply_operation(w, height, tx))
  <1>1. CASE tx.operation = None
    BY <1>1 DEF apply_operation
  <1>2. CASE tx.operation # None
    <2>1. tx.operation \in Operation
      BY <1>2 DEF Transaction, Option
    <2>2. tx.operation.kind \in {"Commit", "Reveal", "Refresh"}
      BY <2>1 DEF Operation
    <2>3. \A name, head : name \in NameIds /\ head \in HeadRecord
                            => PairOK(InstallHead(w, name, head))
      <3> SUFFICES ASSUME NEW name \in NameIds, NEW head \in HeadRecord
                   PROVE  PairOK(InstallHead(w, name, head))
        OBVIOUS
      <3>1. HeadChanges([n \in {name} |-> head])
        BY DEF HeadChanges, MapOf, Option
      <3>2. PairOK(remember_head(w, {name}))
        BY RememberPairType
      <3> QED BY <3>1, <3>2, ReplacePairType DEF InstallHead
    <2>4. CASE tx.operation.kind = "Commit"
      <3> DEFINE ref == [height |-> height, tx_index |-> tx.tx_index, txid |-> tx.txid]
      <3>1. ref \in CommitRef
        BY DEF Transaction, CommitRef
      <3>2. tx.operation.commitment \in Commitments
        BY <2>1, <2>4 DEF Operation
      <3>3. CommitChanges([r \in {ref} |-> tx.operation.commitment])
        BY <3>1, <3>2 DEF CommitChanges, MapOf, Option
      <3>4. PairOK(remember_commit(w, {ref}))
        BY <3>1, RememberPairType
      <3> HIDE DEF ref
      <3>5. PairOK(replace_commit(remember_commit(w, {ref}),
                                  [r \in {ref} |-> tx.operation.commitment]))
        BY <3>3, <3>4, ReplacePairType
      <3>6. PairOK(apply_commit(w, height, tx))
        BY <3>5 DEF apply_commit, ref
      <3> QED BY <1>2, <2>4, <3>6 DEF apply_operation
    <2>5. CASE tx.operation.kind = "Reveal"
      <3>1. RevealAccepted(w.db, height, tx) =>
              /\ height >= activation_height /\ expiry_fits(height)
              /\ HasAction(tx, tx.operation.action_index)
        BY DEF RevealAccepted, accepts_operation
      <3>2. PairOK(apply_reveal(w, height, tx))
        BY <1>2, <2>3, <2>5, <3>1, NewHeadType DEF apply_reveal
      <3> QED BY <1>2, <2>5, <3>2 DEF apply_operation
    <2>6. CASE tx.operation.kind = "Refresh"
      <3>1. RefreshAccepted(w.db, height, tx) =>
              /\ height >= activation_height /\ expiry_fits(height)
              /\ HasAction(tx, tx.operation.action_index)
        BY DEF RefreshAccepted
      <3>2. PairOK(apply_refresh(w, height, tx))
        BY <1>2, <2>3, <2>6, <3>1, NewHeadType DEF apply_refresh
      <3> QED BY <1>2, <2>6, <3>2 DEF apply_operation
    <2> QED BY <2>2, <2>4, <2>5, <2>6
  <1> QED BY <1>1, <1>2

LEMMA TransactionType ==
    ASSUME NEW w, PairOK(w), NEW height \in Height, NEW tx \in Transaction
    PROVE  PairOK(apply_transaction(w, height, tx))
  <1> DEFINE after == apply_operation(w, height, tx)
             heads == after.db.heads
             spent == {p[2] : p \in {q \in w.db.heads_by_future_nf :
                                       q[1] \in Nullifiers(tx)}}
             current == {n \in spent : /\ n \in DOMAIN heads
                                       /\ heads[n].producer = w.db.heads[n].producer}
             ending == {n \in current : heads[n].terminal_height = None}
             ch == [n \in ending |-> [heads[n] EXCEPT !.terminal_height = height]]
  <1>1. PairOK(after)
    BY OperationType
  <1>2. MapOf(heads, NameIds, HeadRecord)
    BY <1>1 DEF PairOK, DbOK
  <1> HIDE DEF after, heads, spent
  <1>3. current \subseteq NameIds
    BY <1>2 DEF MapOf
  <1>4. HeadChanges(ch)
    <2>1. \A n \in ending : n \in NameIds /\ heads[n] \in HeadRecord
      BY <1>2 DEF MapOf
    <2>2. \A n \in ending : [heads[n] EXCEPT !.terminal_height = height] \in HeadRecord
      BY <2>1 DEF HeadRecord, Option
    <2> QED BY <2>1, <2>2 DEF HeadChanges, MapOf, Option
  <1> HIDE DEF current, ch
  <1>5. PairOK(remember_head(after, current))
    BY <1>1, <1>3, RememberPairType
  <1>6. PairOK(replace_head(remember_head(after, current), ch))
    BY <1>4, <1>5, ReplacePairType
  <1> QED BY <1>6 DEF apply_transaction, after, heads, spent, current, ch

LEMMA RebuildType ==
    ASSUME NEW d, DbOK(d)
    PROVE  DbOK(rebuild_derived_indexes(d))
  <1>1. \A n \in DOMAIN d.heads : n \in NameIds /\ d.heads[n] \in HeadRecord
    BY DEF DbOK, MapOf
  <1>2. ByNf(d.heads, DOMAIN d.heads) \subseteq Fields \X NameIds
    BY <1>1 DEF ByNf, HeadRecord
  <1>3. ByExpiry(d.heads, DOMAIN d.heads) \subseteq Height \X NameIds
    BY <1>1 DEF ByExpiry, HeadRecord
  <1>4. ByTerminal(d.heads, DOMAIN d.heads) \subseteq Height \X NameIds
    BY <1>1 DEF ByTerminal, HeadRecord, Option
  <1>5. ByHeight(DOMAIN d.commits) \subseteq Height \X CommitRef
    BY DEF DbOK, MapOf, ByHeight, CommitRef
  <1> QED BY <1>2, <1>3, <1>4, <1>5 DEF DbOK, rebuild_derived_indexes

-----------------------------------------------------------------------------
\* TypeOK does not say that history is a sequence or which fields the undo
\* record in progress has; both are needed to append to it.
TypeInv == /\ TypeOK
           /\ IsSeq(history)
           /\ block # None => DOMAIN undo = UndoFields

LEMMA TypeInit == Init => TypeInv
  <1> SUFFICES ASSUME Init PROVE TypeInv
    OBVIOUS
  <1>1. history = << >> /\ IsSeq(history)
    BY DEF Init, IsSeq
  <1>2. MapOf(EmptyMap, CommitRef, Commitments) /\ MapOf(EmptyMap, NameIds, HeadRecord)
    BY DEF MapOf, EmptyMap
  <1>3. activation_height \in Height
    BY ParametersAssumption
  <1>4. ActivationParentHash \in Hashes
    BY ValuesAssumption
  <1>5. TypeOK
    BY <1>1, <1>2, <1>3, <1>4 DEF Init, TypeOK, Option
  <1> QED BY <1>1, <1>5 DEF TypeInv, Init

LEMMA TypeStep == TypeInv /\ [Next]_vars => TypeInv'
  <1> SUFFICES ASSUME TypeInv, [Next]_vars PROVE TypeInv'
    OBVIOUS
  <1>0. /\ DbOK(db) /\ Len(history) \in Nat
        /\ block # None => PairOK([db |-> db, undo |-> undo])
    BY DEF TypeInv, TypeOK, DbOK, PairOK, IsSeq
  <1>1. ASSUME NEW b \in Block, NEW e \in SUBSET ReferencedCommit, BeginBlock(b, e)
        PROVE  TypeInv'
    <2> DEFINE w0 == [db |-> db, undo |-> new_undo(b)]
               w1 == mark_expired(w0, b.height)
               w2 == compact_claimable(w1, b.height)
               w3 == prune_commits(w2, b.height)
               w4 == insert_supplied(w3, supplied(e))
    <2>1. PairOK(w0)
      <3>1. /\ b.height \in Height /\ b.hash \in Hashes /\ next_height = b.height
        BY <1>1 DEF BeginBlock, Block
      <3>2. /\ MapOf(EmptyMap, CommitRef, Option(Commitments))
            /\ MapOf(EmptyMap, NameIds, Option(HeadRecord))
        BY DEF MapOf, EmptyMap
      <3>3. previous_hash \in Hashes /\ tip_height \in Option(Height)
        BY DEF TypeInv, TypeOK
      <3>4. UndoOK(new_undo(b)) /\ DOMAIN new_undo(b) = UndoFields
        BY <3>1, <3>2, <3>3 DEF UndoOK, new_undo, UndoFields
      <3> QED BY <1>0, <3>4 DEF PairOK
    <2> HIDE DEF w0
    <2>2. PairOK(w1)
      BY <2>1, LifecycleType
    <2> HIDE DEF w1
    <2>3. PairOK(w2)
      BY <2>2, LifecycleType
    <2> HIDE DEF w2
    <2>4. PairOK(w3)
      BY <2>3, LifecycleType
    <2> HIDE DEF w3
    <2>5. PairOK(w4)
      BY <2>4, LifecycleType, SuppliedType
    <2> HIDE DEF w4
    <2>6. /\ db' = w4.db /\ undo' = w4.undo /\ block' = b /\ pos' = 0
          /\ next_height' = next_height /\ tip_height' = tip_height
          /\ previous_hash' = previous_hash /\ history' = history /\ b # None
      BY <1>1, ValuesAssumption
      DEF BeginBlock, chainVars, w0, w1, w2, w3, w4
    <2> QED BY <2>5, <2>6 DEF TypeInv, TypeOK, PairOK, DbOK, Option
  <1>2. CASE ApplyTransaction
    <2> DEFINE tx == block.transactions[pos + 1]
               w == apply_transaction([db |-> db, undo |-> undo], block.height, tx)
    <2>1. BlockOK
      BY DEF TypeInv, TypeOK, BlockOK
    <2>2. tx \in Transaction
      BY <1>2, <2>1, TransactionInBlock DEF ApplyTransaction
    <2>3. block.height \in Height /\ block # None
      BY <1>2, <2>1 DEF ApplyTransaction, BlockOK, Block, Option
    <2> HIDE DEF tx
    <2>4. PairOK(w)
      BY <1>0, <2>2, <2>3, TransactionType
    <2> HIDE DEF w
    <2>5. /\ db' = w.db /\ undo' = w.undo /\ block' = block /\ pos' = pos + 1
          /\ next_height' = next_height /\ tip_height' = tip_height
          /\ previous_hash' = previous_hash /\ history' = history
      BY <1>2 DEF ApplyTransaction, chainVars, tx, w
    <2> QED BY <2>3, <2>4, <2>5 DEF TypeInv, TypeOK, PairOK, DbOK
  <1>3. CASE EndBlock
    <2>1. /\ block # None /\ block' = None /\ undo' = None /\ pos' = 0
          /\ history' = Append(history, undo) /\ db' = db
          /\ tip_height' = block.height /\ previous_hash' = block.hash
          /\ next_height' = IF block.height < U32Max THEN block.height + 1 ELSE None
      BY <1>3 DEF EndBlock
    <2>2. block.height \in Height /\ block.hash \in Hashes
      BY <2>1 DEF TypeInv, TypeOK, Block, Option
    <2>3. next_height' \in Option(Height) /\ tip_height' \in Option(Height)
      BY <2>1, <2>2, ParametersAssumption DEF Height, Option
    <2>4. /\ IsSeq(history') /\ Len(history') = Len(history) + 1
          /\ \A i \in 1 .. Len(history) : history'[i] = history[i]
          /\ history'[Len(history) + 1] = undo
      BY <2>1, AppendFacts DEF TypeInv
    <2>5. UndoOK(undo)
      BY <2>1 DEF TypeInv, TypeOK
    <2>6. \A i \in 1 .. Len(history') : UndoOK(history'[i])
      BY <1>0, <2>4, <2>5 DEF TypeInv, TypeOK
    <2> QED BY <2>1, <2>2, <2>3, <2>4, <2>6 DEF TypeInv, TypeOK, Option
  <1>4. ASSUME NEW hash \in Hashes, RollbackTip(hash) PROVE TypeInv'
    <2> DEFINE L == Len(history)
               u == history[L]
    <2>1. /\ history # << >> /\ block = None
          /\ db' = Restored(db, u)
          /\ previous_hash' = u.previous_hash
          /\ next_height' = u.previous_next_height
          /\ tip_height' = u.previous_tip_height
          /\ history' = SubSeq(history, 1, L - 1)
          /\ block' = block /\ pos' = pos /\ undo' = undo
      BY <1>4 DEF RollbackTip, callVars
    <2>2. L \in Nat /\ L # 0
      BY <1>0, <2>1 DEF TypeInv, IsSeq
    <2>3. UndoOK(u)
      BY <2>2 DEF TypeInv, TypeOK
    <2>4. /\ IsSeq(history') /\ Len(history') = L - 1
          /\ \A i \in 1 .. L - 1 : history'[i] = history[i]
      <3> DEFINE k == L - 1
      <3>1. IsSeq(history) /\ k \in Nat /\ k <= L /\ 1 <= k + 1
        BY <2>2 DEF TypeInv
      <3> HIDE DEF k
      <3>2. /\ IsSeq(SubSeq(history, 1, k)) /\ Len(SubSeq(history, 1, k)) = k + 1 - 1
            /\ \A i \in 1 .. (k + 1 - 1) : SubSeq(history, 1, k)[i] = history[1 + i - 1]
        BY <3>1, SubSeqFacts
      <3> QED BY <2>1, <3>1, <3>2 DEF k
    <2>5. \A i \in 1 .. Len(history') : UndoOK(history'[i])
      BY <2>2, <2>4 DEF TypeInv, TypeOK
    <2> HIDE DEF u
    <2>6. DbOK(Restored(db, u))
      BY <1>0, <2>3, ReplaceHeadsType, ReplaceCommitsType
      DEF Restored, UndoOK, HeadChanges, CommitChanges
    <2> QED BY <2>1, <2>3, <2>4, <2>5, <2>6 DEF TypeInv, TypeOK, UndoOK, DbOK, Option
  <1>5. ASSUME NEW height \in Height, FinalizeThrough(height) PROVE TypeInv'
    <2> DEFINE L == Len(history)
    <2>1. /\ db' = db /\ next_height' = next_height /\ tip_height' = tip_height
          /\ previous_hash' = previous_hash
          /\ block' = block /\ pos' = pos /\ undo' = undo
      BY <1>5 DEF FinalizeThrough, chainVars, callVars
    <2>2. PICK n \in 0 .. L : history' = SubSeq(history, n + 1, L)
      BY <1>5 DEF FinalizeThrough
    <2>3. /\ IsSeq(history') /\ Len(history') = L - n
          /\ \A i \in 1 .. L - n : history'[i] = history[n + i]
      <3> DEFINE m == n + 1
      <3>1. /\ IsSeq(history) /\ m \in Nat /\ 1 <= m /\ m <= L + 1 /\ L \in Nat
            /\ n \in Nat
        BY <1>0 DEF TypeInv
      <3> HIDE DEF m
      <3>2. /\ IsSeq(SubSeq(history, m, L)) /\ Len(SubSeq(history, m, L)) = L + 1 - m
            /\ \A i \in 1 .. (L + 1 - m) : SubSeq(history, m, L)[i] = history[m + i - 1]
        BY <3>1, SubSeqFacts
      <3> QED BY <2>2, <3>1, <3>2 DEF m
    <2>4. \A i \in 1 .. Len(history') : UndoOK(history'[i])
      BY <1>0, <2>3 DEF TypeInv, TypeOK
    <2> QED BY <2>1, <2>3, <2>4 DEF TypeInv, TypeOK
  <1>6. CASE Restart
    <2>1. /\ db' = rebuild_derived_indexes(db) /\ next_height' = next_height
          /\ tip_height' = tip_height /\ previous_hash' = previous_hash
          /\ history' = history /\ block' = block /\ pos' = pos /\ undo' = undo
      BY <1>6 DEF Restart, chainVars, callVars
    <2>2. DbOK(db')
      BY <1>0, <2>1, RebuildType
    <2> QED BY <2>1, <2>2 DEF TypeInv, TypeOK, DbOK
  <1>7. CASE UNCHANGED vars
    BY <1>7 DEF vars, TypeInv, TypeOK
  <1> QED BY <1>1, <1>2, <1>3, <1>4, <1>5, <1>6, <1>7 DEF Next

\* In every reachable state heights lie inside u32 (the checked additions of
\* expiry, the tip and the windows never leave it) and the maps, the indexes
\* and every journal hold records of their types.
THEOREM TypeCorrect == Spec => []TypeOK
  <1>1. TypeInv => TypeOK
    BY DEF TypeInv
  <1> QED BY <1>1, TypeInit, TypeStep, PTL DEF Spec

-----------------------------------------------------------------------------
(***************************************************************************)
(* Snapshots: first the block-start lifecycle and the transactions are     *)
(* described by what they do to each record, the indexes being coherent;   *)
(* then every view the reducer can return to is shown to be valid at its   *)
(* own tip.                                                                *)
(***************************************************************************)
\* What a walk over an index finds.
LEMMA ThroughMember ==
    ASSUME NEW I, NEW h, NEW n
    PROVE  n \in Through(I, h) <=> \E q \in I : q[1] <= h /\ q[2] = n
  BY DEF Through

\* What the index walks find, by the records alone.
LEMMA Walks ==
    ASSUME NEW d, Coherent(d), NEW h
    PROVE  /\ Through(d.active_heads_by_expiry, h) =
                {n \in DOMAIN d.heads : /\ d.heads[n].terminal_height = None
                                        /\ d.heads[n].expiry_height <= h}
           /\ Through(d.terminal_heads_by_height, h) =
                {n \in DOMAIN d.heads : /\ d.heads[n].terminal_height # None
                                        /\ d.heads[n].terminal_height <= h}
           /\ Through(d.commits_by_height, h) = {r \in DOMAIN d.commits : r.height <= h}
  <1> DEFINE H == d.heads
  <1>1. ASSUME NEW n
        PROVE  n \in Through(d.active_heads_by_expiry, h) <=>
                 n \in DOMAIN H /\ H[n].terminal_height = None /\ H[n].expiry_height <= h
    <2> DEFINE S == {m \in DOMAIN H : H[m].terminal_height = None}
               p(m) == <<H[m].expiry_height, m>>
    <2>1. \A q : q \in d.active_heads_by_expiry <=> \E m \in S : q = p(m)
      BY DEF Coherent, HeadsIndexed, ByExpiry
    <2>2. \A m : p(m)[1] = H[m].expiry_height /\ p(m)[2] = m
      OBVIOUS
    <2> HIDE DEF p
    <2> QED BY <2>1, <2>2, ThroughMember
  <1>2. ASSUME NEW n
        PROVE  n \in Through(d.terminal_heads_by_height, h) <=>
                 /\ n \in DOMAIN H /\ H[n].terminal_height # None
                 /\ H[n].terminal_height <= h
    <2> DEFINE S == {m \in DOMAIN H : H[m].terminal_height # None}
               p(m) == <<H[m].terminal_height, m>>
    <2>1. \A q : q \in d.terminal_heads_by_height <=> \E m \in S : q = p(m)
      BY DEF Coherent, HeadsIndexed, ByTerminal
    <2>2. \A m : p(m)[1] = H[m].terminal_height /\ p(m)[2] = m
      OBVIOUS
    <2> HIDE DEF p
    <2> QED BY <2>1, <2>2, ThroughMember
  <1>3. ASSUME NEW r
        PROVE  r \in Through(d.commits_by_height, h) <=>
                 r \in DOMAIN d.commits /\ r.height <= h
    <2> DEFINE p(m) == <<m.height, m>>
    <2>1. \A q : q \in d.commits_by_height <=> \E m \in DOMAIN d.commits : q = p(m)
      BY DEF Coherent, CommitsIndexed, ByHeight
    <2>2. \A m : p(m)[1] = m.height /\ p(m)[2] = m
      OBVIOUS
    <2> HIDE DEF p
    <2> QED BY <2>1, <2>2, ThroughMember
  <1> QED BY <1>1, <1>2, <1>3

\* The heads a set of revealed nullifiers spends, as spend detection finds them.
LEMMA SpentWalk ==
    ASSUME NEW d, Coherent(d), NEW N
    PROVE  {p[2] : p \in {q \in d.heads_by_future_nf : q[1] \in N}} =
             {n \in DOMAIN d.heads : d.heads[n].future_nf \in N}
  <1> DEFINE H == d.heads
             p(m) == <<H[m].future_nf, m>>
  <1>1. \A q : q \in d.heads_by_future_nf <=> \E m \in DOMAIN H : q = p(m)
    BY DEF Coherent, HeadsIndexed, ByNf
  <1>2. \A m : p(m)[1] = H[m].future_nf /\ p(m)[2] = m
    OBVIOUS
  <1> HIDE DEF p
  <1> QED BY <1>1, <1>2

\* A head that ended at a height.
EndedAt(head, h) == [head EXCEPT !.terminal_height = h]

LEMMA EndedAtType ==
    ASSUME NEW head \in HeadRecord, NEW h \in Height
    PROVE  /\ EndedAt(head, h) \in HeadRecord /\ EndedAt(head, h) # None
           /\ EndedAt(head, h).terminal_height = h
           /\ EndedAt(head, h).ua = head.ua
           /\ EndedAt(head, h).producer = head.producer
           /\ EndedAt(head, h).commitment = head.commitment
           /\ EndedAt(head, h).future_nf = head.future_nf
           /\ EndedAt(head, h).producer_epoch = head.producer_epoch
           /\ EndedAt(head, h).expiry_height = head.expiry_height
  BY ValuesAssumption DEF EndedAt, HeadRecord, Option

LEMMA HeadTypes ==
    ASSUME NEW d, DbOK(d), NEW n \in DOMAIN d.heads
    PROVE  /\ n \in NameIds /\ d.heads[n] \in HeadRecord /\ d.heads[n] # None
           /\ d.heads[n].expiry_height \in Nat
           /\ d.heads[n].producer \in StateRef /\ d.heads[n].producer.height \in Nat
           /\ d.heads[n].producer_epoch \in Nat
           /\ d.heads[n].terminal_height # None => d.heads[n].terminal_height \in Nat
  <1>1. n \in NameIds /\ d.heads[n] \in HeadRecord
    BY DEF DbOK, MapOf
  <1> QED BY <1>1, ValuesAssumption DEF HeadRecord, StateRef, Option, Height

\* mark_expired ends the heads whose expiry has come, and touches no other.
LEMMA MarkedHeads ==
    ASSUME NEW w, Coherent(w.db), DbOK(w.db), NEW h
    PROVE  LET D == mark_expired(w, h).db
           IN  /\ D.commits = w.db.commits
               /\ DOMAIN D.heads = DOMAIN w.db.heads
               /\ \A n \in DOMAIN D.heads :
                    D.heads[n] =
                      IF /\ w.db.heads[n].terminal_height = None
                         /\ w.db.heads[n].expiry_height <= h
                      THEN EndedAt(w.db.heads[n], w.db.heads[n].expiry_height)
                      ELSE w.db.heads[n]
  <1> DEFINE H == w.db.heads
             expired == {n \in DOMAIN H : /\ H[n].terminal_height = None
                                          /\ H[n].expiry_height <= h}
             ch == [n \in expired |-> EndedAt(H[n], H[n].expiry_height)]
  <1>1. Through(w.db.active_heads_by_expiry, h) = expired
    BY Walks
  <1>2. expired \cap DOMAIN H = expired
    OBVIOUS
  <1>3. /\ mark_expired(w, h).db.heads = Updated(H, ch)
        /\ mark_expired(w, h).db.commits = w.db.commits
    BY <1>1, <1>2
    DEF mark_expired, replace_head, remember_head, ReplaceHeads, EndedAt
  <1>4. \A n \in expired : H[n] \in HeadRecord /\ H[n].expiry_height \in Height
    BY DEF DbOK, MapOf, HeadRecord
  <1>5. \A n \in expired : ch[n] # None
    BY <1>4, EndedAtType
  <1>6. Proper(H)
    BY DEF Coherent
  <1>7. DOMAIN ch = expired
    OBVIOUS
  <1> HIDE DEF expired, ch
  <1>8. /\ DOMAIN Updated(H, ch) = DOMAIN H
        /\ \A n \in expired : Updated(H, ch)[n] = ch[n]
        /\ \A n \in DOMAIN H \ expired : Updated(H, ch)[n] = H[n]
    <2> DEFINE U == Updated(H, ch)
    <2>1. /\ \A n : n \in DOMAIN U <=>
                      \/ n \in expired /\ ch[n] # None
                      \/ n \in DOMAIN H /\ n \notin expired
          /\ \A n \in DOMAIN U : U[n] = IF n \in expired THEN ch[n] ELSE H[n]
      BY <1>6, <1>7, UpdatedFacts
    <2> HIDE DEF U, H
    <2>2. \A n : n \in DOMAIN U <=> n \in DOMAIN H
      BY <1>2, <1>5, <2>1
    <2>3. DOMAIN U = DOMAIN H
      BY <2>2
    <2> QED BY <1>2, <2>1, <2>3 DEF U
  <1> QED BY <1>3, <1>8 DEF expired, ch

\* compact_claimable removes the heads whose cooldown is over.
LEMMA CompactedHeads ==
    ASSUME NEW w, Coherent(w.db), NEW h
    PROVE  LET D == compact_claimable(w, h).db
           IN  /\ D.commits = w.db.commits
               /\ DOMAIN D.heads =
                    {n \in DOMAIN w.db.heads :
                       ~ (/\ w.db.heads[n].terminal_height # None
                          /\ w.db.heads[n].terminal_height <= h - cooldown_blocks)}
               /\ \A n \in DOMAIN D.heads : D.heads[n] = w.db.heads[n]
  <1> DEFINE H == w.db.heads
             k == h - cooldown_blocks
             gone == {n \in DOMAIN H : /\ H[n].terminal_height # None
                                       /\ H[n].terminal_height <= k}
             ch == [n \in gone |-> None]
  <1> HIDE DEF k
  <1>1. Through(w.db.terminal_heads_by_height, k) = gone
    BY Walks
  <1>3. /\ compact_claimable(w, h).db.heads = Updated(H, ch)
        /\ compact_claimable(w, h).db.commits = w.db.commits
    BY <1>1
    DEF compact_claimable, replace_head, remember_head, ReplaceHeads, k
  <1>6. Proper(H)
    BY DEF Coherent
  <1>7. /\ DOMAIN Updated(H, ch) = DOMAIN H \ gone
        /\ \A n \in DOMAIN H \ gone : Updated(H, ch)[n] = H[n]
    BY <1>6, UpdatedFacts
  <1> QED BY <1>3, <1>7 DEF k

\* prune_commits removes the COMMITs that are commit_ttl_blocks old.
LEMMA PrunedCommits ==
    ASSUME NEW w, Coherent(w.db), NEW h
    PROVE  LET D == prune_commits(w, h).db
           IN  /\ D.heads = w.db.heads
               /\ DOMAIN D.commits =
                    {r \in DOMAIN w.db.commits : ~ (r.height <= h - commit_ttl_blocks)}
               /\ \A r \in DOMAIN D.commits : D.commits[r] = w.db.commits[r]
  <1> DEFINE C == w.db.commits
             k == h - commit_ttl_blocks
             gone == {r \in DOMAIN C : r.height <= k}
             ch == [r \in gone |-> None]
  <1> HIDE DEF k
  <1>1. Through(w.db.commits_by_height, k) = gone
    BY Walks
  <1>3. /\ prune_commits(w, h).db.commits = Updated(C, ch)
        /\ prune_commits(w, h).db.heads = w.db.heads
    BY <1>1
    DEF prune_commits, replace_commit, remember_commit, ReplaceCommits, k
  <1>6. Proper(C)
    BY DEF Coherent
  <1> HIDE DEF gone
  <1>7. /\ DOMAIN Updated(C, ch) = DOMAIN C \ gone
        /\ \A r \in DOMAIN C \ gone : Updated(C, ch)[r] = C[r]
    BY <1>6, UpdatedFacts
  <1> QED BY <1>3, <1>7 DEF k, gone

-----------------------------------------------------------------------------
(***************************************************************************)
(* What a transaction does to each record.                                 *)
(***************************************************************************)
\* The transaction's REVEAL or REFRESH passes every clause.
Installs(d, height, tx) ==
    /\ tx.operation # None
    /\ \/ tx.operation.kind = "Reveal" /\ RevealAccepted(d, height, tx)
       \/ tx.operation.kind = "Refresh" /\ RefreshAccepted(d, height, tx)

\* The producer epoch of a head is the one of its producer.
EpochsKept(d) ==
    \A n \in DOMAIN d.heads :
        d.heads[n].producer_epoch = epoch(d.heads[n].producer.height)

LEMMA InstallFacts ==
    ASSUME NEW d, NEW height \in Height, NEW tx \in Transaction,
           Installs(d, height, tx)
    PROVE  /\ tx.operation.name \in NameIds
           /\ NewHead(height, tx) \in HeadRecord /\ NewHead(height, tx) # None
           /\ height >= activation_height /\ expiry_fits(height)
           /\ accepts_operation(tx.operation.name, height)
  <1>1. /\ tx.operation # None /\ tx.operation.kind \in {"Reveal", "Refresh"}
        /\ height >= activation_height /\ expiry_fits(height)
        /\ accepts_operation(tx.operation.name, height)
        /\ HasAction(tx, tx.operation.action_index)
    BY DEF Installs, RevealAccepted, RefreshAccepted, accepts_operation
  <1> QED BY <1>1, NewHeadType, ValuesAssumption

LEMMA OperationHeads ==
    ASSUME NEW w, Coherent(w.db), NEW height \in Height, NEW tx \in Transaction
    PROVE  LET after == apply_operation(w, height, tx).db.heads
               op == tx.operation
           IN  /\ Installs(w.db, height, tx) =>
                    /\ DOMAIN after = DOMAIN w.db.heads \cup {op.name}
                    /\ after[op.name] = NewHead(height, tx)
                    /\ \A n \in DOMAIN w.db.heads \ {op.name} : after[n] = w.db.heads[n]
               /\ ~Installs(w.db, height, tx) => after = w.db.heads
  <1> DEFINE op == tx.operation
             H == w.db.heads
             ch == [n \in {op.name} |-> NewHead(height, tx)]
             after == apply_operation(w, height, tx)
  <1>1. ASSUME Installs(w.db, height, tx)
        PROVE  /\ DOMAIN after.db.heads = DOMAIN H \cup {op.name}
               /\ after.db.heads[op.name] = NewHead(height, tx)
               /\ \A n \in DOMAIN H \ {op.name} : after.db.heads[n] = H[n]
    <2>1. after = InstallHead(w, op.name, NewHead(height, tx))
      BY <1>1 DEF Installs, apply_operation, apply_reveal, apply_refresh
    <2>2. after.db.heads = Updated(H, ch)
      BY <2>1 DEF InstallHead, replace_head, remember_head, ReplaceHeads
    <2>3. NewHead(height, tx) # None
      BY <1>1, InstallFacts
    <2>4. DOMAIN ch = {op.name} /\ ch[op.name] = NewHead(height, tx)
      OBVIOUS
    <2>5. Proper(H)
      BY DEF Coherent
    <2> HIDE DEF ch, after
    <2>6. /\ \A n : n \in DOMAIN Updated(H, ch) <=> n \in DOMAIN H \cup {op.name}
          /\ Updated(H, ch)[op.name] = ch[op.name]
          /\ \A n \in DOMAIN H \ {op.name} : Updated(H, ch)[n] = H[n]
      BY <2>3, <2>4, <2>5, UpdatedFacts
    <2>7. DOMAIN Updated(H, ch) = DOMAIN H \cup {op.name}
      BY <2>6
    <2> QED BY <2>2, <2>4, <2>6, <2>7
  <1>2. ASSUME ~Installs(w.db, height, tx)
        PROVE  after.db.heads = H
    <2>1. CASE op = None
      BY <2>1 DEF apply_operation
    <2>2. CASE op # None
      <3>1. op.kind \in {"Commit", "Reveal", "Refresh"}
        BY <2>2 DEF Transaction, Option, Operation
      <3>2. apply_commit(w, height, tx).db.heads = H
        BY DEF apply_commit, replace_commit, remember_commit, ReplaceCommits
      <3>3. op.kind = "Reveal" => apply_reveal(w, height, tx) = w
        BY <1>2, <2>2 DEF Installs, apply_reveal
      <3>4. op.kind = "Refresh" => apply_refresh(w, height, tx) = w
        BY <1>2, <2>2 DEF Installs, apply_refresh
      <3> QED BY <2>2, <3>1, <3>2, <3>3, <3>4 DEF apply_operation
    <2> QED BY <2>1, <2>2
  <1> QED BY <1>1, <1>2

\* A head that is replaced is never the producer of its own successor, so spend
\* detection leaves the new head alone.
LEMMA SuccessorProducer ==
    ASSUME NEW d, DbOK(d), EpochsKept(d), NEW height \in Height,
           NEW tx \in Transaction, Installs(d, height, tx),
           tx.operation.name \in DOMAIN d.heads
    PROVE  NewHead(height, tx).producer # d.heads[tx.operation.name].producer
  <1> DEFINE old == d.heads[tx.operation.name]
  <1>1. old.producer_epoch < epoch(height)
    BY DEF Installs, RevealAccepted, RefreshAccepted
  <1>2. old.producer_epoch = epoch(old.producer.height)
    BY DEF EpochsKept
  <1>3. old.producer_epoch \in Nat
    BY HeadTypes
  <1>4. NewHead(height, tx).producer.height = height
    BY DEF NewHead
  <1>5. old.producer.height # height
    <2> SUFFICES ASSUME old.producer.height = height PROVE FALSE
      OBVIOUS
    <2> QED BY <1>1, <1>2, <1>3
  <1> QED BY <1>4, <1>5

\* An accepted operation installs its new head; every other head stays as it
\* is, or ends here when its bond is spent for the first time.
LEMMA TransactionHeads ==
    ASSUME NEW w, Coherent(w.db), PairOK(w), EpochsKept(w.db),
           NEW height \in Height, NEW tx \in Transaction
    PROVE  LET D == apply_transaction(w, height, tx).db.heads
               H == w.db.heads
               op == tx.operation
           IN  /\ \A n : n \in DOMAIN D <=>
                           \/ n \in DOMAIN H
                           \/ Installs(w.db, height, tx) /\ n = op.name
               /\ Installs(w.db, height, tx) => D[op.name] = NewHead(height, tx)
               /\ \A n \in DOMAIN H :
                    ~(Installs(w.db, height, tx) /\ n = op.name) =>
                      D[n] = IF /\ H[n].terminal_height = None
                                /\ H[n].future_nf \in Nullifiers(tx)
                             THEN EndedAt(H[n], height) ELSE H[n]
  <1> DEFINE H == w.db.heads
             op == tx.operation
             I == Installs(w.db, height, tx)
             after == apply_operation(w, height, tx)
             A == after.db.heads
             spent == {n \in DOMAIN H : H[n].future_nf \in Nullifiers(tx)}
             current == {n \in spent : n \in DOMAIN A /\ A[n].producer = H[n].producer}
             ending == {n \in current : A[n].terminal_height = None}
             ch == [n \in ending |-> [A[n] EXCEPT !.terminal_height = height]]
             D == apply_transaction(w, height, tx).db.heads
  <1>1. {p[2] : p \in {q \in w.db.heads_by_future_nf : q[1] \in Nullifiers(tx)}} = spent
    BY SpentWalk
  <1>2. D = Updated(A, ch)
    <2> HIDE DEF spent
    <2> QED BY <1>1 DEF apply_transaction, replace_head, remember_head, ReplaceHeads
  <1>3. Proper(A)
    BY OperationCoherent DEF Coherent, Transaction
  <1>4. MapOf(A, NameIds, HeadRecord)
    BY OperationType DEF PairOK, DbOK
  <1>5. /\ I => /\ DOMAIN A = DOMAIN H \cup {op.name}
                /\ A[op.name] = NewHead(height, tx)
                /\ \A n \in DOMAIN H \ {op.name} : A[n] = H[n]
        /\ ~I => A = H
    BY OperationHeads
  <1>6. I /\ op.name \in DOMAIN H => NewHead(height, tx).producer # H[op.name].producer
    BY SuccessorProducer DEF PairOK
  <1>7. DOMAIN ch = ending /\ \A n \in ending : ch[n] = EndedAt(A[n], height)
    BY DEF EndedAt
  <1>8. \A n \in ending : ch[n] # None
    <2>1. \A n \in ending : A[n] \in HeadRecord
      BY <1>4 DEF MapOf
    <2> HIDE DEF ch, A, ending
    <2> QED BY <1>7, <2>1, EndedAtType
  <1>9. \A n : n \in ending <=> /\ n \in DOMAIN H /\ ~(I /\ n = op.name)
                                /\ H[n].terminal_height = None
                                /\ H[n].future_nf \in Nullifiers(tx)
    <2> HIDE DEF I, A
    <2> QED BY <1>5, <1>6
  <1> HIDE DEF ch, ending, A, I
  <1>10. /\ \A n : n \in DOMAIN Updated(A, ch) <=> n \in DOMAIN A \/ n \in ending
         /\ \A n \in ending : Updated(A, ch)[n] = ch[n]
         /\ \A n \in DOMAIN A : n \notin ending => Updated(A, ch)[n] = A[n]
    BY <1>3, <1>7, <1>8, UpdatedFacts
  <1> HIDE DEF D
  <1>11. \A n : n \in DOMAIN D <=> n \in DOMAIN H \/ (I /\ n = op.name)
    BY <1>2, <1>5, <1>9, <1>10
  <1>12. I => D[op.name] = NewHead(height, tx)
    BY <1>2, <1>5, <1>9, <1>10
  <1>13. ASSUME NEW n \in DOMAIN H, ~(I /\ n = op.name)
         PROVE  D[n] = IF H[n].terminal_height = None /\ H[n].future_nf \in Nullifiers(tx)
                       THEN EndedAt(H[n], height) ELSE H[n]
    <2>1. n \in DOMAIN A /\ A[n] = H[n]
      BY <1>5, <1>13
    <2>2. CASE n \in ending
      BY <1>2, <1>7, <1>9, <1>10, <2>1, <2>2
    <2>3. CASE n \notin ending
      BY <1>2, <1>9, <1>10, <1>13, <2>1, <2>3
    <2> QED BY <2>2, <2>3
  <1> QED BY <1>11, <1>12, <1>13 DEF D, I

\* A transaction stores its own COMMIT, if it carries one, and touches no other.
LEMMA StoredCommits ==
    ASSUME NEW w, Coherent(w.db), NEW height \in Height, NEW tx \in Transaction
    PROVE  LET D == apply_transaction(w, height, tx).db.commits
               ref == [height |-> height, tx_index |-> tx.tx_index, txid |-> tx.txid]
               stores == tx.operation # None /\ tx.operation.kind = "Commit"
           IN  /\ ~stores => D = w.db.commits
               /\ stores => /\ \A r : r \in DOMAIN D <=> r \in DOMAIN w.db.commits \/ r = ref
                            /\ D[ref] = tx.operation.commitment
                            /\ \A r \in DOMAIN w.db.commits :
                                  r # ref => D[r] = w.db.commits[r]
  <1> DEFINE after == apply_operation(w, height, tx)
             C == w.db.commits
             D == apply_transaction(w, height, tx).db.commits
             ref == [height |-> height, tx_index |-> tx.tx_index, txid |-> tx.txid]
             stores == tx.operation # None /\ tx.operation.kind = "Commit"
             ch == [q \in {ref} |-> tx.operation.commitment]
  <1>1. D = after.db.commits
    BY DEF apply_transaction, replace_head, remember_head, ReplaceHeads
  <1>2. ASSUME ~stores PROVE D = C
    <2>1. CASE tx.operation = None
      BY <1>1, <2>1 DEF apply_operation
    <2>2. CASE tx.operation # None
      <3>1. tx.operation.kind \in {"Reveal", "Refresh"}
        BY <1>2, <2>2 DEF Transaction, Option, Operation
      <3>2. /\ apply_reveal(w, height, tx).db.commits = C
            /\ apply_refresh(w, height, tx).db.commits = C
        BY DEF apply_reveal, apply_refresh, InstallHead, replace_head, remember_head,
               ReplaceHeads
      <3> QED BY <1>1, <2>2, <3>1, <3>2 DEF apply_operation
    <2> QED BY <2>1, <2>2
  <1>3. ASSUME stores
        PROVE  /\ \A r : r \in DOMAIN D <=> r \in DOMAIN C \/ r = ref
               /\ D[ref] = tx.operation.commitment
               /\ \A r \in DOMAIN C : r # ref => D[r] = C[r]
    <2>1. D = Updated(C, ch)
      <3>1. after = apply_commit(w, height, tx)
        BY <1>3 DEF apply_operation
      <3> QED BY <1>1, <3>1 DEF apply_commit, replace_commit, remember_commit, ReplaceCommits
    <2>2. tx.operation.commitment # None
      BY <1>3, ValuesAssumption DEF Transaction, Option, Operation
    <2>3. DOMAIN ch = {ref} /\ ch[ref] = tx.operation.commitment /\ Proper(C)
      BY DEF Coherent
    <2> HIDE DEF ch, ref, D
    <2> QED BY <2>1, <2>2, <2>3, UpdatedFacts
  <1> QED BY <1>2, <1>3

LEMMA TransactionCommits ==
    ASSUME NEW w, Coherent(w.db), NEW height \in Height, NEW tx \in Transaction
    PROVE  \A r \in DOMAIN apply_transaction(w, height, tx).db.commits :
              r \in DOMAIN w.db.commits \/ r.height = height
  <1> DEFINE ref == [height |-> height, tx_index |-> tx.tx_index, txid |-> tx.txid]
             D == apply_transaction(w, height, tx).db.commits
  <1>1. \A r \in DOMAIN D : r \in DOMAIN w.db.commits \/ r = ref
    BY StoredCommits
  <1>2. ref.height = height
    OBVIOUS
  <1> HIDE DEF ref, D
  <1> QED BY <1>1, <1>2 DEF D

-----------------------------------------------------------------------------
(***************************************************************************)
(* The journal of a block names the block, and no COMMIT above its height. *)
(***************************************************************************)
Framed(w, height, hash) ==
    /\ DOMAIN w.undo = UndoFields
    /\ w.undo.height = height /\ w.undo.hash = hash
    /\ \A r \in DOMAIN w.undo.commits : r.height <= height

LEMMA RememberFramed ==
    ASSUME NEW w, NEW height, NEW hash, Framed(w, height, hash), NEW keys
    PROVE  /\ Framed(remember_head(w, keys), height, hash)
           /\ (\A r \in keys : r.height <= height)
                => Framed(remember_commit(w, keys), height, hash)
  <1>1. Framed(remember_head(w, keys), height, hash)
    BY DEF Framed, remember_head, UndoFields
  <1>2. ASSUME \A r \in keys : r.height <= height
        PROVE  Framed(remember_commit(w, keys), height, hash)
    <2> DEFINE u == remember_commit(w, keys).undo
    <2>1. /\ DOMAIN u = UndoFields /\ u.height = w.undo.height /\ u.hash = w.undo.hash
          /\ u.commits = Journaled(w.undo.commits, w.db.commits, keys)
      BY DEF Framed, remember_commit, UndoFields
    <2>2. DOMAIN u.commits = DOMAIN w.undo.commits \cup keys
      BY <2>1 DEF Journaled
    <2> HIDE DEF u
    <2> QED BY <1>2, <2>1, <2>2 DEF Framed, u
  <1> QED BY <1>1, <1>2

LEMMA ReplaceFramed ==
    ASSUME NEW w, NEW height, NEW hash, Framed(w, height, hash), NEW changes
    PROVE  /\ Framed(replace_head(w, changes), height, hash)
           /\ Framed(replace_commit(w, changes), height, hash)
  BY DEF Framed, replace_head, replace_commit

LEMMA LifecycleFramed ==
    ASSUME NEW w, NEW height \in Height, NEW hash, Framed(w, height, hash),
           Coherent(w.db), PairOK(w), NEW changes,
           \A r \in DOMAIN changes : r.height <= height
    PROVE  /\ Framed(mark_expired(w, height), height, hash)
           /\ Framed(compact_claimable(w, height), height, hash)
           /\ Framed(prune_commits(w, height), height, hash)
           /\ Framed(insert_supplied(w, changes), height, hash)
  <1>1. Framed(mark_expired(w, height), height, hash)
    BY RememberFramed, ReplaceFramed DEF mark_expired
  <1>2. Framed(compact_claimable(w, height), height, hash)
    BY RememberFramed, ReplaceFramed DEF compact_claimable
  <1>3. Framed(prune_commits(w, height), height, hash)
    <2> DEFINE k == height - commit_ttl_blocks
               expired == Through(w.db.commits_by_height, k)
    <2> HIDE DEF k
    <2>1. \A r \in expired : r \in DOMAIN w.db.commits /\ r.height <= k
      BY Walks
    <2>2. \A r \in expired : r.height \in Nat
      <3>1. \A r \in expired : r \in CommitRef
        BY <2>1 DEF PairOK, DbOK, MapOf
      <3> QED BY <3>1, ParametersAssumption DEF CommitRef, Height
    <2>3. k \in Int /\ k <= height /\ height \in Nat
      BY ParameterFacts, ParametersAssumption DEF Height, k
    <2> HIDE DEF expired
    <2>4. \A r \in expired : r.height <= height
      BY <2>1, <2>2, <2>3
    <2>5. Framed(remember_commit(w, expired), height, hash)
      BY <2>4, RememberFramed
    <2> QED BY <2>5, ReplaceFramed DEF prune_commits, expired, k
  <1>4. Framed(insert_supplied(w, changes), height, hash)
    BY RememberFramed, ReplaceFramed DEF insert_supplied
  <1> QED BY <1>1, <1>2, <1>3, <1>4

LEMMA TransactionFramed ==
    ASSUME NEW w, NEW height \in Height, NEW hash, Framed(w, height, hash),
           NEW tx \in Transaction
    PROVE  Framed(apply_transaction(w, height, tx), height, hash)
  <1> DEFINE after == apply_operation(w, height, tx)
  <1>1. Framed(after, height, hash)
    <2>1. CASE tx.operation = None
      BY <2>1 DEF apply_operation
    <2>2. CASE tx.operation # None
      <3>1. tx.operation.kind \in {"Commit", "Reveal", "Refresh"}
        BY <2>2 DEF Transaction, Option, Operation
      <3>2. \A name, head : Framed(InstallHead(w, name, head), height, hash)
        BY RememberFramed, ReplaceFramed DEF InstallHead
      <3>3. /\ Framed(apply_reveal(w, height, tx), height, hash)
            /\ Framed(apply_refresh(w, height, tx), height, hash)
        BY <3>2 DEF apply_reveal, apply_refresh
      <3>4. Framed(apply_commit(w, height, tx), height, hash)
        <4> DEFINE ref == [height |-> height, tx_index |-> tx.tx_index, txid |-> tx.txid]
        <4>1. \A r \in {ref} : r.height <= height
          BY ParametersAssumption DEF Height
        <4>2. Framed(remember_commit(w, {ref}), height, hash)
          BY <4>1, RememberFramed
        <4> QED BY <4>2, ReplaceFramed DEF apply_commit
      <3> QED BY <2>2, <3>1, <3>3, <3>4 DEF apply_operation
    <2> QED BY <2>1, <2>2
  <1> HIDE DEF after
  <1>2. \A names, changes :
           Framed(replace_head(remember_head(after, names), changes), height, hash)
    BY <1>1, RememberFramed, ReplaceFramed
  <1> QED BY <1>2 DEF apply_transaction, after

-----------------------------------------------------------------------------
(***************************************************************************)
(* What the start of a block does to each record.                          *)
(***************************************************************************)
Marked(head, height) ==
    IF head.terminal_height = None /\ head.expiry_height <= height
      THEN EndedAt(head, head.expiry_height) ELSE head

BlockStart(w, height, changes) ==
    insert_supplied(
        prune_commits(compact_claimable(mark_expired(w, height), height), height),
        changes)

LEMMA SuppliedCommits ==
    ASSUME NEW w, Coherent(w.db), NEW changes
    PROVE  /\ insert_supplied(w, changes).db.heads = w.db.heads
           /\ \A r \in DOMAIN insert_supplied(w, changes).db.commits :
                 r \in DOMAIN w.db.commits \/ r \in DOMAIN changes
  <1>1. /\ insert_supplied(w, changes).db.heads = w.db.heads
        /\ insert_supplied(w, changes).db.commits = Updated(w.db.commits, changes)
    BY DEF insert_supplied, replace_commit, remember_commit, ReplaceCommits
  <1> QED BY <1>1, UpdatedFacts DEF Coherent

\* Expired heads are marked, heads out of cooldown are gone, and a COMMIT left
\* is a young one or evidence.
LEMMA BlockStartRecords ==
    ASSUME NEW w, Coherent(w.db), PairOK(w), NEW height \in Height,
           NEW changes, MapOf(changes, CommitRef, Commitments)
    PROVE  LET D == BlockStart(w, height, changes).db
               H == w.db.heads
           IN  /\ Coherent(D) /\ PairOK(BlockStart(w, height, changes))
               /\ \A n : n \in DOMAIN D.heads <=>
                    /\ n \in DOMAIN H
                    /\ ~ /\ Marked(H[n], height).terminal_height # None
                         /\ Marked(H[n], height).terminal_height
                              <= height - cooldown_blocks
               /\ \A n \in DOMAIN D.heads : D.heads[n] = Marked(H[n], height)
               /\ \A r \in DOMAIN D.commits :
                    \/ r \in DOMAIN w.db.commits /\ ~(r.height <= height - commit_ttl_blocks)
                    \/ r \in DOMAIN changes
  <1> DEFINE H == w.db.heads
             w1 == mark_expired(w, height)
             w2 == compact_claimable(w1, height)
             w3 == prune_commits(w2, height)
             w4 == insert_supplied(w3, changes)
             k == height - cooldown_blocks
             t == height - commit_ttl_blocks
  <1> HIDE DEF k, t
  <1>1. /\ Coherent(w1.db) /\ PairOK(w1)
        /\ w1.db.commits = w.db.commits /\ DOMAIN w1.db.heads = DOMAIN H
        /\ \A n \in DOMAIN H : w1.db.heads[n] = Marked(H[n], height)
    BY StepsCoherent, LifecycleType, MarkedHeads DEF PairOK, Marked
  <1> HIDE DEF w1
  <1>2. /\ Coherent(w2.db) /\ PairOK(w2)
        /\ w2.db.commits = w1.db.commits
        /\ DOMAIN w2.db.heads = {n \in DOMAIN w1.db.heads :
                                   ~ /\ w1.db.heads[n].terminal_height # None
                                     /\ w1.db.heads[n].terminal_height <= k}
        /\ \A n \in DOMAIN w2.db.heads : w2.db.heads[n] = w1.db.heads[n]
    BY <1>1, StepsCoherent, LifecycleType, CompactedHeads DEF k
  <1> HIDE DEF w2
  <1>3. /\ Coherent(w3.db) /\ PairOK(w3)
        /\ w3.db.heads = w2.db.heads
        /\ DOMAIN w3.db.commits = {r \in DOMAIN w2.db.commits : ~(r.height <= t)}
    BY <1>2, StepsCoherent, LifecycleType, PrunedCommits DEF t
  <1> HIDE DEF w3
  <1>4. /\ Coherent(w4.db) /\ PairOK(w4)
        /\ w4.db.heads = w3.db.heads
        /\ \A r \in DOMAIN w4.db.commits : r \in DOMAIN w3.db.commits \/ r \in DOMAIN changes
    BY <1>3, StepsCoherent, LifecycleType, SuppliedCommits
  <1> HIDE DEF w4
  <1>5. BlockStart(w, height, changes) = w4
    BY DEF BlockStart, w1, w2, w3, w4
  <1>6. \A n : n \in DOMAIN w4.db.heads <=>
                    /\ n \in DOMAIN H
                    /\ ~ /\ Marked(H[n], height).terminal_height # None
                         /\ Marked(H[n], height).terminal_height <= k
    BY <1>1, <1>2, <1>3, <1>4
  <1>7. \A n \in DOMAIN w4.db.heads : w4.db.heads[n] = Marked(H[n], height)
    BY <1>1, <1>2, <1>3, <1>4
  <1>8. \A r \in DOMAIN w4.db.commits :
           \/ r \in DOMAIN w.db.commits /\ ~(r.height <= t)
           \/ r \in DOMAIN changes
    BY <1>1, <1>2, <1>3, <1>4
  <1> QED BY <1>4, <1>5, <1>6, <1>7, <1>8 DEF k, t

LEMMA BlockStartCommits ==
    ASSUME NEW w, Coherent(w.db), PairOK(w), NEW height \in Height,
           NEW changes, MapOf(changes, CommitRef, Commitments)
    PROVE  LET D == BlockStart(w, height, changes).db.commits
               C == w.db.commits
           IN  /\ \A r : r \in DOMAIN D <=>
                    \/ r \in DOMAIN C /\ ~(r.height <= height - commit_ttl_blocks)
                    \/ r \in DOMAIN changes
               /\ \A r \in DOMAIN D :
                    D[r] = IF r \in DOMAIN changes THEN changes[r] ELSE C[r]
  <1> DEFINE C == w.db.commits
             w1 == mark_expired(w, height)
             w2 == compact_claimable(w1, height)
             w3 == prune_commits(w2, height)
             w4 == insert_supplied(w3, changes)
             t == height - commit_ttl_blocks
  <1> HIDE DEF t
  <1>1. Coherent(w1.db) /\ w1.db.commits = C
    BY StepsCoherent, MarkedHeads DEF PairOK
  <1> HIDE DEF w1
  <1>2. Coherent(w2.db) /\ w2.db.commits = C
    BY <1>1, StepsCoherent, CompactedHeads
  <1> HIDE DEF w2
  <1>3. /\ Coherent(w3.db) /\ DOMAIN w3.db.commits = {r \in DOMAIN C : ~(r.height <= t)}
        /\ \A r \in DOMAIN w3.db.commits : w3.db.commits[r] = C[r]
    BY <1>2, StepsCoherent, PrunedCommits DEF t
  <1> HIDE DEF w3
  <1>4. w4.db.commits = Updated(w3.db.commits, changes)
    BY DEF insert_supplied, replace_commit, remember_commit, ReplaceCommits
  <1>5. \A r \in DOMAIN changes : changes[r] # None
    BY ValuesAssumption DEF MapOf
  <1>6. Proper(w3.db.commits)
    BY <1>3 DEF Coherent
  <1> HIDE DEF w4
  <1>7. /\ \A r : r \in DOMAIN w4.db.commits <=>
              (r \in DOMAIN C /\ ~(r.height <= t)) \/ r \in DOMAIN changes
        /\ \A r \in DOMAIN w4.db.commits :
              w4.db.commits[r] = IF r \in DOMAIN changes THEN changes[r] ELSE C[r]
    BY <1>3, <1>4, <1>5, <1>6, UpdatedFacts
  <1> QED BY <1>7 DEF BlockStart, w1, w2, w3, w4, t

LEMMA BlockStartJournal ==
    ASSUME NEW w, Coherent(w.db), PairOK(w), NEW height \in Height,
           NEW changes, MapOf(changes, CommitRef, Commitments),
           \A r \in DOMAIN changes : r.height <= height,
           NEW hash, Framed(w, height, hash)
    PROVE  Framed(BlockStart(w, height, changes), height, hash)
  <1> DEFINE w1 == mark_expired(w, height)
             w2 == compact_claimable(w1, height)
             w3 == prune_commits(w2, height)
             w4 == insert_supplied(w3, changes)
  <1>1. Coherent(w1.db) /\ PairOK(w1) /\ Framed(w1, height, hash)
    BY StepsCoherent, LifecycleType, LifecycleFramed
  <1> HIDE DEF w1
  <1>2. Coherent(w2.db) /\ PairOK(w2) /\ Framed(w2, height, hash)
    BY <1>1, StepsCoherent, LifecycleType, LifecycleFramed
  <1> HIDE DEF w2
  <1>3. Coherent(w3.db) /\ PairOK(w3) /\ Framed(w3, height, hash)
    BY <1>2, StepsCoherent, LifecycleType, LifecycleFramed
  <1> HIDE DEF w3
  <1>4. Framed(w4, height, hash)
    BY <1>3, LifecycleFramed
  <1> QED BY <1>4 DEF BlockStart, w1, w2, w3, w4

\* No head and no journaled head of a name outside S.
Within(w, S) == DOMAIN w.db.heads \subseteq S /\ DOMAIN w.undo.heads \subseteq S

LEMMA RememberWithin ==
    ASSUME NEW w, NEW S, Within(w, S), DOMAIN w.undo = UndoFields, NEW keys
    PROVE  /\ DOMAIN remember_head(w, keys).undo = UndoFields
           /\ DOMAIN remember_commit(w, keys).undo = UndoFields
           /\ keys \subseteq S => Within(remember_head(w, keys), S)
           /\ Within(remember_commit(w, keys), S)
  <1>1. DOMAIN Journaled(w.undo.heads, w.db.heads, keys) = DOMAIN w.undo.heads \cup keys
    BY DEF Journaled
  <1> QED BY <1>1 DEF Within, remember_head, remember_commit, UndoFields

LEMMA ReplaceWithin ==
    ASSUME NEW w, NEW S, Within(w, S), NEW changes
    PROVE  /\ replace_head(w, changes).undo = w.undo
           /\ replace_commit(w, changes).undo = w.undo
           /\ DOMAIN changes \subseteq S => Within(replace_head(w, changes), S)
           /\ Within(replace_commit(w, changes), S)
  <1>1. DOMAIN Updated(w.db.heads, changes) \subseteq DOMAIN w.db.heads \cup DOMAIN changes
    BY DEF Updated
  <1> QED BY <1>1 DEF Within, replace_head, replace_commit, ReplaceHeads, ReplaceCommits

\* Block application journals no name but those it has heads of and the one
\* whose head it installs.
LEMMA LifecycleWithin ==
    ASSUME NEW w, NEW S, Within(w, S), DOMAIN w.undo = UndoFields, Coherent(w.db),
           NEW height, NEW changes
    PROVE  /\ Within(mark_expired(w, height), S)
           /\ Within(compact_claimable(w, height), S)
           /\ Within(prune_commits(w, height), S)
           /\ Within(insert_supplied(w, changes), S)
           /\ DOMAIN mark_expired(w, height).undo = UndoFields
           /\ DOMAIN compact_claimable(w, height).undo = UndoFields
           /\ DOMAIN prune_commits(w, height).undo = UndoFields
  <1>1. /\ Within(mark_expired(w, height), S)
        /\ DOMAIN mark_expired(w, height).undo = UndoFields
    <2> DEFINE expired == Through(w.db.active_heads_by_expiry, height)
               present == expired \cap DOMAIN w.db.heads
               ch == [n \in present |-> [w.db.heads[n] EXCEPT
                                          !.terminal_height = w.db.heads[n].expiry_height]]
    <2>1. Through(w.db.active_heads_by_expiry, height) =
            {n \in DOMAIN w.db.heads : /\ w.db.heads[n].terminal_height = None
                                       /\ w.db.heads[n].expiry_height <= height}
      BY ONLY Coherent(w.db), Walks
    <2>2. DOMAIN ch = present
      OBVIOUS
    <2>3. expired \subseteq S /\ present \subseteq S
      BY <2>1 DEF Within
    <2> HIDE DEF ch
    <2> QED BY <2>2, <2>3, RememberWithin, ReplaceWithin DEF mark_expired, ch
  <1>2. /\ Within(compact_claimable(w, height), S)
        /\ DOMAIN compact_claimable(w, height).undo = UndoFields
    <2> DEFINE k == height - cooldown_blocks
               claimable == Through(w.db.terminal_heads_by_height, k)
               ch == [n \in claimable |-> None]
    <2> HIDE DEF k
    <2>1. claimable = {n \in DOMAIN w.db.heads : /\ w.db.heads[n].terminal_height # None
                                                 /\ w.db.heads[n].terminal_height <= k}
      BY Walks
    <2>2. DOMAIN ch \subseteq S /\ claimable \subseteq S
      BY <2>1 DEF Within
    <2> HIDE DEF ch
    <2> QED BY <2>2, RememberWithin, ReplaceWithin DEF compact_claimable, ch, k
  <1>3. /\ Within(prune_commits(w, height), S)
        /\ DOMAIN prune_commits(w, height).undo = UndoFields
    BY RememberWithin, ReplaceWithin DEF prune_commits
  <1>4. Within(insert_supplied(w, changes), S)
    BY RememberWithin, ReplaceWithin DEF insert_supplied
  <1> QED BY <1>1, <1>2, <1>3, <1>4

LEMMA BlockStartWithin ==
    ASSUME NEW w, NEW S, Within(w, S), DOMAIN w.undo = UndoFields, Coherent(w.db),
           NEW height, NEW changes
    PROVE  Within(BlockStart(w, height, changes), S)
  <1> DEFINE w1 == mark_expired(w, height)
             w2 == compact_claimable(w1, height)
             w3 == prune_commits(w2, height)
             w4 == insert_supplied(w3, changes)
  <1>1. Within(w1, S) /\ DOMAIN w1.undo = UndoFields /\ Coherent(w1.db)
    BY LifecycleWithin, StepsCoherent
  <1> HIDE DEF w1
  <1>2. Within(w2, S) /\ DOMAIN w2.undo = UndoFields /\ Coherent(w2.db)
    BY <1>1, LifecycleWithin, StepsCoherent
  <1> HIDE DEF w2
  <1>3. Within(w3, S) /\ DOMAIN w3.undo = UndoFields /\ Coherent(w3.db)
    BY <1>2, LifecycleWithin, StepsCoherent
  <1> HIDE DEF w3
  <1>4. Within(w4, S)
    BY <1>3, LifecycleWithin
  <1> QED BY <1>4 DEF BlockStart, w1, w2, w3, w4

LEMMA TransactionWithin ==
    ASSUME NEW w, NEW S, Within(w, S), DOMAIN w.undo = UndoFields, Coherent(w.db),
           NEW height \in Height, NEW tx \in Transaction,
           Installs(w.db, height, tx) => tx.operation.name \in S
    PROVE  Within(apply_transaction(w, height, tx), S)
  <1> DEFINE after == apply_operation(w, height, tx)
             spent == {p[2] : p \in {q \in w.db.heads_by_future_nf : q[1] \in Nullifiers(tx)}}
             heads == after.db.heads
             current == {n \in spent : n \in DOMAIN heads
                                         /\ heads[n].producer = w.db.heads[n].producer}
             ending == {n \in current : heads[n].terminal_height = None}
             ch == [n \in ending |-> [heads[n] EXCEPT !.terminal_height = height]]
  <1>1. Within(after, S) /\ DOMAIN after.undo = UndoFields
    <2>1. CASE tx.operation = None
      BY <2>1 DEF apply_operation
    <2>2. CASE tx.operation # None
      <3>1. tx.operation.kind \in {"Commit", "Reveal", "Refresh"}
        BY <2>2 DEF Transaction, Option, Operation
      <3>2. \A name \in S : \A head :
              LET v == InstallHead(w, name, head)
              IN  Within(v, S) /\ DOMAIN v.undo = UndoFields
        <4> SUFFICES ASSUME NEW name \in S, NEW head
                     PROVE  LET v == InstallHead(w, name, head)
                            IN  Within(v, S) /\ DOMAIN v.undo = UndoFields
          OBVIOUS
        <4> DEFINE hc == [n \in {name} |-> head]
        <4>1. DOMAIN hc \subseteq S /\ {name} \subseteq S
          OBVIOUS
        <4> HIDE DEF hc
        <4> QED BY <4>1, RememberWithin, ReplaceWithin DEF InstallHead, hc
      <3>3. tx.operation.kind = "Reveal" =>
              /\ Within(apply_reveal(w, height, tx), S)
              /\ DOMAIN apply_reveal(w, height, tx).undo = UndoFields
        BY <2>2, <3>2 DEF apply_reveal, Installs
      <3>4. tx.operation.kind = "Refresh" =>
              /\ Within(apply_refresh(w, height, tx), S)
              /\ DOMAIN apply_refresh(w, height, tx).undo = UndoFields
        BY <2>2, <3>2 DEF apply_refresh, Installs
      <3>5. /\ Within(apply_commit(w, height, tx), S)
            /\ DOMAIN apply_commit(w, height, tx).undo = UndoFields
        BY RememberWithin, ReplaceWithin DEF apply_commit
      <3> QED BY <2>2, <3>1, <3>3, <3>4, <3>5 DEF apply_operation
    <2> QED BY <2>1, <2>2
  <1>2. current \subseteq S /\ DOMAIN ch \subseteq S
    BY <1>1 DEF Within
  <1> HIDE DEF after, current, ch
  <1>3. Within(replace_head(remember_head(after, current), ch), S)
    BY <1>1, <1>2, RememberWithin, ReplaceWithin
  <1> QED BY <1>3 DEF apply_transaction, after, current, ch

-----------------------------------------------------------------------------
(***************************************************************************)
(* Records stay valid.                                                     *)
(***************************************************************************)
LEMMA CooldownFacts == cooldown_blocks \in Nat /\ cooldown_blocks > 0
                         /\ cooldown_blocks = epoch_blocks
  BY ParameterFacts, ParametersAssumption DEF Valid

LEMMA ClaimableCases ==
    ASSUME NEW head \in HeadRecord, NEW t \in Height
    PROVE  /\ head.terminal_height = None =>
                (is_claimable(head, t) => t >= head.expiry_height + cooldown_blocks)
           /\ head.terminal_height # None =>
                (is_claimable(head, t) <=> t >= head.terminal_height + cooldown_blocks)
           /\ head.terminal_height # None => head.terminal_height \in Nat
           /\ head.expiry_height \in Nat /\ t \in Nat /\ t # None
           /\ head.expiry_height # None
  <1>1. /\ head.terminal_height \in Option(Height) /\ head.expiry_height \in Height
    BY DEF HeadRecord
  <1>2. /\ head.terminal_height # None => head.terminal_height \in Nat
        /\ head.expiry_height \in Nat /\ t \in Nat /\ t # None
        /\ head.expiry_height # None
    BY <1>1, ValuesAssumption, ParametersAssumption DEF Option, Height
  <1>3. CASE head.terminal_height = None
    BY <1>2, <1>3, CooldownFacts DEF is_claimable, terminal_at
  <1>4. CASE head.terminal_height # None
    BY <1>2, <1>4, CooldownFacts DEF is_claimable, terminal_at
  <1> QED BY <1>2, <1>3, <1>4

\* A head that survives the start of the next block is valid there.
LEMMA MarkedValid ==
    ASSUME NEW head \in HeadRecord, NEW tip \in Height, NEW height \in Height,
           height = tip + 1, HeadValid(tip, head),
           ~ /\ Marked(head, height).terminal_height # None
             /\ Marked(head, height).terminal_height <= height - cooldown_blocks
    PROVE  HeadValid(height, Marked(head, height))
  <1> DEFINE m == Marked(head, height)
  <1>1. /\ tip \in Nat /\ height \in Nat /\ head.producer.height \in Nat
        /\ head.expiry_height \in Nat
    BY ParametersAssumption DEF HeadRecord, StateRef, Height
  <1>2. CASE head.terminal_height = None /\ head.expiry_height <= height
    <2>1. head.expiry_height = height
      BY <1>1, <1>2 DEF HeadValid
    <2>2. m = EndedAt(head, height)
      BY <1>2, <2>1 DEF Marked
    <2>3. /\ m \in HeadRecord
          /\ m.terminal_height = height /\ m.producer = head.producer
          /\ m.producer_epoch = head.producer_epoch
          /\ m.expiry_height = head.expiry_height
      BY <2>2, EndedAtType
    <2> HIDE DEF m
    <2>4. ~is_claimable(m, height)
      BY <1>1, <2>3, ClaimableCases, CooldownFacts
    <2>5. height # None
      BY ClaimableCases
    <2>6. HeadValid(height, m)
      BY <1>1, <2>3, <2>4, <2>5 DEF HeadValid
    <2> QED BY <2>6 DEF m
  <1>3. CASE ~(head.terminal_height = None /\ head.expiry_height <= height)
    <2>1. m = head
      BY <1>3 DEF Marked
    <2>2. height # None
      BY ClaimableCases
    <2>3. ~is_claimable(head, height)
      BY <1>1, <1>3, <2>1, ClaimableCases, CooldownFacts
    <2>4. HeadValid(height, head)
      BY <1>1, <1>3, <2>2, <2>3, ClaimableCases DEF HeadValid
    <2> QED BY <2>1, <2>4
  <1> QED BY <1>2, <1>3

LEMMA EndedValid ==
    ASSUME NEW head \in HeadRecord, NEW height \in Height,
           HeadValid(height, head), head.terminal_height = None
    PROVE  HeadValid(height, EndedAt(head, height))
  <1> DEFINE m == EndedAt(head, height)
  <1>1. /\ height \in Nat /\ head.producer.height \in Nat
    BY ParametersAssumption DEF HeadRecord, StateRef, Height
  <1>2. /\ m \in HeadRecord
        /\ m.terminal_height = height /\ m.producer = head.producer
        /\ m.producer_epoch = head.producer_epoch
        /\ m.expiry_height = head.expiry_height
    BY EndedAtType
  <1> HIDE DEF m
  <1>3. height # None
    BY ClaimableCases
  <1>4. ~is_claimable(m, height)
    BY <1>1, <1>2, <1>3, ClaimableCases, CooldownFacts
  <1>5. HeadValid(height, m)
    BY <1>1, <1>2, <1>3, <1>4 DEF HeadValid
  <1> QED BY <1>5 DEF m

LEMMA NewHeadValid ==
    ASSUME NEW d, NEW height \in Height, NEW tx \in Transaction, Installs(d, height, tx)
    PROVE  HeadValid(height, NewHead(height, tx))
  <1> DEFINE m == NewHead(height, tx)
  <1>1. /\ m \in HeadRecord /\ height >= activation_height /\ expiry_fits(height)
    BY InstallFacts
  <1>2. /\ m.producer.height = height /\ m.producer_epoch = epoch(height)
        /\ m.expiry_height = expiry(height) /\ m.terminal_height = None
    BY DEF NewHead
  <1> HIDE DEF m
  <1>3. height \in Nat /\ height # None
    BY ClaimableCases, <1>1
  <1>4. height < expiry(height)
    BY <1>3, ParameterFacts DEF expiry
  <1>5. expiry(height) \in Nat
    BY <1>3, ParameterFacts DEF expiry
  <1>6. ~is_claimable(m, height)
    BY <1>1, <1>2, <1>3, <1>4, <1>5, ClaimableCases, CooldownFacts
  <1>7. HeadValid(height, m)
    BY <1>1, <1>2, <1>3, <1>4, <1>6, ParameterFacts DEF HeadValid
  <1> QED BY <1>7 DEF m

LEMMA CommitTypes ==
    ASSUME NEW d, DbOK(d), NEW r \in DOMAIN d.commits
    PROVE  r \in CommitRef /\ r.height \in Nat
  <1>1. r \in CommitRef
    BY DEF DbOK, MapOf
  <1> QED BY <1>1, ParametersAssumption DEF CommitRef, Height

\* Records valid at a tip are, after the start of the next block, valid there.
LEMMA BlockStartValid ==
    ASSUME NEW w, Coherent(w.db), PairOK(w), NEW height \in Height,
           NEW changes, MapOf(changes, CommitRef, Commitments),
           \A r \in DOMAIN changes :
              /\ r.height >= activation_height /\ r.height < height
              /\ height - r.height < commit_ttl_blocks,
           NEW tip \in Option(Height), tip # None => height = tip + 1,
           RecordsValid(tip, w.db)
    PROVE  RecordsValid(height, BlockStart(w, height, changes).db)
  <1> DEFINE D == BlockStart(w, height, changes).db
             H == w.db.heads
  <1>1. /\ PairOK(BlockStart(w, height, changes))
        /\ \A n : n \in DOMAIN D.heads <=>
                    /\ n \in DOMAIN H
                    /\ ~ /\ Marked(H[n], height).terminal_height # None
                         /\ Marked(H[n], height).terminal_height
                              <= height - cooldown_blocks
        /\ \A n \in DOMAIN D.heads : D.heads[n] = Marked(H[n], height)
        /\ \A r \in DOMAIN D.commits :
             \/ r \in DOMAIN w.db.commits /\ ~(r.height <= height - commit_ttl_blocks)
             \/ r \in DOMAIN changes
    BY BlockStartRecords
  <1> HIDE DEF D
  <1>2. height \in Nat /\ height # None
    BY ParametersAssumption, ValuesAssumption DEF Height
  <1>3. ASSUME NEW n \in DOMAIN D.heads
        PROVE  HeadValid(height, D.heads[n])
    <2>1. n \in DOMAIN H /\ D.heads[n] = Marked(H[n], height)
      BY <1>1
    <2>2. HeadValid(tip, H[n]) /\ H[n] \in HeadRecord
      BY <2>1, HeadTypes DEF RecordsValid, PairOK
    <2>3. tip # None /\ tip \in Height
      BY <2>2 DEF HeadValid, Option
    <2> QED BY <1>1, <2>1, <2>2, <2>3, MarkedValid
  <1>4. ASSUME NEW r \in DOMAIN D.commits
        PROVE  CommitValid(height, r)
    <2>1. CASE r \in DOMAIN changes
      <3>1. r \in CommitRef
        BY <2>1 DEF MapOf
      <3>2. r.height \in Nat
        BY <3>1, ParametersAssumption DEF CommitRef, Height
      <3> QED BY <1>2, <2>1, <3>2 DEF CommitValid
    <2>2. CASE r \in DOMAIN w.db.commits /\ ~(r.height <= height - commit_ttl_blocks)
      <3>1. r.height \in Nat /\ CommitValid(tip, r)
        BY <2>2, CommitTypes DEF RecordsValid, PairOK
      <3>2. tip \in Nat /\ height = tip + 1
        BY <3>1, ParametersAssumption DEF CommitValid, Option, Height
      <3> QED BY <1>2, <2>2, <3>1, <3>2, ParameterFacts DEF CommitValid
    <2> QED BY <1>1, <2>1, <2>2
  <1>5. RecordsValid(height, D)
    BY <1>3, <1>4 DEF RecordsValid
  <1> QED BY <1>5 DEF D

\* Records valid in a block stay so with each of its transactions.
LEMMA TransactionValid ==
    ASSUME NEW w, Coherent(w.db), PairOK(w), NEW height \in Height,
           NEW tx \in Transaction, RecordsValid(height, w.db),
           height >= activation_height
    PROVE  RecordsValid(height, apply_transaction(w, height, tx).db)
  <1> DEFINE D == apply_transaction(w, height, tx).db
             H == w.db.heads
             I == Installs(w.db, height, tx)
             op == tx.operation
  <1>1. EpochsKept(w.db)
    BY DEF RecordsValid, HeadValid, EpochsKept
  <1>2. /\ \A n : n \in DOMAIN D.heads <=> n \in DOMAIN H \/ (I /\ n = op.name)
        /\ I => D.heads[op.name] = NewHead(height, tx)
        /\ \A n \in DOMAIN H :
             ~(I /\ n = op.name) =>
                D.heads[n] = IF /\ H[n].terminal_height = None
                                /\ H[n].future_nf \in Nullifiers(tx)
                             THEN EndedAt(H[n], height) ELSE H[n]
    BY <1>1, TransactionHeads
  <1>3. \A r \in DOMAIN D.commits : r \in DOMAIN w.db.commits \/ r.height = height
    BY TransactionCommits
  <1>4. PairOK(apply_transaction(w, height, tx))
    BY TransactionType
  <1>5. I => HeadValid(height, NewHead(height, tx))
    BY NewHeadValid
  <1> HIDE DEF D, I
  <1>6. ASSUME NEW n \in DOMAIN D.heads
        PROVE  HeadValid(height, D.heads[n])
    <2>1. CASE I /\ n = op.name
      BY <1>2, <1>5, <2>1
    <2>2. CASE ~(I /\ n = op.name)
      <3>1. n \in DOMAIN H
        BY <1>2, <2>2
      <3>2. HeadValid(height, H[n]) /\ H[n] \in HeadRecord
        BY <3>1, HeadTypes DEF RecordsValid, PairOK
      <3>3. H[n].terminal_height = None => HeadValid(height, EndedAt(H[n], height))
        BY <3>2, EndedValid
      <3> QED BY <1>2, <2>2, <3>1, <3>2, <3>3
    <2> QED BY <2>1, <2>2
  <1>7. ASSUME NEW r \in DOMAIN D.commits
        PROVE  CommitValid(height, r)
    <2>1. CASE r \in DOMAIN w.db.commits
      BY <2>1 DEF RecordsValid
    <2>2. CASE r.height = height
      <3>1. height \in Nat /\ height # None
        BY ParametersAssumption, ValuesAssumption DEF Height
      <3> QED BY <2>2, <3>1, ParameterFacts DEF CommitValid
    <2> QED BY <1>3, <2>1, <2>2
  <1>8. RecordsValid(height, D)
    BY <1>6, <1>7 DEF RecordsValid
  <1> QED BY <1>8 DEF D

-----------------------------------------------------------------------------
(***************************************************************************)
(* The inductive invariant.  A rollback returns to a past view, so every   *)
(* past view must be valid at its own tip, and the heights and hashes of   *)
(* the journals must lead from each view to the next.                      *)
(***************************************************************************)
\* The height and hash of the last block, also while it is being applied.
CurrentHeight == IF block = None THEN tip_height ELSE block.height
CurrentHash == IF block = None THEN previous_hash ELSE block.hash

PastValid ==
    \A i \in 1 .. Len(trail) :
        /\ TipValid(trail[i].next_height, trail[i].tip_height)
        /\ RecordsValid(trail[i].tip_height, trail[i])

Linked ==
    /\ \A i \in 1 .. Len(trail) :
          /\ Undos[i].height = trail[i].next_height
          /\ Undos[i].height + (Len(trail) - i) = CurrentHeight
          /\ \A r \in DOMAIN Undos[i].commits : r.height <= Undos[i].height
    /\ \A i \in 1 .. Len(trail) - 1 :
          /\ trail[i + 1].tip_height = Undos[i].height
          /\ trail[i + 1].previous_hash = Undos[i].hash
    /\ trail # << >> => CurrentHeight # None /\ Undos[Len(trail)].hash = CurrentHash

SnapInv ==
    /\ TipValid(next_height, tip_height)
    /\ block # None => block.height = next_height
    /\ RecordsValid(CurrentHeight, db)
    /\ PastValid
    /\ Linked

FullInv == RollbackInv /\ TypeInv /\ SnapInv

LEMMA SnapInit == HInit => FullInv
  <1> SUFFICES ASSUME HInit PROVE FullInv
    OBVIOUS
  <1>1. RollbackInv /\ TypeInv
    BY RollbackInit, TypeInit DEF HInit
  <1>2. /\ next_height = activation_height /\ tip_height = None /\ block = None
        /\ DOMAIN db.commits = {} /\ DOMAIN db.heads = {} /\ trail = << >>
    BY DEF HInit, Init, EmptyMap
  <1>3. SnapInv
    BY <1>2 DEF SnapInv, TipValid, RecordsValid, CurrentHeight, PastValid, Linked
  <1> QED BY <1>1, <1>3 DEF FullInv

\* What the parts of the invariant say together of one past view.
LEMMA PastFacts ==
    ASSUME FullInv, NEW i \in 1 .. Len(trail)
    PROVE  /\ UndoOK(Undos[i])
           /\ Undos[i].height \in Nat /\ Undos[i].height # None
           /\ trail[i].next_height = Undos[i].height
           /\ trail[i].next_height = Undos[i].previous_next_height
           /\ trail[i].tip_height = Undos[i].previous_tip_height
           /\ trail[i].previous_hash = Undos[i].previous_hash
           /\ trail[i].tip_height \in Option(Height)
           /\ TipValid(trail[i].next_height, trail[i].tip_height)
  <1>1. UndoOK(Undos[i])
    <2>1. /\ Len(history) \in Nat
          /\ block = None => Undos = history /\ Len(trail) = Len(history)
          /\ block # None => /\ Len(trail) = Len(history) + 1
                             /\ Undos[Len(trail)] = undo
          /\ \A j \in 1 .. Len(history) : Undos[j] = history[j]
      BY UndosFacts DEF FullInv, RollbackInv, JournalsExact
    <2>2. /\ \A j \in 1 .. Len(history) : UndoOK(history[j])
          /\ block # None => UndoOK(undo)
      BY DEF FullInv, TypeInv, TypeOK
    <2> QED BY <2>1, <2>2
  <1>2. /\ trail[i].next_height = Undos[i].previous_next_height
        /\ trail[i].tip_height = Undos[i].previous_tip_height
        /\ trail[i].previous_hash = Undos[i].previous_hash
    <2> DEFINE v == IF i = Len(trail) THEN View ELSE trail[i + 1]
    <2>1. trail[i] = Rewound(v, Undos[i])
      BY DEF FullInv, RollbackInv, JournalsExact
    <2> HIDE DEF v
    <2> QED BY <2>1 DEF Rewound
  <1>3. Undos[i].height \in Nat /\ Undos[i].height # None
    BY <1>1, ParametersAssumption, ValuesAssumption DEF UndoOK, Height
  <1>4. /\ trail[i].next_height = Undos[i].height
        /\ TipValid(trail[i].next_height, trail[i].tip_height)
    BY DEF FullInv, SnapInv, Linked, PastValid
  <1> QED BY <1>1, <1>2, <1>3, <1>4 DEF UndoOK

LEMMA SnapBegin ==
    ASSUME FullInv, RollbackInv', TypeInv',
           NEW b \in Block, NEW e \in SUBSET ReferencedCommit, HBeginBlock(b, e)
    PROVE  SnapInv'
  <1> DEFINE w == [db |-> db, undo |-> new_undo(b)]
             ch == supplied(e)
             L == Len(trail)
  <1>1. /\ block = None /\ block' = b /\ b # None
        /\ b.height = next_height /\ b.prev_hash = previous_hash
        /\ EvidenceAdmissible(b, e)
        /\ next_height' = next_height /\ tip_height' = tip_height
        /\ previous_hash' = previous_hash /\ history' = history
        /\ trail' = Append(trail, View)
    BY ValuesAssumption DEF HBeginBlock, BeginBlock, chainVars
  <1>2. db' = BlockStart(w, b.height, ch).db /\ undo' = BlockStart(w, b.height, ch).undo
    BY DEF HBeginBlock, BeginBlock, BlockStart
  <1>3. /\ b.height \in Height /\ b.height \in Nat /\ b.height # None
        /\ b.hash \in Hashes /\ tip_height \in Option(Height)
    BY ParametersAssumption, ValuesAssumption DEF Block, Height, FullInv, TypeInv, TypeOK
  <1>4. tip_height # None => b.height = tip_height + 1
    BY <1>1, <1>3 DEF FullInv, SnapInv, TipValid
  <1>5. /\ MapOf(ch, CommitRef, Commitments)
        /\ \A r \in DOMAIN ch : /\ r.height >= activation_height /\ r.height < b.height
                                /\ b.height - r.height < commit_ttl_blocks
    <2>1. DOMAIN ch = {x.reference : x \in e}
      BY DEF supplied
    <2> QED BY <1>1, <2>1, SuppliedType DEF EvidenceAdmissible
  <1>6. \A r \in DOMAIN ch : r.height <= b.height
    <2>1. \A r \in DOMAIN ch : r \in CommitRef
      BY <1>5 DEF MapOf
    <2>2. \A r \in DOMAIN ch : r.height \in Nat
      BY <2>1, ParametersAssumption DEF CommitRef, Height
    <2> QED BY <1>3, <1>5, <2>2
  <1>7. /\ Coherent(w.db) /\ w.db = db /\ PairOK(w) /\ Framed(w, b.height, b.hash)
    <2>1. Coherent(db)
      BY DEF FullInv, RollbackInv, IndexInv
    <2>2. DbOK(db)
      BY DEF FullInv, TypeInv, TypeOK, DbOK
    <2>3. /\ MapOf(EmptyMap, CommitRef, Option(Commitments))
          /\ MapOf(EmptyMap, NameIds, Option(HeadRecord))
          /\ DOMAIN EmptyMap = {}
      BY DEF MapOf, EmptyMap
    <2>4. previous_hash \in Hashes /\ next_height \in Height
      BY <1>1, <1>3 DEF FullInv, TypeInv, TypeOK
    <2>5. UndoOK(new_undo(b)) /\ DOMAIN new_undo(b) = UndoFields
      BY <1>3, <2>3, <2>4 DEF UndoOK, new_undo, UndoFields
    <2>6. /\ new_undo(b).height = b.height /\ new_undo(b).hash = b.hash
          /\ DOMAIN new_undo(b).commits = {}
      BY <2>3 DEF new_undo
    <2> QED BY <2>1, <2>2, <2>5, <2>6 DEF PairOK, Framed
  <1> HIDE DEF w, ch
  <1>8. RecordsValid(tip_height, w.db)
    BY <1>1, <1>7 DEF FullInv, SnapInv, CurrentHeight
  <1>9. RecordsValid(b.height, db')
    BY <1>2, <1>3, <1>4, <1>5, <1>7, <1>8, BlockStartValid
  <1>10. /\ undo'.height = b.height /\ undo'.hash = b.hash
         /\ \A r \in DOMAIN undo'.commits : r.height <= b.height
    BY <1>2, <1>3, <1>5, <1>6, <1>7, BlockStartJournal DEF Framed
  <1>11. /\ L \in Nat /\ Len(trail') = L + 1 /\ Len(history) = L
         /\ \A i \in 1 .. L : trail'[i] = trail[i] /\ Undos'[i] = Undos[i]
         /\ trail'[L + 1] = View /\ Undos'[L + 1] = undo'
    BY <1>1, AppendFacts DEF FullInv, RollbackInv, JournalsExact, Undos
  <1>12. /\ View.next_height = next_height /\ View.tip_height = tip_height
         /\ View.previous_hash = previous_hash
         /\ View.commits = db.commits /\ View.heads = db.heads
    BY DEF View
  <1>13. CurrentHeight' = b.height /\ CurrentHash' = b.hash
         /\ CurrentHeight = tip_height /\ CurrentHash = previous_hash
    BY <1>1 DEF CurrentHeight, CurrentHash
  <1>14. PastValid'
    <2>1. RecordsValid(View.tip_height, View) /\ TipValid(View.next_height, View.tip_height)
      BY <1>12, <1>13 DEF FullInv, SnapInv, RecordsValid
    <2> HIDE DEF L
    <2>2. \A i \in 1 .. L + 1 : i = L + 1 \/ i \in 1 .. L
      BY <1>11
    <2> QED BY <1>11, <2>1, <2>2 DEF FullInv, SnapInv, PastValid, L
  <1>15. Linked'
    <2>1. ASSUME NEW i \in 1 .. L
          PROVE  /\ Undos'[i].height = trail'[i].next_height
                 /\ Undos'[i].height + (L + 1 - i) = b.height
                 /\ \A r \in DOMAIN Undos'[i].commits : r.height <= Undos'[i].height
                 /\ trail'[i + 1].tip_height = Undos'[i].height
                 /\ trail'[i + 1].previous_hash = Undos'[i].hash
      <3>1. /\ Undos'[i] = Undos[i] /\ trail'[i] = trail[i]
            /\ Undos[i].height \in Nat /\ Undos[i].height = trail[i].next_height
            /\ Undos[i].height + (L - i) = tip_height
            /\ \A r \in DOMAIN Undos[i].commits : r.height <= Undos[i].height
        BY <1>11, <1>13, PastFacts DEF FullInv, SnapInv, Linked
      <3>2. tip_height # None
        BY <1>11, <1>13 DEF FullInv, SnapInv, Linked
      <3>3. Undos[i].height + (L + 1 - i) = b.height
        BY <1>4, <1>11, <3>1, <3>2
      <3>4. CASE i = L
        <4>1. trail'[i + 1] = View /\ trail # << >>
          BY <1>11, <3>4
        <4>2. Undos[L].hash = previous_hash
          BY <1>13, <4>1 DEF FullInv, SnapInv, Linked
        <4>3. Undos[L].height = tip_height
          BY <1>11, <3>1, <3>4
        <4> QED BY <1>12, <3>1, <3>3, <3>4, <4>1, <4>2, <4>3
      <3>5. CASE i # L
        <4>1. i \in 1 .. L - 1 /\ i + 1 \in 1 .. L
          BY <1>11, <3>5
        <4>2. trail'[i + 1] = trail[i + 1]
          BY <1>11, <4>1
        <4> QED BY <3>1, <3>3, <4>1, <4>2 DEF FullInv, SnapInv, Linked
      <3> QED BY <3>4, <3>5
    <2>2. /\ undo'.height = View.next_height
          /\ undo'.height + (L + 1 - (L + 1)) = b.height
      BY <1>1, <1>3, <1>10, <1>11, <1>12
    <2> HIDE DEF L
    <2>3. \A i \in 1 .. L + 1 : i = L + 1 \/ i \in 1 .. L
      BY <1>11
    <2>4. L \in Nat /\ L + 1 - 1 = L /\ Len(trail') = L + 1
      BY <1>11 DEF L
    <2>5. ASSUME NEW i \in 1 .. Len(trail')
          PROVE  /\ Undos'[i].height = trail'[i].next_height
                 /\ Undos'[i].height + (Len(trail') - i) = CurrentHeight'
                 /\ \A r \in DOMAIN Undos'[i].commits : r.height <= Undos'[i].height
      <3>1. CASE i = L + 1
        BY <3>1, <1>10, <1>11, <1>13, <2>2, <2>4 DEF L
      <3>2. CASE i \in 1 .. L
        BY <3>2, <1>13, <2>1, <2>4
      <3> QED BY <2>3, <2>4, <3>1, <3>2
    <2>6. \A i \in 1 .. Len(trail') - 1 :
             /\ trail'[i + 1].tip_height = Undos'[i].height
             /\ trail'[i + 1].previous_hash = Undos'[i].hash
      BY <2>1, <2>4
    <2>7. CurrentHeight' # None /\ Undos'[Len(trail')].hash = CurrentHash'
      BY <1>3, <1>10, <1>11, <1>13, <2>4 DEF L
    <2> QED BY <2>5, <2>6, <2>7 DEF Linked
  <1>16. TipValid(next_height', tip_height') /\ block'.height = next_height'
    BY <1>1 DEF FullInv, SnapInv
  <1> QED BY <1>9, <1>13, <1>14, <1>15, <1>16 DEF SnapInv

LEMMA SnapApply ==
    ASSUME FullInv, RollbackInv', TypeInv', HApplyTransaction
    PROVE  SnapInv'
  <1> DEFINE w == [db |-> db, undo |-> undo]
             tx == block.transactions[pos + 1]
             D == apply_transaction(w, block.height, tx)
             L == Len(trail)
  <1>1. /\ block # None /\ block' = block /\ trail' = trail /\ history' = history
        /\ next_height' = next_height /\ tip_height' = tip_height
        /\ previous_hash' = previous_hash
    BY DEF HApplyTransaction, ApplyTransaction, chainVars
  <1>2. db' = D.db /\ undo' = D.undo
    BY DEF HApplyTransaction, ApplyTransaction
  <1>3. tx \in Transaction
    BY TransactionInBlock
    DEF HApplyTransaction, ApplyTransaction, FullInv, RollbackInv, IndexInv
  <1>4. /\ block.height \in Height
    BY <1>1 DEF FullInv, TypeInv, TypeOK, Option, Block
  <1>5. Coherent(w.db) /\ PairOK(w)
    BY <1>1 DEF FullInv, RollbackInv, IndexInv, TypeInv, TypeOK, PairOK, DbOK
  <1>6. /\ L \in Nat /\ L = Len(history) + 1 /\ Undos[L] = undo /\ L \in 1 .. L
        /\ trail # << >>
    BY <1>1, UndosFacts DEF FullInv, RollbackInv, InProgress
  <1>7. Framed(w, block.height, block.hash)
    <2>1. /\ undo.height + (L - L) = block.height /\ undo.hash = block.hash
          /\ \A r \in DOMAIN undo.commits : r.height <= undo.height
      BY <1>1, <1>6 DEF FullInv, SnapInv, Linked, CurrentHeight, CurrentHash
    <2>2. undo.height = block.height
      BY <1>6, <2>1, PastFacts
    <2>3. DOMAIN undo = UndoFields
      BY <1>1 DEF FullInv, TypeInv
    <2> QED BY <2>1, <2>2, <2>3 DEF Framed
  <1>8. RecordsValid(block.height, w.db)
    BY <1>1 DEF FullInv, SnapInv, CurrentHeight
  <1>9. block.height >= activation_height
    <2>1. block.height = next_height /\ TipValid(next_height, tip_height)
      BY <1>1 DEF FullInv, SnapInv
    <2>2. tip_height \in Option(Height)
      BY DEF FullInv, TypeInv, TypeOK
    <2>3. block.height # None
      BY <1>4, ValuesAssumption
    <2> QED BY <2>1, <2>2, <2>3, ParameterFacts, ParametersAssumption
            DEF TipValid, Option, Height
  <1> HIDE DEF w, tx, D
  <1>10. RecordsValid(block.height, D.db)
    BY <1>3, <1>4, <1>5, <1>8, <1>9, TransactionValid DEF D
  <1>11. Framed(D, block.height, block.hash)
    BY <1>3, <1>4, <1>7, TransactionFramed DEF D
  <1>12. /\ \A i \in 1 .. L - 1 : Undos'[i] = Undos[i]
         /\ Undos'[L] = undo'
    <2>1. Undos' = Append(history, undo') /\ Undos = Append(history, undo)
          /\ IsSeq(history)
      BY <1>1 DEF Undos, FullInv, RollbackInv
    <2> QED BY <1>6, <2>1, AppendFacts
  <1>13. /\ undo'.height = undo.height /\ undo'.hash = undo.hash
         /\ \A r \in DOMAIN undo'.commits : r.height <= undo'.height
    BY <1>2, <1>7, <1>11 DEF Framed, w
  <1>14. CurrentHeight' = CurrentHeight /\ CurrentHash' = CurrentHash
         /\ CurrentHeight = block.height
    BY <1>1 DEF CurrentHeight, CurrentHash
  <1>15. \A i \in 1 .. L : i = L \/ i \in 1 .. L - 1
    BY <1>6
  <1>16. Linked'
    <2>1. ASSUME NEW i \in 1 .. L
          PROVE  /\ Undos'[i].height = Undos[i].height
                 /\ Undos'[i].hash = Undos[i].hash
                 /\ \A r \in DOMAIN Undos'[i].commits : r.height <= Undos'[i].height
      <3>1. CASE i = L
        BY <1>6, <1>12, <1>13, <3>1
      <3>2. CASE i \in 1 .. L - 1
        BY <1>12, <3>2 DEF FullInv, SnapInv, Linked
      <3> QED BY <1>15, <3>1, <3>2
    <2>2. \A i \in 1 .. L - 1 : i \in 1 .. L
      BY <1>6
    <2> QED BY <1>1, <1>6, <1>14, <2>1, <2>2 DEF FullInv, SnapInv, Linked
  <1>17. PastValid'
    BY <1>1 DEF FullInv, SnapInv, PastValid
  <1> QED BY <1>1, <1>2, <1>10, <1>14, <1>16, <1>17 DEF FullInv, SnapInv

LEMMA SnapEnd ==
    ASSUME FullInv, RollbackInv', TypeInv', HEndBlock
    PROVE  SnapInv'
  <1>1. /\ block # None /\ block' = None /\ db' = db /\ trail' = trail
        /\ history' = Append(history, undo)
        /\ tip_height' = block.height /\ previous_hash' = block.hash
        /\ next_height' = IF block.height < U32Max THEN block.height + 1 ELSE None
    BY DEF HEndBlock, EndBlock
  <1>2. Undos' = Undos /\ CurrentHeight' = CurrentHeight /\ CurrentHash' = CurrentHash
    BY <1>1 DEF Undos, CurrentHeight, CurrentHash
  <1>3. TipValid(next_height', tip_height')
    <2>1. block.height = next_height /\ TipValid(next_height, tip_height)
      BY <1>1 DEF FullInv, SnapInv
    <2>2. tip_height \in Option(Height) /\ block.height \in Height
      BY <1>1 DEF FullInv, TypeInv, TypeOK, Option, Block
    <2>3. block.height # None
      BY <2>2, ValuesAssumption
    <2>4. block.height >= activation_height
      BY <2>1, <2>2, <2>3, ParameterFacts, ParametersAssumption
      DEF TipValid, Option, Height
    <2> QED BY <1>1, <2>3, <2>4 DEF TipValid
  <1>4. PastValid' /\ Linked'
    BY <1>1, <1>2 DEF FullInv, SnapInv, PastValid, Linked
  <1>5. RecordsValid(CurrentHeight', db')
    BY <1>1, <1>2 DEF FullInv, SnapInv
  <1> QED BY <1>1, <1>3, <1>4, <1>5 DEF SnapInv

LEMMA SnapRollback ==
    ASSUME FullInv, RollbackInv', TypeInv', NEW hash \in Hashes, HRollbackTip(hash)
    PROVE  SnapInv'
  <1> DEFINE L == Len(trail)
             v == trail[L]
  <1>1. /\ block = None /\ history # << >> /\ block' = None
        /\ trail' = SubSeq(trail, 1, L - 1)
        /\ history' = SubSeq(history, 1, Len(history) - 1)
    BY DEF HRollbackTip, RollbackTip, callVars
  <1>2. /\ Len(history) = L /\ L \in Nat /\ L # 0 /\ Undos = history /\ Undos' = history'
    BY <1>1, UndosFacts, EmptySeq DEF FullInv, RollbackInv, JournalsExact, Undos
  <1>3. View' = v
    BY RollbackStep DEF FullInv, RollbackInv
  <1>4. /\ next_height' = v.next_height /\ tip_height' = v.tip_height
        /\ previous_hash' = v.previous_hash
        /\ db'.commits = v.commits /\ db'.heads = v.heads
    <2> HIDE DEF v
    <2> QED BY <1>3 DEF View
  <1>5. /\ Len(trail') = L - 1
        /\ \A i \in 1 .. L - 1 : trail'[i] = trail[i] /\ Undos'[i] = Undos[i]
    <2> DEFINE k == L - 1
    <2>1. IsSeq(trail) /\ IsSeq(history) /\ k \in Nat /\ k <= L /\ k + 1 - 1 = k
      BY <1>2 DEF FullInv, RollbackInv
    <2> HIDE DEF k
    <2>2. /\ Len(SubSeq(trail, 1, k)) = k
          /\ \A i \in 1 .. k : SubSeq(trail, 1, k)[i] = trail[1 + i - 1]
          /\ \A i \in 1 .. k : SubSeq(history, 1, k)[i] = history[1 + i - 1]
      BY <1>2, <2>1, SubSeqFacts
    <2> QED BY <1>1, <1>2, <2>1, <2>2 DEF k
  <1>6. /\ CurrentHeight' = v.tip_height /\ CurrentHash' = v.previous_hash
        /\ CurrentHeight = tip_height
    BY <1>1, <1>4 DEF CurrentHeight, CurrentHash
  <1>7. /\ TipValid(v.next_height, v.tip_height) /\ RecordsValid(v.tip_height, v)
    BY <1>2 DEF FullInv, SnapInv, PastValid
  <1>8. TipValid(next_height', tip_height') /\ RecordsValid(CurrentHeight', db')
    BY <1>4, <1>6, <1>7 DEF RecordsValid
  <1>9. PastValid'
    BY <1>2, <1>5 DEF FullInv, SnapInv, PastValid
  <1>10. Linked'
    <2>1. ASSUME NEW i \in 1 .. L - 1
          PROVE  /\ Undos'[i].height = trail'[i].next_height
                 /\ Undos'[i].height + (L - 1 - i) = CurrentHeight'
                 /\ \A r \in DOMAIN Undos'[i].commits : r.height <= Undos'[i].height
      <3>1. i \in 1 .. L /\ L - 1 \in 1 .. L /\ L - 1 \in 1 .. L - 1
        BY <1>2
      <3>2. /\ Undos[i].height + (L - i) = tip_height
            /\ Undos[L - 1].height + (L - (L - 1)) = tip_height
            /\ v.tip_height = Undos[L - 1].height
        BY <1>2, <1>6, <3>1 DEF FullInv, SnapInv, Linked
      <3>3. Undos[i].height \in Nat /\ Undos[L - 1].height \in Nat
        BY <3>1, PastFacts
      <3>4. Undos[i].height + (L - 1 - i) = v.tip_height
        <4> DEFINE a == Undos[i].height
                   c == Undos[L - 1].height
                   t == v.tip_height
        <4>1. /\ a \in Nat /\ c \in Nat /\ t = c /\ L \in Nat /\ i \in Nat
              /\ a + (L - i) = c + (L - (L - 1))
          BY <1>2, <3>2, <3>3
        <4> HIDE DEF a, c, t, L
        <4>2. a + (L - 1 - i) = t
          BY <4>1
        <4> QED BY <4>2 DEF a, t, L
      <3> QED BY <1>5, <1>6, <3>1, <3>4 DEF FullInv, SnapInv, Linked
    <2>2. ASSUME NEW i \in 1 .. L - 1 - 1
          PROVE  /\ trail'[i + 1].tip_height = Undos'[i].height
                 /\ trail'[i + 1].previous_hash = Undos'[i].hash
      <3>1. i \in 1 .. L - 1 /\ i + 1 \in 1 .. L - 1
        BY <1>2
      <3> QED BY <1>5, <3>1 DEF FullInv, SnapInv, Linked
    <2>3. ASSUME trail' # << >>
          PROVE  CurrentHeight' # None /\ Undos'[L - 1].hash = CurrentHash'
      <3>1. L - 1 # 0
        <4>1. IsSeq(trail') /\ Len(trail') = L - 1
          BY <1>5 DEF RollbackInv
        <4> QED BY <2>3, <4>1, EmptySeq
      <3>2. L - 1 \in 1 .. L - 1 /\ L - 1 \in 1 .. L /\ L - 1 + 1 = L
        BY <1>2, <3>1
      <3>3. Undos[L - 1].height = v.tip_height /\ Undos[L - 1].hash = v.previous_hash
        <4> DEFINE k == L - 1
        <4>1. k \in 1 .. L - 1 /\ k + 1 = L
          BY <3>2
        <4> HIDE DEF k
        <4>2. /\ trail[k + 1].tip_height = Undos[k].height
              /\ trail[k + 1].previous_hash = Undos[k].hash
          BY <4>1 DEF FullInv, SnapInv, Linked
        <4> QED BY <4>1, <4>2 DEF k
      <3>4. Undos[L - 1].height # None
        BY <3>2, PastFacts
      <3> QED BY <1>5, <1>6, <3>2, <3>3, <3>4
    <2> QED BY <1>5, <2>1, <2>2, <2>3 DEF Linked
  <1> QED BY <1>1, <1>8, <1>9, <1>10 DEF SnapInv

LEMMA SnapFinalize ==
    ASSUME FullInv, RollbackInv', TypeInv', NEW height \in Height,
           HFinalizeThrough(height)
    PROVE  SnapInv'
  <1> DEFINE L == Len(trail)
  <1>1. /\ block = None /\ block' = None /\ db' = db
        /\ next_height' = next_height /\ tip_height' = tip_height
        /\ previous_hash' = previous_hash
        /\ trail' = SubSeq(trail, L - Len(history') + 1, L)
    BY DEF HFinalizeThrough, FinalizeThrough, callVars, chainVars
  <1>2. /\ Len(history) = L /\ L \in Nat /\ Undos = history /\ Undos' = history'
    BY <1>1, UndosFacts DEF FullInv, RollbackInv, JournalsExact, Undos
  <1>3. PICK n \in 0 .. L : history' = SubSeq(history, n + 1, L)
    BY <1>2 DEF HFinalizeThrough, FinalizeThrough
  <1>4. /\ Len(trail') = L - n /\ n \in Nat /\ n <= L
        /\ \A i \in 1 .. L - n : trail'[i] = trail[n + i] /\ Undos'[i] = Undos[n + i]
    <2> DEFINE m == n + 1
    <2>1. /\ IsSeq(trail) /\ IsSeq(history) /\ m \in Nat /\ 1 <= m /\ m <= L + 1
          /\ L + 1 - m = L - n /\ \A i \in 1 .. L - n : m + i - 1 = n + i
      BY <1>2 DEF FullInv, RollbackInv
    <2> HIDE DEF m
    <2>2. /\ Len(SubSeq(history, m, L)) = L + 1 - m
          /\ \A i \in 1 .. (L + 1 - m) : SubSeq(history, m, L)[i] = history[m + i - 1]
          /\ Len(SubSeq(trail, m, L)) = L + 1 - m
          /\ \A i \in 1 .. (L + 1 - m) : SubSeq(trail, m, L)[i] = trail[m + i - 1]
      BY <1>2, <2>1, SubSeqFacts
    <2>3. L - Len(history') + 1 = m
      BY <1>2, <1>3, <2>1, <2>2 DEF m
    <2>4. trail' = SubSeq(trail, m, L) /\ Undos' = SubSeq(history, m, L)
      BY <1>1, <1>2, <1>3, <2>3 DEF m
    <2>5. n \in Nat /\ n <= L
      BY <1>2
    <2> HIDE DEF L
    <2> QED BY <1>2, <2>1, <2>2, <2>4, <2>5
  <1>5. CurrentHeight' = CurrentHeight /\ CurrentHash' = CurrentHash
    BY <1>1 DEF CurrentHeight, CurrentHash
  <1>6. \A i \in 1 .. L - n : n + i \in 1 .. L
    BY <1>2, <1>4
  <1>7. PastValid'
    BY <1>4, <1>6 DEF FullInv, SnapInv, PastValid
  <1>8. Linked'
    <2>1. ASSUME NEW i \in 1 .. L - n
          PROVE  /\ Undos'[i].height = trail'[i].next_height
                 /\ Undos'[i].height + (L - n - i) = CurrentHeight'
                 /\ \A r \in DOMAIN Undos'[i].commits : r.height <= Undos'[i].height
      <3>1. L - (n + i) = L - n - i
        BY <1>2, <1>4
      <3>2. Undos[n + i].height + (L - (n + i)) = CurrentHeight
        BY <1>6 DEF FullInv, SnapInv, Linked
      <3> QED BY <1>4, <1>5, <1>6, <3>1, <3>2 DEF FullInv, SnapInv, Linked
    <2>2. ASSUME NEW i \in 1 .. L - n - 1
          PROVE  /\ trail'[i + 1].tip_height = Undos'[i].height
                 /\ trail'[i + 1].previous_hash = Undos'[i].hash
      <3> DEFINE k == n + i
      <3>1. /\ i \in 1 .. L - n /\ i + 1 \in 1 .. L - n /\ k \in 1 .. L - 1
            /\ n + (i + 1) = k + 1
        BY <1>2, <1>4
      <3>2. trail'[i + 1] = trail[k + 1] /\ Undos'[i] = Undos[k]
        BY <1>4, <3>1
      <3> HIDE DEF k
      <3> QED BY <3>1, <3>2 DEF FullInv, SnapInv, Linked
    <2>3. ASSUME trail' # << >>
          PROVE  CurrentHeight' # None /\ Undos'[L - n].hash = CurrentHash'
      <3>1. L - n # 0
        <4>1. IsSeq(trail') /\ Len(trail') = L - n
          BY <1>4 DEF RollbackInv
        <4> QED BY <2>3, <4>1, EmptySeq
      <3>2. L - n \in 1 .. L - n /\ n + (L - n) = L /\ trail # << >>
        BY <1>2, <1>4, <3>1
      <3>3. Undos'[L - n] = Undos[L]
        BY <1>4, <3>2
      <3> QED BY <1>5, <3>2, <3>3 DEF FullInv, SnapInv, Linked
    <2> QED BY <1>4, <2>1, <2>2, <2>3 DEF Linked
  <1> QED BY <1>1, <1>5, <1>7, <1>8 DEF FullInv, SnapInv

LEMMA SnapStep == FullInv /\ [HNext]_hvars => FullInv'
  <1> SUFFICES ASSUME FullInv, [HNext]_hvars PROVE FullInv'
    OBVIOUS
  <1>1. RollbackInv' /\ TypeInv'
    BY RollbackInvStep, TypeStep, HNextIsNext DEF FullInv
  <1>2. CASE UNCHANGED hvars
    <2>1. SnapInv'
      BY <1>2 DEF hvars, vars, FullInv, SnapInv, CurrentHeight, CurrentHash,
                  PastValid, Linked, Undos
    <2> QED BY <1>1, <2>1 DEF FullInv
  <1>3. CASE HRestart
    <2>1. /\ block' = block /\ undo' = undo /\ history' = history /\ trail' = trail
          /\ next_height' = next_height /\ tip_height' = tip_height
          /\ previous_hash' = previous_hash
          /\ db'.commits = db.commits /\ db'.heads = db.heads
      BY <1>3 DEF HRestart, Restart, chainVars, callVars, rebuild_derived_indexes
    <2>2. SnapInv'
      BY <2>1 DEF FullInv, SnapInv, CurrentHeight, CurrentHash, RecordsValid,
                  PastValid, Linked, Undos
    <2> QED BY <1>1, <2>2 DEF FullInv
  <1>4. CASE HNext /\ ~HRestart
    <2>1. SnapInv'
      BY <1>1, <1>4, SnapBegin, SnapApply, SnapEnd, SnapRollback, SnapFinalize DEF HNext
    <2> QED BY <1>1, <2>1 DEF FullInv
  <1> QED BY <1>2, <1>3, <1>4

-----------------------------------------------------------------------------
(***************************************************************************)
(* The steps of the reducer, by what they do to its records.               *)
(***************************************************************************)
Upcoming == {block.transactions[j] : j \in pos + 1 .. Len(block.transactions)}

LEMMA BeginPair ==
    ASSUME FullInv, NEW b \in Block, NEW e \in SUBSET ReferencedCommit, HBeginBlock(b, e)
    PROVE  LET w == [db |-> db, undo |-> new_undo(b)]
           IN  /\ w.db = db /\ DOMAIN w.undo.heads = {}
               /\ Coherent(w.db) /\ PairOK(w)
               /\ b.height \in Height /\ MapOf(supplied(e), CommitRef, Commitments)
               /\ db' = BlockStart(w, b.height, supplied(e)).db
               /\ undo' = BlockStart(w, b.height, supplied(e)).undo
  <1> DEFINE w == [db |-> db, undo |-> new_undo(b)]
             ch == supplied(e)
  <1>1. /\ db' = BlockStart(w, b.height, ch).db /\ undo' = BlockStart(w, b.height, ch).undo
        /\ b.height = next_height
    BY DEF HBeginBlock, BeginBlock, BlockStart
  <1>2. b.height \in Height /\ MapOf(ch, CommitRef, Commitments)
    BY SuppliedType DEF Block
  <1>3. Coherent(w.db) /\ w.db = db
    BY DEF FullInv, RollbackInv, IndexInv
  <1>4. PairOK(w)
    <2>1. DbOK(db)
      BY DEF FullInv, TypeInv, TypeOK, DbOK
    <2>2. /\ MapOf(EmptyMap, CommitRef, Option(Commitments))
          /\ MapOf(EmptyMap, NameIds, Option(HeadRecord))
      BY DEF MapOf, EmptyMap
    <2>3. /\ previous_hash \in Hashes /\ next_height \in Height /\ b.hash \in Hashes
          /\ tip_height \in Option(Height)
      BY <1>1, <1>2 DEF FullInv, TypeInv, TypeOK, Block
    <2>4. UndoOK(new_undo(b)) /\ DOMAIN new_undo(b) = UndoFields
      BY <1>2, <2>2, <2>3 DEF UndoOK, new_undo, UndoFields
    <2> QED BY <2>1, <2>4 DEF PairOK
  <1>5. DOMAIN w.undo.heads = {}
    BY DEF new_undo, EmptyMap
  <1> HIDE DEF w, ch
  <1> QED BY <1>1, <1>2, <1>3, <1>4, <1>5 DEF w, ch

\* The start of a block, as a step of the heads.
LEMMA BeginHeads ==
    ASSUME FullInv, NEW b \in Block, NEW e \in SUBSET ReferencedCommit, HBeginBlock(b, e)
    PROVE  /\ \A n : n \in DOMAIN db'.heads <=>
                    /\ n \in DOMAIN db.heads
                    /\ ~ /\ Marked(db.heads[n], b.height).terminal_height # None
                         /\ Marked(db.heads[n], b.height).terminal_height
                              <= b.height - cooldown_blocks
           /\ \A n \in DOMAIN db'.heads : db'.heads[n] = Marked(db.heads[n], b.height)
  <1> DEFINE w == [db |-> db, undo |-> new_undo(b)]
  <1>1. /\ Coherent(w.db) /\ PairOK(w) /\ w.db = db
        /\ b.height \in Height /\ MapOf(supplied(e), CommitRef, Commitments)
        /\ db' = BlockStart(w, b.height, supplied(e)).db
    BY BeginPair
  <1> HIDE DEF w
  <1> QED BY <1>1, BlockStartRecords

\* The start of a block, as a step of the COMMITs.
LEMMA BeginCommits ==
    ASSUME FullInv, NEW b \in Block, NEW e \in SUBSET ReferencedCommit, HBeginBlock(b, e)
    PROVE  LET ch == supplied(e)
           IN  /\ \A r : r \in DOMAIN db'.commits <=>
                    \/ r \in DOMAIN db.commits /\ ~(r.height <= b.height - commit_ttl_blocks)
                    \/ r \in DOMAIN ch
               /\ \A r \in DOMAIN db'.commits :
                    db'.commits[r] = IF r \in DOMAIN ch THEN ch[r] ELSE db.commits[r]
  <1> DEFINE w == [db |-> db, undo |-> new_undo(b)]
  <1>1. /\ Coherent(w.db) /\ PairOK(w) /\ w.db = db
        /\ b.height \in Height /\ MapOf(supplied(e), CommitRef, Commitments)
        /\ db' = BlockStart(w, b.height, supplied(e)).db
    BY BeginPair
  <1> HIDE DEF w
  <1> QED BY <1>1, BlockStartCommits

\* Which names the start of a block journals.
LEMMA BeginWithin ==
    ASSUME FullInv, NEW b \in Block, NEW e \in SUBSET ReferencedCommit, HBeginBlock(b, e),
           NEW S, DOMAIN db.heads \subseteq S
    PROVE  DOMAIN db'.heads \subseteq S /\ DOMAIN undo'.heads \subseteq S
  <1> DEFINE w == [db |-> db, undo |-> new_undo(b)]
  <1>1. /\ Coherent(w.db) /\ DOMAIN w.undo = UndoFields
        /\ w.db = db /\ DOMAIN w.undo.heads = {}
        /\ db' = BlockStart(w, b.height, supplied(e)).db
        /\ undo' = BlockStart(w, b.height, supplied(e)).undo
    BY BeginPair DEF PairOK
  <1> HIDE DEF w
  <1>2. Within(w, S)
    BY <1>1 DEF Within
  <1>3. Within(BlockStart(w, b.height, supplied(e)), S)
    BY <1>1, <1>2, BlockStartWithin
  <1> QED BY <1>1, <1>3 DEF Within

\* Marking a head changes only when it ends.
LEMMA MarkedFacts ==
    ASSUME NEW head \in HeadRecord, NEW height
    PROVE  /\ Marked(head, height) \in HeadRecord
           /\ Marked(head, height).producer = head.producer
           /\ Marked(head, height).commitment = head.commitment
           /\ Marked(head, height).future_nf = head.future_nf
           /\ Marked(head, height).expiry_height = head.expiry_height
           /\ Marked(head, height).terminal_height = None => Marked(head, height) = head
           /\ \/ Marked(head, height) = head
              \/ /\ head.terminal_height = None /\ head.expiry_height <= height
                 /\ Marked(head, height).terminal_height = head.expiry_height
  <1>1. head.expiry_height \in Height /\ head.expiry_height # None
    BY ValuesAssumption DEF HeadRecord
  <1>2. CASE head.terminal_height = None /\ head.expiry_height <= height
    BY <1>1, <1>2, EndedAtType DEF Marked
  <1>3. CASE ~(head.terminal_height = None /\ head.expiry_height <= height)
    BY <1>3 DEF Marked
  <1> QED BY <1>2, <1>3

LEMMA ApplyPair ==
    ASSUME FullInv, HApplyTransaction
    PROVE  LET w == [db |-> db, undo |-> undo]
               tx == block.transactions[pos + 1]
           IN  /\ w.db = db /\ w.undo = undo
               /\ Coherent(w.db) /\ PairOK(w) /\ EpochsKept(w.db)
               /\ tx \in Transaction /\ block.height \in Height
               /\ db' = apply_transaction(w, block.height, tx).db
               /\ undo' = apply_transaction(w, block.height, tx).undo
  <1> DEFINE w == [db |-> db, undo |-> undo]
             tx == block.transactions[pos + 1]
             D == apply_transaction(w, block.height, tx)
  <1>1. block # None
    BY DEF HApplyTransaction, ApplyTransaction
  <1>2. db' = D.db /\ undo' = D.undo
    BY DEF HApplyTransaction, ApplyTransaction
  <1>3. tx \in Transaction
    BY TransactionInBlock
    DEF HApplyTransaction, ApplyTransaction, FullInv, RollbackInv, IndexInv
  <1>4. block.height \in Height
    BY <1>1 DEF FullInv, TypeInv, TypeOK, Option, Block
  <1>5. Coherent(w.db) /\ PairOK(w) /\ w.db = db /\ w.undo = undo
    BY <1>1 DEF FullInv, RollbackInv, IndexInv, TypeInv, TypeOK, PairOK, DbOK
  <1>6. EpochsKept(w.db)
    BY <1>1, <1>5 DEF FullInv, SnapInv, RecordsValid, HeadValid, EpochsKept
  <1> HIDE DEF w, tx, D
  <1> QED BY <1>2, <1>3, <1>4, <1>5, <1>6 DEF w, tx, D

\* A transaction of the block in progress, as a step of the heads.
LEMMA ApplyHeads ==
    ASSUME FullInv, HApplyTransaction
    PROVE  LET tx == block.transactions[pos + 1]
               op == tx.operation
               height == block.height
           IN  /\ block # None /\ tx \in Transaction /\ tx \in Upcoming
               /\ block' = block /\ Upcoming' \subseteq Upcoming
               /\ tip_height' = tip_height
               /\ \A n : n \in DOMAIN db'.heads <=>
                           \/ n \in DOMAIN db.heads
                           \/ Installs(db, height, tx) /\ n = op.name
               /\ Installs(db, height, tx) => db'.heads[op.name] = NewHead(height, tx)
               /\ \A n \in DOMAIN db.heads :
                    ~(Installs(db, height, tx) /\ n = op.name) =>
                      db'.heads[n] = IF /\ db.heads[n].terminal_height = None
                                        /\ db.heads[n].future_nf \in Nullifiers(tx)
                                     THEN EndedAt(db.heads[n], height) ELSE db.heads[n]
  <1> DEFINE w == [db |-> db, undo |-> undo]
             tx == block.transactions[pos + 1]
             D == apply_transaction(w, block.height, tx)
  <1>1. /\ block # None /\ block' = block /\ pos' = pos + 1
        /\ tip_height' = tip_height /\ pos < Len(block.transactions)
    BY DEF HApplyTransaction, ApplyTransaction, chainVars
  <1>2. /\ db' = D.db /\ tx \in Transaction /\ block.height \in Height
        /\ Coherent(w.db) /\ PairOK(w) /\ w.db = db /\ EpochsKept(w.db)
    BY ApplyPair
  <1>7. /\ pos \in Nat /\ Len(block.transactions) \in Nat
    <2>1. block.transactions \in Seq(Transaction)
      BY <1>1 DEF FullInv, TypeInv, TypeOK, Option, Block
    <2> QED BY <2>1 DEF FullInv, TypeInv, TypeOK
  <1>8. tx \in Upcoming /\ Upcoming' \subseteq Upcoming
    <2>1. \A j \in pos + 1 + 1 .. Len(block.transactions) :
             j \in pos + 1 .. Len(block.transactions)
      BY <1>7
    <2>2. pos + 1 \in pos + 1 .. Len(block.transactions)
      BY <1>1, <1>7
    <2> QED BY <1>1, <2>1, <2>2 DEF Upcoming
  <1> HIDE DEF w, tx
  <1>9. LET H == w.db.heads
            op == tx.operation
        IN  /\ \A n : n \in DOMAIN D.db.heads <=>
                        \/ n \in DOMAIN H
                        \/ Installs(w.db, block.height, tx) /\ n = op.name
            /\ Installs(w.db, block.height, tx) =>
                 D.db.heads[op.name] = NewHead(block.height, tx)
            /\ \A n \in DOMAIN H :
                 ~(Installs(w.db, block.height, tx) /\ n = op.name) =>
                   D.db.heads[n] = IF /\ H[n].terminal_height = None
                                      /\ H[n].future_nf \in Nullifiers(tx)
                                   THEN EndedAt(H[n], block.height) ELSE H[n]
    BY <1>2, TransactionHeads
  <1> HIDE DEF D
  <1> QED BY <1>1, <1>2, <1>8, <1>9 DEF tx

\* The same transaction, as a step of the COMMITs and of the journal.
LEMMA ApplyCommits ==
    ASSUME FullInv, HApplyTransaction
    PROVE  LET tx == block.transactions[pos + 1]
               ref == [height |-> block.height, tx_index |-> tx.tx_index, txid |-> tx.txid]
               stores == tx.operation # None /\ tx.operation.kind = "Commit"
           IN  /\ ~stores => db'.commits = db.commits
               /\ stores => /\ \A r : r \in DOMAIN db'.commits <=>
                                        r \in DOMAIN db.commits \/ r = ref
                            /\ db'.commits[ref] = tx.operation.commitment
                            /\ \A r \in DOMAIN db.commits :
                                  r # ref => db'.commits[r] = db.commits[r]
  BY ApplyPair, StoredCommits

LEMMA ApplyWithin ==
    ASSUME FullInv, HApplyTransaction, NEW S,
           DOMAIN db.heads \subseteq S, DOMAIN undo.heads \subseteq S,
           LET tx == block.transactions[pos + 1]
           IN  Installs(db, block.height, tx) => tx.operation.name \in S
    PROVE  DOMAIN db'.heads \subseteq S /\ DOMAIN undo'.heads \subseteq S
  <1> DEFINE w == [db |-> db, undo |-> undo]
             tx == block.transactions[pos + 1]
  <1>1. /\ Coherent(w.db) /\ DOMAIN w.undo = UndoFields
        /\ w.db = db /\ w.undo = undo
        /\ tx \in Transaction /\ block.height \in Height
        /\ db' = apply_transaction(w, block.height, tx).db
        /\ undo' = apply_transaction(w, block.height, tx).undo
    BY ApplyPair DEF PairOK
  <1> HIDE DEF w, tx
  <1>2. Within(w, S)
    BY <1>1 DEF Within
  <1>3. Installs(w.db, block.height, tx) => tx.operation.name \in S
    BY <1>1 DEF tx
  <1>4. Within(apply_transaction(w, block.height, tx), S)
    BY <1>1, <1>2, <1>3, TransactionWithin
  <1> QED BY <1>1, <1>4 DEF Within

\* The heights of the past views lie below the present one.
LEMMA PastHeights ==
    ASSUME FullInv, NEW v \in Elems(trail)
    PROVE  /\ v.next_height \in Nat /\ v.next_height # None
           /\ CurrentHeight \in Nat /\ CurrentHeight # None
           /\ v.next_height <= CurrentHeight
           /\ block = None => v.next_height # next_height
  <1>1. PICK i \in 1 .. Len(trail) : v = trail[i]
    BY DEF Elems
  <1>2. /\ Undos[i].height \in Nat /\ Undos[i].height # None
        /\ v.next_height = Undos[i].height
    BY <1>1, PastFacts
  <1>3. /\ Undos[i].height + (Len(trail) - i) = CurrentHeight
        /\ Len(trail) \in Nat /\ CurrentHeight # None
        /\ TipValid(next_height, tip_height)
    <2>1. trail # << >> /\ Len(trail) \in Nat
      BY UndosFacts DEF FullInv, RollbackInv
    <2> QED BY <2>1 DEF FullInv, SnapInv, Linked
  <1>4. CurrentHeight \in Nat /\ v.next_height <= CurrentHeight
    BY <1>2, <1>3
  <1>5. block = None => v.next_height # next_height
    BY <1>2, <1>3, <1>4 DEF CurrentHeight, TipValid
  <1> QED BY <1>2, <1>3, <1>4, <1>5

\* A rollback makes the last past view present.
LEMMA RolledBack ==
    ASSUME FullInv, NEW hash \in Hashes, HRollbackTip(hash)
    PROVE  /\ View' \in Elems(trail) /\ View'.next_height = tip_height
           /\ Elems(trail') \subseteq Elems(trail)
           /\ Elems(history') \subseteq Elems(history)
           /\ block = None /\ block' = None
  <1> DEFINE L == Len(trail)
             k == L - 1
  <1>1. /\ block = None /\ history # << >> /\ block' = None
        /\ trail' = SubSeq(trail, 1, L - 1)
        /\ history' = SubSeq(history, 1, Len(history) - 1)
    BY DEF HRollbackTip, RollbackTip, callVars
  <1>2. /\ L \in Nat /\ L # 0 /\ Len(history) = L
    BY <1>1, UndosFacts, EmptySeq DEF FullInv, RollbackInv, JournalsExact, Undos
  <1>3. View' = trail[L]
    <2>1. IndexInv'
      BY IndexStep DEF FullInv, RollbackInv, Next, HRollbackTip
    <2> QED BY <2>1, RollbackStep DEF FullInv
  <1>4. trail[L].next_height = tip_height
    <2>1. /\ L \in 1 .. L /\ L - L = 0
      BY <1>2
    <2>2. /\ Undos[L].height \in Nat /\ trail[L].next_height = Undos[L].height
      BY <2>1, PastFacts
    <2>3. Undos[L].height + (L - L) = tip_height
      BY <1>1, <2>1 DEF FullInv, SnapInv, Linked, CurrentHeight
    <2> QED BY <2>1, <2>2, <2>3
  <1>5. Elems(trail') \subseteq Elems(trail) /\ Elems(history') \subseteq Elems(history)
    <2>1. /\ IsSeq(trail) /\ IsSeq(history) /\ k \in Nat /\ 1 <= k + 1 /\ k <= L
          /\ trail' = SubSeq(trail, 1, k) /\ history' = SubSeq(history, 1, k)
      BY <1>1, <1>2 DEF FullInv, RollbackInv
    <2> HIDE DEF k
    <2> QED BY <1>2, <2>1, ElemsSubSeq
  <1>6. View' \in Elems(trail)
    BY <1>2, <1>3 DEF Elems
  <1> QED BY <1>1, <1>3, <1>4, <1>5, <1>6

\* Finalization forgets past views and their journals, and nothing else.
LEMMA Finalized ==
    ASSUME FullInv, NEW height \in Height, HFinalizeThrough(height)
    PROVE  /\ View' = View /\ block = None /\ block' = None
           /\ Elems(trail') \subseteq Elems(trail)
           /\ Elems(history') \subseteq Elems(history)
  <1> DEFINE L == Len(trail)
  <1>1. block = None /\ block' = None
    BY DEF HFinalizeThrough, FinalizeThrough, callVars
  <1>2. /\ L \in Nat /\ Len(history) = L /\ IsSeq(trail) /\ IsSeq(history)
    BY <1>1, UndosFacts DEF FullInv, RollbackInv, JournalsExact, Undos
  <1>3. IndexInv'
    BY IndexStep DEF FullInv, RollbackInv, Next, HFinalizeThrough
  <1>4. View' = View /\ \E n \in 0 .. L : trail' = SubSeq(trail, n + 1, L)
    BY <1>3, FinalizeStep DEF FullInv
  <1>5. \E n \in 0 .. L : history' = SubSeq(history, n + 1, L)
    BY <1>2 DEF HFinalizeThrough, FinalizeThrough
  <1>6. ASSUME NEW s, IsSeq(s), Len(s) = L, NEW n \in 0 .. L
        PROVE  Elems(SubSeq(s, n + 1, L)) \subseteq Elems(s)
    <2> DEFINE m == n + 1
    <2>1. m \in Nat /\ 1 <= m /\ m <= L + 1
      BY <1>2
    <2> HIDE DEF m, L
    <2>2. Elems(SubSeq(s, m, L)) \subseteq Elems(s)
      BY <1>2, <1>6, <2>1, ElemsSubSeq
    <2> QED BY <2>2 DEF m
  <1> QED BY <1>1, <1>2, <1>4, <1>5, <1>6

-----------------------------------------------------------------------------
(***************************************************************************)
(* The checks of load_snapshot.                                            *)
(***************************************************************************)
\* A value the journal holds is the one of the view it leads back to.
LEMMA JournaledValues ==
    ASSUME NEW map, NEW journal, NEW k \in DOMAIN journal, journal[k] # None
    PROVE  /\ k \in DOMAIN Updated(map, journal)
           /\ Updated(map, journal)[k] = journal[k]
  BY DEF Updated

LEMMA UndoAccepted ==
    ASSUME FullInv, block = None, NEW i \in 1 .. Len(history)
    PROVE  UndoValid(tip_height, history[i])
  <1> DEFINE u == history[i]
             v == trail[i]
             next == IF i = Len(trail) THEN View ELSE trail[i + 1]
             L == Len(trail)
  <1>1. Undos = history /\ Len(history) = L /\ L \in Nat
    BY UndosFacts DEF FullInv, RollbackInv, JournalsExact
  <1>2. /\ u.height \in Nat /\ u.height # None /\ v.next_height = u.height
        /\ u.previous_next_height = u.height
        /\ u.previous_tip_height = v.tip_height
        /\ v.tip_height \in Option(Height)
        /\ TipValid(v.next_height, v.tip_height)
    BY <1>1, PastFacts
  <1>3. /\ u.height + (L - i) = tip_height /\ tip_height # None
        /\ \A r \in DOMAIN u.commits : r.height <= u.height
        /\ RecordsValid(v.tip_height, v)
    BY <1>1 DEF FullInv, SnapInv, Linked, PastValid, CurrentHeight
  <1>4. u.height <= tip_height
    BY <1>1, <1>2, <1>3
  <1>5. u.previous_tip_height = IF u.height = activation_height THEN None
                                ELSE u.height - 1
    BY <1>2, ParameterFacts, ParametersAssumption DEF TipValid, Option, Height
  <1>6. v = Rewound(next, u)
    BY <1>1 DEF FullInv, RollbackInv, JournalsExact
  <1> HIDE DEF u, v, next
  <1>7. v.commits = Updated(next.commits, u.commits)
        /\ v.heads = Updated(next.heads, u.heads)
    BY <1>6 DEF Rewound
  <1>8. \A r \in DOMAIN u.commits :
           u.commits[r] # None => CommitValid(u.previous_tip_height, r)
    BY <1>2, <1>3, <1>7, JournaledValues DEF RecordsValid
  <1>9. \A n \in DOMAIN u.heads :
           u.heads[n] # None => HeadValid(u.previous_tip_height, u.heads[n])
    BY <1>2, <1>3, <1>7, JournaledValues DEF RecordsValid
  <1>10. UndoValid(tip_height, u)
    BY <1>2, <1>3, <1>4, <1>5, <1>8, <1>9 DEF UndoValid
  <1> QED BY <1>10 DEF u

LEMMA HistoryAccepted ==
    ASSUME FullInv, block = None
    PROVE  HistoryValid(tip_height, previous_hash, history)
  <1> DEFINE L == Len(trail)
  <1>1. Undos = history /\ Len(history) = L /\ L \in Nat
    BY UndosFacts DEF FullInv, RollbackInv, JournalsExact
  <1>2. SUFFICES ASSUME history # << >>
                 PROVE  /\ history[L].height = tip_height
                        /\ history[L].hash = previous_hash
                        /\ \A i \in 1 .. L - 1 :
                              /\ history[i].height + 1 = history[i + 1].height
                              /\ history[i + 1].previous_hash = history[i].hash
    BY <1>1 DEF HistoryValid
  <1>3. L # 0 /\ L \in 1 .. L /\ trail # << >>
    <2>1. L # 0
      BY <1>1, <1>2, EmptySeq DEF FullInv, RollbackInv
    <2> QED BY <1>1, <2>1
  <1>4. history[L].height = tip_height
    <2>1. history[L].height + (L - L) = tip_height
      BY <1>1, <1>3 DEF FullInv, SnapInv, Linked, CurrentHeight
    <2> QED BY <1>1, <1>3, <2>1, PastFacts
  <1>5. history[L].hash = previous_hash
    BY <1>1, <1>3 DEF FullInv, SnapInv, Linked, CurrentHash
  <1>6. ASSUME NEW i \in 1 .. L - 1
        PROVE  /\ history[i].height + 1 = history[i + 1].height
               /\ history[i + 1].previous_hash = history[i].hash
    <2> DEFINE j == i + 1
    <2>1. i \in 1 .. L /\ j \in 1 .. L /\ j = i + 1
      BY <1>1
    <2>2. /\ history[i].height + (L - i) = tip_height
          /\ trail[i + 1].previous_hash = history[i].hash
      BY <1>1, <2>1 DEF FullInv, SnapInv, Linked, CurrentHeight
    <2> HIDE DEF j
    <2>3. history[j].height + (L - j) = tip_height
      BY <1>1, <2>1 DEF FullInv, SnapInv, Linked, CurrentHeight
    <2>4. /\ history[i].height \in Nat /\ history[j].height \in Nat
          /\ trail[j].previous_hash = history[j].previous_hash
      BY <1>1, <2>1, PastFacts
    <2> QED BY <1>1, <2>1, <2>2, <2>3, <2>4
  <1> QED BY <1>4, <1>5, <1>6

LEMMA FullAccepted == FullInv => SnapshotAccepted
  <1> SUFFICES ASSUME FullInv, block = None PROVE SnapshotValid
    BY DEF SnapshotAccepted
  <1>1. TipValid(next_height, tip_height) /\ RecordsValid(tip_height, db)
    BY DEF FullInv, SnapInv, CurrentHeight
  <1>2. \A i \in 1 .. Len(history) : UndoValid(tip_height, history[i])
    BY UndoAccepted
  <1> QED BY <1>1, <1>2, HistoryAccepted DEF SnapshotValid

\* The snapshot of an idle reducer loads, whatever blocks, rollbacks,
\* finalizations and restarts led there: load_snapshot's checks of the tip, of
\* each record and of each journal against its own parent never reject what
\* save_snapshot wrote.
THEOREM SnapshotsLoad == HSpec => []SnapshotAccepted
  BY FullAccepted, SnapInit, SnapStep, PTL DEF HSpec
=============================================================================
