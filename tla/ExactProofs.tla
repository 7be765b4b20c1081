---------------------------- MODULE ExactProofs ----------------------------
(***************************************************************************)
(* An exact resolver agrees with complete replay on its name, keeps only   *)
(* canonical COMMITs, and its snapshots load, on every chain and with      *)
(* whatever the host fetched.                                              *)
(*                                                                         *)
(* What a transaction does to one name depends on that name's head and on  *)
(* the COMMIT its REVEAL names only.  So the two replays can be compared   *)
(* view by view: the present ones, also in the middle of a block, and any  *)
(* two past ones at the same height, to which a rollback may return.       *)
(*                                                                         *)
(* The second half is about transport in front of two resolvers: every     *)
(* head and COMMIT of every view, past ones included, is traced to the     *)
(* transaction of the branch that published it.  From that, a head's       *)
(* producer stands alone, no spend goes unseen, following references is    *)
(* one of the ways a host may supply an exact resolver, and the position   *)
(* computed for a bond is its leaf in the note commitment tree.            *)
(***************************************************************************)
EXTENDS Transport, ReducerProofs

\* The resolver's reducer with everything proved of a reducer.
X == INSTANCE ReducerProofs WITH
    next_height <- x_next_height, tip_height <- x_tip_height,
    previous_hash <- x_previous_hash, db <- x_db, history <- x_history,
    block <- x_block, pos <- x_pos, undo <- x_undo, trail <- x_trail

\* x is the resolver's view where the complete replay has the view v.
Twin(v, x) ==
    /\ x.next_height = v.next_height /\ x.tip_height = v.tip_height
    /\ x.previous_hash = v.previous_hash
    /\ DOMAIN x.heads \subseteq {requested}
    /\ Get(x.heads, requested) = Get(v.heads, requested)
    /\ \A r \in DOMAIN x.commits : r \in DOMAIN v.commits /\ v.commits[r] = x.commits[r]

\* xt is what the resolver is given of the transaction tx.
Unread(tx) == [tx EXCEPT !.operation = None]

Filters(xt, tx, height) ==
    /\ xt = tx \/ xt = Unread(tx)
    /\ xt.operation # None => relevant(xt.operation)
    /\ (/\ tx.operation # None /\ tx.operation.kind # "Commit"
        /\ tx.operation.name = requested /\ accepts_operation(requested, height))
         => xt = tx

\* The COMMIT a coming REVEAL may use is there, and nothing that a coming
\* COMMIT would overwrite.
Prepared(xt, height) ==
    /\ (xt.operation # None /\ xt.operation.kind = "Reveal") =>
          LET r == xt.operation.commit
          IN  (r \in DOMAIN db.commits /\ accepts_commit(r.height, height))
                => r \in DOMAIN x_db.commits
    /\ \A r \in DOMAIN x_db.commits : r.height = height => r.tx_index < xt.tx_index

BlockTwin ==
    /\ x_block.height = block.height /\ x_block.hash = block.hash
    /\ x_pos = pos
    /\ Canonical(block)
    /\ Len(x_block.transactions) = Len(block.transactions)
    /\ \A i \in 1 .. Len(block.transactions) :
          Filters(x_block.transactions[i], block.transactions[i], block.height)
    /\ \A i \in pos + 1 .. Len(block.transactions) :
          Prepared(x_block.transactions[i], block.height)

TwinInv ==
    /\ Twin(View, X!View)
    /\ \A v \in Elems(trail), x \in Elems(x_trail) :
          x.next_height = v.next_height => Twin(v, x)
    /\ x_block = None <=> block = None
    /\ block # None => BlockTwin
    /\ \A u \in Elems(x_history) : DOMAIN u.heads \subseteq {requested}
    /\ x_block # None => DOMAIN x_undo.heads \subseteq {requested}

ExactInv == FullInv /\ X!FullInv /\ TwinInv

-----------------------------------------------------------------------------
(***************************************************************************)
(* The resolver's steps are steps of X, whose definitions are those of the *)
(* reducer once more.                                                      *)
(***************************************************************************)
LEMMA SameValues ==
    /\ X!Height = Height /\ (X!Valid <=> Valid)
    /\ X!HeadRecord = HeadRecord /\ X!Block = Block /\ X!Operation = Operation
    /\ X!Transaction = Transaction /\ X!CommitRef = CommitRef
    /\ X!ReferencedCommit = ReferencedCommit
    /\ \A S : X!Option(S) = Option(S)
  BY DEF Height, X!Height, Valid, X!Valid, HeadRecord, X!HeadRecord, Block, X!Block,
         Transaction, X!Transaction, Operation, X!Operation, CommitRef, X!CommitRef,
         ReferencedCommit, X!ReferencedCommit, StateRef, X!StateRef, Action, X!Action, Option, X!Option

LEMMA SameMaps ==
    /\ \A d, c : Exact!ReplaceHeads(d, c) = X!ReplaceHeads(d, c)
    /\ \A d, c : Exact!ReplaceCommits(d, c) = X!ReplaceCommits(d, c)
    /\ \A j, m, k : Exact!Journaled(j, m, k) = X!Journaled(j, m, k)
    /\ \A t, h : Exact!Through(t, h) = X!Through(t, h)
  BY DEF Exact!ReplaceHeads, X!ReplaceHeads, Exact!ReplaceCommits, X!ReplaceCommits,
         Exact!Journaled, X!Journaled, Exact!Through, X!Through, Exact!Updated,
         X!Updated, Exact!Get, X!Get, Exact!ByNf, X!ByNf, Exact!ByExpiry,
         X!ByExpiry, Exact!ByTerminal, X!ByTerminal, Exact!ByHeight, X!ByHeight

LEMMA SameRecords ==
    /\ \A w, k : Exact!remember_head(w, k) = X!remember_head(w, k)
    /\ \A w, k : Exact!remember_commit(w, k) = X!remember_commit(w, k)
    /\ \A w, c : Exact!replace_head(w, c) = X!replace_head(w, c)
    /\ \A w, c : Exact!replace_commit(w, c) = X!replace_commit(w, c)
  BY SameMaps
  DEF Exact!remember_head, X!remember_head, Exact!remember_commit,
         X!remember_commit, Exact!replace_head, X!replace_head,
         Exact!replace_commit, X!replace_commit

LEMMA SameLifecycle ==
    /\ \A w, h : Exact!mark_expired(w, h) = X!mark_expired(w, h)
    /\ \A w, h : Exact!compact_claimable(w, h) = X!compact_claimable(w, h)
    /\ \A w, h : Exact!prune_commits(w, h) = X!prune_commits(w, h)
    /\ \A w, c : Exact!insert_supplied(w, c) = X!insert_supplied(w, c)
  BY SameMaps, SameRecords
  DEF Exact!mark_expired, X!mark_expired, Exact!compact_claimable,
         X!compact_claimable, Exact!prune_commits, X!prune_commits,
         Exact!insert_supplied, X!insert_supplied

LEMMA SameChecks ==
    /\ \A b : Exact!Canonical(b) <=> X!Canonical(b)
    /\ \A b, e : Exact!EvidenceAdmissible(b, e) <=> X!EvidenceAdmissible(b, e)
    /\ \A b : Exact!new_undo(b) = X!new_undo(b)
    /\ \A e : Exact!supplied(e) = X!supplied(e)
  BY DEF Exact!Canonical, X!Canonical, Exact!EvidenceAdmissible,
         X!EvidenceAdmissible, Exact!RevealReferences, X!RevealReferences,
         Exact!new_undo, X!new_undo, Exact!EmptyMap, X!EmptyMap, Exact!supplied,
         X!supplied

LEMMA SameClauses ==
    /\ \A d, h, t : Exact!RevealAccepted(d, h, t) <=> X!RevealAccepted(d, h, t)
    /\ \A d, h, t : Exact!RefreshAccepted(d, h, t) <=> X!RefreshAccepted(d, h, t)
    /\ \A h, t : Exact!NewHead(h, t) = X!NewHead(h, t)
    /\ \A t : Exact!Nullifiers(t) = X!Nullifiers(t)
  BY DEF Exact!RevealAccepted, X!RevealAccepted, Exact!RefreshAccepted,
         X!RefreshAccepted, Exact!NewHead, X!NewHead, Exact!Nullifiers,
         X!Nullifiers, Exact!RevealStatement, X!RevealStatement,
         Exact!RefreshStatement, X!RefreshStatement, Exact!HasAction, X!HasAction,
         Exact!lifecycle, X!lifecycle, Exact!terminal_at, X!terminal_at,
         Exact!is_claimable, X!is_claimable, Exact!epoch, X!epoch, Exact!expiry,
         X!expiry, Exact!expiry_fits, X!expiry_fits, Exact!accepts_operation,
         X!accepts_operation, Exact!accepts_commit, X!accepts_commit, Exact!window,
         X!window, Exact!window_fits, X!window_fits, Exact!contains, X!contains,
         Exact!offset, X!offset

LEMMA SameOperations ==
    /\ \A w, h, t : Exact!apply_commit(w, h, t) = X!apply_commit(w, h, t)
    /\ \A w, h, t : Exact!apply_reveal(w, h, t) = X!apply_reveal(w, h, t)
    /\ \A w, h, t : Exact!apply_refresh(w, h, t) = X!apply_refresh(w, h, t)
  BY SameRecords, SameClauses
  DEF Exact!apply_commit, X!apply_commit, Exact!apply_reveal, X!apply_reveal,
         Exact!apply_refresh, X!apply_refresh, Exact!InstallHead, X!InstallHead

LEMMA SameTransaction ==
    \A w, h, t : Exact!apply_transaction(w, h, t) = X!apply_transaction(w, h, t)
  <1> TAKE w, h, t
  <1>1. Exact!apply_operation(w, h, t) = X!apply_operation(w, h, t)
    <2>1. /\ Exact!apply_commit(w, h, t) = X!apply_commit(w, h, t)
          /\ Exact!apply_reveal(w, h, t) = X!apply_reveal(w, h, t)
          /\ Exact!apply_refresh(w, h, t) = X!apply_refresh(w, h, t)
      BY SameOperations
    <2> QED BY <2>1 DEF Exact!apply_operation, X!apply_operation
  <1>2. Exact!Nullifiers(t) = X!Nullifiers(t)
    BY SameClauses
  <1> DEFINE after == X!apply_operation(w, h, t)
             spent == {p[2] : p \in {q \in w.db.heads_by_future_nf :
                                       q[1] \in X!Nullifiers(t)}}
             heads == after.db.heads
             current == {n \in spent : /\ n \in DOMAIN heads
                                       /\ heads[n].producer = w.db.heads[n].producer}
             ending == {n \in current : heads[n].terminal_height = None}
             ch == [n \in ending |-> [heads[n] EXCEPT !.terminal_height = h]]
  <1>3. X!apply_transaction(w, h, t) = X!replace_head(X!remember_head(after, current), ch)
    BY DEF X!apply_transaction
  <1>4. Exact!apply_transaction(w, h, t) =
          Exact!replace_head(Exact!remember_head(after, current), ch)
    BY <1>1, <1>2 DEF Exact!apply_transaction
  <1> HIDE DEF after, current, ch
  <1> QED BY <1>3, <1>4, SameRecords

LEMMA BeginSame == \A b, e : Exact!HBeginBlock(b, e) => X!HBeginBlock(b, e)
  BY SameLifecycle, SameChecks
  DEF Exact!HBeginBlock, X!HBeginBlock, Exact!BeginBlock, X!BeginBlock,
         Exact!chainVars, X!chainVars, Exact!View, X!View

LEMMA ApplySame == Exact!HApplyTransaction => X!HApplyTransaction
  BY SameTransaction
  DEF Exact!HApplyTransaction, X!HApplyTransaction, Exact!ApplyTransaction,
         X!ApplyTransaction, Exact!chainVars, X!chainVars

LEMMA EndSame == Exact!HEndBlock => X!HEndBlock
  BY DEF Exact!HEndBlock, X!HEndBlock, Exact!EndBlock, X!EndBlock

LEMMA RollbackSame == \A hash : Exact!HRollbackTip(hash) => X!HRollbackTip(hash)
  BY SameMaps
  DEF Exact!HRollbackTip, X!HRollbackTip, Exact!RollbackTip, X!RollbackTip,
         Exact!callVars, X!callVars, Exact!Restored, X!Restored

LEMMA FinalizeSame == \A height : Exact!HFinalizeThrough(height) => X!HFinalizeThrough(height)
  BY DEF Exact!HFinalizeThrough, X!HFinalizeThrough, Exact!FinalizeThrough,
         X!FinalizeThrough, Exact!chainVars, X!chainVars, Exact!callVars,
         X!callVars

LEMMA SnapshotSame == Exact!SnapshotValid <=> X!SnapshotValid
  BY DEF Exact!SnapshotValid, X!SnapshotValid, Exact!TipValid, X!TipValid,
         Exact!RecordsValid, X!RecordsValid, Exact!CommitValid, X!CommitValid,
         Exact!HeadValid, X!HeadValid, Exact!UndoValid, X!UndoValid,
         Exact!HistoryValid, X!HistoryValid, Exact!is_claimable, X!is_claimable,
         Exact!terminal_at, X!terminal_at, Exact!epoch, X!epoch, Exact!expiry,
         X!expiry, Exact!expiry_fits, X!expiry_fits

LEMMA RestartSame == Exact!HRestart => X!HRestart
  BY SnapshotSame
  DEF Exact!HRestart, X!HRestart, Exact!Restart, X!Restart, Exact!chainVars,
         X!chainVars, Exact!callVars, X!callVars, Exact!rebuild_derived_indexes,
         X!rebuild_derived_indexes, Exact!ByNf, X!ByNf, Exact!ByExpiry, X!ByExpiry,
         Exact!ByTerminal, X!ByTerminal, Exact!ByHeight, X!ByHeight

LEMMA InitSame == Exact!HInit => X!HInit
  BY DEF Exact!HInit, X!HInit, Exact!Init, X!Init, Exact!EmptyMap, X!EmptyMap

-----------------------------------------------------------------------------
(***************************************************************************)
(* The steps of the resolver's reducer, in the words of the complete one.  *)
(***************************************************************************)
LEMMA SameWords ==
    /\ \A d, h, t : X!Installs(d, h, t) <=> Installs(d, h, t)
    /\ \A h, t : X!NewHead(h, t) = NewHead(h, t)
    /\ \A t : X!Nullifiers(t) = Nullifiers(t)
    /\ \A head, h : X!EndedAt(head, h) = EndedAt(head, h)
    /\ \A head, h : X!Marked(head, h) = Marked(head, h)
    /\ \A c : X!supplied(c) = supplied(c)
    /\ \A s : X!Elems(s) = Elems(s)
    /\ \A b : X!RevealReferences(b) = RevealReferences(b)
  BY DEF X!Installs, Installs, X!NewHead, NewHead, X!Nullifiers, Nullifiers,
         X!EndedAt, EndedAt, X!Marked, Marked, X!supplied, supplied, X!Elems, Elems,
         X!RevealReferences, RevealReferences,
         X!RevealAccepted, RevealAccepted, X!RefreshAccepted, RefreshAccepted,
         X!RevealStatement, RevealStatement, X!RefreshStatement, RefreshStatement,
         X!HasAction, HasAction, X!lifecycle, lifecycle, X!terminal_at, terminal_at,
         X!is_claimable, is_claimable, X!epoch, epoch, X!expiry, expiry,
         X!expiry_fits, expiry_fits, X!accepts_operation, accepts_operation,
         X!accepts_commit, accepts_commit, X!window, window,
         X!window_fits, window_fits, X!contains, contains, X!offset, offset

\* X is a reducer on the same parameters and values.
LEMMA XStep ==
    ASSUME X!FullInv, [X!HNext]_(X!hvars)
    PROVE  X!FullInv'
  BY X!SnapStep, SameValues, ParametersAssumption, ValuesAssumption

LEMMA XBegin ==
    ASSUME X!FullInv, NEW b \in Block, NEW e \in SUBSET ReferencedCommit,
           Exact!HBeginBlock(b, e)
    PROVE  /\ \A n : n \in DOMAIN x_db'.heads <=>
                    /\ n \in DOMAIN x_db.heads
                    /\ ~ /\ Marked(x_db.heads[n], b.height).terminal_height # None
                         /\ Marked(x_db.heads[n], b.height).terminal_height
                              <= b.height - cooldown_blocks
           /\ \A n \in DOMAIN x_db'.heads : x_db'.heads[n] = Marked(x_db.heads[n], b.height)
           /\ \A r : r \in DOMAIN x_db'.commits <=>
                \/ r \in DOMAIN x_db.commits /\ ~(r.height <= b.height - commit_ttl_blocks)
                \/ r \in DOMAIN supplied(e)
           /\ \A r \in DOMAIN x_db'.commits :
                x_db'.commits[r] = IF r \in DOMAIN supplied(e) THEN supplied(e)[r]
                                   ELSE x_db.commits[r]
           /\ DOMAIN x_db.heads \subseteq {requested} =>
                DOMAIN x_undo'.heads \subseteq {requested}
           /\ Elems(x_trail') = Elems(x_trail) \cup {X!View}
           /\ x_block = None /\ x_block' = b /\ x_pos' = 0
           /\ x_next_height' = x_next_height /\ x_tip_height' = x_tip_height
           /\ x_previous_hash' = x_previous_hash /\ x_history' = x_history
  <1>1. b \in X!Block /\ e \in SUBSET X!ReferencedCommit /\ X!HBeginBlock(b, e)
    BY SameValues, BeginSame
  <1>2. /\ \A n : n \in DOMAIN x_db'.heads <=>
                    /\ n \in DOMAIN x_db.heads
                    /\ ~ /\ X!Marked(x_db.heads[n], b.height).terminal_height # None
                         /\ X!Marked(x_db.heads[n], b.height).terminal_height
                              <= b.height - cooldown_blocks
        /\ \A n \in DOMAIN x_db'.heads : x_db'.heads[n] = X!Marked(x_db.heads[n], b.height)
    BY <1>1, X!BeginHeads, SameValues, ParametersAssumption, ValuesAssumption
  <1>3. LET ch == X!supplied(e)
        IN  /\ \A r : r \in DOMAIN x_db'.commits <=>
                 \/ r \in DOMAIN x_db.commits /\ ~(r.height <= b.height - commit_ttl_blocks)
                 \/ r \in DOMAIN ch
            /\ \A r \in DOMAIN x_db'.commits :
                 x_db'.commits[r] = IF r \in DOMAIN ch THEN ch[r] ELSE x_db.commits[r]
    BY <1>1, X!BeginCommits, SameValues, ParametersAssumption, ValuesAssumption
  <1>4. DOMAIN x_db.heads \subseteq {requested} =>
          DOMAIN x_undo'.heads \subseteq {requested}
    BY <1>1, X!BeginWithin, SameValues, ParametersAssumption, ValuesAssumption
  <1>5. /\ x_block = None /\ x_block' = b /\ x_pos' = 0
        /\ x_next_height' = x_next_height /\ x_tip_height' = x_tip_height
        /\ x_previous_hash' = x_previous_hash /\ x_history' = x_history
        /\ x_trail' = Append(x_trail, X!View)
    BY <1>1 DEF X!HBeginBlock, X!BeginBlock, X!chainVars
  <1>6. Elems(x_trail') = Elems(x_trail) \cup {X!View}
    <2>1. IsSeq(x_trail)
      BY DEF X!FullInv, X!RollbackInv, X!IsSeq, IsSeq, X!Elems, Elems
    <2> QED BY <1>5, <2>1, ElemsAppend
  <1> QED BY <1>2, <1>3, <1>4, <1>5, <1>6, SameWords

LEMMA XApply ==
    ASSUME X!FullInv, Exact!HApplyTransaction
    PROVE  LET tx == x_block.transactions[x_pos + 1]
               op == tx.operation
               height == x_block.height
               ref == [height |-> height, tx_index |-> tx.tx_index, txid |-> tx.txid]
               stores == op # None /\ op.kind = "Commit"
           IN  /\ x_block # None /\ tx \in Transaction
               /\ \A n : n \in DOMAIN x_db'.heads <=>
                           \/ n \in DOMAIN x_db.heads
                           \/ Installs(x_db, height, tx) /\ n = op.name
               /\ Installs(x_db, height, tx) => x_db'.heads[op.name] = NewHead(height, tx)
               /\ \A n \in DOMAIN x_db.heads :
                    ~(Installs(x_db, height, tx) /\ n = op.name) =>
                      x_db'.heads[n] = IF /\ x_db.heads[n].terminal_height = None
                                          /\ x_db.heads[n].future_nf \in Nullifiers(tx)
                                       THEN EndedAt(x_db.heads[n], height)
                                       ELSE x_db.heads[n]
               /\ ~stores => x_db'.commits = x_db.commits
               /\ stores => /\ \A r : r \in DOMAIN x_db'.commits <=>
                                        r \in DOMAIN x_db.commits \/ r = ref
                            /\ x_db'.commits[ref] = op.commitment
                            /\ \A r \in DOMAIN x_db.commits :
                                  r # ref => x_db'.commits[r] = x_db.commits[r]
               /\ (/\ DOMAIN x_db.heads \subseteq {requested}
                   /\ DOMAIN x_undo.heads \subseteq {requested}
                   /\ Installs(x_db, height, tx) => op.name \in {requested})
                    => DOMAIN x_undo'.heads \subseteq {requested}
               /\ x_block' = x_block /\ x_pos' = x_pos + 1
               /\ x_next_height' = x_next_height /\ x_tip_height' = x_tip_height
               /\ x_previous_hash' = x_previous_hash
               /\ x_history' = x_history /\ x_trail' = x_trail
  <1> DEFINE tx == x_block.transactions[x_pos + 1]
             op == tx.operation
             height == x_block.height
             ref == [height |-> height, tx_index |-> tx.tx_index, txid |-> tx.txid]
             stores == op # None /\ op.kind = "Commit"
  <1>1. X!HApplyTransaction
    BY ApplySame
  <1>2. /\ x_block # None /\ tx \in X!Transaction
        /\ \A n : n \in DOMAIN x_db'.heads <=>
                           \/ n \in DOMAIN x_db.heads
                           \/ X!Installs(x_db, height, tx) /\ n = op.name
        /\ X!Installs(x_db, height, tx) => x_db'.heads[op.name] = X!NewHead(height, tx)
        /\ \A n \in DOMAIN x_db.heads :
             ~(X!Installs(x_db, height, tx) /\ n = op.name) =>
               x_db'.heads[n] = IF /\ x_db.heads[n].terminal_height = None
                                   /\ x_db.heads[n].future_nf \in X!Nullifiers(tx)
                                THEN X!EndedAt(x_db.heads[n], height)
                                ELSE x_db.heads[n]
    BY <1>1, X!ApplyHeads, SameValues, ParametersAssumption, ValuesAssumption
  <1>3. /\ ~stores => x_db'.commits = x_db.commits
        /\ stores => /\ \A r : r \in DOMAIN x_db'.commits <=>
                                 r \in DOMAIN x_db.commits \/ r = ref
                     /\ x_db'.commits[ref] = op.commitment
                     /\ \A r \in DOMAIN x_db.commits :
                           r # ref => x_db'.commits[r] = x_db.commits[r]
    BY <1>1, X!ApplyCommits, SameValues, ParametersAssumption, ValuesAssumption
  <1>4. ASSUME DOMAIN x_db.heads \subseteq {requested},
               DOMAIN x_undo.heads \subseteq {requested},
               X!Installs(x_db, height, tx) => op.name \in {requested}
        PROVE  DOMAIN x_undo'.heads \subseteq {requested}
    BY <1>1, <1>4, X!ApplyWithin, SameValues, ParametersAssumption, ValuesAssumption
  <1>5. /\ x_block' = x_block /\ x_pos' = x_pos + 1
        /\ x_next_height' = x_next_height /\ x_tip_height' = x_tip_height
        /\ x_previous_hash' = x_previous_hash
        /\ x_history' = x_history /\ x_trail' = x_trail
    BY <1>1 DEF X!HApplyTransaction, X!ApplyTransaction, X!chainVars
  <1> HIDE DEF tx, ref, height
  <1>6. DOMAIN x_db.heads \subseteq {requested} /\ DOMAIN x_undo.heads \subseteq {requested}
          /\ (Installs(x_db, height, tx) => op.name \in {requested})
            => DOMAIN x_undo'.heads \subseteq {requested}
    BY <1>4, SameWords
  <1>7. /\ tx \in Transaction
        /\ \A n : n \in DOMAIN x_db'.heads <=>
                           \/ n \in DOMAIN x_db.heads
                           \/ Installs(x_db, height, tx) /\ n = op.name
        /\ Installs(x_db, height, tx) => x_db'.heads[op.name] = NewHead(height, tx)
        /\ \A n \in DOMAIN x_db.heads :
             ~(Installs(x_db, height, tx) /\ n = op.name) =>
               x_db'.heads[n] = IF /\ x_db.heads[n].terminal_height = None
                                   /\ x_db.heads[n].future_nf \in Nullifiers(tx)
                                THEN EndedAt(x_db.heads[n], height)
                                ELSE x_db.heads[n]
    BY <1>2, SameValues, SameWords
  <1> QED BY <1>2, <1>3, <1>5, <1>6, <1>7 DEF tx, ref, height

LEMMA XRolledBack ==
    ASSUME X!FullInv, NEW hash \in Hashes, Exact!HRollbackTip(hash)
    PROVE  /\ X!View' \in Elems(x_trail) /\ X!View'.next_height = x_tip_height
           /\ Elems(x_trail') \subseteq Elems(x_trail)
           /\ Elems(x_history') \subseteq Elems(x_history)
           /\ x_block = None /\ x_block' = None
  BY RollbackSame, X!RolledBack, SameWords, SameValues, ParametersAssumption,
     ValuesAssumption

LEMMA XFinalized ==
    ASSUME X!FullInv, NEW height \in Height, Exact!HFinalizeThrough(height)
    PROVE  /\ X!View' = X!View /\ x_block = None /\ x_block' = None
           /\ Elems(x_trail') \subseteq Elems(x_trail)
           /\ Elems(x_history') \subseteq Elems(x_history)
  BY FinalizeSame, X!Finalized, SameWords, SameValues, ParametersAssumption,
     ValuesAssumption

-----------------------------------------------------------------------------
(***************************************************************************)
(* The two replays stay twins.                                             *)
(***************************************************************************)
LEMMA TwinRecords ==
    ASSUME ExactInv
    PROVE  /\ x_next_height = next_height /\ x_tip_height = tip_height
           /\ x_previous_hash = previous_hash
           /\ DOMAIN x_db.heads \subseteq {requested}
           /\ requested \in DOMAIN x_db.heads <=> requested \in DOMAIN db.heads
           /\ requested \in DOMAIN db.heads => x_db.heads[requested] = db.heads[requested]
           /\ \A r \in DOMAIN x_db.commits :
                r \in DOMAIN db.commits /\ db.commits[r] = x_db.commits[r]
  <1>1. /\ x_next_height = next_height /\ x_tip_height = tip_height
        /\ x_previous_hash = previous_hash
        /\ DOMAIN x_db.heads \subseteq {requested}
        /\ Get(x_db.heads, requested) = Get(db.heads, requested)
        /\ \A r \in DOMAIN x_db.commits :
                r \in DOMAIN db.commits /\ db.commits[r] = x_db.commits[r]
    BY DEF ExactInv, TwinInv, Twin, View, X!View
  <1>2. \A n \in DOMAIN db.heads : db.heads[n] # None
    BY ValuesAssumption DEF ExactInv, FullInv, TypeInv, TypeOK, MapOf
  <1>3. \A n \in DOMAIN x_db.heads : x_db.heads[n] # None
    <2>1. \A n \in DOMAIN x_db.heads : x_db.heads[n] \in X!HeadRecord
      BY DEF ExactInv, X!FullInv, X!TypeInv, X!TypeOK, X!MapOf
    <2> QED BY <2>1, SameValues, ValuesAssumption
  <1> QED BY <1>1, <1>2, <1>3 DEF Get

LEMMA NewTwins ==
    ASSUME x_next_height' = next_height', x_tip_height' = tip_height',
           x_previous_hash' = previous_hash',
           DOMAIN x_db'.heads \subseteq {requested},
           requested \in DOMAIN x_db'.heads <=> requested \in DOMAIN db'.heads,
           requested \in DOMAIN db'.heads => x_db'.heads[requested] = db'.heads[requested],
           \A r \in DOMAIN x_db'.commits :
                r \in DOMAIN db'.commits /\ db'.commits[r] = x_db'.commits[r]
    PROVE  Twin(View', X!View')
  <1>1. Get(x_db'.heads, requested) = Get(db'.heads, requested)
    BY DEF Get
  <1> QED BY <1>1 DEF Twin, View, X!View

LEMMA FilteredBlock ==
    ASSUME NEW b \in Block, NEW acquired
    PROVE  LET xb == filtered(b, acquired)
           IN  /\ xb \in Block
               /\ xb.height = b.height /\ xb.hash = b.hash
               /\ Len(b.transactions) \in Nat /\ Len(xb.transactions) = Len(b.transactions)
               /\ \A i \in 1 .. Len(b.transactions) :
                    /\ b.transactions[i] \in Transaction
                    /\ xb.transactions[i] =
                         IF i \in acquired /\ relevant(b.transactions[i].operation)
                           THEN b.transactions[i] ELSE Unread(b.transactions[i])
  <1> DEFINE T == b.transactions
             xt(i) == IF i \in acquired /\ relevant(T[i].operation) THEN T[i] ELSE Unread(T[i])
             XT == [i \in DOMAIN T |-> xt(i)]
             xb == filtered(b, acquired)
  <1>1. T \in Seq(Transaction)
    BY DEF Block
  <1>2. Len(T) \in Nat /\ DOMAIN T = 1 .. Len(T) /\ \A i \in 1 .. Len(T) : T[i] \in Transaction
    BY <1>1
  <1>3. \A tx \in Transaction : Unread(tx) \in Transaction
    BY DEF Unread, Transaction, Option
  <1>4. \A i \in 1 .. Len(T) : xt(i) \in Transaction
    BY <1>2, <1>3
  <1>5. xb = [b EXCEPT !.transactions = XT]
    BY DEF filtered, Unread
  <1> HIDE DEF xt
  <1>6. XT \in Seq(Transaction) /\ Len(XT) = Len(T) /\ \A i \in 1 .. Len(T) : XT[i] = xt(i)
    BY <1>2, <1>4
  <1> HIDE DEF XT, xb
  <1>7. /\ xb \in Block /\ xb.height = b.height /\ xb.hash = b.hash
        /\ xb.transactions = XT
    BY <1>5, <1>6 DEF Block
  <1> QED BY <1>2, <1>6, <1>7 DEF xt, xb

\* What is taken of a block that both replays start.
LEMMA BeginFacts ==
    ASSUME ExactInv, NEW b \in Block, NEW acquired,
           NEW evidence \in SUBSET ReferencedCommit,
           EBeginBlock(b, acquired, evidence)
    PROVE  LET height == b.height
           IN  /\ height \in Nat /\ Canonical(b)
               /\ \A r \in DOMAIN db.commits : r.height < height
               /\ \A r : r \in DOMAIN db'.commits <=>
                     r \in DOMAIN db.commits /\ ~(r.height <= height - commit_ttl_blocks)
               /\ \A r \in DOMAIN db'.commits : db'.commits[r] = db.commits[r]
               /\ \A r \in DOMAIN supplied(evidence) :
                     r \in DOMAIN db'.commits /\ supplied(evidence)[r] = db.commits[r]
  <1> DEFINE height == b.height
             xb == filtered(b, acquired)
  <1>1. /\ HBeginBlock(b, {}) /\ Exact!HBeginBlock(xb, evidence)
        /\ HostSupplies(b, acquired, evidence)
    BY DEF EBeginBlock
  <1>2. FullInv /\ X!FullInv
    BY DEF ExactInv
  <1>3. height \in Nat /\ height = next_height /\ Canonical(b) /\ block = None
    BY <1>1, ParametersAssumption DEF HBeginBlock, BeginBlock, Block, Height
  <1>4. \A r \in DOMAIN db.commits : r \in CommitRef /\ r.height \in Nat
    BY <1>2, ParametersAssumption DEF FullInv, TypeInv, TypeOK, MapOf, CommitRef, Height
  <1>5. \A r \in DOMAIN db.commits : r.height < height
    <2>1. /\ TipValid(next_height, tip_height)
          /\ \A r \in DOMAIN db.commits : CommitValid(tip_height, r)
      BY <1>2, <1>3 DEF FullInv, SnapInv, RecordsValid, CurrentHeight
    <2>2. tip_height # None => tip_height \in Nat
      BY <1>2, ParametersAssumption DEF FullInv, TypeInv, TypeOK, Option, Height
    <2>3. None \notin Height
      BY ValuesAssumption
    <2>4. height \in Height
      BY DEF Block
    <2> QED BY <1>3, <1>4, <2>1, <2>2, <2>3, <2>4 DEF TipValid, CommitValid
  <1>6. DOMAIN supplied({}) = {}
    BY DEF supplied
  <1>7. /\ \A r : r \in DOMAIN db'.commits <=>
                     r \in DOMAIN db.commits /\ ~(r.height <= height - commit_ttl_blocks)
        /\ \A r \in DOMAIN db'.commits : db'.commits[r] = db.commits[r]
    BY <1>1, <1>2, <1>6, BeginCommits
  <1>8. xb.height = b.height
    BY FilteredBlock
  <1> HIDE DEF xb
  <1>9. ASSUME NEW r \in DOMAIN supplied(evidence)
        PROVE  r \in DOMAIN db'.commits /\ supplied(evidence)[r] = db.commits[r]
    <2> DEFINE e == CHOOSE f \in evidence : f.reference = r
    <2>1. supplied(evidence)[r] = e.commitment /\ \E f \in evidence : f.reference = r
      BY DEF supplied
    <2>2. e \in evidence /\ e.reference = r
      BY <2>1
    <2>3. r \in DOMAIN db.commits /\ e.commitment = db.commits[r]
      BY <1>1, <2>2 DEF HostSupplies
    <2>4. height - r.height < commit_ttl_blocks
      BY <1>1, <1>8, <2>2
      DEF Exact!HBeginBlock, Exact!BeginBlock, Exact!EvidenceAdmissible
    <2>5. ~(r.height <= height - commit_ttl_blocks)
      BY <1>3, <1>4, <2>3, <2>4, ParameterFacts, ParametersAssumption DEF Height
    <2> QED BY <1>7, <2>1, <2>3, <2>5
  <1> QED BY <1>3, <1>5, <1>7, <1>9

LEMMA BeginTwin ==
    ASSUME ExactInv, NEW b \in Block, NEW acquired,
           NEW evidence \in SUBSET ReferencedCommit,
           EBeginBlock(b, acquired, evidence)
    PROVE  TwinInv'
  <1> DEFINE height == b.height
             xb == filtered(b, acquired)
             T == b.transactions
             XT == xb.transactions
  <1>1. /\ HBeginBlock(b, {}) /\ Exact!HBeginBlock(xb, evidence)
        /\ HostSupplies(b, acquired, evidence)
    BY DEF EBeginBlock
  <1>2. FullInv /\ X!FullInv /\ TwinInv
    BY DEF ExactInv
  <1>3. /\ xb \in Block /\ xb.height = height /\ xb.hash = b.hash
        /\ Len(T) \in Nat /\ Len(XT) = Len(T)
        /\ \A i \in 1 .. Len(T) :
             /\ T[i] \in Transaction
             /\ XT[i] = IF i \in acquired /\ relevant(T[i].operation) THEN T[i]
                        ELSE Unread(T[i])
    BY FilteredBlock
  <1>4. DOMAIN T = 1 .. Len(T) /\ DOMAIN XT = 1 .. Len(XT)
    BY <1>3 DEF Block
  <1>5. \A r \in RevealReferences(xb) :
          (r \in DOMAIN db.commits /\ accepts_commit(r.height, height))
            => \/ r \in DOMAIN x_db.commits
               \/ \E e \in evidence : e.reference = r
    BY <1>1 DEF HostSupplies
  <1> HIDE DEF xb
  <1>6. /\ block = None /\ block' = b /\ pos' = 0
        /\ next_height' = next_height /\ tip_height' = tip_height
        /\ previous_hash' = previous_hash /\ trail' = Append(trail, View)
    BY <1>1 DEF HBeginBlock, BeginBlock, chainVars
  <1>7. /\ \A n : n \in DOMAIN x_db'.heads <=>
                    /\ n \in DOMAIN x_db.heads
                    /\ ~ /\ Marked(x_db.heads[n], height).terminal_height # None
                         /\ Marked(x_db.heads[n], height).terminal_height
                              <= height - cooldown_blocks
        /\ \A n \in DOMAIN x_db'.heads : x_db'.heads[n] = Marked(x_db.heads[n], height)
        /\ \A r : r \in DOMAIN x_db'.commits <=>
             \/ r \in DOMAIN x_db.commits /\ ~(r.height <= height - commit_ttl_blocks)
             \/ r \in DOMAIN supplied(evidence)
        /\ \A r \in DOMAIN x_db'.commits :
             x_db'.commits[r] = IF r \in DOMAIN supplied(evidence) THEN supplied(evidence)[r]
                                ELSE x_db.commits[r]
        /\ DOMAIN x_db.heads \subseteq {requested} =>
             DOMAIN x_undo'.heads \subseteq {requested}
        /\ Elems(x_trail') = Elems(x_trail) \cup {X!View}
        /\ x_block = None /\ x_block' = xb /\ x_pos' = 0
        /\ x_next_height' = x_next_height /\ x_tip_height' = x_tip_height
        /\ x_previous_hash' = x_previous_hash /\ x_history' = x_history
    BY <1>1, <1>2, <1>3, XBegin
  <1>8. /\ \A n : n \in DOMAIN db'.heads <=>
                    /\ n \in DOMAIN db.heads
                    /\ ~ /\ Marked(db.heads[n], height).terminal_height # None
                         /\ Marked(db.heads[n], height).terminal_height
                              <= height - cooldown_blocks
        /\ \A n \in DOMAIN db'.heads : db'.heads[n] = Marked(db.heads[n], height)
    BY <1>1, <1>2, BeginHeads
  <1>9. /\ height \in Nat /\ Canonical(b)
        /\ \A r \in DOMAIN db.commits : r.height < height
        /\ \A r : r \in DOMAIN db'.commits <=>
              r \in DOMAIN db.commits /\ ~(r.height <= height - commit_ttl_blocks)
        /\ \A r \in DOMAIN db'.commits : db'.commits[r] = db.commits[r]
        /\ \A r \in DOMAIN supplied(evidence) :
              r \in DOMAIN db'.commits /\ supplied(evidence)[r] = db.commits[r]
    BY BeginFacts
  <1>10. /\ x_next_height = next_height /\ x_tip_height = tip_height
         /\ x_previous_hash = previous_hash
         /\ DOMAIN x_db.heads \subseteq {requested}
         /\ requested \in DOMAIN x_db.heads <=> requested \in DOMAIN db.heads
         /\ requested \in DOMAIN db.heads => x_db.heads[requested] = db.heads[requested]
         /\ \A r \in DOMAIN x_db.commits :
              r \in DOMAIN db.commits /\ db.commits[r] = x_db.commits[r]
    BY TwinRecords
  <1>11. /\ DOMAIN x_db'.heads \subseteq {requested}
         /\ requested \in DOMAIN x_db'.heads <=> requested \in DOMAIN db'.heads
         /\ requested \in DOMAIN db'.heads => x_db'.heads[requested] = db'.heads[requested]
    BY <1>7, <1>8, <1>10
  <1>12. \A r \in DOMAIN x_db'.commits :
            r \in DOMAIN db'.commits /\ db'.commits[r] = x_db'.commits[r]
    BY <1>7, <1>9, <1>10
  <1>13. Twin(View', X!View')
    BY <1>6, <1>7, <1>10, <1>11, <1>12, NewTwins
  <1>14. ASSUME NEW v \in Elems(trail'), NEW x \in Elems(x_trail'),
                x.next_height = v.next_height
         PROVE  Twin(v, x)
    <2>1. v \in Elems(trail) \cup {View}
      <3>1. IsSeq(trail)
        BY <1>2 DEF FullInv, RollbackInv
      <3> QED BY <1>6, <3>1, ElemsAppend
    <2>2. x \in Elems(x_trail) \cup {X!View}
      BY <1>7
    <2>3. v \in Elems(trail) => v.next_height # next_height
      BY <1>2, <1>6, PastHeights
    <2>4. x \in Elems(x_trail) => x.next_height # x_next_height
      BY <1>2, <1>7, X!PastHeights, SameWords, SameValues, ParametersAssumption,
         ValuesAssumption
    <2>5. View.next_height = next_height /\ X!View.next_height = x_next_height
      BY DEF View, X!View
    <2> QED BY <1>2, <1>10, <1>14, <2>1, <2>2, <2>3, <2>4, <2>5 DEF TwinInv
  <1>15. ASSUME NEW i \in 1 .. Len(T)
         PROVE  Filters(XT[i], T[i], height)
    <2>1. Unread(T[i]).operation = None
      BY <1>3 DEF Unread, Transaction
    <2>2. (/\ T[i].operation # None /\ T[i].operation.kind # "Commit"
           /\ T[i].operation.name = requested
           /\ accepts_operation(requested, height)) => i \in acquired
      BY <1>1, <1>4 DEF HostSupplies
    <2> QED BY <1>3, <2>1, <2>2 DEF Filters, relevant
  <1>16. ASSUME NEW i \in 1 .. Len(T)
         PROVE  Prepared(XT[i], height)'
    <2>1. ASSUME XT[i].operation # None, XT[i].operation.kind = "Reveal",
                 XT[i].operation.commit \in DOMAIN db'.commits,
                 accepts_commit(XT[i].operation.commit.height, height)
          PROVE  XT[i].operation.commit \in DOMAIN x_db'.commits
      <3> DEFINE r == XT[i].operation.commit
      <3>1. r \in RevealReferences(xb)
        BY <1>3, <1>4, <2>1 DEF RevealReferences
      <3>2. r \in DOMAIN x_db.commits \/ \E e \in evidence : e.reference = r
        BY <1>5, <1>9, <2>1, <3>1
      <3>3. (\E e \in evidence : e.reference = r) => r \in DOMAIN supplied(evidence)
        BY DEF supplied
      <3> QED BY <1>7, <1>9, <2>1, <3>2, <3>3
    <2>2. \A r \in DOMAIN x_db'.commits : r.height # height
      <3>1. \A r \in DOMAIN db.commits : r.height # height
        <4>1. \A r \in DOMAIN db.commits : r.height \in Nat
          BY <1>2, ParametersAssumption
          DEF FullInv, TypeInv, TypeOK, MapOf, CommitRef, Height
        <4> QED BY <1>9, <4>1
      <3> QED BY <1>9, <1>12, <3>1
    <2> QED BY <2>1, <2>2 DEF Prepared
  <1>17. BlockTwin'
    <2>1. \A i \in pos' + 1 .. Len(T) : i \in 1 .. Len(T)
      BY <1>3, <1>6
    <2> QED BY <1>3, <1>6, <1>7, <1>9, <1>15, <1>16, <2>1 DEF BlockTwin
  <1>18. b # None /\ xb # None
    BY <1>3, ValuesAssumption
  <1>19. \A u \in Elems(x_history') : DOMAIN u.heads \subseteq {requested}
    BY <1>2, <1>7 DEF TwinInv
  <1> QED BY <1>6, <1>7, <1>10, <1>13, <1>14, <1>17, <1>18, <1>19 DEF TwinInv

\* Whether an operation is accepted depends on the head of its name and on the
\* COMMIT it names, and on nothing else that was replayed.
LEMMA InstallsDepends ==
    ASSUME NEW d, NEW e, NEW height, NEW tx,
           LET op == tx.operation
           IN  /\ op.name \in DOMAIN d.heads <=> op.name \in DOMAIN e.heads
               /\ op.name \in DOMAIN d.heads => d.heads[op.name] = e.heads[op.name]
               /\ (op.kind = "Reveal" /\ accepts_commit(op.commit.height, height)) =>
                     /\ op.commit \in DOMAIN d.commits <=> op.commit \in DOMAIN e.commits
                     /\ op.commit \in DOMAIN d.commits =>
                          d.commits[op.commit] = e.commits[op.commit]
    PROVE  Installs(d, height, tx) <=> Installs(e, height, tx)
  <1> DEFINE op == tx.operation
  <1>1. op.kind = "Reveal" =>
          (RevealAccepted(d, height, tx) <=> RevealAccepted(e, height, tx))
    BY DEF RevealAccepted
  <1>2. RefreshAccepted(d, height, tx) <=> RefreshAccepted(e, height, tx)
    BY DEF RefreshAccepted
  <1> QED BY <1>1, <1>2 DEF Installs

\* The transaction at hand, and what the resolver is given of it.
LEMMA ApplyFacts ==
    ASSUME ExactInv, EApplyTransaction
    PROVE  LET tx == block.transactions[pos + 1]
               xt == x_block.transactions[x_pos + 1]
               height == block.height
           IN  /\ x_block # None /\ x_block.height = height /\ height \in Nat
               /\ pos \in Nat /\ pos + 1 \in 1 .. Len(block.transactions) /\ x_pos = pos
               /\ tx \in Transaction /\ xt \in Transaction
               /\ xt.tx_index = tx.tx_index /\ xt.txid = tx.txid
               /\ Nullifiers(xt) = Nullifiers(tx)
               /\ xt.operation # None => xt = tx /\ relevant(tx.operation)
               /\ Prepared(xt, height)
               /\ Installs(x_db, height, xt) <=>
                    Installs(db, height, tx) /\ tx.operation.name = requested
               /\ Installs(x_db, height, xt) => xt = tx
  <1> DEFINE tx == block.transactions[pos + 1]
             xt == x_block.transactions[x_pos + 1]
             height == block.height
  <1>1. /\ HApplyTransaction /\ Exact!HApplyTransaction /\ FullInv /\ X!FullInv /\ TwinInv
    BY DEF EApplyTransaction, ExactInv
  <1>2. block # None /\ tx \in Transaction
    BY <1>1, ApplyHeads
  <1>3. x_block # None /\ xt \in Transaction
    BY <1>1, XApply
  <1>4. BlockTwin
    BY <1>1, <1>2 DEF TwinInv
  <1>5. /\ pos \in Nat /\ pos + 1 \in 1 .. Len(block.transactions)
        /\ pos + 1 \in pos + 1 .. Len(block.transactions)
        /\ height \in Nat /\ x_block.height = height /\ x_pos = pos
    <2>1. block \in Block
      BY <1>1, <1>2 DEF FullInv, TypeInv, TypeOK, Option
    <2>2. Len(block.transactions) \in Nat /\ height \in Nat
      BY <2>1, ParametersAssumption DEF Block, Height
    <2>3. pos \in Nat /\ pos < Len(block.transactions)
      BY <1>1 DEF FullInv, TypeInv, TypeOK, HApplyTransaction, ApplyTransaction
    <2> QED BY <1>4, <2>2, <2>3 DEF BlockTwin
  <1>6. Filters(xt, tx, height) /\ Prepared(xt, height)
    BY <1>4, <1>5 DEF BlockTwin
  <1> HIDE DEF tx, xt, height
  <1>7. /\ Unread(tx).operation = None /\ Unread(tx).actions = tx.actions
        /\ Unread(tx).tx_index = tx.tx_index /\ Unread(tx).txid = tx.txid
    BY <1>2 DEF Unread, Transaction
  <1>8. /\ xt.tx_index = tx.tx_index /\ xt.txid = tx.txid /\ xt.actions = tx.actions
        /\ xt.operation # None => xt = tx /\ relevant(tx.operation)
    BY <1>6, <1>7 DEF Filters
  <1>9. Nullifiers(xt) = Nullifiers(tx)
    BY <1>8 DEF Nullifiers
  <1>10. /\ requested \in DOMAIN x_db.heads <=> requested \in DOMAIN db.heads
         /\ requested \in DOMAIN db.heads => x_db.heads[requested] = db.heads[requested]
         /\ \A r \in DOMAIN x_db.commits :
              r \in DOMAIN db.commits /\ db.commits[r] = x_db.commits[r]
    BY TwinRecords
  <1>11. ASSUME xt = tx, tx.operation # None, tx.operation.name = requested
         PROVE  Installs(x_db, height, tx) <=> Installs(db, height, tx)
    <2> DEFINE op == tx.operation
    <2>1. ASSUME op.kind = "Reveal", accepts_commit(op.commit.height, height)
          PROVE  /\ op.commit \in DOMAIN x_db.commits <=> op.commit \in DOMAIN db.commits
                 /\ op.commit \in DOMAIN x_db.commits =>
                      x_db.commits[op.commit] = db.commits[op.commit]
      BY <1>6, <1>10, <1>11, <2>1 DEF Prepared
    <2> QED BY <1>10, <1>11, <2>1, InstallsDepends
  <1>12. Installs(x_db, height, xt) => xt = tx /\ tx.operation.name = requested
    BY <1>8 DEF Installs, relevant
  <1>13. Installs(db, height, tx) /\ tx.operation.name = requested => xt = tx
    BY <1>6 DEF Installs, RevealAccepted, RefreshAccepted, Filters
  <1>14. Installs(x_db, height, xt) <=>
           Installs(db, height, tx) /\ tx.operation.name = requested
    <2>1. Installs(db, height, tx) => tx.operation # None
      BY DEF Installs
    <2>2. Installs(x_db, height, xt) => xt.operation # None
      BY DEF Installs
    <2> QED BY <1>11, <1>12, <1>13, <2>1, <2>2
  <1> QED BY <1>2, <1>3, <1>5, <1>6, <1>8, <1>9, <1>12, <1>14 DEF tx, xt, height

LEMMA ApplyTwin ==
    ASSUME ExactInv, EApplyTransaction
    PROVE  TwinInv'
  <1> DEFINE tx == block.transactions[pos + 1]
             xt == x_block.transactions[x_pos + 1]
             op == tx.operation
             height == block.height
             ref == [height |-> height, tx_index |-> tx.tx_index, txid |-> tx.txid]
             xref == [height |-> x_block.height, tx_index |-> xt.tx_index, txid |-> xt.txid]
             stores == op # None /\ op.kind = "Commit"
             xstores == xt.operation # None /\ xt.operation.kind = "Commit"
  <1>1. /\ HApplyTransaction /\ Exact!HApplyTransaction /\ FullInv /\ X!FullInv /\ TwinInv
    BY DEF EApplyTransaction, ExactInv
  <1>2. /\ x_block # None /\ x_block.height = height /\ height \in Nat
        /\ pos \in Nat /\ pos + 1 \in 1 .. Len(block.transactions) /\ x_pos = pos
        /\ tx \in Transaction /\ xt \in Transaction
        /\ xt.tx_index = tx.tx_index /\ xt.txid = tx.txid
        /\ Nullifiers(xt) = Nullifiers(tx)
        /\ xt.operation # None => xt = tx /\ relevant(tx.operation)
        /\ Prepared(xt, height)
        /\ Installs(x_db, height, xt) <=>
             Installs(db, height, tx) /\ tx.operation.name = requested
        /\ Installs(x_db, height, xt) => xt = tx
    BY ApplyFacts
  <1>3. /\ block # None /\ block' = block /\ tip_height' = tip_height
        /\ \A n : n \in DOMAIN db'.heads <=>
                    \/ n \in DOMAIN db.heads
                    \/ Installs(db, height, tx) /\ n = op.name
        /\ Installs(db, height, tx) => db'.heads[op.name] = NewHead(height, tx)
        /\ \A n \in DOMAIN db.heads :
             ~(Installs(db, height, tx) /\ n = op.name) =>
               db'.heads[n] = IF /\ db.heads[n].terminal_height = None
                                 /\ db.heads[n].future_nf \in Nullifiers(tx)
                              THEN EndedAt(db.heads[n], height) ELSE db.heads[n]
    BY <1>1, ApplyHeads
  <1>4. /\ ~stores => db'.commits = db.commits
        /\ stores => /\ \A r : r \in DOMAIN db'.commits <=>
                                 r \in DOMAIN db.commits \/ r = ref
                     /\ db'.commits[ref] = op.commitment
                     /\ \A r \in DOMAIN db.commits :
                           r # ref => db'.commits[r] = db.commits[r]
    BY <1>1, ApplyCommits
  <1>5. /\ pos' = pos + 1 /\ next_height' = next_height
        /\ previous_hash' = previous_hash /\ trail' = trail
    BY <1>1 DEF HApplyTransaction, ApplyTransaction, chainVars
  <1>6. /\ \A n : n \in DOMAIN x_db'.heads <=>
                    \/ n \in DOMAIN x_db.heads
                    \/ Installs(x_db, x_block.height, xt) /\ n = xt.operation.name
        /\ Installs(x_db, x_block.height, xt) =>
             x_db'.heads[xt.operation.name] = NewHead(x_block.height, xt)
        /\ \A n \in DOMAIN x_db.heads :
             ~(Installs(x_db, x_block.height, xt) /\ n = xt.operation.name) =>
               x_db'.heads[n] = IF /\ x_db.heads[n].terminal_height = None
                                   /\ x_db.heads[n].future_nf \in Nullifiers(xt)
                                THEN EndedAt(x_db.heads[n], x_block.height)
                                ELSE x_db.heads[n]
    BY <1>1, XApply
  <1>7. /\ ~xstores => x_db'.commits = x_db.commits
        /\ xstores => /\ \A r : r \in DOMAIN x_db'.commits <=>
                                  r \in DOMAIN x_db.commits \/ r = xref
                      /\ x_db'.commits[xref] = xt.operation.commitment
                      /\ \A r \in DOMAIN x_db.commits :
                            r # xref => x_db'.commits[r] = x_db.commits[r]
    BY <1>1, XApply
  <1>8. /\ (/\ DOMAIN x_db.heads \subseteq {requested}
            /\ DOMAIN x_undo.heads \subseteq {requested}
            /\ Installs(x_db, x_block.height, xt) => xt.operation.name \in {requested})
             => DOMAIN x_undo'.heads \subseteq {requested}
        /\ x_block' = x_block /\ x_pos' = x_pos + 1
        /\ x_next_height' = x_next_height /\ x_tip_height' = x_tip_height
        /\ x_previous_hash' = x_previous_hash
        /\ x_history' = x_history /\ x_trail' = x_trail
    BY <1>1, XApply
  <1>9. BlockTwin
    BY <1>1, <1>3 DEF TwinInv
  <1>10. ASSUME NEW i \in pos + 1 + 1 .. Len(block.transactions)
         PROVE  /\ i \in pos + 1 .. Len(block.transactions)
                /\ Prepared(x_block.transactions[i], height)
                /\ x_block.transactions[i].tx_index \in Nat
                /\ tx.tx_index < x_block.transactions[i].tx_index
    <2> DEFINE ti == block.transactions[i]
    <2>1. block \in Block
      BY <1>1, <1>3 DEF FullInv, TypeInv, TypeOK, Option
    <2>2. /\ Len(block.transactions) \in Nat
          /\ DOMAIN block.transactions = 1 .. Len(block.transactions)
      BY <2>1 DEF Block
    <2>3. /\ i \in pos + 1 .. Len(block.transactions) /\ i \in 1 .. Len(block.transactions)
          /\ pos + 1 < i /\ i \in Nat
      BY <1>2, <2>2
    <2>4. ti \in Transaction
      BY <2>1, <2>3 DEF Block
    <2>5. tx.tx_index < ti.tx_index
      BY <1>2, <1>9, <2>2, <2>3 DEF BlockTwin, Canonical
    <2>6. /\ Filters(x_block.transactions[i], ti, height)
          /\ Prepared(x_block.transactions[i], height)
      BY <1>9, <2>3 DEF BlockTwin
    <2> HIDE DEF ti, tx
    <2>7. x_block.transactions[i].tx_index = ti.tx_index /\ ti.tx_index \in Nat
      BY <2>4, <2>6, ParametersAssumption DEF Filters, Unread, Transaction, Height
    <2> QED BY <2>3, <2>5, <2>6, <2>7
  <1>11. xref = ref
    BY <1>2
  <1> HIDE DEF tx, xt, height, ref, xref
  <1>12. /\ x_next_height = next_height /\ x_tip_height = tip_height
         /\ x_previous_hash = previous_hash
         /\ DOMAIN x_db.heads \subseteq {requested}
         /\ requested \in DOMAIN x_db.heads <=> requested \in DOMAIN db.heads
         /\ requested \in DOMAIN db.heads => x_db.heads[requested] = db.heads[requested]
         /\ \A r \in DOMAIN x_db.commits :
              r \in DOMAIN db.commits /\ db.commits[r] = x_db.commits[r]
    BY TwinRecords
  <1>13. /\ DOMAIN x_db'.heads \subseteq {requested}
         /\ requested \in DOMAIN x_db'.heads <=> requested \in DOMAIN db'.heads
         /\ requested \in DOMAIN db'.heads => x_db'.heads[requested] = db'.heads[requested]
    <2>1. CASE Installs(x_db, height, xt)
      BY <1>2, <1>3, <1>6, <1>12, <2>1
    <2>2. CASE ~Installs(x_db, height, xt)
      BY <1>2, <1>3, <1>6, <1>12, <2>2
    <2> QED BY <2>1, <2>2
  <1>14. /\ ref.height = height /\ ref.tx_index = tx.tx_index
         /\ tx.tx_index \in Nat
    BY <1>2, ParametersAssumption DEF ref, Transaction, Height
  <1>15. \A r \in DOMAIN x_db.commits : r # ref
    <2>1. ASSUME NEW r \in DOMAIN x_db.commits, r = ref
          PROVE  FALSE
      <3>1. r.height = height => r.tx_index < xt.tx_index
        BY <1>2, <2>1 DEF Prepared
      <3> QED BY <1>2, <1>14, <2>1, <3>1
    <2> QED BY <2>1
  <1>16. \A r \in DOMAIN x_db'.commits :
            r \in DOMAIN db'.commits /\ db'.commits[r] = x_db'.commits[r]
    <2>1. CASE xstores
      BY <1>2, <1>4, <1>7, <1>11, <1>12, <1>15, <2>1
    <2>2. CASE ~xstores
      BY <1>4, <1>7, <1>12, <1>15, <2>2
    <2> QED BY <2>1, <2>2
  <1>17. Twin(View', X!View')
    BY <1>3, <1>5, <1>8, <1>12, <1>13, <1>16, NewTwins
  <1>18. ASSUME NEW i \in pos + 1 + 1 .. Len(block.transactions)
         PROVE  Prepared(x_block.transactions[i], height)'
    <2> DEFINE yt == x_block.transactions[i]
    <2>1. /\ Prepared(yt, height) /\ yt.tx_index \in Nat /\ tx.tx_index < yt.tx_index
      BY <1>10
    <2> HIDE DEF yt
    <2>2. ~accepts_commit(ref.height, height)
      BY <1>2, <1>14, ParameterFacts, ParametersAssumption DEF accepts_commit, Valid, Height
    <2>3. ASSUME yt.operation # None, yt.operation.kind = "Reveal",
                 yt.operation.commit \in DOMAIN db'.commits,
                 accepts_commit(yt.operation.commit.height, height)
          PROVE  yt.operation.commit \in DOMAIN x_db'.commits
      <3>1. yt.operation.commit \in DOMAIN db.commits
        BY <1>4, <2>2, <2>3
      <3>2. yt.operation.commit \in DOMAIN x_db.commits
        BY <2>1, <2>3, <3>1 DEF Prepared
      <3> QED BY <1>7, <3>2
    <2>4. ASSUME NEW r \in DOMAIN x_db'.commits, r.height = height
          PROVE  r.tx_index < yt.tx_index
      <3>1. r \in DOMAIN x_db.commits \/ r = ref
        BY <1>7, <1>11
      <3> QED BY <1>14, <2>1, <2>4, <3>1 DEF Prepared
    <2>5. Prepared(yt, height)'
      <3>1. yt' = yt /\ height' = height
        BY <1>3, <1>8 DEF yt, height
      <3> QED BY <2>3, <2>4, <3>1 DEF Prepared
    <2> QED BY <1>8, <2>5 DEF yt
  <1>19. BlockTwin'
    <2>1. height' = height /\ block.height = height
      BY <1>3 DEF height
    <2>2. (\A i \in pos + 1 .. Len(block.transactions) :
             Prepared(x_block.transactions[i], block.height))'
      BY <1>3, <1>5, <1>8, <1>18, <2>1 DEF Prepared
    <2> QED BY <1>2, <1>3, <1>5, <1>8, <1>9, <2>2 DEF BlockTwin
  <1>20. DOMAIN x_undo'.heads \subseteq {requested}
    <2>1. DOMAIN x_undo.heads \subseteq {requested}
      BY <1>1, <1>2 DEF TwinInv
    <2> QED BY <1>2, <1>8, <1>12, <2>1
  <1> QED BY <1>1, <1>2, <1>3, <1>5, <1>8, <1>17, <1>19, <1>20 DEF TwinInv

LEMMA EndTwin ==
    ASSUME ExactInv, EEndBlock
    PROVE  TwinInv'
  <1>1. /\ HEndBlock /\ Exact!HEndBlock /\ FullInv /\ X!FullInv /\ TwinInv
    BY DEF EEndBlock, ExactInv
  <1>2. /\ block # None /\ block' = None /\ db' = db /\ trail' = trail
        /\ next_height' = (IF block.height < U32Max THEN block.height + 1 ELSE None)
        /\ tip_height' = block.height /\ previous_hash' = block.hash
    BY <1>1 DEF HEndBlock, EndBlock
  <1>3. /\ x_block # None /\ x_block' = None /\ x_db' = x_db /\ x_trail' = x_trail
        /\ x_next_height' = (IF x_block.height < U32Max THEN x_block.height + 1 ELSE None)
        /\ x_tip_height' = x_block.height /\ x_previous_hash' = x_block.hash
        /\ x_history' = Append(x_history, x_undo)
    BY <1>1, EndSame DEF X!HEndBlock, X!EndBlock
  <1>4. x_block.height = block.height /\ x_block.hash = block.hash
    BY <1>1, <1>2 DEF TwinInv, BlockTwin
  <1>5. Twin(View', X!View')
    BY <1>2, <1>3, <1>4, TwinRecords, NewTwins
  <1>6. \A u \in Elems(x_history') : DOMAIN u.heads \subseteq {requested}
    <2>1. IsSeq(x_history)
      BY <1>1 DEF X!FullInv, X!RollbackInv, X!IsSeq, IsSeq, X!Elems, Elems
    <2>2. Elems(x_history') = Elems(x_history) \cup {x_undo}
      BY <1>3, <2>1, ElemsAppend
    <2> QED BY <1>1, <1>3, <2>2 DEF TwinInv
  <1> QED BY <1>1, <1>2, <1>3, <1>5, <1>6 DEF TwinInv

\* Two views of the same height become present together.
LEMMA RollbackTwin ==
    ASSUME ExactInv, NEW hash \in Hashes, ERollbackTip(hash)
    PROVE  TwinInv'
  <1>1. /\ HRollbackTip(hash) /\ Exact!HRollbackTip(hash)
        /\ FullInv /\ X!FullInv /\ TwinInv
    BY DEF ERollbackTip, ExactInv
  <1>2. /\ View' \in Elems(trail) /\ View'.next_height = tip_height
        /\ Elems(trail') \subseteq Elems(trail) /\ block' = None
    BY <1>1, RolledBack
  <1>3. /\ X!View' \in Elems(x_trail) /\ X!View'.next_height = x_tip_height
        /\ Elems(x_trail') \subseteq Elems(x_trail)
        /\ Elems(x_history') \subseteq Elems(x_history) /\ x_block' = None
    BY <1>1, XRolledBack
  <1>4. x_tip_height = tip_height
    BY TwinRecords
  <1>5. Twin(View', X!View')
    BY <1>1, <1>2, <1>3, <1>4 DEF TwinInv
  <1> QED BY <1>1, <1>2, <1>3, <1>5 DEF TwinInv

LEMMA FinalizeTwin ==
    ASSUME ExactInv, NEW height \in Height,
           EFinalizeThrough(height) \/ XFinalizeThrough(height)
    PROVE  TwinInv'
  <1>1. FullInv /\ X!FullInv /\ TwinInv
    BY DEF ExactInv
  <1>2. CASE EFinalizeThrough(height)
    <2>1. /\ View' = View /\ block = None /\ block' = None
          /\ Elems(trail') \subseteq Elems(trail)
      BY <1>1, <1>2, Finalized DEF EFinalizeThrough
    <2>2. /\ X!View' = X!View /\ x_trail' = x_trail /\ x_history' = x_history
          /\ x_block' = x_block
      BY <1>2 DEF EFinalizeThrough, xvars, X!View
    <2> QED BY <1>1, <2>1, <2>2 DEF TwinInv
  <1>3. CASE XFinalizeThrough(height)
    <2>1. /\ X!View' = X!View /\ x_block = None /\ x_block' = None
          /\ Elems(x_trail') \subseteq Elems(x_trail)
          /\ Elems(x_history') \subseteq Elems(x_history)
      BY <1>1, <1>3, XFinalized DEF XFinalizeThrough
    <2>2. View' = View /\ trail' = trail /\ block' = block
      BY <1>3 DEF XFinalizeThrough, hvars, vars, View
    <2> QED BY <1>1, <2>1, <2>2 DEF TwinInv
  <1> QED BY <1>2, <1>3

LEMMA RestartTwin ==
    ASSUME ExactInv, XRestart
    PROVE  TwinInv'
  <1>1. FullInv /\ X!FullInv /\ TwinInv /\ X!HRestart
    BY RestartSame DEF ExactInv, XRestart
  <1>2. View' = View /\ trail' = trail /\ block' = block
    BY DEF XRestart, hvars, vars, View
  <1>3. /\ X!View' = X!View /\ x_trail' = x_trail /\ x_history' = x_history
        /\ x_block = None /\ x_block' = None
    BY <1>1 DEF X!HRestart, X!Restart, X!rebuild_derived_indexes, X!chainVars,
                X!callVars, X!View
  <1> QED BY <1>1, <1>2, <1>3 DEF TwinInv

LEMMA StutterTwin ==
    ASSUME ExactInv, UNCHANGED evars
    PROVE  TwinInv'
  BY DEF ExactInv, TwinInv, evars, hvars, vars, xvars, View, X!View, BlockTwin, Prepared

-----------------------------------------------------------------------------
LEMMA ExactInit == EInit => ExactInv
  <1> SUFFICES ASSUME EInit PROVE ExactInv
    OBVIOUS
  <1>1. HInit /\ X!HInit
    BY InitSame DEF EInit
  <1>2. FullInv /\ X!FullInv
    BY <1>1, SnapInit, X!SnapInit, SameValues, ParametersAssumption, ValuesAssumption
  <1>3. /\ x_block = None /\ block = None /\ Len(trail) = 0 /\ Len(x_history) = 0
        /\ x_next_height = next_height /\ x_tip_height = tip_height
        /\ x_previous_hash = previous_hash
        /\ db.heads = EmptyMap /\ x_db.heads = EmptyMap
        /\ db.commits = EmptyMap /\ x_db.commits = EmptyMap
    BY <1>1 DEF HInit, X!HInit, Init, X!Init, EmptyMap, X!EmptyMap
  <1>4. Elems(trail) = {} /\ Elems(x_history) = {}
    BY <1>3 DEF Elems
  <1>5. Twin(View, X!View)
    BY <1>3 DEF Twin, View, X!View, EmptyMap
  <1> QED BY <1>2, <1>3, <1>4, <1>5 DEF ExactInv, TwinInv

\* Each replay takes a step of its own, or none.
LEMMA EachReplay ==
    ASSUME [ENext]_evars
    PROVE  [HNext]_hvars /\ [X!HNext]_(X!hvars)
  <1>1. CASE UNCHANGED evars
    BY <1>1 DEF evars, hvars, vars, xvars, X!hvars, X!vars
  <1>2. ASSUME NEW b \in Block, NEW evidence \in SUBSET ReferencedCommit,
               NEW acquired, EBeginBlock(b, acquired, evidence)
        PROVE  HNext /\ X!HNext
    <2>1. filtered(b, acquired) \in X!Block /\ evidence \in SUBSET X!ReferencedCommit
      BY FilteredBlock, SameValues
    <2>2. /\ HBeginBlock(b, {}) /\ X!HBeginBlock(filtered(b, acquired), evidence)
      BY <1>2, BeginSame DEF EBeginBlock
    <2> QED BY <2>1, <2>2 DEF HNext, X!HNext
  <1>3. CASE EApplyTransaction
    BY <1>3, ApplySame DEF EApplyTransaction, HNext, X!HNext
  <1>4. CASE EEndBlock
    BY <1>4, EndSame DEF EEndBlock, HNext, X!HNext
  <1>5. ASSUME NEW hash \in Hashes, ERollbackTip(hash)
        PROVE  HNext /\ X!HNext
    BY <1>5, RollbackSame DEF ERollbackTip, HNext, X!HNext
  <1>6. ASSUME NEW height \in Height, EFinalizeThrough(height)
        PROVE  HNext /\ UNCHANGED X!hvars
    BY <1>6 DEF EFinalizeThrough, HNext, xvars, X!hvars, X!vars
  <1>7. ASSUME NEW height \in Height, XFinalizeThrough(height)
        PROVE  UNCHANGED hvars /\ X!HNext
    BY <1>7, FinalizeSame, SameValues DEF XFinalizeThrough, X!HNext
  <1>8. CASE XRestart
    BY <1>8, RestartSame DEF XRestart, X!HNext
  <1> QED BY <1>1, <1>2, <1>3, <1>4, <1>5, <1>6, <1>7, <1>8 DEF ENext

LEMMA ExactStep == ExactInv /\ [ENext]_evars => ExactInv'
  <1> SUFFICES ASSUME ExactInv, [ENext]_evars PROVE ExactInv'
    OBVIOUS
  <1>1. FullInv' /\ X!FullInv'
    BY EachReplay, SnapStep, XStep DEF ExactInv
  <1>2. TwinInv'
    BY BeginTwin, ApplyTwin, EndTwin, RollbackTwin, FinalizeTwin, RestartTwin,
       StutterTwin
    DEF ENext
  <1> QED BY <1>1, <1>2 DEF ExactInv

\* Every COMMIT the resolver keeps is on the branch of the complete replay with
\* the same commitment, whatever evidence the host supplied and through every
\* rollback: ExactResolver::apply_block journals the COMMITs it installs for a
\* REVEAL, so they leave with its block.
THEOREM CommitsAreCanonical == ESpec => []EvidenceIsCanonical
  <1>1. ExactInv => EvidenceIsCanonical
    BY TwinRecords DEF EvidenceIsCanonical, Get
  <1> QED BY <1>1, ExactInit, ExactStep, PTL DEF ESpec

\* At every tip an exact resolver answers for its name what complete replay
\* answers (Reducer::resolve), though it never decoded the bulletins it did not
\* fetch and dropped those of other names.
THEOREM ResolutionIsExact == ESpec => []ResolversAgree
  <1>1. ASSUME ExactInv
        PROVE  ResolversAgree
    <2>1. /\ x_tip_height = tip_height
          /\ requested \in DOMAIN x_db.heads <=> requested \in DOMAIN db.heads
          /\ requested \in DOMAIN db.heads => x_db.heads[requested] = db.heads[requested]
      BY <1>1, TwinRecords
    <2>2. \A height : resolve_answers(height) <=> Exact!resolve_answers(height)
      BY <2>1 DEF resolve_answers, Exact!resolve_answers
    <2>3. \A head, height : lifecycle(head, height) = Exact!lifecycle(head, height)
      BY DEF lifecycle, Exact!lifecycle, terminal_at, Exact!terminal_at, is_claimable,
             Exact!is_claimable
    <2>4. \A height : resolve(requested, height) = Exact!resolve(requested, height)
      BY <2>1, <2>3 DEF resolve, Exact!resolve, NoRecord, Exact!NoRecord
    <2> QED BY <2>2, <2>4 DEF ResolversAgree
  <1> QED BY <1>1, ExactInit, ExactStep, PTL DEF ESpec

\* An idle resolver's snapshot loads: it holds and journals no head of another
\* name, and passes every check of the reducer (ExactResolver::load_snapshot).
THEOREM ResolverSnapshotsLoad == ESpec => []ExactSnapshotAccepted
  <1>1. ASSUME ExactInv
        PROVE  ExactSnapshotAccepted
    <2>1. DOMAIN x_db.heads \subseteq {requested}
      BY <1>1, TwinRecords
    <2>2. \A i \in 1 .. Len(x_history) : DOMAIN x_history[i].heads \subseteq {requested}
      BY <1>1 DEF ExactInv, TwinInv, Elems
    <2>3. x_block = None => X!SnapshotValid
      BY <1>1, X!FullAccepted, SameValues, ParametersAssumption, ValuesAssumption
      DEF ExactInv, X!SnapshotAccepted
    <2> QED BY <2>1, <2>2, <2>3, SnapshotSame DEF ExactSnapshotAccepted, is_exact_for
  <1> QED BY <1>1, ExactInit, ExactStep, PTL DEF ESpec

-----------------------------------------------------------------------------
(***************************************************************************)
(* Transport.  What a resolver is given of a Core transaction.             *)
(***************************************************************************)
CoreBlock == [height : Height, hash : Hashes, prev_hash : Hashes,
              transactions : Seq(CoreTransaction)]

\* Of one that was acquired; of another, the same without its operation.
Read(tx) == NamesTransaction(tx, TRUE)

Given(tx) == IF relevant(Read(tx).operation) THEN Read(tx) ELSE Unread(Read(tx))

Spends(tx) == {tx.nullifiers[k] : k \in 1 .. Len(tx.nullifiers)}

\* Nothing for Names beside the operation at the name's route.
Sole(tx) ==
    /\ tx.named.value = "zero" /\ tx.generic.value = "zero"
    /\ tx.generic.message.kind # "None" => tx.generic.message.kind = "Message"
    /\ tx.generic.message.kind = "Message" => tx.generic.message.application # "names"

Numbered(tx) ==
    /\ Len(tx.nullifiers) = Len(tx.commitments)
    /\ Len(tx.nullifiers) <= U32Max + 1

\* A status of a route is one of three.
LEMMA Classified ==
    ASSUME NEW found \in Found, NEW expected
    PROVE  LET s == classify_inspection(found, expected)
           IN  /\ s.status = "Operation" =>
                    /\ found.value = "zero" /\ found.message.kind = "Message"
                    /\ s.operation = found.message.operation
                    /\ s.operation \in Operation /\ s.operation # None
                    /\ on_expected_route(s.operation, expected)
               /\ Silent(s) =>
                    /\ found.value = "zero"
                    /\ found.message.kind # "None" => found.message.kind = "Message"
                    /\ found.message.kind = "Message" => found.message.application # "names"
               /\ Silent(s) => s.status # "Operation"
  <1> DEFINE m == found.message
             s == classify_inspection(found, expected)
  <1>1. /\ found.value \in {"zero", "nonzero"} /\ m \in Message
        /\ m.kind \in {"None", "MalformedTransport", "MalformedEnvelope", "Message"}
        /\ m.kind = "Message" => m.operation \in Option(Operation)
    BY DEF Found, Message
  <1>2. CASE found.value # "zero"
    <2>1. s = Rejected("NonZeroCarrierValue")
      BY <1>1, <1>2 DEF classify_inspection
    <2> QED BY <2>1 DEF Rejected, Silent
  <1>3. CASE found.value = "zero" /\ m.kind = "None"
    <2>1. s = NoOperation
      BY <1>1, <1>3 DEF classify_inspection
    <2> QED BY <1>3, <2>1 DEF NoOperation, Silent
  <1>4. CASE found.value = "zero" /\ m.kind \in {"MalformedTransport", "MalformedEnvelope"}
    <2>1. s = Rejected(m.kind)
      BY <1>1, <1>4 DEF classify_inspection
    <2> QED BY <1>4, <2>1 DEF Rejected, Silent
  <1>5. CASE found.value = "zero" /\ m.kind = "Message"
    <2>1. s = IF m.application # "names" THEN Rejected("WrongApplication")
              ELSE IF m.operation = None THEN Rejected("InvalidOperation")
              ELSE IF ~on_expected_route(m.operation, expected)
                     THEN Rejected("WrongRoute")
              ELSE Decoded(m.operation)
      BY <1>1, <1>5 DEF classify_inspection
    <2>2. CASE m.application # "names"
      BY <1>5, <2>1, <2>2 DEF Rejected, Silent
    <2>3. CASE m.application = "names" /\ m.operation = None
      BY <1>5, <2>1, <2>3 DEF Rejected, Silent
    <2>4. CASE /\ m.application = "names" /\ m.operation # None
               /\ ~on_expected_route(m.operation, expected)
      BY <1>5, <2>1, <2>4 DEF Rejected, Silent
    <2>5. CASE /\ m.application = "names" /\ m.operation # None
               /\ on_expected_route(m.operation, expected)
      <3>1. s = Decoded(m.operation)
        BY <2>1, <2>5
      <3>2. m.operation \in Operation
        BY <1>1, <1>5, <2>5 DEF Option
      <3> QED BY <1>5, <2>5, <3>1, <3>2 DEF Decoded, Silent
    <2> QED BY <2>2, <2>3, <2>4, <2>5
  <1> QED BY <1>1, <1>2, <1>3, <1>4, <1>5

AtCommitRoute(tx) == inspect_validated(tx, "Commit")
AtNameRoute(tx) == inspect_validated(tx, "Name")

LEMMA Routes ==
    ASSUME NEW tx \in CoreTransaction
    PROVE  /\ AtCommitRoute(tx).status = "Operation" =>
                /\ AtCommitRoute(tx).operation \in Operation
                /\ AtCommitRoute(tx).operation # None
                /\ AtCommitRoute(tx).operation.kind = "Commit"
           /\ AtNameRoute(tx).status = "Operation" =>
                /\ AtNameRoute(tx).operation \in Operation
                /\ AtNameRoute(tx).operation # None
                /\ AtNameRoute(tx).operation.kind # "Commit"
                /\ Silent(AtCommitRoute(tx)) => Sole(tx)
           /\ Silent(AtNameRoute(tx)) => AtNameRoute(tx).status # "Operation"
           /\ Silent(AtCommitRoute(tx)) => AtCommitRoute(tx).status # "Operation"
  <1>1. /\ tx.generic \in Found /\ tx.named \in Found
    BY DEF CoreTransaction
  <1>2. /\ AtCommitRoute(tx) = classify_inspection(tx.generic, "Commit")
        /\ AtNameRoute(tx) = classify_inspection(tx.named, "Name")
    BY DEF AtCommitRoute, AtNameRoute, inspect_validated
  <1>3. /\ AtCommitRoute(tx).status = "Operation" =>
             /\ AtCommitRoute(tx).operation \in Operation
             /\ AtCommitRoute(tx).operation # None
             /\ on_expected_route(AtCommitRoute(tx).operation, "Commit")
        /\ Silent(AtCommitRoute(tx)) =>
             /\ tx.generic.value = "zero"
             /\ tx.generic.message.kind # "None" => tx.generic.message.kind = "Message"
             /\ tx.generic.message.kind = "Message" => tx.generic.message.application # "names"
             /\ AtCommitRoute(tx).status # "Operation"
    BY <1>1, <1>2, Classified
  <1>4. /\ AtNameRoute(tx).status = "Operation" =>
             /\ AtNameRoute(tx).operation \in Operation
             /\ AtNameRoute(tx).operation # None
             /\ tx.named.value = "zero"
             /\ on_expected_route(AtNameRoute(tx).operation, "Name")
        /\ Silent(AtNameRoute(tx)) => AtNameRoute(tx).status # "Operation"
    BY <1>1, <1>2, Classified
  <1> QED BY <1>3, <1>4 DEF on_expected_route, Sole

\* What is given of a transaction: every spend, and its one operation if any.
LEMMA GivenFacts ==
    ASSUME NEW tx \in CoreTransaction, Numbered(tx)
    PROVE  LET t == Read(tx)
               g == Given(tx)
           IN  /\ t \in Transaction /\ g \in Transaction
               /\ g.tx_index = tx.tx_index /\ g.txid = tx.txid
               /\ Nullifiers(g) = Spends(tx)
               /\ g.actions = actions_of(tx) /\ Unread(g).actions = actions_of(tx)
               /\ Len(tx.nullifiers) \in Nat
               /\ g = t \/ g = Unread(t)
               /\ g.operation # None => relevant(g.operation) /\ g = t
               /\ (g.operation # None /\ g.operation.kind # "Commit") =>
                    /\ AtNameRoute(tx).status = "Operation"
                    /\ AtNameRoute(tx).operation = g.operation
                    /\ Sole(tx)
               /\ (g.operation # None /\ g.operation.kind = "Commit") =>
                    /\ AtCommitRoute(tx).status = "Operation"
                    /\ AtCommitRoute(tx).operation = g.operation
               /\ AtCommitRoute(tx).status = "Operation" /\ Silent(AtNameRoute(tx)) =>
                    g.operation = AtCommitRoute(tx).operation
               /\ Unread(t) \in Transaction /\ Unread(t).operation = None
               /\ Unread(t) = Unread(g)
               /\ Unread(g).tx_index = tx.tx_index /\ Unread(g).txid = tx.txid
               /\ Nullifiers(Unread(g)) = Spends(tx)
  <1> DEFINE t == Read(tx)
             g == Given(tx)
             A == actions_of(tx)
             N == Len(tx.nullifiers)
             op == select_single_operation(AtCommitRoute(tx), AtNameRoute(tx))
  <1>1. /\ tx.tx_index \in Height /\ tx.txid \in Txids
        /\ tx.nullifiers \in Seq(Fields) /\ tx.commitments \in Seq(Fields)
    BY DEF CoreTransaction
  <1>2. /\ N \in Nat /\ N = Len(tx.commitments) /\ N <= U32Max + 1
        /\ \A k \in 1 .. N : tx.nullifiers[k] \in Fields /\ tx.commitments[k] \in Fields
    BY <1>1 DEF Numbered
  <1>3. \A k \in 1 .. N : [action_index |-> k - 1, nullifier |-> tx.nullifiers[k],
                           commitment |-> tx.commitments[k]] \in Action
    BY <1>2, ParametersAssumption DEF Action, Height
  <1>4. /\ A \in Seq(Action) /\ DOMAIN A = 1 .. N
        /\ \A k \in 1 .. N : A[k].nullifier = tx.nullifiers[k]
    BY <1>2, <1>3 DEF actions_of
  <1>5. /\ t = [tx_index |-> tx.tx_index, txid |-> tx.txid, actions |-> A,
                operation |-> op]
    BY DEF Read, NamesTransaction, inspect_commit_transaction, inspect_name_transaction,
           inspect_authenticated, AtCommitRoute, AtNameRoute
  <1>6. /\ op # None => \/ /\ AtCommitRoute(tx).status = "Operation"
                           /\ op = AtCommitRoute(tx).operation
                        \/ /\ AtNameRoute(tx).status = "Operation"
                           /\ op = AtNameRoute(tx).operation /\ Silent(AtCommitRoute(tx))
        /\ AtCommitRoute(tx).status = "Operation" /\ Silent(AtNameRoute(tx)) =>
             op = AtCommitRoute(tx).operation
    BY DEF select_single_operation
  <1>7. op \in Option(Operation)
    BY <1>6, Routes DEF Option
  <1> HIDE DEF op, A
  <1>8. t \in Transaction
    BY <1>1, <1>4, <1>5, <1>7 DEF Transaction, Option
  <1>9. /\ t.tx_index = tx.tx_index /\ t.txid = tx.txid /\ t.actions = A
        /\ t.operation = op
    BY <1>5
  <1>10. g = IF relevant(t.operation) THEN t ELSE Unread(t)
    BY DEF Given
  <1> HIDE DEF t, g
  <1>11. /\ Unread(t) \in Transaction /\ Unread(t).operation = None
         /\ Unread(t).tx_index = t.tx_index /\ Unread(t).txid = t.txid
         /\ Unread(t).actions = t.actions
    BY <1>8 DEF Unread, Transaction, Option
  <1>12. /\ g \in Transaction /\ g.tx_index = tx.tx_index /\ g.txid = tx.txid
         /\ g.actions = A /\ (g = t \/ g = Unread(t))
         /\ g.operation # None => g.operation = op /\ op # None /\ relevant(op) /\ g = t
         /\ relevant(op) => g.operation = op
    BY <1>8, <1>9, <1>10, <1>11
  <1>13. Nullifiers(g) = Spends(tx)
    BY <1>4, <1>12 DEF Nullifiers, Spends
  <1>14. (AtCommitRoute(tx).status = "Operation" /\ op = AtCommitRoute(tx).operation)
            => relevant(op) /\ op.kind = "Commit"
    BY Routes DEF relevant
  <1>15. (g.operation # None /\ g.operation.kind # "Commit") =>
           /\ AtNameRoute(tx).status = "Operation"
           /\ AtNameRoute(tx).operation = g.operation
           /\ Sole(tx)
    BY <1>6, <1>12, <1>14, Routes
  <1>16. (g.operation # None /\ g.operation.kind = "Commit") =>
           /\ AtCommitRoute(tx).status = "Operation"
           /\ AtCommitRoute(tx).operation = g.operation
    BY <1>6, <1>12, Routes
  <1>17. AtCommitRoute(tx).status = "Operation" /\ Silent(AtNameRoute(tx)) =>
            g.operation = AtCommitRoute(tx).operation
    BY <1>6, <1>12, <1>14
  <1>18. Unread(t) = Unread(g)
    <2>1. Unread(Unread(t)) = Unread(t)
      BY <1>8 DEF Unread, Transaction
    <2> QED BY <1>12, <2>1
  <1>19. Nullifiers(Unread(g)) = Spends(tx)
    BY <1>4, <1>9, <1>11, <1>18 DEF Nullifiers, Spends
  <1>20. g.actions = actions_of(tx) /\ Unread(g).actions = actions_of(tx)
    BY <1>9, <1>11, <1>12, <1>18 DEF A
  <1> QED BY <1>2, <1>20, <1>8, <1>9, <1>11, <1>12, <1>13, <1>15, <1>16, <1>17, <1>18, <1>19 DEF t, g

LEMMA InspectedBlock ==
    ASSUME NEW b \in CoreBlock, EffectsPaired(b), NEW acquired
    PROVE  LET D  == DOMAIN b.transactions
               ib == inspect_exact_name_block(b, acquired)
               xb == filtered(ib, D)
           IN  /\ D = 1 .. Len(b.transactions) /\ Len(b.transactions) \in Nat
               /\ \A i \in D : b.transactions[i] \in CoreTransaction /\ Numbered(b.transactions[i])
               /\ ib \in Block /\ xb \in Block
               /\ ib.height = b.height /\ ib.hash = b.hash /\ ib.prev_hash = b.prev_hash
               /\ xb.height = b.height /\ xb.hash = b.hash /\ xb.prev_hash = b.prev_hash
               /\ Len(ib.transactions) = Len(b.transactions)
               /\ DOMAIN ib.transactions = D
               /\ Len(xb.transactions) = Len(b.transactions)
               /\ DOMAIN xb.transactions = D
               /\ \A i \in D :
                    /\ ib.transactions[i] = IF i \in acquired
                                              THEN Read(b.transactions[i])
                                              ELSE Unread(Read(b.transactions[i]))
                    /\ xb.transactions[i] = IF i \in acquired
                                              THEN Given(b.transactions[i])
                                              ELSE Unread(Given(b.transactions[i]))
  <1> DEFINE T  == b.transactions
             D  == DOMAIN T
             nt(i) == NamesTransaction(T[i], i \in acquired)
             IT == [i \in D |-> nt(i)]
             ib == inspect_exact_name_block(b, acquired)
             xb == filtered(ib, D)
  <1>1. T \in Seq(CoreTransaction) /\ b.height \in Height /\ b.hash \in Hashes
          /\ b.prev_hash \in Hashes
    BY DEF CoreBlock
  <1>2. D = 1 .. Len(T) /\ Len(T) \in Nat /\ \A i \in D : T[i] \in CoreTransaction
    BY <1>1
  <1>3. \A i \in D : Numbered(T[i])
    BY DEF EffectsPaired, Numbered
  <1>4. ASSUME NEW i \in D
        PROVE  /\ nt(i) \in Transaction
               /\ nt(i) = IF i \in acquired THEN Read(T[i])
                          ELSE Unread(Read(T[i]))
    <2>1. nt(i) = IF i \in acquired THEN Read(T[i])
                  ELSE Unread(Read(T[i]))
      BY DEF NamesTransaction, inspect_commit_transaction, inspect_name_transaction,
             inspect_authenticated, Unread, Read
    <2>2. /\ Read(T[i]) \in Transaction
          /\ Unread(Read(T[i])) \in Transaction
      BY <1>2, <1>3, GivenFacts
    <2> QED BY <2>1, <2>2
  <1>5. ib = [height |-> b.height, hash |-> b.hash, prev_hash |-> b.prev_hash,
              transactions |-> IT]
    BY DEF inspect_exact_name_block
  <1> HIDE DEF nt
  <1>6. IT \in Seq(Transaction) /\ Len(IT) = Len(T) /\ DOMAIN IT = D
          /\ \A i \in D : IT[i] = nt(i)
    <2>1. \A i \in 1 .. Len(T) : nt(i) \in Transaction
      BY <1>2, <1>4
    <2>2. IT = [i \in 1 .. Len(T) |-> nt(i)]
      BY <1>2
    <2> QED BY <1>2, <2>1, <2>2
  <1> HIDE DEF IT, ib
  <1>7. /\ ib \in Block /\ ib.height = b.height /\ ib.hash = b.hash
        /\ ib.prev_hash = b.prev_hash /\ ib.transactions = IT
    BY <1>1, <1>5, <1>6 DEF Block
  <1>8. /\ xb \in Block /\ xb.height = b.height /\ xb.hash = b.hash
        /\ Len(xb.transactions) = Len(T)
        /\ \A i \in 1 .. Len(T) :
              xb.transactions[i] = IF i \in D /\ relevant(IT[i].operation)
                                     THEN IT[i] ELSE Unread(IT[i])
    BY <1>6, <1>7, FilteredBlock
  <1>9. xb.prev_hash = b.prev_hash
    BY <1>7 DEF filtered, Block
  <1>10. DOMAIN xb.transactions = D
    BY <1>2, <1>8 DEF Block
  <1>11. \A i \in D : xb.transactions[i] = IF i \in acquired THEN Given(T[i])
                                            ELSE Unread(Given(T[i]))
    <2> SUFFICES ASSUME NEW i \in D
                 PROVE  xb.transactions[i] = IF i \in acquired THEN Given(T[i])
                                             ELSE Unread(Given(T[i]))
      OBVIOUS
    <2> DEFINE t == Read(T[i])
    <2>1. xb.transactions[i] = IF relevant(nt(i).operation) THEN nt(i) ELSE Unread(nt(i))
      BY <1>2, <1>6, <1>8
    <2>2. nt(i) = IF i \in acquired THEN t ELSE Unread(t)
      BY <1>4
    <2>3. /\ Unread(t).operation = None /\ Unread(t) = Unread(Given(T[i]))
          /\ t \in Transaction
      BY <1>2, <1>3, GivenFacts
    <2>4. Unread(Unread(t)) = Unread(t)
      BY <2>3 DEF Unread, Transaction
    <2>5. Given(T[i]) = IF relevant(t.operation) THEN t ELSE Unread(t)
      BY DEF Given
    <2> HIDE DEF t
    <2> QED BY <2>1, <2>2, <2>3, <2>4, <2>5 DEF relevant
  <1> QED BY <1>2, <1>3, <1>4, <1>6, <1>7, <1>8, <1>9, <1>10, <1>11 DEF ib

-----------------------------------------------------------------------------
(***************************************************************************)
(* What the chain says of a view.  A view has replayed the transactions of *)
(* the chain before a place: those of the blocks before the j-th, and the  *)
(* first p of that one.                                                    *)
(***************************************************************************)
Before(j, p, i, k) == i < j \/ (i = j /\ k <= p)

\* The action the head names is one of the transaction, and holds its bond.
BondAt(tx, head) ==
    /\ head.producer.action_index + 1 \in 1 .. Len(tx.commitments)
    /\ tx.commitments[head.producer.action_index + 1] = head.commitment

\* The k-th transaction of the i-th block produced the head, carries nothing
\* else for Names, and no later block spends the head's bond while it is active.
ProducedAt(ch, head, i, k) ==
    /\ head.producer.height = ch[i].height
    /\ head.producer.tx_index = ch[i].transactions[k].tx_index
    /\ head.producer.txid = ch[i].transactions[k].txid
    /\ Sole(ch[i].transactions[k])
    /\ BondAt(ch[i].transactions[k], head)

UnspentAfter(ch, head, i, j, p) ==
    \A a \in DOMAIN ch : \A c \in DOMAIN ch[a].transactions :
        (i < a /\ Before(j, p, a, c)) => head.future_nf \notin Spends(ch[a].transactions[c])

PublishedHead(ch, head, j, p) ==
    \E i \in DOMAIN ch : \E k \in DOMAIN ch[i].transactions :
        /\ Before(j, p, i, k)
        /\ ProducedAt(ch, head, i, k)
        /\ head.terminal_height = None => UnspentAfter(ch, head, i, j, p)

Published(ch, heads, j, p) ==
    \A n \in DOMAIN heads : heads[n] \in HeadRecord /\ PublishedHead(ch, heads[n], j, p)

\* The COMMITs are those of the chain: each was decoded at its route, and each
\* that stands alone in its transaction is there while it can be used.
RefAt(ch, i, k) == [height |-> ch[i].height, tx_index |-> ch[i].transactions[k].tx_index,
                    txid |-> ch[i].transactions[k].txid]

CommitAt(ch, i, k) == AtCommitRoute(ch[i].transactions[k])

AloneAt(ch, i, k) == /\ CommitAt(ch, i, k).status = "Operation"
                     /\ Silent(AtNameRoute(ch[i].transactions[k]))

CommitsPublished(ch, commits, j, p) ==
    /\ \A r \in DOMAIN commits :
          \E i \in DOMAIN ch : \E k \in DOMAIN ch[i].transactions :
             /\ Before(j, p, i, k)
             /\ r = RefAt(ch, i, k)
             /\ CommitAt(ch, i, k).status = "Operation"
             /\ commits[r] = CommitAt(ch, i, k).operation.commitment
    /\ \A i \in DOMAIN ch : \A k \in DOMAIN ch[i].transactions :
          (Before(j, p, i, k) /\ AloneAt(ch, i, k) /\ j - i < commit_ttl_blocks) =>
             /\ RefAt(ch, i, k) \in DOMAIN commits
             /\ commits[RefAt(ch, i, k)] = CommitAt(ch, i, k).operation.commitment

\* Two chains that agree up to the place say the same.
Prefix(ch, dh, j) ==
    /\ \A i \in DOMAIN ch : i < j => i \in DOMAIN dh /\ dh[i] = ch[i]
    /\ \A i \in DOMAIN dh : i < j => i \in DOMAIN ch /\ dh[i] = ch[i]

IsChain(ch) == /\ DOMAIN ch \subseteq Nat
               /\ \A i \in DOMAIN ch : DOMAIN ch[i].transactions \subseteq Nat \ {0}

LEMMA BeforeBlock ==
    ASSUME NEW ch, IsChain(ch), NEW j, NEW i \in DOMAIN ch, NEW k \in DOMAIN ch[i].transactions
    PROVE  Before(j, 0, i, k) <=> i < j
  <1>1. k \in Nat /\ ~(k <= 0)
    BY DEF IsChain
  <1> QED BY <1>1 DEF Before

LEMMA HeadPrefix ==
    ASSUME NEW ch, NEW dh, NEW j, Prefix(ch, dh, j), IsChain(ch), IsChain(dh),
           NEW head, PublishedHead(ch, head, j, 0)
    PROVE  PublishedHead(dh, head, j, 0)
  <1>1. PICK i \in DOMAIN ch : \E k \in DOMAIN ch[i].transactions :
          /\ Before(j, 0, i, k) /\ ProducedAt(ch, head, i, k)
          /\ head.terminal_height = None => UnspentAfter(ch, head, i, j, 0)
    BY DEF PublishedHead
  <1>2. PICK k \in DOMAIN ch[i].transactions :
          /\ Before(j, 0, i, k) /\ ProducedAt(ch, head, i, k)
          /\ head.terminal_height = None => UnspentAfter(ch, head, i, j, 0)
    BY <1>1
  <1>3. i < j
    BY <1>2, BeforeBlock
  <1>4. i \in DOMAIN dh /\ dh[i] = ch[i]
    BY <1>3 DEF Prefix
  <1>5. ProducedAt(dh, head, i, k) /\ k \in DOMAIN dh[i].transactions
    BY <1>2, <1>4 DEF ProducedAt
  <1>6. head.terminal_height = None => UnspentAfter(dh, head, i, j, 0)
    <2> SUFFICES ASSUME head.terminal_height = None, NEW a \in DOMAIN dh,
                        NEW c \in DOMAIN dh[a].transactions, i < a, Before(j, 0, a, c)
                 PROVE  head.future_nf \notin Spends(dh[a].transactions[c])
      BY DEF UnspentAfter
    <2>1. a < j
      BY BeforeBlock
    <2>2. a \in DOMAIN ch /\ dh[a] = ch[a]
      BY <2>1 DEF Prefix
    <2>3. Before(j, 0, a, c)
      OBVIOUS
    <2> QED BY <1>2, <2>2, <2>3 DEF UnspentAfter
  <1>7. Before(j, 0, i, k)
    BY <1>2
  <1> QED BY <1>4, <1>5, <1>6, <1>7 DEF PublishedHead

LEMMA CommitsPrefix ==
    ASSUME NEW ch, NEW dh, NEW j, Prefix(ch, dh, j), IsChain(ch), IsChain(dh),
           NEW commits, CommitsPublished(ch, commits, j, 0)
    PROVE  CommitsPublished(dh, commits, j, 0)
  <1>1. ASSUME NEW r \in DOMAIN commits
        PROVE  \E i \in DOMAIN dh : \E k \in DOMAIN dh[i].transactions :
                 /\ Before(j, 0, i, k) /\ r = RefAt(dh, i, k)
                 /\ CommitAt(dh, i, k).status = "Operation"
                 /\ commits[r] = CommitAt(dh, i, k).operation.commitment
    <2>1. PICK i \in DOMAIN ch : \E k \in DOMAIN ch[i].transactions :
             /\ Before(j, 0, i, k) /\ r = RefAt(ch, i, k)
             /\ CommitAt(ch, i, k).status = "Operation"
             /\ commits[r] = CommitAt(ch, i, k).operation.commitment
      BY DEF CommitsPublished
    <2>2. PICK k \in DOMAIN ch[i].transactions :
             /\ Before(j, 0, i, k) /\ r = RefAt(ch, i, k)
             /\ CommitAt(ch, i, k).status = "Operation"
             /\ commits[r] = CommitAt(ch, i, k).operation.commitment
      BY <2>1
    <2>3. i < j
      BY <2>2, BeforeBlock
    <2>4. i \in DOMAIN dh /\ dh[i] = ch[i]
      BY <2>3 DEF Prefix
    <2>5. RefAt(dh, i, k) = RefAt(ch, i, k) /\ CommitAt(dh, i, k) = CommitAt(ch, i, k)
      BY <2>4 DEF RefAt, CommitAt
    <2> QED BY <2>2, <2>4, <2>5
  <1>2. ASSUME NEW i \in DOMAIN dh, NEW k \in DOMAIN dh[i].transactions,
               Before(j, 0, i, k), AloneAt(dh, i, k), j - i < commit_ttl_blocks
        PROVE  /\ RefAt(dh, i, k) \in DOMAIN commits
               /\ commits[RefAt(dh, i, k)] = CommitAt(dh, i, k).operation.commitment
    <2>1. i < j
      BY <1>2, BeforeBlock
    <2>2. i \in DOMAIN ch /\ dh[i] = ch[i]
      BY <2>1 DEF Prefix
    <2>3. /\ RefAt(dh, i, k) = RefAt(ch, i, k) /\ CommitAt(dh, i, k) = CommitAt(ch, i, k)
          /\ AloneAt(ch, i, k) /\ k \in DOMAIN ch[i].transactions
      BY <1>2, <2>2 DEF RefAt, CommitAt, AloneAt
    <2> QED BY <1>2, <2>2, <2>3 DEF CommitsPublished
  <1> QED BY <1>1, <1>2 DEF CommitsPublished

\* The start of a block: heads end and leave, COMMITs leave.
LEMMA HeadsBegin ==
    ASSUME NEW ch, NEW heads, NEW new, NEW j, NEW p, NEW height,
           Published(ch, heads, j, p), DOMAIN new \subseteq DOMAIN heads,
           \A n \in DOMAIN new : new[n] = Marked(heads[n], height)
    PROVE  Published(ch, new, j, p)
  <1> SUFFICES ASSUME NEW n \in DOMAIN new
               PROVE  new[n] \in HeadRecord /\ PublishedHead(ch, new[n], j, p)
    BY DEF Published
  <1>1. heads[n] \in HeadRecord /\ PublishedHead(ch, heads[n], j, p)
    BY DEF Published
  <1>2. /\ new[n] \in HeadRecord /\ new[n].producer = heads[n].producer
        /\ new[n].future_nf = heads[n].future_nf
        /\ new[n].terminal_height = None => heads[n].terminal_height = None
        /\ new[n].commitment = heads[n].commitment
    BY <1>1, MarkedFacts
  <1> QED BY <1>1, <1>2 DEF PublishedHead, ProducedAt, UnspentAfter, BondAt

LEMMA CommitsBegin ==
    ASSUME NEW ch, NEW commits, NEW new, NEW j \in Nat,
           CommitsPublished(ch, commits, j, 0), IsChain(ch),
           \A i \in DOMAIN ch : ch[i].height = activation_height + i - 1,
           \A r : r \in DOMAIN new <=>
                    r \in DOMAIN commits
                      /\ ~(r.height <= (activation_height + j - 1) - commit_ttl_blocks),
           \A r \in DOMAIN new : new[r] = commits[r]
    PROVE  CommitsPublished(ch, new, j, 0)
  <1>1. ASSUME NEW i \in DOMAIN ch, NEW k \in DOMAIN ch[i].transactions,
               Before(j, 0, i, k), AloneAt(ch, i, k), j - i < commit_ttl_blocks
        PROVE  /\ RefAt(ch, i, k) \in DOMAIN new
               /\ new[RefAt(ch, i, k)] = CommitAt(ch, i, k).operation.commitment
    <2>1. /\ RefAt(ch, i, k) \in DOMAIN commits
          /\ commits[RefAt(ch, i, k)] = CommitAt(ch, i, k).operation.commitment
      BY <1>1 DEF CommitsPublished
    <2>2. RefAt(ch, i, k).height = activation_height + i - 1 /\ i \in Nat
      BY DEF RefAt, IsChain
    <2>3. ~(RefAt(ch, i, k).height <= (activation_height + j - 1) - commit_ttl_blocks)
      BY <1>1, <2>2, ParameterFacts
    <2> QED BY <2>1, <2>3
  <1>2. \A r \in DOMAIN new : r \in DOMAIN commits /\ new[r] = commits[r]
    OBVIOUS
  <1> QED BY <1>1, <1>2 DEF CommitsPublished

\* The end of a block.
LEMMA PublishedEnd ==
    ASSUME NEW ch, IsChain(ch), NEW j \in DOMAIN ch, NEW p,
           DOMAIN ch[j].transactions \subseteq 1 .. p, p \in Nat
    PROVE  /\ \A heads : Published(ch, heads, j, p) => Published(ch, heads, j + 1, 0)
           /\ \A commits : CommitsPublished(ch, commits, j, p) =>
                             CommitsPublished(ch, commits, j + 1, 0)
  <1>1. ASSUME NEW i \in DOMAIN ch, NEW k \in DOMAIN ch[i].transactions
        PROVE  Before(j + 1, 0, i, k) <=> Before(j, p, i, k)
    <2>1. i \in Nat /\ j \in Nat /\ k \in Nat
      BY DEF IsChain
    <2>2. Before(j + 1, 0, i, k) <=> i < j + 1
      BY BeforeBlock
    <2>3. i = j => k <= p
      OBVIOUS
    <2> QED BY <2>1, <2>2, <2>3 DEF Before
  <1>2. ASSUME NEW head, PublishedHead(ch, head, j, p)
        PROVE  PublishedHead(ch, head, j + 1, 0)
    <2>1. ASSUME NEW i, UnspentAfter(ch, head, i, j, p)
          PROVE  UnspentAfter(ch, head, i, j + 1, 0)
      BY <1>1, <2>1 DEF UnspentAfter
    <2> QED BY <1>1, <1>2, <2>1 DEF PublishedHead
  <1>3. \A heads : Published(ch, heads, j, p) => Published(ch, heads, j + 1, 0)
    BY <1>2 DEF Published
  <1>4. ASSUME NEW commits, CommitsPublished(ch, commits, j, p)
        PROVE  CommitsPublished(ch, commits, j + 1, 0)
    <2>1. ASSUME NEW i \in DOMAIN ch, (j + 1) - i < commit_ttl_blocks
          PROVE  j - i < commit_ttl_blocks
      BY <2>1, ParameterFacts DEF IsChain
    <2>2. ASSUME NEW r \in DOMAIN commits
          PROVE  \E i \in DOMAIN ch : \E k \in DOMAIN ch[i].transactions :
                   /\ Before(j + 1, 0, i, k) /\ r = RefAt(ch, i, k)
                   /\ CommitAt(ch, i, k).status = "Operation"
                   /\ commits[r] = CommitAt(ch, i, k).operation.commitment
      BY <1>1, <1>4 DEF CommitsPublished
    <2>3. ASSUME NEW i \in DOMAIN ch, NEW k \in DOMAIN ch[i].transactions,
                 Before(j + 1, 0, i, k), AloneAt(ch, i, k), (j + 1) - i < commit_ttl_blocks
          PROVE  /\ RefAt(ch, i, k) \in DOMAIN commits
                 /\ commits[RefAt(ch, i, k)] = CommitAt(ch, i, k).operation.commitment
      <3>1. Before(j, p, i, k) /\ j - i < commit_ttl_blocks
        BY <1>1, <2>1, <2>3
      <3> QED BY <1>4, <2>3, <3>1 DEF CommitsPublished
    <2> QED BY <2>2, <2>3 DEF CommitsPublished
  <1> QED BY <1>3, <1>4

\* One more transaction, of which the replay was given g: its spends end
\* heads, and it may install one.
Conveys(g, tx) ==
    /\ g.tx_index = tx.tx_index /\ g.txid = tx.txid
    /\ Nullifiers(g) = Spends(tx)
    /\ (g.operation # None /\ g.operation.kind # "Commit") => Sole(tx)
    /\ g.actions = actions_of(tx) /\ Numbered(tx) /\ Len(tx.nullifiers) \in Nat

Replayed(d, new, height, g) ==
    /\ \A n : n \in DOMAIN new <=>
                 n \in DOMAIN d.heads \/ (Installs(d, height, g) /\ n = g.operation.name)
    /\ Installs(d, height, g) =>
         new[g.operation.name] = NewHead(height, g) /\ NewHead(height, g) \in HeadRecord
    /\ \A n \in DOMAIN d.heads :
          ~(Installs(d, height, g) /\ n = g.operation.name) =>
            new[n] = IF d.heads[n].terminal_height = None
                          /\ d.heads[n].future_nf \in Nullifiers(g)
                       THEN EndedAt(d.heads[n], height) ELSE d.heads[n]

LEMMA HeadsApply ==
    ASSUME NEW ch, IsChain(ch), NEW j \in DOMAIN ch, NEW p \in Nat,
           p + 1 \in DOMAIN ch[j].transactions,
           NEW d, NEW new, NEW g, NEW height \in Height,
           Published(ch, d.heads, j, p), height = ch[j].height,
           Conveys(g, ch[j].transactions[p + 1]), Replayed(d, new, height, g)
    PROVE  Published(ch, new, j, p + 1)
  <1> DEFINE tx == ch[j].transactions[p + 1]
  <1> USE DEF Conveys, Replayed
  <1>1. /\ \A i \in DOMAIN ch : i \in Nat
        /\ \A i \in DOMAIN ch : \A k \in DOMAIN ch[i].transactions : k \in Nat
    BY DEF IsChain
  <1>2. ASSUME NEW i \in DOMAIN ch, NEW k \in DOMAIN ch[i].transactions
        PROVE  /\ Before(j, p, i, k) => Before(j, p + 1, i, k)
               /\ Before(j, p + 1, i, k) => Before(j, p, i, k) \/ (i = j /\ k = p + 1)
    BY <1>1 DEF Before
  <1>3. ASSUME NEW n \in DOMAIN new
        PROVE  new[n] \in HeadRecord /\ PublishedHead(ch, new[n], j, p + 1)
    <2>1. CASE Installs(d, height, g) /\ n = g.operation.name
      <3> DEFINE head == NewHead(height, g)
      <3>1. new[n] = head /\ head \in HeadRecord
        BY <2>1
      <3>2. /\ head.producer.height = height /\ head.producer.tx_index = g.tx_index
            /\ head.producer.txid = g.txid
        BY DEF NewHead
      <3>3. g.operation # None /\ g.operation.kind # "Commit"
            /\ HasAction(g, g.operation.action_index)
        BY <2>1 DEF Installs, RevealAccepted, RefreshAccepted
      <3>7. BondAt(tx, head)
        <4> DEFINE a == g.operation.action_index + 1
        <4>1. /\ head.producer.action_index = g.operation.action_index
              /\ head.commitment = g.actions[a].commitment
          BY DEF NewHead
        <4>2. /\ a \in 1 .. Len(tx.nullifiers) /\ Len(tx.nullifiers) = Len(tx.commitments)
              /\ g.actions[a].commitment = tx.commitments[a]
          BY <3>3 DEF HasAction, actions_of, Numbered
        <4> QED BY <4>1, <4>2 DEF BondAt
      <3> HIDE DEF head
      <3>4. ProducedAt(ch, head, j, p + 1)
        BY <3>2, <3>3, <3>7 DEF ProducedAt
      <3>5. UnspentAfter(ch, head, j, j, p + 1)
        BY <1>1 DEF UnspentAfter, Before
      <3>6. Before(j, p + 1, j, p + 1)
        BY <1>1 DEF Before
      <3> QED BY <3>1, <3>4, <3>5, <3>6 DEF PublishedHead
    <2>2. CASE ~(Installs(d, height, g) /\ n = g.operation.name)
      <3> DEFINE old == d.heads[n]
      <3>1. n \in DOMAIN d.heads /\ old \in HeadRecord /\ PublishedHead(ch, old, j, p)
        BY <1>3, <2>2 DEF Published
      <3>2. new[n] = IF old.terminal_height = None /\ old.future_nf \in Nullifiers(g)
                       THEN EndedAt(old, height) ELSE old
        BY <2>2, <3>1
      <3> HIDE DEF old
      <3>3. /\ EndedAt(old, height) \in HeadRecord
            /\ EndedAt(old, height).terminal_height = height
            /\ EndedAt(old, height).producer = old.producer
            /\ EndedAt(old, height).commitment = old.commitment
        BY <3>1 DEF EndedAt, HeadRecord, Option
      <3>4. height # None
        BY ValuesAssumption
      <3>5. /\ new[n] \in HeadRecord /\ new[n].producer = old.producer
            /\ new[n].commitment = old.commitment
            /\ new[n].terminal_height = None =>
                 /\ new[n] = old /\ old.future_nf \notin Nullifiers(g)
        BY <3>1, <3>2, <3>3, <3>4
      <3>6. PICK i \in DOMAIN ch : \E k \in DOMAIN ch[i].transactions :
              /\ Before(j, p, i, k) /\ ProducedAt(ch, old, i, k)
              /\ old.terminal_height = None => UnspentAfter(ch, old, i, j, p)
        BY <3>1 DEF PublishedHead
      <3>7. PICK k \in DOMAIN ch[i].transactions :
              /\ Before(j, p, i, k) /\ ProducedAt(ch, old, i, k)
              /\ old.terminal_height = None => UnspentAfter(ch, old, i, j, p)
        BY <3>6
      <3>8. ProducedAt(ch, new[n], i, k)
        BY <3>5, <3>7 DEF ProducedAt, BondAt
      <3>9. new[n].terminal_height = None => UnspentAfter(ch, new[n], i, j, p + 1)
        <4> SUFFICES ASSUME new[n].terminal_height = None, NEW a \in DOMAIN ch,
                            NEW c \in DOMAIN ch[a].transactions,
                            i < a, Before(j, p + 1, a, c)
                     PROVE  new[n].future_nf \notin Spends(ch[a].transactions[c])
          BY DEF UnspentAfter
        <4>1. new[n] = old /\ old.future_nf \notin Spends(tx)
          BY <3>5
        <4>2. CASE Before(j, p, a, c)
          BY <3>5, <3>7, <4>1, <4>2 DEF UnspentAfter
        <4>3. CASE a = j /\ c = p + 1
          BY <4>1, <4>3
        <4> QED BY <1>2, <4>2, <4>3
      <3>10. Before(j, p + 1, i, k)
        BY <1>2, <3>7
      <3> QED BY <3>5, <3>8, <3>9, <3>10 DEF PublishedHead
    <2> QED BY <2>1, <2>2
  <1> QED BY <1>3 DEF Published

LEMMA CommitsApply ==
    ASSUME NEW ch, IsChain(ch), NEW j \in DOMAIN ch, NEW p \in Nat,
           p + 1 \in DOMAIN ch[j].transactions,
           NEW commits, NEW new, NEW g,
           CommitsPublished(ch, commits, j, p),
           \A i \in DOMAIN ch : \A k, l \in DOMAIN ch[i].transactions :
              k < l => ch[i].transactions[k].tx_index < ch[i].transactions[l].tx_index,
           \A i \in DOMAIN ch : \A k \in DOMAIN ch[i].transactions :
              ch[i].transactions[k].tx_index \in Nat,
           \A i \in DOMAIN ch : ch[i].height = activation_height + i - 1,
           LET stores == g.operation # None /\ g.operation.kind = "Commit"
               ref == RefAt(ch, j, p + 1)
           IN  /\ stores => /\ CommitAt(ch, j, p + 1).status = "Operation"
                            /\ CommitAt(ch, j, p + 1).operation = g.operation
                            /\ \A r : r \in DOMAIN new <=> r \in DOMAIN commits \/ r = ref
                            /\ new[ref] = g.operation.commitment
                            /\ \A r \in DOMAIN commits : r # ref => new[r] = commits[r]
               /\ ~stores => new = commits
               /\ AloneAt(ch, j, p + 1) => stores
    PROVE  CommitsPublished(ch, new, j, p + 1)
  <1> DEFINE ref == RefAt(ch, j, p + 1)
             stores == g.operation # None /\ g.operation.kind = "Commit"
  <1>1. /\ \A i \in DOMAIN ch : i \in Nat
        /\ \A i \in DOMAIN ch : \A k \in DOMAIN ch[i].transactions : k \in Nat
    BY DEF IsChain
  <1>2. ASSUME NEW i \in DOMAIN ch, NEW k \in DOMAIN ch[i].transactions
        PROVE  /\ Before(j, p, i, k) => Before(j, p + 1, i, k)
               /\ Before(j, p + 1, i, k) => Before(j, p, i, k) \/ (i = j /\ k = p + 1)
               /\ Before(j, p, i, k) => RefAt(ch, i, k) # ref
    <2>1. /\ Before(j, p, i, k) => Before(j, p + 1, i, k)
          /\ Before(j, p + 1, i, k) => Before(j, p, i, k) \/ (i = j /\ k = p + 1)
          /\ Before(j, p, i, k) => i # j \/ k < p + 1
      BY <1>1 DEF Before
    <2>2. i # j => RefAt(ch, i, k).height # ref.height
      BY <1>1, ParameterFacts DEF RefAt
    <2>3. i = j /\ k < p + 1 => RefAt(ch, i, k).tx_index # ref.tx_index
      BY DEF RefAt
    <2> QED BY <2>1, <2>2, <2>3
  <1>3. ASSUME NEW r \in DOMAIN new
        PROVE  \E i \in DOMAIN ch : \E k \in DOMAIN ch[i].transactions :
                 /\ Before(j, p + 1, i, k) /\ r = RefAt(ch, i, k)
                 /\ CommitAt(ch, i, k).status = "Operation"
                 /\ new[r] = CommitAt(ch, i, k).operation.commitment
    <2>1. CASE stores /\ r = ref
      <3>1. Before(j, p + 1, j, p + 1)
        BY <1>1 DEF Before
      <3> QED BY <2>1, <3>1
    <2>2. CASE ~(stores /\ r = ref)
      <3>1. r \in DOMAIN commits /\ new[r] = commits[r]
        BY <1>3, <2>2
      <3>2. \E i \in DOMAIN ch : \E k \in DOMAIN ch[i].transactions :
                 /\ Before(j, p, i, k) /\ r = RefAt(ch, i, k)
                 /\ CommitAt(ch, i, k).status = "Operation"
                 /\ commits[r] = CommitAt(ch, i, k).operation.commitment
        BY <3>1 DEF CommitsPublished
      <3> HIDE DEF ref, stores
      <3> QED BY <1>2, <3>1, <3>2
    <2> QED BY <2>1, <2>2
  <1>4. ASSUME NEW i \in DOMAIN ch, NEW k \in DOMAIN ch[i].transactions,
               Before(j, p + 1, i, k), AloneAt(ch, i, k), j - i < commit_ttl_blocks
        PROVE  /\ RefAt(ch, i, k) \in DOMAIN new
               /\ new[RefAt(ch, i, k)] = CommitAt(ch, i, k).operation.commitment
    <2>1. CASE Before(j, p, i, k)
      <3>1. /\ RefAt(ch, i, k) \in DOMAIN commits
            /\ commits[RefAt(ch, i, k)] = CommitAt(ch, i, k).operation.commitment
        BY <1>4, <2>1 DEF CommitsPublished
      <3>2. RefAt(ch, i, k) # ref
        BY <1>2, <2>1
      <3> QED BY <3>1, <3>2
    <2>2. CASE i = j /\ k = p + 1
      BY <1>4, <2>2
    <2> QED BY <1>2, <1>4, <2>1, <2>2
  <1> QED BY <1>3, <1>4 DEF CommitsPublished

-----------------------------------------------------------------------------
(***************************************************************************)
(* The chain and the two replays.                                          *)
(***************************************************************************)
Wellformed(ch) ==
    /\ ch \in Seq(CoreBlock)
    /\ \A i \in DOMAIN ch :
          /\ ch[i].height = activation_height + i - 1
          /\ \A k \in DOMAIN ch[i].transactions : Numbered(ch[i].transactions[k])
          /\ \A k, l \in DOMAIN ch[i].transactions :
                k < l => ch[i].transactions[k].tx_index < ch[i].transactions[l].tx_index

InBlock ==
    LET T == chain[Len(chain)].transactions
    IN  /\ Len(chain) # 0
        /\ x_pos = pos /\ x_block.height = block.height
        /\ Len(block.transactions) = Len(T) /\ Len(x_block.transactions) = Len(T)
        /\ \A k \in DOMAIN T : /\ block.transactions[k] = Given(T[k])
                               /\ x_block.transactions[k] \in {Given(T[k]), Unread(Given(T[k]))}

ChainInv ==
    /\ Wellformed(chain)
    /\ CurrentHeight = None <=> Len(chain) = 0
    /\ CurrentHeight # None => CurrentHeight = activation_height + Len(chain) - 1
    /\ x_next_height = next_height /\ x_tip_height = tip_height
    /\ x_block = None <=> block = None
    /\ block # None => InBlock

\* How far the present view has come, and a past one.
FrontBlock == IF block = None THEN Len(chain) + 1 ELSE Len(chain)
FrontTx == IF block = None THEN 0 ELSE pos
PastBlock(v) == v.next_height - activation_height + 1

PublishInv ==
    /\ Published(chain, db.heads, FrontBlock, FrontTx)
    /\ Published(chain, x_db.heads, FrontBlock, FrontTx)
    /\ \A v \in Elems(trail) : Published(chain, v.heads, PastBlock(v), 0)
    /\ \A v \in Elems(x_trail) : Published(chain, v.heads, PastBlock(v), 0)

CommitInv ==
    /\ CommitsPublished(chain, db.commits, FrontBlock, FrontTx)
    /\ \A v \in Elems(trail) : CommitsPublished(chain, v.commits, PastBlock(v), 0)

TransportInv == FullInv /\ X!FullInv /\ ChainInv /\ PublishInv /\ CommitInv

LEMMA ChainFacts ==
    ASSUME NEW ch, Wellformed(ch)
    PROVE  /\ Len(ch) \in Nat /\ DOMAIN ch = 1 .. Len(ch) /\ IsChain(ch)
           /\ \A i \in DOMAIN ch :
                /\ ch[i] \in CoreBlock
                /\ DOMAIN ch[i].transactions = 1 .. Len(ch[i].transactions)
                /\ Len(ch[i].transactions) \in Nat
                /\ \A k \in DOMAIN ch[i].transactions :
                     /\ ch[i].transactions[k] \in CoreTransaction
                     /\ ch[i].transactions[k].tx_index \in Nat
  <1>1. ch \in Seq(CoreBlock)
    BY DEF Wellformed
  <1>2. /\ Len(ch) \in Nat /\ DOMAIN ch = 1 .. Len(ch)
        /\ \A i \in DOMAIN ch : ch[i] \in CoreBlock
    BY <1>1
  <1>3. ASSUME NEW c \in CoreBlock
        PROVE  /\ DOMAIN c.transactions = 1 .. Len(c.transactions)
               /\ Len(c.transactions) \in Nat
               /\ \A k \in DOMAIN c.transactions :
                     /\ c.transactions[k] \in CoreTransaction
                     /\ c.transactions[k].tx_index \in Nat
    <2>1. c.transactions \in Seq(CoreTransaction)
      BY DEF CoreBlock
    <2>2. \A t \in CoreTransaction : t.tx_index \in Nat
      BY ParametersAssumption DEF CoreTransaction, Height
    <2> QED BY <2>1, <2>2
  <1>4. IsChain(ch)
    BY <1>2, <1>3 DEF IsChain
  <1> QED BY <1>2, <1>3, <1>4

LEMMA ReferencedType ==
    ASSUME Wellformed(chain), NEW b \in Block
    PROVE  referenced_commits(b) \subseteq ReferencedCommit
  <1> SUFFICES ASSUME NEW e \in referenced_commits(b)
               PROVE  e \in ReferencedCommit
    OBVIOUS
  <1>1. PICK r \in RevealReferences(b) : \E tx \in Located(r) :
          /\ AtCommitRoute(tx).status = "Operation"
          /\ e = [reference |-> r, commitment |-> AtCommitRoute(tx).operation.commitment]
    BY DEF referenced_commits, inspect_validated_commit_transaction, AtCommitRoute
  <1>5. PICK tx \in Located(r) :
          /\ AtCommitRoute(tx).status = "Operation"
          /\ e = [reference |-> r, commitment |-> AtCommitRoute(tx).operation.commitment]
    BY <1>1
  <1>2. r \in CommitRef
    <2>1. PICK k \in DOMAIN b.transactions :
            /\ b.transactions[k].operation # None
            /\ b.transactions[k].operation.kind = "Reveal"
            /\ r = b.transactions[k].operation.commit
      BY DEF RevealReferences
    <2>2. b.transactions[k] \in Transaction
      BY DEF Block
    <2>3. b.transactions[k].operation \in Operation
      BY <2>1, <2>2 DEF Transaction, Option
    <2> QED BY <2>1, <2>3 DEF Operation
  <1>3. tx \in CoreTransaction
    BY ChainFacts DEF Located, CoreBlockAt
  <1>4. AtCommitRoute(tx).operation.commitment \in Commitments
    <2>1. /\ AtCommitRoute(tx).operation \in Operation
          /\ AtCommitRoute(tx).operation.kind = "Commit"
      BY <1>5, <1>3, Routes
    <2> QED BY <2>1 DEF Operation
  <1> QED BY <1>5, <1>2, <1>4 DEF ReferencedCommit

\* What each replay starts of a Core block.
LEMMA BeginGiven ==
    ASSUME Wellformed(chain), NEW b \in CoreBlock, NEW acquired, TBeginBlock(b, acquired)
    PROVE  LET D == DOMAIN b.transactions
               B == filtered(inspect_exact_name_block(b, D), D)
               S == filtered(inspect_exact_name_block(b, acquired), D)
               E == referenced_commits(inspect_exact_name_block(b, acquired))
           IN  /\ B \in Block /\ S \in Block /\ E \in SUBSET ReferencedCommit
               /\ HBeginBlock(B, {}) /\ Exact!HBeginBlock(S, E)
               /\ B.height = b.height /\ S.height = b.height
               /\ D = 1 .. Len(b.transactions)
               /\ Len(b.transactions) \in Nat
               /\ Len(B.transactions) = Len(b.transactions)
               /\ Len(S.transactions) = Len(b.transactions)
               /\ DOMAIN B.transactions = D
               /\ \A k \in D :
                    /\ b.transactions[k] \in CoreTransaction /\ Numbered(b.transactions[k])
                    /\ B.transactions[k] = Given(b.transactions[k])
                    /\ S.transactions[k] \in {Given(b.transactions[k]),
                                              Unread(Given(b.transactions[k]))}
               /\ chain' = Append(chain, b)
  <1> DEFINE D == DOMAIN b.transactions
             B == filtered(inspect_exact_name_block(b, D), D)
             S == filtered(inspect_exact_name_block(b, acquired), D)
             E == referenced_commits(inspect_exact_name_block(b, acquired))
  <1>1. /\ EffectsPaired(b) /\ HBeginBlock(B, {}) /\ Exact!HBeginBlock(S, E)
        /\ chain' = Append(chain, b)
    BY DEF TBeginBlock
  <1>2. /\ B \in Block /\ B.height = b.height
        /\ D = 1 .. Len(b.transactions) /\ Len(b.transactions) \in Nat
        /\ Len(B.transactions) = Len(b.transactions) /\ DOMAIN B.transactions = D
        /\ \A k \in D :
              /\ b.transactions[k] \in CoreTransaction /\ Numbered(b.transactions[k])
              /\ B.transactions[k] = Given(b.transactions[k])
    BY <1>1, InspectedBlock
  <1>3. /\ S \in Block /\ S.height = b.height
        /\ inspect_exact_name_block(b, acquired) \in Block
        /\ Len(S.transactions) = Len(b.transactions)
        /\ \A k \in D : S.transactions[k] \in {Given(b.transactions[k]),
                                               Unread(Given(b.transactions[k]))}
    <2>1. EffectsPaired(b)
      BY <1>1
    <2>2. /\ S \in Block /\ S.height = b.height
          /\ inspect_exact_name_block(b, acquired) \in Block
          /\ Len(S.transactions) = Len(b.transactions)
      BY <2>1, InspectedBlock
    <2>3. \A k \in D : S.transactions[k] = IF k \in acquired
                                              THEN Given(b.transactions[k])
                                              ELSE Unread(Given(b.transactions[k]))
      BY <2>1, InspectedBlock
    <2> QED BY <2>2, <2>3
  <1>4. E \in SUBSET ReferencedCommit
    BY <1>3, ReferencedType
  <1> HIDE DEF B, S, E, D
  <1>5. /\ B \in Block /\ S \in Block /\ E \in SUBSET ReferencedCommit
        /\ HBeginBlock(B, {}) /\ Exact!HBeginBlock(S, E) /\ chain' = Append(chain, b)
    BY <1>1, <1>2, <1>3, <1>4
  <1> QED BY <1>2, <1>3, <1>5 DEF B, S, E, D

\* Each replay takes a step of its own.
LEMMA EachTransport ==
    ASSUME TransportInv, [TNext]_tvars
    PROVE  [HNext]_hvars /\ [X!HNext]_(X!hvars)
  <1>1. CASE UNCHANGED tvars
    BY <1>1 DEF tvars, evars, hvars, vars, xvars, X!hvars, X!vars
  <1>2. ASSUME NEW b \in CoreBlock, NEW acquired, TBeginBlock(b, acquired)
        PROVE  HNext /\ X!HNext
    <2>1. PICK B \in Block, S \in Block, E \in SUBSET ReferencedCommit :
            HBeginBlock(B, {}) /\ Exact!HBeginBlock(S, E)
      BY <1>2, BeginGiven DEF TransportInv, ChainInv
    <2>2. S \in X!Block /\ E \in SUBSET X!ReferencedCommit /\ X!HBeginBlock(S, E)
      BY <2>1, SameValues, BeginSame
    <2>3. {} \in SUBSET ReferencedCommit
      OBVIOUS
    <2> QED BY <2>1, <2>2, <2>3 DEF HNext, X!HNext
  <1>3. CASE TApplyTransaction
    BY <1>3, ApplySame DEF TApplyTransaction, EApplyTransaction, HNext, X!HNext
  <1>4. CASE TEndBlock
    BY <1>4, EndSame DEF TEndBlock, EEndBlock, HNext, X!HNext
  <1>5. ASSUME NEW hash \in Hashes, TRollbackTip(hash)
        PROVE  HNext /\ X!HNext
    BY <1>5, RollbackSame DEF TRollbackTip, ERollbackTip, HNext, X!HNext
  <1> QED BY <1>1, <1>2, <1>3, <1>4, <1>5 DEF TNext, CoreBlock

\* The chain with one more block, seen from the places before it.
LEMMA ChainAppend ==
    ASSUME NEW ch, Wellformed(ch), NEW b \in CoreBlock,
           b.height = activation_height + Len(ch),
           \A k \in DOMAIN b.transactions : Numbered(b.transactions[k]),
           \A k, l \in DOMAIN b.transactions :
              k < l => b.transactions[k].tx_index < b.transactions[l].tx_index
    PROVE  LET dh == Append(ch, b)
           IN  /\ Wellformed(dh) /\ Len(dh) = Len(ch) + 1 /\ dh[Len(dh)] = b
               /\ \A j \in Int : j <= Len(ch) + 1 => Prefix(ch, dh, j)
  <1> DEFINE dh == Append(ch, b)
             L == Len(ch)
  <1>1. ch \in Seq(CoreBlock) /\ L \in Nat /\ DOMAIN ch = 1 .. L
    BY ChainFacts DEF Wellformed
  <1>2. /\ dh \in Seq(CoreBlock) /\ Len(dh) = L + 1 /\ DOMAIN dh = 1 .. (L + 1)
        /\ dh[L + 1] = b /\ \A i \in 1 .. L : dh[i] = ch[i]
    BY <1>1
  <1> HIDE DEF dh
  <1>3. \A j \in Int : j <= L + 1 => Prefix(ch, dh, j)
    BY <1>1, <1>2 DEF Prefix
  <1>4. ASSUME NEW i \in DOMAIN dh
        PROVE  /\ dh[i].height = activation_height + i - 1
               /\ \A k \in DOMAIN dh[i].transactions : Numbered(dh[i].transactions[k])
               /\ \A k, l \in DOMAIN dh[i].transactions :
                     k < l => dh[i].transactions[k].tx_index < dh[i].transactions[l].tx_index
    <2>1. CASE i \in 1 .. L
      BY <1>1, <1>2, <2>1 DEF Wellformed
    <2>2. CASE i = L + 1
      <3>1. activation_height + L = activation_height + i - 1
        BY <1>1, <2>2, ParameterFacts
      <3> QED BY <1>2, <2>2, <3>1
    <2> QED BY <1>1, <1>2, <2>1, <2>2
  <1>5. Wellformed(dh)
    BY <1>2, <1>4 DEF Wellformed
  <1> QED BY <1>2, <1>3, <1>5 DEF dh

LEMMA ChainShorten ==
    ASSUME NEW ch, Wellformed(ch), Len(ch) # 0
    PROVE  LET dh == SubSeq(ch, 1, Len(ch) - 1)
           IN  /\ Wellformed(dh) /\ Len(dh) = Len(ch) - 1
               /\ \A j \in Int : j <= Len(ch) => Prefix(ch, dh, j)
  <1> DEFINE L == Len(ch)
             m == L - 1
             dh == SubSeq(ch, 1, m)
  <1>1. ch \in Seq(CoreBlock) /\ L \in Nat /\ DOMAIN ch = 1 .. L
    BY ChainFacts DEF Wellformed
  <1>2. m \in Nat /\ m <= L /\ L = m + 1
    BY <1>1
  <1>3. /\ dh \in Seq(CoreBlock) /\ Len(dh) = m /\ DOMAIN dh = 1 .. m
        /\ \A i \in 1 .. m : dh[i] = ch[i]
    <2> HIDE DEF m
    <2> QED BY <1>1, <1>2
  <1> HIDE DEF dh
  <1>4. \A j \in Int : j <= L => Prefix(ch, dh, j)
    BY <1>1, <1>2, <1>3 DEF Prefix
  <1>5. \A i \in DOMAIN dh : i \in DOMAIN ch /\ dh[i] = ch[i]
    BY <1>1, <1>2, <1>3
  <1>6. Wellformed(dh)
    BY <1>3, <1>5 DEF Wellformed
  <1> QED BY <1>3, <1>4, <1>6 DEF dh

LEMMA PublishedPrefix ==
    ASSUME NEW ch, NEW dh, Wellformed(ch), Wellformed(dh), NEW j, Prefix(ch, dh, j)
    PROVE  /\ \A heads : Published(ch, heads, j, 0) => Published(dh, heads, j, 0)
           /\ \A commits : CommitsPublished(ch, commits, j, 0) =>
                             CommitsPublished(dh, commits, j, 0)
  <1>1. IsChain(ch) /\ IsChain(dh)
    BY ChainFacts
  <1>2. \A head : PublishedHead(ch, head, j, 0) => PublishedHead(dh, head, j, 0)
    BY <1>1, HeadPrefix
  <1>3. \A commits : CommitsPublished(ch, commits, j, 0) => CommitsPublished(dh, commits, j, 0)
    BY <1>1, CommitsPrefix
  <1> QED BY <1>2, <1>3 DEF Published

\* The past views of both replays end before the chain does.
LEMMA PastPlaces ==
    ASSUME TransportInv, NEW v \in Elems(trail) \cup Elems(x_trail)
    PROVE  PastBlock(v) \in Int /\ PastBlock(v) <= Len(chain) /\ Len(chain) \in Nat
  <1>1. FullInv /\ X!FullInv /\ ChainInv
    BY DEF TransportInv
  <1>2. X!CurrentHeight = CurrentHeight
    <2>1. CASE block = None
      BY <1>1, <2>1 DEF CurrentHeight, X!CurrentHeight, ChainInv
    <2>2. CASE block # None
      BY <1>1, <2>2 DEF CurrentHeight, X!CurrentHeight, ChainInv, InBlock
    <2> QED BY <2>1, <2>2
  <1>3. /\ v.next_height \in Nat /\ CurrentHeight \in Nat /\ CurrentHeight # None
        /\ v.next_height <= CurrentHeight
    <2>1. CASE v \in Elems(trail)
      BY <1>1, <2>1, PastHeights
    <2>2. CASE v \in Elems(x_trail)
      BY <1>1, <1>2, <2>2, X!PastHeights, SameWords, SameValues, ParametersAssumption,
         ValuesAssumption
    <2> QED BY <2>1, <2>2
  <1>4. Len(chain) \in Nat
    BY <1>1, ChainFacts DEF ChainInv
  <1>5. CurrentHeight = activation_height + Len(chain) - 1
    BY <1>1, <1>3 DEF ChainInv
  <1> QED BY <1>3, <1>4, <1>5, ParameterFacts DEF PastBlock

LEMMA BeginTransport ==
    ASSUME TransportInv, NEW b \in CoreBlock, NEW acquired, TBeginBlock(b, acquired)
    PROVE  ChainInv' /\ PublishInv' /\ CommitInv'
  <1> DEFINE T == b.transactions
             D == DOMAIN T
             L == Len(chain)
             B == filtered(inspect_exact_name_block(b, D), D)
             S == filtered(inspect_exact_name_block(b, acquired), D)
             E == referenced_commits(inspect_exact_name_block(b, acquired))
  <1>1. FullInv /\ X!FullInv /\ ChainInv /\ PublishInv /\ CommitInv /\ Wellformed(chain)
    BY DEF TransportInv, ChainInv
  <1>2. /\ B \in Block /\ S \in Block /\ E \in SUBSET ReferencedCommit
        /\ HBeginBlock(B, {}) /\ Exact!HBeginBlock(S, E)
        /\ B.height = b.height /\ S.height = b.height
        /\ D = 1 .. Len(T) /\ Len(T) \in Nat
        /\ Len(B.transactions) = Len(T) /\ Len(S.transactions) = Len(T)
        /\ DOMAIN B.transactions = D
        /\ \A k \in D : /\ T[k] \in CoreTransaction /\ Numbered(T[k])
                        /\ B.transactions[k] = Given(T[k])
                        /\ S.transactions[k] \in {Given(T[k]), Unread(Given(T[k]))}
        /\ chain' = Append(chain, b)
    BY <1>1, BeginGiven
  <1> HIDE DEF B, S, E, T, D
  <1>3. /\ block = None /\ block' = B /\ pos' = 0 /\ B.height = next_height
        /\ next_height' = next_height /\ tip_height' = tip_height
        /\ trail' = Append(trail, View) /\ Canonical(B)
    BY <1>2 DEF HBeginBlock, BeginBlock, chainVars
  <1>4. /\ \A n : n \in DOMAIN x_db'.heads <=>
                    /\ n \in DOMAIN x_db.heads
                    /\ ~ /\ Marked(x_db.heads[n], S.height).terminal_height # None
                         /\ Marked(x_db.heads[n], S.height).terminal_height
                              <= S.height - cooldown_blocks
        /\ \A n \in DOMAIN x_db'.heads : x_db'.heads[n] = Marked(x_db.heads[n], S.height)
        /\ Elems(x_trail') = Elems(x_trail) \cup {X!View}
        /\ x_block = None /\ x_block' = S /\ x_pos' = 0
        /\ x_next_height' = x_next_height /\ x_tip_height' = x_tip_height
    BY <1>1, <1>2, XBegin
  <1>5. /\ \A n : n \in DOMAIN db'.heads <=>
                    /\ n \in DOMAIN db.heads
                    /\ ~ /\ Marked(db.heads[n], B.height).terminal_height # None
                         /\ Marked(db.heads[n], B.height).terminal_height
                              <= B.height - cooldown_blocks
        /\ \A n \in DOMAIN db'.heads : db'.heads[n] = Marked(db.heads[n], B.height)
    BY <1>1, <1>2, BeginHeads
  <1>6. b.height = activation_height + L /\ b.height # None /\ L \in Nat
    <2>1. L \in Nat
      BY <1>1, ChainFacts
    <2>2. next_height \in Height /\ next_height # None
      BY <1>2, <1>3, ValuesAssumption DEF Block
    <2>3. /\ TipValid(next_height, tip_height)
          /\ tip_height = None <=> L = 0
          /\ tip_height # None => tip_height = activation_height + L - 1
      BY <1>1, <1>3 DEF FullInv, SnapInv, ChainInv, CurrentHeight
    <2> QED BY <1>2, <1>3, <2>1, <2>2, <2>3, ParameterFacts DEF TipValid
  <1>7. /\ Wellformed(chain') /\ Len(chain') = L + 1 /\ chain'[Len(chain')] = b
        /\ \A j \in Int : j <= L + 1 => Prefix(chain, chain', j)
    <2>1. \A k \in D : B.transactions[k].tx_index = T[k].tx_index
      BY <1>2, GivenFacts
    <2>2. \A k, l \in D : k < l => T[k].tx_index < T[l].tx_index
      BY <1>2, <1>3, <2>1 DEF Canonical
    <2> QED BY <1>1, <1>2, <1>6, <2>2, ChainAppend DEF T, D
  <1>8. B # None /\ S # None
    BY <1>2, ValuesAssumption
  <1>9. CurrentHeight' = b.height /\ FrontBlock = L + 1 /\ FrontTx = 0
        /\ FrontBlock' = L + 1 /\ FrontTx' = 0
    BY <1>2, <1>3, <1>7, <1>8 DEF CurrentHeight, FrontBlock, FrontTx
  <1>10. ChainInv'
    <2>1. InBlock'
      <3>1. chain'[Len(chain')].transactions = T /\ Len(chain') # 0
        BY <1>6, <1>7 DEF T
      <3>2. x_pos' = pos' /\ x_block'.height = block'.height
        BY <1>2, <1>3, <1>4
      <3>3. \A k \in DOMAIN T : /\ block'.transactions[k] = Given(T[k])
                                /\ x_block'.transactions[k] \in {Given(T[k]), Unread(Given(T[k]))}
        BY <1>2, <1>3, <1>4 DEF D
      <3> QED BY <1>2, <1>3, <1>4, <3>1, <3>2, <3>3 DEF InBlock
    <2>2. /\ CurrentHeight' # None /\ Len(chain') # 0
          /\ CurrentHeight' = activation_height + Len(chain') - 1
      BY <1>6, <1>7, <1>9, ParameterFacts
    <2>3. x_next_height' = next_height' /\ x_tip_height' = tip_height'
      BY <1>1, <1>3, <1>4 DEF ChainInv
    <2> QED BY <1>3, <1>4, <1>7, <1>8, <2>1, <2>2, <2>3 DEF ChainInv
  <1>11. /\ \A j \in Int : \A heads : j <= L + 1 /\ Published(chain, heads, j, 0) =>
                Published(chain', heads, j, 0)
         /\ \A j \in Int : \A commits : j <= L + 1 /\ CommitsPublished(chain, commits, j, 0) =>
                CommitsPublished(chain', commits, j, 0)
    BY <1>1, <1>7, PublishedPrefix
  <1>12. /\ Published(chain', db.heads, L + 1, 0) /\ Published(chain', x_db.heads, L + 1, 0)
         /\ CommitsPublished(chain', db.commits, L + 1, 0)
    BY <1>1, <1>6, <1>9, <1>11 DEF PublishInv, CommitInv
  <1>13. /\ PastBlock(View) = L + 1 /\ PastBlock(X!View) = L + 1
         /\ View.heads = db.heads /\ X!View.heads = x_db.heads /\ View.commits = db.commits
    <2>1. View.next_height = next_height /\ X!View.next_height = next_height
      BY <1>1 DEF View, X!View, ChainInv
    <2>2. next_height = activation_height + L
      BY <1>2, <1>3, <1>6
    <2>3. next_height - activation_height + 1 = L + 1
      BY <1>6, <2>2, ParameterFacts
    <2>4. View.heads = db.heads /\ X!View.heads = x_db.heads /\ View.commits = db.commits
      BY DEF View, X!View
    <2> QED BY <2>1, <2>3, <2>4 DEF PastBlock
  <1>14. Elems(trail') = Elems(trail) \cup {View}
    BY <1>1, <1>3, ElemsAppend DEF FullInv, RollbackInv
  <1>15. \A v \in Elems(trail) \cup Elems(x_trail) :
            PastBlock(v) \in Int /\ PastBlock(v) <= L + 1
    BY <1>6, PastPlaces
  <1>16. PublishInv'
    <2>1. Published(chain', db'.heads, L + 1, 0)
      BY <1>5, <1>12, HeadsBegin
    <2>2. Published(chain', x_db'.heads, L + 1, 0)
      BY <1>4, <1>12, HeadsBegin
    <2>3. \A v \in Elems(trail') : Published(chain', v.heads, PastBlock(v), 0)
      BY <1>1, <1>11, <1>12, <1>13, <1>14, <1>15 DEF PublishInv
    <2>4. \A v \in Elems(x_trail') : Published(chain', v.heads, PastBlock(v), 0)
      BY <1>1, <1>4, <1>11, <1>12, <1>13, <1>15 DEF PublishInv
    <2> QED BY <1>9, <2>1, <2>2, <2>3, <2>4 DEF PublishInv
  <1>17. CommitInv'
    <2>1. /\ \A r : r \in DOMAIN db'.commits <=>
                r \in DOMAIN db.commits /\ ~(r.height <= B.height - commit_ttl_blocks)
          /\ \A r \in DOMAIN db'.commits : db'.commits[r] = db.commits[r]
      <3>1. {} \in SUBSET ReferencedCommit /\ DOMAIN supplied({}) = {}
        BY DEF supplied
      <3> QED BY <1>1, <1>2, <3>1, BeginCommits
    <2>2. B.height = activation_height + (L + 1) - 1
      BY <1>2, <1>6, ParameterFacts
    <2>3. /\ IsChain(chain') /\ L + 1 \in Nat
          /\ \A i \in DOMAIN chain' : chain'[i].height = activation_height + i - 1
      BY <1>6, <1>7, ChainFacts DEF Wellformed
    <2>4. CommitsPublished(chain', db'.commits, L + 1, 0)
      BY <1>12, <2>1, <2>2, <2>3, CommitsBegin
    <2>5. \A v \in Elems(trail') : CommitsPublished(chain', v.commits, PastBlock(v), 0)
      BY <1>1, <1>11, <1>12, <1>13, <1>14, <1>15 DEF CommitInv
    <2> QED BY <1>9, <2>4, <2>5 DEF CommitInv
  <1> QED BY <1>10, <1>16, <1>17

LEMMA ApplyTransport ==
    ASSUME TransportInv, TApplyTransaction
    PROVE  ChainInv' /\ PublishInv' /\ CommitInv'
  <1> DEFINE L == Len(chain)
             T == chain[L].transactions
             c == T[pos + 1]
             g == block.transactions[pos + 1]
             x == x_block.transactions[x_pos + 1]
             height == block.height
  <1>1. FullInv /\ X!FullInv /\ ChainInv /\ PublishInv /\ CommitInv /\ Wellformed(chain)
    BY DEF TransportInv, ChainInv
  <1>2. HApplyTransaction /\ Exact!HApplyTransaction /\ chain' = chain
    BY DEF TApplyTransaction, EApplyTransaction
  <1>3. /\ block # None /\ pos < Len(block.transactions) /\ pos' = pos + 1
        /\ block' = block /\ trail' = trail
        /\ next_height' = next_height /\ tip_height' = tip_height
    BY <1>2 DEF HApplyTransaction, ApplyTransaction, chainVars
  <1>4. /\ x_block # None /\ x \in Transaction
        /\ \A n : n \in DOMAIN x_db'.heads <=>
                    \/ n \in DOMAIN x_db.heads
                    \/ Installs(x_db, x_block.height, x) /\ n = x.operation.name
        /\ Installs(x_db, x_block.height, x) =>
             x_db'.heads[x.operation.name] = NewHead(x_block.height, x)
        /\ \A n \in DOMAIN x_db.heads :
             ~(Installs(x_db, x_block.height, x) /\ n = x.operation.name) =>
               x_db'.heads[n] = IF /\ x_db.heads[n].terminal_height = None
                                   /\ x_db.heads[n].future_nf \in Nullifiers(x)
                                THEN EndedAt(x_db.heads[n], x_block.height)
                                ELSE x_db.heads[n]
        /\ x_block' = x_block /\ x_pos' = x_pos + 1
        /\ x_next_height' = x_next_height /\ x_tip_height' = x_tip_height
        /\ x_trail' = x_trail
    BY <1>1, <1>2, XApply
  <1>5. /\ g \in Transaction
        /\ \A n : n \in DOMAIN db'.heads <=>
                    \/ n \in DOMAIN db.heads
                    \/ Installs(db, height, g) /\ n = g.operation.name
        /\ Installs(db, height, g) => db'.heads[g.operation.name] = NewHead(height, g)
        /\ \A n \in DOMAIN db.heads :
             ~(Installs(db, height, g) /\ n = g.operation.name) =>
               db'.heads[n] = IF /\ db.heads[n].terminal_height = None
                                 /\ db.heads[n].future_nf \in Nullifiers(g)
                              THEN EndedAt(db.heads[n], height) ELSE db.heads[n]
    BY <1>1, <1>2, ApplyHeads
  <1>6. /\ InBlock /\ L # 0 /\ L \in Nat /\ L \in DOMAIN chain /\ IsChain(chain)
        /\ DOMAIN T = 1 .. Len(T) /\ Len(T) \in Nat /\ pos \in Nat
        /\ Len(block.transactions) = Len(T)
    <2>1. InBlock
      BY <1>1, <1>3 DEF ChainInv
    <2>2. L \in Nat /\ DOMAIN chain = 1 .. L /\ IsChain(chain) /\ L # 0
      BY <1>1, <2>1, ChainFacts DEF InBlock
    <2>3. L \in DOMAIN chain
      BY <2>2
    <2>4. DOMAIN T = 1 .. Len(T) /\ Len(T) \in Nat
      BY <1>1, <2>3, ChainFacts
    <2>5. pos \in Nat
      BY <1>1 DEF FullInv, TypeInv, TypeOK
    <2> QED BY <2>1, <2>2, <2>3, <2>4, <2>5 DEF InBlock
  <1>7. pos + 1 \in DOMAIN T
    BY <1>3, <1>6
  <1>8. /\ c \in CoreTransaction /\ Numbered(c)
    BY <1>1, <1>6, <1>7, ChainFacts DEF Wellformed
  <1>9. /\ g = Given(c) /\ x \in {Given(c), Unread(Given(c))}
        /\ x_block.height = height /\ x_pos = pos
    BY <1>6, <1>7 DEF InBlock
  <1>10. /\ height = chain[L].height /\ height \in Height
    <2>1. height \in Height /\ height # None
      BY <1>1, <1>3, ValuesAssumption DEF FullInv, TypeInv, TypeOK, Option, Block
    <2>2. height = activation_height + L - 1
      BY <1>1, <1>3, <2>1 DEF ChainInv, CurrentHeight
    <2> QED BY <1>1, <1>6, <2>1, <2>2 DEF Wellformed
  <1>11. /\ g.tx_index = c.tx_index /\ g.txid = c.txid /\ Nullifiers(g) = Spends(c)
         /\ (g.operation # None /\ g.operation.kind # "Commit") => Sole(c)
         /\ (g.operation # None /\ g.operation.kind = "Commit") =>
              /\ AtCommitRoute(c).status = "Operation"
              /\ AtCommitRoute(c).operation = g.operation
         /\ AtCommitRoute(c).status = "Operation" /\ Silent(AtNameRoute(c)) =>
              g.operation = AtCommitRoute(c).operation
         /\ g.actions = actions_of(c) /\ Len(c.nullifiers) \in Nat
    BY <1>8, <1>9, GivenFacts
  <1>12. /\ x.tx_index = c.tx_index /\ x.txid = c.txid /\ Nullifiers(x) = Spends(c)
         /\ x.actions = actions_of(c)
         /\ (x.operation # None /\ x.operation.kind # "Commit") => Sole(c)
    <2>1. Unread(Given(c)).operation = None
      BY <1>8, GivenFacts
    <2>2. /\ Unread(Given(c)).tx_index = c.tx_index /\ Unread(Given(c)).txid = c.txid
          /\ Nullifiers(Unread(Given(c))) = Spends(c)
          /\ Unread(Given(c)).actions = actions_of(c)
      BY <1>8, GivenFacts
    <2> QED BY <1>9, <1>11, <2>1, <2>2
  <1>13. /\ Installs(db, height, g) => NewHead(height, g) \in HeadRecord
         /\ Installs(x_db, height, x) => NewHead(height, x) \in HeadRecord
    BY <1>4, <1>5, <1>10, InstallFacts
  <1> HIDE DEF g, x, c, T, height
  <1>14. /\ FrontBlock = L /\ FrontTx = pos /\ FrontBlock' = L /\ FrontTx' = pos + 1
    BY <1>2, <1>3 DEF FrontBlock, FrontTx
  <1>15. /\ pos + 1 \in DOMAIN chain[L].transactions
         /\ c = chain[L].transactions[pos + 1]
    BY <1>7 DEF c, T
  <1>16. Published(chain, db'.heads, L, pos + 1)
    <2>1. Published(chain, db.heads, L, pos)
      BY <1>1, <1>14 DEF PublishInv
    <2>2. Conveys(g, chain[L].transactions[pos + 1])
      BY <1>8, <1>11, <1>15 DEF Conveys
    <2>3. Replayed(db, db'.heads, height, g)
      BY <1>5, <1>13 DEF Replayed
    <2> QED BY <1>6, <1>10, <1>15, <2>1, <2>2, <2>3, HeadsApply
  <1>21. Published(chain, x_db'.heads, L, pos + 1)
    <2>1. Published(chain, x_db.heads, L, pos)
      BY <1>1, <1>14 DEF PublishInv
    <2>2. Conveys(x, chain[L].transactions[pos + 1])
      BY <1>8, <1>11, <1>12, <1>15 DEF Conveys
    <2>3. Replayed(x_db, x_db'.heads, height, x)
      <3>1. x_block.height = height
        BY <1>9
      <3> QED BY <1>4, <1>13, <3>1 DEF Replayed
    <2> QED BY <1>6, <1>10, <1>15, <2>1, <2>2, <2>3, HeadsApply
  <1>17. PublishInv'
    BY <1>1, <1>2, <1>3, <1>4, <1>14, <1>16, <1>21 DEF PublishInv
  <1>18. CommitsPublished(chain, db'.commits, L, pos + 1)
    <2> DEFINE ref == [height |-> height, tx_index |-> g.tx_index, txid |-> g.txid]
               stores == g.operation # None /\ g.operation.kind = "Commit"
    <2>1. /\ ~stores => db'.commits = db.commits
          /\ stores => /\ \A r : r \in DOMAIN db'.commits <=>
                                   r \in DOMAIN db.commits \/ r = ref
                       /\ db'.commits[ref] = g.operation.commitment
                       /\ \A r \in DOMAIN db.commits :
                             r # ref => db'.commits[r] = db.commits[r]
      BY <1>1, <1>2, ApplyCommits DEF g, height
    <2>2. ref = RefAt(chain, L, pos + 1)
      BY <1>10, <1>11 DEF RefAt, c, T
    <2>3. /\ CommitAt(chain, L, pos + 1) = AtCommitRoute(c)
          /\ AloneAt(chain, L, pos + 1) => stores
      <3>1. AtCommitRoute(c).status = "Operation" =>
              /\ AtCommitRoute(c).operation # None
              /\ AtCommitRoute(c).operation.kind = "Commit"
        BY <1>8, Routes
      <3> QED BY <1>11, <3>1 DEF CommitAt, AloneAt, c, T
    <2>4. CommitsPublished(chain, db.commits, L, pos)
      BY <1>1, <1>14 DEF CommitInv
    <2>5. /\ \A i \in DOMAIN chain : \A k, l \in DOMAIN chain[i].transactions :
                k < l => chain[i].transactions[k].tx_index < chain[i].transactions[l].tx_index
          /\ \A i \in DOMAIN chain : \A k \in DOMAIN chain[i].transactions :
                chain[i].transactions[k].tx_index \in Nat
          /\ \A i \in DOMAIN chain : chain[i].height = activation_height + i - 1
      BY <1>1, ChainFacts DEF Wellformed
    <2>6. pos + 1 \in DOMAIN chain[L].transactions
      BY <1>7 DEF T
    <2> HIDE DEF ref
    <2> QED BY <1>6, <1>11, <2>1, <2>2, <2>3, <2>4, <2>5, <2>6, CommitsApply
  <1>19. CommitInv'
    BY <1>1, <1>2, <1>3, <1>14, <1>18 DEF CommitInv
  <1>20. ChainInv'
    <2>1. CurrentHeight' = CurrentHeight
      BY <1>3 DEF CurrentHeight
    <2>2. InBlock'
      BY <1>2, <1>3, <1>4, <1>6, <1>9 DEF InBlock, height
    <2> QED BY <1>1, <1>2, <1>3, <1>4, <2>1, <2>2 DEF ChainInv
  <1> QED BY <1>17, <1>19, <1>20

LEMMA EndTransport ==
    ASSUME TransportInv, TEndBlock
    PROVE  ChainInv' /\ PublishInv' /\ CommitInv'
  <1> DEFINE L == Len(chain)
  <1>1. FullInv /\ X!FullInv /\ ChainInv /\ PublishInv /\ CommitInv /\ Wellformed(chain)
    BY DEF TransportInv, ChainInv
  <1>2. /\ block # None /\ block' = None /\ db' = db /\ trail' = trail
        /\ pos = Len(block.transactions)
        /\ next_height' = (IF block.height < U32Max THEN block.height + 1 ELSE None)
        /\ tip_height' = block.height /\ chain' = chain
    BY DEF TEndBlock, EEndBlock, HEndBlock, EndBlock
  <1>3. /\ x_block # None /\ x_block' = None /\ x_db' = x_db /\ x_trail' = x_trail
        /\ x_next_height' = (IF x_block.height < U32Max THEN x_block.height + 1 ELSE None)
        /\ x_tip_height' = x_block.height
    BY EndSame DEF TEndBlock, EEndBlock, X!HEndBlock, X!EndBlock
  <1>4. /\ InBlock /\ L # 0 /\ x_block.height = block.height
        /\ pos = Len(chain[L].transactions)
    BY <1>1, <1>2 DEF ChainInv, InBlock
  <1>5. CurrentHeight = block.height /\ CurrentHeight' = block.height
    BY <1>2 DEF CurrentHeight
  <1>6. ChainInv'
    BY <1>1, <1>2, <1>3, <1>4, <1>5 DEF ChainInv
  <1>7. /\ FrontBlock = L /\ FrontTx = pos /\ FrontBlock' = L + 1 /\ FrontTx' = 0
    BY <1>2 DEF FrontBlock, FrontTx
  <1>8. /\ IsChain(chain) /\ L \in DOMAIN chain /\ pos \in Nat
        /\ DOMAIN chain[L].transactions \subseteq 1 .. pos
    <2>1. L \in Nat /\ DOMAIN chain = 1 .. L /\ IsChain(chain)
      BY <1>1, ChainFacts
    <2>2. L \in DOMAIN chain
      BY <1>4, <2>1
    <2>3. /\ DOMAIN chain[L].transactions = 1 .. Len(chain[L].transactions)
          /\ Len(chain[L].transactions) \in Nat
      BY <1>1, <2>2, ChainFacts
    <2> QED BY <1>4, <2>1, <2>2, <2>3
  <1>9. PublishInv' /\ CommitInv'
    <2>1. /\ \A heads : Published(chain, heads, L, pos) => Published(chain, heads, L + 1, 0)
          /\ \A commits : CommitsPublished(chain, commits, L, pos) =>
                            CommitsPublished(chain, commits, L + 1, 0)
      BY <1>8, PublishedEnd
    <2>2. PublishInv'
      BY <1>1, <1>2, <1>3, <1>7, <2>1 DEF PublishInv
    <2>3. CommitInv'
      BY <1>1, <1>2, <1>7, <2>1 DEF CommitInv
    <2> QED BY <2>2, <2>3
  <1> QED BY <1>6, <1>9

\* The tip is determined by the height expected next.
LEMMA RollbackTransport ==
    ASSUME TransportInv, FullInv', X!FullInv', NEW hash \in Hashes, TRollbackTip(hash)
    PROVE  ChainInv' /\ PublishInv' /\ CommitInv'
  <1> DEFINE L == Len(chain)
  <1>1. FullInv /\ X!FullInv /\ ChainInv /\ PublishInv /\ CommitInv /\ Wellformed(chain)
    BY DEF TransportInv, ChainInv
  <1>2. /\ View' \in Elems(trail) /\ View'.next_height = tip_height
        /\ Elems(trail') \subseteq Elems(trail) /\ block = None /\ block' = None
    BY <1>1, RolledBack DEF TRollbackTip, ERollbackTip
  <1>3. /\ X!View' \in Elems(x_trail) /\ X!View'.next_height = x_tip_height
        /\ Elems(x_trail') \subseteq Elems(x_trail) /\ x_block' = None
    BY <1>1, XRolledBack DEF TRollbackTip, ERollbackTip
  <1>4. /\ View'.next_height = next_height' /\ View'.heads = db'.heads
        /\ View'.commits = db'.commits
        /\ X!View'.next_height = x_next_height' /\ X!View'.heads = x_db'.heads
    BY DEF View, X!View
  <1>5. chain' = SubSeq(chain, 1, L - 1)
    BY DEF TRollbackTip
  <1>6. tip_height \in Nat /\ tip_height # None
    BY <1>1, <1>2, PastHeights DEF CurrentHeight
  <1>7. /\ L \in Nat /\ L # 0 /\ tip_height = activation_height + L - 1
    BY <1>1, <1>2, <1>6, ChainFacts DEF ChainInv, CurrentHeight
  <1>8. /\ next_height' = tip_height /\ x_next_height' = tip_height
    BY <1>1, <1>2, <1>3, <1>4 DEF ChainInv
  <1>9. /\ Wellformed(chain') /\ Len(chain') = L - 1
        /\ \A j \in Int : j <= L => Prefix(chain, chain', j)
    BY <1>1, <1>5, <1>7, ChainShorten
  <1>10. /\ TipValid(next_height, tip_height)' /\ tip_height' \in Option(Height)
         /\ TipValid(x_next_height, x_tip_height)' /\ x_tip_height' \in Option(Height)
    <2>1. TipValid(next_height, tip_height)' /\ tip_height' \in Option(Height)
      BY DEF FullInv, SnapInv, TypeInv, TypeOK
    <2>2. X!TipValid(x_next_height, x_tip_height)' /\ x_tip_height' \in X!Option(X!Height)
      BY DEF X!FullInv, X!SnapInv, X!TypeInv, X!TypeOK
    <2>3. X!TipValid(x_next_height, x_tip_height)' => TipValid(x_next_height, x_tip_height)'
      BY DEF TipValid, X!TipValid
    <2> QED BY <2>1, <2>2, <2>3, SameValues
  <1>11. ASSUME NEW t \in Option(Height), TipValid(tip_height, t)
         PROVE  /\ t = None <=> L = 1
                /\ t # None => t = activation_height + (L - 1) - 1
    <2> HIDE DEF L
    <2>1. CASE t = None
      <3>1. tip_height = activation_height
        BY <1>11, <2>1 DEF TipValid
      <3>2. L = 1
        BY <1>7, <3>1, ParameterFacts
      <3> QED BY <2>1, <3>2
    <2>2. CASE t # None
      <3>1. t \in Nat
        BY <1>11, <2>2, ParametersAssumption DEF Option, Height
      <3>2. t >= activation_height /\ tip_height = t + 1
        BY <1>6, <1>11, <2>2 DEF TipValid
      <3>3. L # 1 /\ t = activation_height + (L - 1) - 1
        BY <1>7, <3>1, <3>2, ParameterFacts
      <3> QED BY <2>2, <3>3
    <2> QED BY <2>1, <2>2
  <1>12. /\ tip_height' = None <=> L = 1
         /\ x_tip_height' = None <=> L = 1
         /\ tip_height' # None => tip_height' = activation_height + (L - 1) - 1
         /\ x_tip_height' # None => x_tip_height' = activation_height + (L - 1) - 1
    <2>1. TipValid(tip_height, tip_height') /\ TipValid(tip_height, x_tip_height')
      BY <1>8, <1>10 DEF TipValid
    <2> QED BY <1>10, <1>11, <2>1
  <1>13. CurrentHeight' = tip_height' /\ FrontBlock' = L /\ FrontTx' = 0
    BY <1>2, <1>7, <1>9 DEF CurrentHeight, FrontBlock, FrontTx
  <1>14. x_tip_height' = tip_height'
    BY <1>12
  <1>15. ChainInv'
    <2>1. Len(chain') = 0 <=> L = 1
      BY <1>7, <1>9
    <2>2. tip_height' = None <=> L = 1
      BY <1>12
    <2> QED BY <1>2, <1>3, <1>8, <1>9, <1>12, <1>13, <1>14, <2>1, <2>2 DEF ChainInv
  <1>16. PastBlock(View') = L /\ PastBlock(X!View') = L
    <2>1. X!View'.next_height = tip_height
      BY <1>4, <1>8
    <2> QED BY <1>2, <1>7, <2>1, ParameterFacts DEF PastBlock
  <1>17. \A v \in Elems(trail) \cup Elems(x_trail) : PastBlock(v) \in Int /\ PastBlock(v) <= L
    BY PastPlaces
  <1>18. \A v \in Elems(trail) \cup Elems(x_trail) :
            /\ \A heads : Published(chain, heads, PastBlock(v), 0) =>
                            Published(chain', heads, PastBlock(v), 0)
            /\ \A commits : CommitsPublished(chain, commits, PastBlock(v), 0) =>
                              CommitsPublished(chain', commits, PastBlock(v), 0)
    BY <1>1, <1>9, <1>17, PublishedPrefix
  <1>19. PublishInv'
    <2>1. /\ \A v \in Elems(trail) : Published(chain', v.heads, PastBlock(v), 0)
          /\ \A v \in Elems(x_trail) : Published(chain', v.heads, PastBlock(v), 0)
      BY <1>1, <1>18 DEF PublishInv
    <2>2. Published(chain', db'.heads, L, 0) /\ Published(chain', x_db'.heads, L, 0)
      BY <1>2, <1>3, <1>4, <1>16, <2>1
    <2> QED BY <1>2, <1>3, <1>13, <2>1, <2>2 DEF PublishInv
  <1>20. CommitInv'
    <2>1. \A v \in Elems(trail) : CommitsPublished(chain', v.commits, PastBlock(v), 0)
      BY <1>1, <1>18 DEF CommitInv
    <2>2. CommitsPublished(chain', db'.commits, L, 0)
      BY <1>2, <1>4, <1>16, <2>1
    <2> QED BY <1>2, <1>13, <2>1, <2>2 DEF CommitInv
  <1> QED BY <1>15, <1>19, <1>20

LEMMA TransportInit == TInit => TransportInv
  <1> SUFFICES ASSUME TInit PROVE TransportInv
    OBVIOUS
  <1>1. HInit /\ X!HInit /\ chain = << >>
    BY InitSame DEF TInit, EInit
  <1>2. FullInv
    BY <1>1, SnapInit
  <1>3. X!FullInv
    BY <1>1, X!SnapInit, SameValues, ParametersAssumption, ValuesAssumption
  <1>4. /\ next_height = activation_height /\ tip_height = None /\ block = None
        /\ DOMAIN db.commits = {} /\ DOMAIN db.heads = {} /\ Elems(trail) = {}
    BY <1>1 DEF HInit, Init, EmptyMap, Elems
  <1>5. /\ x_next_height = activation_height /\ x_tip_height = None /\ x_block = None
        /\ DOMAIN x_db.heads = {} /\ Elems(x_trail) = {}
    BY <1>1 DEF X!HInit, X!Init, X!EmptyMap, Elems
  <1>6. Len(chain) = 0 /\ DOMAIN chain = {} /\ Wellformed(chain)
    BY <1>1 DEF Wellformed
  <1>7. ChainInv
    BY <1>4, <1>5, <1>6 DEF ChainInv, CurrentHeight
  <1>8. PublishInv
    BY <1>4, <1>5 DEF PublishInv, Published
  <1>9. CommitInv
    BY <1>4, <1>6 DEF CommitInv, CommitsPublished
  <1> QED BY <1>2, <1>3, <1>7, <1>8, <1>9 DEF TransportInv

LEMMA TransportStep == TransportInv /\ [TNext]_tvars => TransportInv'
  <1> SUFFICES ASSUME TransportInv, [TNext]_tvars PROVE TransportInv'
    OBVIOUS
  <1>1. FullInv' /\ X!FullInv'
    <2>1. [HNext]_hvars /\ [X!HNext]_(X!hvars)
      BY EachTransport
    <2> QED BY <2>1, SnapStep, XStep DEF TransportInv
  <1>2. CASE UNCHANGED tvars
    BY <1>1, <1>2 DEF TransportInv, tvars, evars, hvars, vars, xvars, ChainInv, InBlock,
       PublishInv, CommitInv, CurrentHeight, FrontBlock, FrontTx
  <1>3. ASSUME NEW b \in CoreBlock, NEW acquired, TBeginBlock(b, acquired)
        PROVE  TransportInv'
    BY <1>1, <1>3, BeginTransport DEF TransportInv
  <1>4. CASE TApplyTransaction
    BY <1>1, <1>4, ApplyTransport DEF TransportInv
  <1>5. CASE TEndBlock
    BY <1>1, <1>5, EndTransport DEF TransportInv
  <1>6. ASSUME NEW hash \in Hashes, TRollbackTip(hash)
        PROVE  TransportInv'
    BY <1>1, <1>6, RollbackTransport DEF TransportInv
  <1> QED BY <1>2, <1>3, <1>4, <1>5, <1>6 DEF TNext, CoreBlock

-----------------------------------------------------------------------------
LEMMA HeadsArePublished ==
    ASSUME TransportInv,
           NEW h \in {Get(db.heads, requested), Get(x_db.heads, requested)} \ {None}
    PROVE  PublishedHead(chain, h, FrontBlock, FrontTx)
  <1>1. /\ Published(chain, db.heads, FrontBlock, FrontTx)
        /\ Published(chain, x_db.heads, FrontBlock, FrontTx)
    BY DEF TransportInv, PublishInv
  <1> QED BY <1>1 DEF Published, Get

LEMMA SoleHolds == TransportInv => SoleCandidate
  <1> SUFFICES ASSUME TransportInv,
                      NEW h \in {Get(db.heads, requested), Get(x_db.heads, requested)} \ {None},
                      NEW tx \in Located([height |-> h.producer.height,
                                          tx_index |-> h.producer.tx_index,
                                          txid |-> h.producer.txid])
               PROVE  Sole(tx)
    BY DEF SoleCandidate, Sole
  <1>1. PICK i \in DOMAIN chain : \E k \in DOMAIN chain[i].transactions :
          ProducedAt(chain, h, i, k)
    BY HeadsArePublished DEF PublishedHead
  <1>2. PICK k \in DOMAIN chain[i].transactions : ProducedAt(chain, h, i, k)
    BY <1>1
  <1>3. Wellformed(chain)
    BY DEF TransportInv, ChainInv
  <1>4. h.producer.height - activation_height + 1 = i
    <2>1. i \in Nat /\ chain[i].height = activation_height + i - 1
      BY <1>3, ChainFacts DEF Wellformed
    <2> QED BY <1>2, <2>1, ParameterFacts DEF ProducedAt
  <1>5. PICK l \in DOMAIN chain[i].transactions :
          /\ tx = chain[i].transactions[l]
          /\ chain[i].transactions[l].tx_index = h.producer.tx_index
    BY <1>4 DEF Located, CoreBlockAt
  <1>6. l = k
    <2>1. /\ k \in Nat /\ l \in Nat
          /\ chain[i].transactions[k].tx_index \in Nat
          /\ chain[i].transactions[k].tx_index = chain[i].transactions[l].tx_index
      BY <1>2, <1>3, <1>5, ChainFacts DEF ProducedAt
    <2>2. /\ k < l => chain[i].transactions[k].tx_index < chain[i].transactions[l].tx_index
          /\ l < k => chain[i].transactions[l].tx_index < chain[i].transactions[k].tx_index
      BY <1>3 DEF Wellformed
    <2> QED BY <2>1, <2>2
  <1> QED BY <1>2, <1>5, <1>6 DEF ProducedAt

LEMMA EffectsHold == TransportInv => EffectsKept
  <1> SUFFICES ASSUME TransportInv, block = None,
                      NEW h \in {Get(db.heads, requested), Get(x_db.heads, requested)} \ {None},
                      h.terminal_height = None,
                      SpentOnChain(h.future_nf, h.producer.height - activation_height + 2)
               PROVE  FALSE
    BY DEF EffectsKept
  <1> DEFINE L == Len(chain)
  <1>1. FrontBlock = L + 1 /\ FrontTx = 0
    BY DEF FrontBlock, FrontTx
  <1>2. PICK i \in DOMAIN chain : \E k \in DOMAIN chain[i].transactions :
          ProducedAt(chain, h, i, k) /\ UnspentAfter(chain, h, i, L + 1, 0)
    BY <1>1, HeadsArePublished DEF PublishedHead
  <1>3. Wellformed(chain) /\ L \in Nat /\ DOMAIN chain = 1 .. L
    BY ChainFacts DEF TransportInv, ChainInv
  <1>4. h.producer.height - activation_height + 2 = i + 1 /\ i \in Nat
    <2>1. i \in Nat /\ chain[i].height = activation_height + i - 1
      BY <1>3 DEF Wellformed
    <2> QED BY <1>2, <2>1, ParameterFacts DEF ProducedAt
  <1>5. PICK j \in (i + 1) .. L : \E t \in DOMAIN chain[j].transactions :
          \E k \in DOMAIN chain[j].transactions[t].nullifiers :
             chain[j].transactions[t].nullifiers[k] = h.future_nf
    BY <1>4 DEF SpentOnChain
  <1>6. PICK t \in DOMAIN chain[j].transactions :
          \E k \in DOMAIN chain[j].transactions[t].nullifiers :
             chain[j].transactions[t].nullifiers[k] = h.future_nf
    BY <1>5
  <1>7. j \in DOMAIN chain /\ i < j /\ j < L + 1
    BY <1>3, <1>4, <1>5
  <1>8. h.future_nf \in Spends(chain[j].transactions[t])
    <2>1. chain[j].transactions[t] \in CoreTransaction
      BY <1>3, <1>7, ChainFacts
    <2>2. DOMAIN chain[j].transactions[t].nullifiers
            = 1 .. Len(chain[j].transactions[t].nullifiers)
      BY <2>1 DEF CoreTransaction
    <2> QED BY <1>6, <2>2 DEF Spends
  <1>9. Before(L + 1, 0, j, t)
    BY <1>7 DEF Before
  <1> QED BY <1>2, <1>7, <1>8, <1>9 DEF UnspentAfter

\* Transport, select_single_operation and the reducer together: whatever is on
\* the branch, the transaction that produced the requested name's head carried
\* nothing else for Names at either route and no value in its carriers, for
\* both resolvers, and also after reorganizations.
THEOREM ProducersStandAlone == TSpec => []SoleCandidate
  <1>1. TransportInv => SoleCandidate
    BY SoleHolds
  <1> QED BY <1>1, TransportInit, TransportStep, PTL DEF TSpec

\* inspect_exact_name_block_parts keeps every action: no resolver calls a head
\* active whose bond a later block of its branch spent, acquired or not.
THEOREM SpendsAreSeen == TSpec => []EffectsKept
  <1>1. TransportInv => EffectsKept
    BY EffectsHold
  <1> QED BY <1>1, TransportInit, TransportStep, PTL DEF TSpec

-----------------------------------------------------------------------------
(***************************************************************************)
(* Positions in the note commitment tree.  Sums and concatenations are     *)
(* recursive functions: they exist, and what they are at each argument, by  *)
(* induction.                                                              *)
(***************************************************************************)
LEMMA Concatenation ==
    ASSUME NEW V, NEW s \in Seq(V), NEW t \in Seq(V)
    PROVE  /\ s \o t \in Seq(V) /\ Len(s \o t) = Len(s) + Len(t)
           /\ Len(s) \in Nat /\ Len(t) \in Nat
           /\ \A j \in 1 .. Len(s) : (s \o t)[j] = s[j]
           /\ \A j \in 1 .. Len(t) : (s \o t)[Len(s) + j] = t[j]
  OBVIOUS

Parts(V, n, parts) == \A i \in 1 .. n : parts[i] \in Seq(V)

\* Sequences put one after the other.
Joins(f, n, parts) ==
    f[0] = << >> /\ \A i \in 1 .. n : f[i] = f[i - 1] \o parts[i]

LEMMA JoinedExists ==
    ASSUME NEW V, NEW n \in Nat, NEW parts, Parts(V, n, parts)
    PROVE  \E f \in [0 .. n -> Seq(V)] : Joins(f, n, parts)
  <1> USE DEF Parts
  <1> DEFINE F == [p \in Seq(V) \X (1 .. n) |-> p[1] \o parts[p[2]]]
  <1>1. F \in [Seq(V) \X (1 .. n) -> Seq(V)]
    OBVIOUS
  <1>2. << >> \in Seq(V)
    OBVIOUS
  <1>3. \A s \in Seq(V), i \in 1 .. n : F[<<s, i>>] = s \o parts[i]
    OBVIOUS
  <1> HIDE DEF F
  <1>6. PICK f : Recurs(f, Seq(V), n, << >>, F)
    BY <1>1, <1>2, Recursion
  <1>4. /\ f \in [0 .. n -> Seq(V)] /\ f[0] = << >>
        /\ \A i \in 1 .. n : f[i] = F[<<f[i - 1], i>>]
    BY <1>6 DEF Recurs
  <1>5. \A i \in 1 .. n : f[i - 1] \in Seq(V)
    BY <1>4
  <1> QED BY <1>3, <1>4, <1>5 DEF Joins

LEMMA JoinedTypes ==
    ASSUME NEW V, NEW n \in Nat, NEW parts, Parts(V, n, parts),
           NEW f, Joins(f, n, parts)
    PROVE  \A i \in 0 .. n : f[i] \in Seq(V)
  <1> USE DEF Parts
  <1> DEFINE S == {i \in 0 .. n : f[i] \in Seq(V)}
  <1>1. 0 \in S
    <2>1. f[0] = << >> /\ << >> \in Seq(V) /\ 0 \in 0 .. n
      BY DEF Joins
    <2> QED BY <2>1
  <1>2. ASSUME NEW i \in 0 .. (n - 1), i \in S PROVE i + 1 \in S
    <2>1. i + 1 \in 1 .. n /\ (i + 1) - 1 = i
      OBVIOUS
    <2>2. f[i + 1] = f[i] \o parts[i + 1]
      BY <2>1 DEF Joins
    <2>3. f[i] \in Seq(V) /\ parts[i + 1] \in Seq(V)
      BY <1>2, <2>1
    <2>4. f[i + 1] \in Seq(V)
      BY <2>2, <2>3
    <2> QED BY <2>1, <2>4
  <1> HIDE DEF S
  <1>3. 0 .. n \subseteq S
    BY <1>1, <1>2, UpTo
  <1> QED BY <1>3 DEF S

\* A later one begins with an earlier one.
LEMMA JoinedPrefix ==
    ASSUME NEW V, NEW n \in Nat, NEW parts, Parts(V, n, parts),
           NEW f, Joins(f, n, parts), NEW i \in 0 .. n, NEW k \in i .. n
    PROVE  /\ Len(f[i]) \in Nat /\ Len(f[k]) \in Nat /\ Len(f[i]) <= Len(f[k])
           /\ \A j \in 1 .. Len(f[i]) : f[k][j] = f[i][j]
  <1> USE DEF Parts
  <1> DEFINE S == {d \in 0 .. (n - i) : /\ Len(f[i]) <= Len(f[i + d])
                                        /\ \A j \in 1 .. Len(f[i]) : f[i + d][j] = f[i][j]}
  <1>0. \A m \in 0 .. n : f[m] \in Seq(V)
    BY JoinedTypes
  <1>1. 0 \in S
    BY <1>0
  <1>2. ASSUME NEW d \in 0 .. (n - i - 1), d \in S PROVE d + 1 \in S
    <2> DEFINE m == i + d
    <2>1. m \in 0 .. n /\ m + 1 \in 1 .. n /\ (m + 1) - 1 = m /\ i + (d + 1) = m + 1
          /\ d + 1 \in 0 .. (n - i)
      OBVIOUS
    <2> HIDE DEF m
    <2>2. f[m + 1] = f[m] \o parts[m + 1]
      BY <2>1 DEF Joins
    <2>3. f[m] \in Seq(V) /\ parts[m + 1] \in Seq(V) /\ f[i] \in Seq(V)
      BY <1>0, <2>1
    <2>4. Len(f[i]) <= Len(f[m]) /\ \A j \in 1 .. Len(f[i]) : f[m][j] = f[i][j]
      BY <1>2 DEF m
    <2> DEFINE s == f[m]
               t == parts[m + 1]
               r == f[m + 1]
               e == f[i]
    <2>7. s \in Seq(V) /\ t \in Seq(V) /\ e \in Seq(V) /\ r = s \o t
          /\ Len(e) <= Len(s) /\ \A j \in 1 .. Len(e) : s[j] = e[j]
      BY <2>2, <2>3, <2>4
    <2> HIDE DEF s, t, r, e
    <2>8. /\ Len(r) = Len(s) + Len(t) /\ Len(s) \in Nat /\ Len(t) \in Nat /\ Len(e) \in Nat
          /\ \A j \in 1 .. Len(s) : r[j] = s[j]
      BY <2>7, Concatenation
    <2>9. Len(e) <= Len(r) /\ \A j \in 1 .. Len(e) : r[j] = e[j]
      BY <2>7, <2>8
    <2>5. Len(f[i]) <= Len(f[m + 1])
      BY <2>9 DEF r, e
    <2>6. \A j \in 1 .. Len(f[i]) : f[m + 1][j] = f[i][j]
      BY <2>9 DEF r, e
    <2> QED BY <2>1, <2>5, <2>6
  <1>3. n - i \in Nat
    OBVIOUS
  <1> HIDE DEF S
  <1>4. 0 .. (n - i) \subseteq S
    BY <1>1, <1>2, <1>3, UpTo
  <1>5. k - i \in S /\ i + (k - i) = k
    BY <1>4
  <1>6. Len(f[i]) \in Nat /\ Len(f[k]) \in Nat
    BY <1>0
  <1> QED BY <1>5, <1>6 DEF S

Counts(c, n, parts) ==
    c[0] = 0 /\ \A i \in 1 .. n : c[i] = c[i - 1] + Len(parts[i])

\* Counting the parts gives the length.
LEMMA JoinedCount ==
    ASSUME NEW V, NEW n \in Nat, NEW parts, Parts(V, n, parts),
           NEW f, Joins(f, n, parts),
           NEW c, Counts(c, n, parts)
    PROVE  \A i \in 0 .. n : c[i] = Len(f[i])
  <1> USE DEF Parts, Counts
  <1> DEFINE S == {i \in 0 .. n : c[i] = Len(f[i])}
  <1>0. \A m \in 0 .. n : f[m] \in Seq(V)
    BY JoinedTypes
  <1>1. 0 \in S
    BY DEF Joins
  <1>2. ASSUME NEW i \in 0 .. (n - 1), i \in S PROVE i + 1 \in S
    <2>1. i + 1 \in 1 .. n /\ (i + 1) - 1 = i /\ i \in 0 .. n
      OBVIOUS
    <2>2. f[i + 1] = f[i] \o parts[i + 1] /\ c[i + 1] = c[i] + Len(parts[i + 1])
      BY <2>1 DEF Joins
    <2>3. f[i] \in Seq(V) /\ parts[i + 1] \in Seq(V)
      BY <1>0, <2>1
    <2>5. Len(f[i + 1]) = Len(f[i]) + Len(parts[i + 1])
      BY <2>2, <2>3, Concatenation
    <2>4. c[i + 1] = Len(f[i + 1])
      BY <1>2, <2>2, <2>5
    <2> QED BY <2>1, <2>4
  <1> HIDE DEF S
  <1>3. 0 .. n \subseteq S
    BY <1>1, <1>2, UpTo
  <1> QED BY <1>3 DEF S

\* Where the i-th part lies in the whole.
Lies(f, n, parts, i) ==
    /\ Len(f[i - 1]) \in Nat /\ Len(parts[i]) \in Nat
    /\ Len(f[i]) = Len(f[i - 1]) + Len(parts[i])
    /\ Len(f[n]) \in Nat /\ Len(f[i]) <= Len(f[n])
    /\ \A j \in 1 .. Len(parts[i]) : f[n][Len(f[i - 1]) + j] = parts[i][j]

LEMMA JoinedAt ==
    ASSUME NEW V, NEW n \in Nat, NEW parts, Parts(V, n, parts),
           NEW f, Joins(f, n, parts), NEW i \in 1 .. n
    PROVE  Lies(f, n, parts, i)
  <1> USE DEF Parts
  <1> DEFINE s == f[i - 1]
             t == parts[i]
             r == f[i]
             e == f[n]
  <1>5. \A m \in 0 .. n : f[m] \in Seq(V)
    BY JoinedTypes
  <1>6. i - 1 \in 0 .. n
    OBVIOUS
  <1>1. s \in Seq(V) /\ t \in Seq(V) /\ r = s \o t
    BY <1>5, <1>6 DEF Joins
  <1>2. Len(r) \in Nat /\ Len(e) \in Nat /\ Len(r) <= Len(e)
        /\ \A j \in 1 .. Len(r) : e[j] = r[j]
    BY JoinedPrefix
  <1> HIDE DEF s, t, r, e
  <1>3. /\ Len(s) \in Nat /\ Len(t) \in Nat /\ Len(r) = Len(s) + Len(t)
        /\ \A j \in 1 .. Len(t) : r[Len(s) + j] = t[j]
    BY <1>1, Concatenation
  <1>4. \A j \in 1 .. Len(t) : e[Len(s) + j] = t[j]
    BY <1>2, <1>3
  <1> QED BY <1>2, <1>3, <1>4 DEF s, t, r, e, Lies

LEMMA CountExists ==
    ASSUME NEW n \in Nat, NEW parts, \A i \in 1 .. n : Len(parts[i]) \in Nat
    PROVE  \E c \in [0 .. n -> Nat] : Counts(c, n, parts)
  <1> DEFINE F == [p \in Nat \X (1 .. n) |-> p[1] + Len(parts[p[2]])]
  <1>1. F \in [Nat \X (1 .. n) -> Nat] /\ 0 \in Nat
    OBVIOUS
  <1>2. \A m \in Nat, i \in 1 .. n : F[<<m, i>>] = m + Len(parts[i])
    OBVIOUS
  <1> HIDE DEF F
  <1>3. PICK f : Recurs(f, Nat, n, 0, F)
    BY <1>1, Recursion
  <1>4. /\ f \in [0 .. n -> Nat] /\ f[0] = 0
        /\ \A i \in 1 .. n : f[i] = F[<<f[i - 1], i>>]
    BY <1>3 DEF Recurs
  <1>5. \A i \in 1 .. n : f[i - 1] \in Nat
    BY <1>4
  <1> QED BY <1>2, <1>4, <1>5 DEF Counts

CommitmentsOf(txs) == [i \in 1 .. Len(txs) |-> txs[i].commitments]

LEMMA CountIs ==
    ASSUME NEW txs, NEW n \in Nat, Len(txs) = n,
           \A i \in 1 .. n : Len(txs[i].commitments) \in Nat
    PROVE  \E c : Counts(c, n, CommitmentsOf(txs)) /\ ActionCount(txs) = c[n]
  <1> DEFINE P == CommitmentsOf(txs)
             s(f, i) == f[i - 1] + Len(txs[i].commitments)
             R(f) == [i \in 0 .. n |-> IF i = 0 THEN 0 ELSE s(f, i)]
             c == CHOOSE f : f = R(f)
  <1>1. \A i \in 1 .. n : P[i] = txs[i].commitments /\ Len(P[i]) \in Nat
    BY DEF CommitmentsOf
  <1> HIDE DEF P
  <1>2. PICK f \in [0 .. n -> Nat] : Counts(f, n, P)
    BY <1>1, CountExists
  <1>4. ASSUME NEW g PROVE Counts(g, n, P) <=> /\ g[0] = 0
                                              /\ \A i \in 1 .. n : g[i] = s(g, i)
    BY <1>1 DEF Counts
  <1> HIDE DEF s
  <1>5. f = R(f)
    BY <1>2, <1>4
  <1>6. c = R(c)
    <2> HIDE DEF R
    <2> QED BY <1>5
  <1>7. Counts(c, n, P)
    <2> DEFINE o == 0
               r == [i \in 0 .. n |-> IF i = 0 THEN o ELSE s(c, i)]
    <2> HIDE DEF c, o
    <2>1. r[0] = o /\ \A i \in 1 .. n : r[i] = s(c, i)
      OBVIOUS
    <2>2. c = r
      BY <1>6 DEF o
    <2> HIDE DEF r
    <2> QED BY <1>4, <2>1, <2>2 DEF o
  <1>8. ActionCount(txs) = c[n]
    BY DEF ActionCount, s
  <1> QED BY <1>7, <1>8 DEF P

LEMMA BlockLeavesAre ==
    ASSUME NEW V, NEW b, NEW n \in Nat, Len(b.transactions) = n,
           \A i \in 1 .. n : b.transactions[i].commitments \in Seq(V)
    PROVE  \E f : Joins(f, n, CommitmentsOf(b.transactions)) /\ BlockLeaves(b) = f[n]
  <1> DEFINE txs == b.transactions
             P == CommitmentsOf(txs)
             s(f, i) == f[i - 1] \o txs[i].commitments
             R(f) == [i \in 0 .. n |-> IF i = 0 THEN << >> ELSE s(f, i)]
             c == CHOOSE f : f = R(f)
  <1>1. \A i \in 1 .. n : P[i] = txs[i].commitments /\ P[i] \in Seq(V)
    BY DEF CommitmentsOf
  <1> HIDE DEF P
  <1>2. PICK f \in [0 .. n -> Seq(V)] : Joins(f, n, P)
    BY <1>1, JoinedExists DEF Parts
  <1>4. ASSUME NEW g PROVE Joins(g, n, P) <=> /\ g[0] = << >>
                                              /\ \A i \in 1 .. n : g[i] = s(g, i)
    BY <1>1 DEF Joins
  <1> HIDE DEF s
  <1>5. f = R(f)
    BY <1>2, <1>4
  <1>6. c = R(c)
    <2> HIDE DEF R
    <2> QED BY <1>5
  <1>7. Joins(c, n, P)
    <2> DEFINE o == << >>
               r == [i \in 0 .. n |-> IF i = 0 THEN o ELSE s(c, i)]
    <2> HIDE DEF c, o
    <2>1. r[0] = o /\ \A i \in 1 .. n : r[i] = s(c, i)
      OBVIOUS
    <2>2. c = r
      BY <1>6 DEF o
    <2> HIDE DEF r
    <2> QED BY <1>4, <2>1, <2>2 DEF o
  <1>8. BlockLeaves(b) = c[n]
    BY DEF BlockLeaves, s
  <1> QED BY <1>7, <1>8 DEF P

LeavesPer == [i \in 1 .. Len(chain) |-> BlockLeaves(chain[i])]

LEMMA LeavesAre ==
    ASSUME NEW V, NEW n \in Nat, Len(chain) = n,
           \A i \in 1 .. n : BlockLeaves(chain[i]) \in Seq(V)
    PROVE  Joins(Leaves, n, LeavesPer)
  <1> DEFINE P == LeavesPer
             s(f, i) == f[i - 1] \o BlockLeaves(chain[i])
             R(f) == [i \in 0 .. n |-> IF i = 0 THEN << >> ELSE s(f, i)]
             c == CHOOSE f : f = R(f)
  <1>1. \A i \in 1 .. n : P[i] = BlockLeaves(chain[i]) /\ P[i] \in Seq(V)
    BY DEF LeavesPer
  <1> HIDE DEF P
  <1>2. PICK f \in [0 .. n -> Seq(V)] : Joins(f, n, P)
    BY <1>1, JoinedExists DEF Parts
  <1>4. ASSUME NEW g PROVE Joins(g, n, P) <=> /\ g[0] = << >>
                                              /\ \A i \in 1 .. n : g[i] = s(g, i)
    BY <1>1 DEF Joins
  <1> HIDE DEF s
  <1>5. f = R(f)
    BY <1>2, <1>4
  <1>6. c = R(c)
    <2> HIDE DEF R
    <2> QED BY <1>5
  <1>7. Joins(c, n, P)
    <2> DEFINE o == << >>
               r == [i \in 0 .. n |-> IF i = 0 THEN o ELSE s(c, i)]
    <2> HIDE DEF c, o
    <2>1. r[0] = o /\ \A i \in 1 .. n : r[i] = s(c, i)
      OBVIOUS
    <2>2. c = r
      BY <1>6 DEF o
    <2> HIDE DEF r
    <2> QED BY <1>4, <2>1, <2>2 DEF o
  <1>8. Leaves = c
    BY DEF Leaves, s
  <1> QED BY <1>7, <1>8 DEF P

\* Where a transaction's actions lie in its block, counted from the first.
LEMMA CountBefore ==
    ASSUME NEW V, NEW txs, NEW n \in Nat, Len(txs) = n, DOMAIN txs = 1 .. n,
           Parts(V, n, CommitmentsOf(txs)), NEW k \in 1 .. n,
           NEW f, Joins(f, n, CommitmentsOf(txs))
    PROVE  /\ ActionCount(txs) = Len(f[n])
           /\ ActionCount(SubSeq(txs, 1, k - 1)) = Len(f[k - 1])
  <1> DEFINE P == CommitmentsOf(txs)
             m == k - 1
             s == SubSeq(txs, 1, m)
             Q == CommitmentsOf(s)
  <1>1. m \in 0 .. n /\ m \in Nat
    OBVIOUS
  <1>2. \A i \in 1 .. n : P[i] = txs[i].commitments /\ P[i] \in Seq(V)
    BY DEF CommitmentsOf, Parts
  <1>3. Len(s) = m /\ \A i \in 1 .. m : s[i] = txs[i]
    <2> HIDE DEF m
    <2>1. s = [i \in 1 .. m |-> txs[i]]
      BY <1>1
    <2> QED BY <1>1, <2>1
  <1> HIDE DEF m, s
  <1>4. \A i \in 1 .. m : Q[i] = P[i] /\ s[i].commitments \in Seq(V)
    BY <1>1, <1>2, <1>3 DEF CommitmentsOf
  <1> HIDE DEF P, Q
  <1>5. /\ \A i \in 1 .. m : Q[i] \in Seq(V) /\ Len(s[i].commitments) \in Nat
        /\ \A i \in 1 .. n : Len(txs[i].commitments) \in Nat
    BY <1>1, <1>2, <1>4
  <1>6. PICK c : Counts(c, n, P) /\ ActionCount(txs) = c[n]
    BY <1>5, CountIs DEF P
  <1>7. PICK d : Counts(d, m, Q) /\ ActionCount(s) = d[m]
    BY <1>1, <1>3, <1>5, CountIs DEF Q
  <1>8. Joins(f, n, P)
    BY DEF P
  <1>9. Joins(f, m, Q)
    <2>1. f[0] = << >> /\ \A i \in 1 .. n : f[i] = f[i - 1] \o P[i]
      BY <1>8 DEF Joins
    <2>2. \A i \in 1 .. m : i \in 1 .. n /\ Q[i] = P[i]
      BY <1>1, <1>4
    <2>3. \A i \in 1 .. m : f[i] = f[i - 1] \o Q[i]
      BY <2>1, <2>2
    <2> QED BY <2>1, <2>3 DEF Joins
  <1>12. Parts(V, n, P) /\ Parts(V, m, Q)
    BY <1>2, <1>5 DEF Parts
  <1>10. c[n] = Len(f[n])
    <2>1. \A i \in 0 .. n : c[i] = Len(f[i])
      BY <1>6, <1>8, <1>12, JoinedCount
    <2> QED BY <2>1
  <1>11. d[m] = Len(f[m])
    <2>1. \A i \in 0 .. m : d[i] = Len(f[i])
      BY <1>1, <1>7, <1>9, <1>12, JoinedCount
    <2> QED BY <1>1, <2>1
  <1> QED BY <1>6, <1>7, <1>10, <1>11 DEF s, m

\* What the tree has for an action of the chain.
LEMMA LeafAt ==
    ASSUME Wellformed(chain), NEW i \in DOMAIN chain,
           NEW k \in DOMAIN chain[i].transactions,
           NEW a \in 1 .. Len(chain[i].transactions[k].commitments)
    PROVE  LET txs == chain[i].transactions
               before == Len(Leaves[i - 1]) + ActionCount(SubSeq(txs, 1, k - 1))
           IN  /\ Len(Leaves[i - 1]) \in Nat
               /\ ActionCount(SubSeq(txs, 1, k - 1)) \in Nat /\ ActionCount(txs) \in Nat
               /\ Len(Leaves[i]) = Len(Leaves[i - 1]) + ActionCount(txs)
               /\ Len(Leaves[Len(chain)]) \in Nat
               /\ before + a <= Len(Leaves[Len(chain)])
               /\ Leaves[Len(chain)][before + a] = txs[k].commitments[a]
  <1> DEFINE L == Len(chain)
             txs == chain[i].transactions
             n == Len(txs)
             P == CommitmentsOf(txs)
             G == Leaves
             Q == LeavesPer
  <1>1. /\ L \in Nat /\ DOMAIN chain = 1 .. L
        /\ \A h \in 1 .. L : Len(chain[h].transactions) \in Nat
        /\ \A h \in 1 .. L : \A l \in 1 .. Len(chain[h].transactions) :
              chain[h].transactions[l].commitments \in Seq(Fields)
    <2>1. \A c \in CoreTransaction : c.commitments \in Seq(Fields)
      BY DEF CoreTransaction
    <2> QED BY <2>1, ChainFacts
  <1>2. n \in Nat /\ DOMAIN txs = 1 .. n
    BY ChainFacts
  <1>3. \A h \in 1 .. L : BlockLeaves(chain[h]) \in Seq(Fields)
    <2> SUFFICES ASSUME NEW h \in 1 .. L PROVE BlockLeaves(chain[h]) \in Seq(Fields)
      OBVIOUS
    <2> DEFINE b == chain[h]
               m == Len(b.transactions)
               R == CommitmentsOf(b.transactions)
    <2>1. m \in Nat /\ \A l \in 1 .. m : b.transactions[l].commitments \in Seq(Fields)
      BY <1>1
    <2> HIDE DEF b
    <2>2. PICK f : Joins(f, m, R) /\ BlockLeaves(b) = f[m]
      BY <2>1, BlockLeavesAre
    <2>3. \A l \in 1 .. m : R[l] \in Seq(Fields)
      BY <2>1 DEF CommitmentsOf
    <2> HIDE DEF m, R
    <2>4. \A l \in 0 .. m : f[l] \in Seq(Fields)
      BY <2>1, <2>2, <2>3, JoinedTypes DEF Parts
    <2> QED BY <2>1, <2>2, <2>4 DEF b
  <1>4. PICK f : Joins(f, n, P) /\ BlockLeaves(chain[i]) = f[n]
    <2>1. \A l \in 1 .. n : chain[i].transactions[l].commitments \in Seq(Fields)
      BY <1>1
    <2> QED BY <1>2, <2>1, BlockLeavesAre
  <1>5. Joins(G, L, Q)
    BY <1>1, <1>3, LeavesAre
  <1>6. /\ \A l \in 1 .. n : P[l] = txs[l].commitments /\ P[l] \in Seq(Fields)
        /\ \A h \in 1 .. L : Q[h] = BlockLeaves(chain[h]) /\ Q[h] \in Seq(Fields)
        /\ k \in 1 .. n /\ i \in 1 .. L
    BY <1>1, <1>2, <1>3 DEF CommitmentsOf, LeavesPer
  <1>15. Parts(Fields, n, P) /\ Parts(Fields, L, Q) /\ k \in 1 .. n /\ i \in 1 .. L
    BY <1>6 DEF Parts
  <1>7. /\ ActionCount(txs) = Len(f[n])
        /\ ActionCount(SubSeq(txs, 1, k - 1)) = Len(f[k - 1])
    <2>1. Parts(Fields, n, CommitmentsOf(txs)) /\ Joins(f, n, CommitmentsOf(txs))
      BY <1>4, <1>15
    <2> HIDE DEF txs, n
    <2>2. Len(txs) = n
      BY DEF n
    <2> QED BY <1>2, <1>15, <2>1, <2>2, CountBefore
  <1> DEFINE u == Len(f[k - 1])
             w == Len(G[i - 1])
             t == P[k]
             B == Q[i]
  <1> HIDE DEF L, n, P, G, Q, txs
  <1>8. /\ u \in Nat /\ Len(t) \in Nat /\ Len(f[k]) = u + Len(t)
        /\ Len(f[n]) \in Nat /\ Len(f[k]) <= Len(f[n])
        /\ \A j \in 1 .. Len(t) : f[n][u + j] = t[j]
    <2>1. n \in Nat /\ Parts(Fields, n, P) /\ Joins(f, n, P) /\ k \in 1 .. n
      BY <1>2, <1>4, <1>15
    <2>2. Lies(f, n, P, k)
      BY <2>1, JoinedAt
    <2> QED BY <2>2 DEF Lies
  <1>9. /\ w \in Nat /\ Len(B) \in Nat /\ Len(G[i]) = w + Len(B)
        /\ Len(G[L]) \in Nat /\ Len(G[i]) <= Len(G[L])
        /\ \A j \in 1 .. Len(B) : G[L][w + j] = B[j]
    <2>1. L \in Nat /\ Parts(Fields, L, Q) /\ Joins(G, L, Q) /\ i \in 1 .. L
      BY <1>1, <1>5, <1>15
    <2>2. Lies(G, L, Q, i)
      BY <2>1, JoinedAt
    <2> QED BY <2>2 DEF Lies
  <1>10. B = f[n] /\ t = txs[k].commitments
    BY <1>4, <1>6
  <1>11. a \in 1 .. Len(t)
    BY <1>10 DEF txs
  <1> HIDE DEF u, w, t, B
  <1>12. u + a \in 1 .. Len(B) /\ B[u + a] = t[a] /\ (w + u) + a = w + (u + a)
    BY <1>8, <1>9, <1>10, <1>11
  <1>13. /\ G[L][(w + u) + a] = t[a] /\ (w + u) + a <= Len(G[L])
    BY <1>9, <1>12
  <1>14. /\ ActionCount(SubSeq(txs, 1, k - 1)) = u /\ ActionCount(txs) = Len(B)
         /\ Len(G[i - 1]) = w
    BY <1>7, <1>10 DEF u, w
  <1> QED BY <1>8, <1>9, <1>10, <1>13, <1>14 DEF txs, G, L

\* The note commitment tree of the branch is not larger than its depth allows.
TreeFits == Len(Leaves[Len(chain)]) <= U32Max + 1

LEMMA PositionsHold == TransportInv /\ TreeFits => PositionsLocate
  <1> SUFFICES ASSUME TransportInv, TreeFits, block = None, NEW name \in DOMAIN db.heads
               PROVE  LET p == db.heads[name].producer
                          i == p.height - activation_height + 1
                          at == authenticated_action_position(chain[i], Len(Leaves[i]),
                                                              p.tx_index, p.action_index)
                      IN  /\ at # None
                          /\ Leaves[Len(chain)][at + 1] = db.heads[name].commitment
                          /\ at = action_position(chain[i].transactions, Len(Leaves[i - 1]),
                                                  p.tx_index, p.action_index)
    BY DEF PositionsLocate
  <1> DEFINE head == db.heads[name]
             p == head.producer
  <1>1. PICK i \in DOMAIN chain : \E k \in DOMAIN chain[i].transactions :
          ProducedAt(chain, head, i, k)
    <2>1. PublishedHead(chain, head, FrontBlock, FrontTx)
      BY DEF TransportInv, PublishInv, Published
    <2> QED BY <2>1 DEF PublishedHead
  <1>2. PICK k \in DOMAIN chain[i].transactions : ProducedAt(chain, head, i, k)
    BY <1>1
  <1>3. Wellformed(chain)
    BY DEF TransportInv, ChainInv
  <1>4. p.height - activation_height + 1 = i
    <2>1. i \in Nat /\ chain[i].height = activation_height + i - 1
      BY <1>3, ChainFacts DEF Wellformed
    <2> QED BY <1>2, <2>1, ParameterFacts DEF ProducedAt
  <1> DEFINE txs == chain[i].transactions
             mine == {l \in DOMAIN txs : txs[l].tx_index = p.tx_index}
             x == p.action_index
             a == x + 1
             before == ActionCount(SubSeq(txs, 1, k - 1))
             size == Len(Leaves[i - 1])
  <1>5. /\ p.tx_index = txs[k].tx_index /\ a \in 1 .. Len(txs[k].commitments)
        /\ txs[k].commitments[a] = head.commitment
    BY <1>2 DEF ProducedAt, BondAt
  <1>6. x \in Nat
    <2>1. head \in HeadRecord
      BY DEF TransportInv, PublishInv, Published
    <2> QED BY <2>1, ParametersAssumption DEF HeadRecord, StateRef, Height
  <1>7. mine = {k}
    <2> SUFFICES ASSUME NEW l \in DOMAIN txs, txs[l].tx_index = txs[k].tx_index
                 PROVE  l = k
      BY <1>5
    <2>1. k \in Nat /\ l \in Nat /\ txs[k].tx_index \in Nat
      BY <1>3, ChainFacts
    <2>2. /\ k < l => txs[k].tx_index < txs[l].tx_index
          /\ l < k => txs[l].tx_index < txs[k].tx_index
      BY <1>3 DEF Wellformed
    <2> QED BY <2>1, <2>2
  <1>8. k \in Nat /\ Len(txs[k].commitments) \in Nat
    <2>1. txs[k] \in CoreTransaction /\ k \in Nat
      BY <1>3, ChainFacts
    <2> QED BY <2>1 DEF CoreTransaction
  <1>9. (CHOOSE l \in mine : \A j \in mine : l <= j) = k
    <2> HIDE DEF mine
    <2> QED BY <1>7, <1>8
  <1>10. /\ size \in Nat /\ before \in Nat /\ ActionCount(txs) \in Nat
         /\ Len(Leaves[i]) = size + ActionCount(txs)
         /\ Len(Leaves[Len(chain)]) \in Nat
         /\ (size + before) + a <= Len(Leaves[Len(chain)])
         /\ Leaves[Len(chain)][(size + before) + a] = head.commitment
    BY <1>3, <1>5, LeafAt
  <1> DEFINE at == size + before + x
             all == Len(Leaves[Len(chain)])
  <1>14. all <= U32Max + 1 /\ U32Max \in Nat
    BY ParametersAssumption DEF TreeFits, all
  <1>11. at \in Height /\ at # None /\ at <= U32Max /\ (size + before) + a = at + 1
    <2>1. size \in Nat /\ before \in Nat /\ all \in Nat /\ (size + before) + (x + 1) <= all
      BY <1>10
    <2> HIDE DEF size, before, x, all
    <2>2. at \in Nat /\ at <= U32Max /\ (size + before) + (x + 1) = at + 1
      BY <1>6, <1>14, <2>1
    <2>3. at \in Height
      BY <1>14, <2>2 DEF Height
    <2> QED BY <2>2, <2>3, ValuesAssumption
  <1>12. action_position(txs, size, p.tx_index, x) = at
    <2>1. mine # {} /\ ~(x >= Len(txs[k].commitments))
      BY <1>5, <1>6, <1>7, <1>8
    <2> QED BY <1>9, <1>11, <2>1 DEF action_position
  <1>13. authenticated_action_position(chain[i], Len(Leaves[i]), p.tx_index, x)
           = action_position(txs, size, p.tx_index, x)
    <2>1. /\ ~(Len(Leaves[i]) < ActionCount(txs))
          /\ Len(Leaves[i]) - ActionCount(txs) = size
      BY <1>10
    <2> QED BY <2>1 DEF authenticated_action_position
  <1> HIDE DEF at, before, size, mine
  <1> QED BY <1>4, <1>10, <1>11, <1>12, <1>13 DEF size

\* action_position, authenticated_action_position and positioned_action_position:
\* on a branch whose note commitment tree has not outgrown its depth of 32, the
\* producer of every head is located, from the tree size after its block and from
\* the size before it alike, at the leaf that holds the head's bond.
THEOREM PositionsAreLeaves == TSpec /\ []TreeFits => []PositionsLocate
  <1>1. TransportInv /\ TreeFits => PositionsLocate
    BY PositionsHold
  <1> QED BY <1>1, TransportInit, TransportStep, PTL DEF TSpec

-----------------------------------------------------------------------------
(***************************************************************************)
(* What was acquired does not matter, when no COMMIT of the branch shares  *)
(* its transaction with another candidate at the name's route.  (Complete  *)
(* replay drops a COMMIT that does, while the COMMIT of a REVEAL is        *)
(* decoded at the COMMIT route alone: the run ambiguous_commit.)           *)
(***************************************************************************)
Unambiguous ==
    \A i \in DOMAIN chain : \A k \in DOMAIN chain[i].transactions :
        CommitAt(chain, i, k).status = "Operation" => AloneAt(chain, i, k)

\* What the resolver is given is the complete replay's block, filtered.
LEMMA SparseIsFiltered ==
    ASSUME NEW b \in CoreBlock, EffectsPaired(b), NEW acquired
    PROVE  LET D == DOMAIN b.transactions
           IN  filtered(filtered(inspect_exact_name_block(b, D), D), acquired)
                 = filtered(inspect_exact_name_block(b, acquired), D)
  <1> DEFINE T == b.transactions
             D == DOMAIN T
             B == filtered(inspect_exact_name_block(b, D), D)
             S == filtered(inspect_exact_name_block(b, acquired), D)
             F == filtered(B, acquired)
  <1>1. /\ D = 1 .. Len(T) /\ Len(T) \in Nat
        /\ \A i \in D : T[i] \in CoreTransaction /\ Numbered(T[i])
        /\ B \in Block /\ B.height = b.height /\ B.hash = b.hash /\ B.prev_hash = b.prev_hash
        /\ Len(B.transactions) = Len(T)
        /\ \A i \in D : B.transactions[i] = Given(T[i])
    BY InspectedBlock
  <1>2. /\ S \in Block /\ S.height = b.height /\ S.hash = b.hash /\ S.prev_hash = b.prev_hash
        /\ Len(S.transactions) = Len(T)
    BY InspectedBlock
  <1>3. \A i \in D : S.transactions[i] = IF i \in acquired THEN Given(T[i])
                                         ELSE Unread(Given(T[i]))
    BY InspectedBlock
  <1> HIDE DEF B, S, T, D
  <1>4. /\ F \in Block /\ F.height = B.height /\ F.hash = B.hash
        /\ Len(F.transactions) = Len(B.transactions)
        /\ \A i \in 1 .. Len(B.transactions) :
             F.transactions[i] =
                IF i \in acquired /\ relevant(B.transactions[i].operation)
                  THEN B.transactions[i] ELSE Unread(B.transactions[i])
    BY <1>1, FilteredBlock
  <1>5. F.prev_hash = B.prev_hash
    BY <1>1 DEF filtered, Block
  <1> HIDE DEF F
  <1>6. ASSUME NEW i \in 1 .. Len(T)
        PROVE  F.transactions[i] = S.transactions[i]
    <2> DEFINE g == Given(T[i])
    <2>1. F.transactions[i] = IF i \in acquired /\ relevant(g.operation) THEN g ELSE Unread(g)
      BY <1>1, <1>4
    <2>2. S.transactions[i] = IF i \in acquired THEN g ELSE Unread(g)
      BY <1>1, <1>3
    <2>3. /\ g = Read(T[i]) \/ g = Unread(Read(T[i]))
          /\ g.operation # None => relevant(g.operation)
          /\ g \in Transaction
      BY <1>1, GivenFacts
    <2> HIDE DEF g
    <2>4. g.operation = None => Unread(g) = g
      BY <2>3 DEF Unread, Transaction
    <2> QED BY <2>1, <2>2, <2>3, <2>4
  <1>7. F.transactions = S.transactions
    <2>1. F.transactions \in Seq(Transaction) /\ S.transactions \in Seq(Transaction)
      BY <1>2, <1>4 DEF Block
    <2> QED BY <1>1, <1>2, <1>4, <1>6, <2>1
  <1> QED BY <1>1, <1>2, <1>4, <1>5, <1>7 DEF Block, B, S, F, T, D

\* A transaction of the chain that a reference may name is at its place.
LEMMA LocatedAt ==
    ASSUME Wellformed(chain), NEW r \in CommitRef
    PROVE  \A tx : tx \in Located(r) <=>
             \E i \in DOMAIN chain : \E k \in DOMAIN chain[i].transactions :
                tx = chain[i].transactions[k] /\ r = RefAt(chain, i, k)
  <1> DEFINE i0 == r.height - activation_height + 1
  <1>1. r.height \in Nat
    BY ParametersAssumption DEF CommitRef, Height
  <1>2. ASSUME NEW i \in DOMAIN chain
        PROVE  chain[i].height = r.height <=> i = i0
    <2>1. i \in Nat /\ chain[i].height = activation_height + i - 1
      BY ChainFacts DEF Wellformed
    <2> QED BY <1>1, <2>1, ParameterFacts
  <1>3. ASSUME NEW i \in DOMAIN chain, NEW k \in DOMAIN chain[i].transactions
        PROVE  r = RefAt(chain, i, k) <=>
                 /\ chain[i].height = r.height
                 /\ chain[i].transactions[k].tx_index = r.tx_index
                 /\ chain[i].transactions[k].txid = r.txid
    BY DEF RefAt, CommitRef
  <1> HIDE DEF i0
  <1>4. \A tx : tx \in Located(r) <=>
             /\ i0 \in DOMAIN chain
             /\ \E k \in DOMAIN chain[i0].transactions :
                  /\ tx = chain[i0].transactions[k]
                  /\ chain[i0].transactions[k].tx_index = r.tx_index
                  /\ chain[i0].transactions[k].txid = r.txid
    BY DEF Located, CoreBlockAt, i0
  <1> QED BY <1>2, <1>3, <1>4

\* The evidence is what the chain says of the references of an inspected block.
LEMMA EvidenceFacts ==
    ASSUME NEW ib, NEW e
    PROVE  e \in referenced_commits(ib) <=>
             \E r \in RevealReferences(ib) : \E tx \in Located(r) :
                /\ r.height >= activation_height /\ r.height < ib.height
                /\ ib.height - r.height < commit_ttl_blocks
                /\ AtCommitRoute(tx).status = "Operation"
                /\ e = [reference |-> r, commitment |-> AtCommitRoute(tx).operation.commitment]
  <1> DEFINE ok(r, tx) == /\ r.height >= activation_height /\ r.height < ib.height
                          /\ ib.height - r.height < commit_ttl_blocks
                          /\ AtCommitRoute(tx).status = "Operation"
             says(r, tx) == [reference |-> r,
                             commitment |-> AtCommitRoute(tx).operation.commitment]
             Q == UNION {{<<r, tx>> : tx \in Located(r)} : r \in RevealReferences(ib)}
  <1>1. referenced_commits(ib) = {says(p[1], p[2]) : p \in {q \in Q : ok(q[1], q[2])}}
    BY DEF referenced_commits, inspect_validated_commit_transaction, AtCommitRoute
  <1>2. \A q : q \in Q <=> \E r \in RevealReferences(ib) : \E tx \in Located(r) : q = <<r, tx>>
    OBVIOUS
  <1> HIDE DEF Q
  <1>3. e \in referenced_commits(ib) <=> \E q \in Q : ok(q[1], q[2]) /\ e = says(q[1], q[2])
    BY <1>1
  <1> HIDE DEF ok, says
  <1>4. e \in referenced_commits(ib) <=>
          \E r \in RevealReferences(ib) : \E tx \in Located(r) : ok(r, tx) /\ e = says(r, tx)
    <2>1. ASSUME NEW q \in Q, ok(q[1], q[2]), e = says(q[1], q[2])
          PROVE  \E r \in RevealReferences(ib) : \E tx \in Located(r) : ok(r, tx) /\ e = says(r, tx)
      <3>1. PICK r \in RevealReferences(ib) : \E tx \in Located(r) : q = <<r, tx>>
        BY <1>2, <2>1
      <3>2. PICK tx \in Located(r) : q = <<r, tx>>
        BY <3>1
      <3>3. q[1] = r /\ q[2] = tx
        BY <3>2
      <3>4. ok(r, tx) /\ e = says(r, tx)
        BY <2>1, <3>3
      <3> QED BY <3>4
    <2>2. ASSUME NEW r \in RevealReferences(ib), NEW tx \in Located(r), ok(r, tx), e = says(r, tx)
          PROVE  \E q \in Q : ok(q[1], q[2]) /\ e = says(q[1], q[2])
      <3> DEFINE q == <<r, tx>>
      <3>1. q \in Q /\ q[1] = r /\ q[2] = tx
        BY <1>2
      <3> HIDE DEF q
      <3> QED BY <2>2, <3>1
    <2> QED BY <1>3, <2>1, <2>2
  <1> QED BY <1>4 DEF ok, says

LEMMA HostFollows ==
    ASSUME TransportInv, Unambiguous, NEW b \in CoreBlock, NEW acquired,
           TBeginBlock(b, acquired)
    PROVE  LET D == DOMAIN b.transactions
               B == filtered(inspect_exact_name_block(b, D), D)
               E == referenced_commits(inspect_exact_name_block(b, acquired))
           IN  EBeginBlock(B, acquired, E)
  <1> DEFINE T == b.transactions
             D == DOMAIN T
             L == Len(chain)
             ib == inspect_exact_name_block(b, acquired)
             B == filtered(inspect_exact_name_block(b, D), D)
             S == filtered(ib, D)
             E == referenced_commits(ib)
  <1>1. Wellformed(chain) /\ FullInv /\ ChainInv /\ CommitInv
    BY DEF TransportInv, ChainInv
  <1>2. /\ B \in Block /\ HBeginBlock(B, {}) /\ Exact!HBeginBlock(S, E)
        /\ B.height = b.height /\ DOMAIN B.transactions = D
        /\ \A k \in D : /\ T[k] \in CoreTransaction /\ Numbered(T[k])
                        /\ B.transactions[k] = Given(T[k])
    BY <1>1, BeginGiven
  <1>3. EffectsPaired(b) /\ Acquires(b, acquired)
    BY DEF TBeginBlock
  <1>4. filtered(B, acquired) = S
    BY <1>3, SparseIsFiltered
  <1>5. /\ ib \in Block /\ ib.height = b.height /\ DOMAIN ib.transactions = D
        /\ S \in Block /\ DOMAIN S.transactions = D
    BY <1>3, InspectedBlock
  <1>6. \A i \in D : /\ ib.transactions[i] = IF i \in acquired THEN Read(T[i])
                                             ELSE Unread(Read(T[i]))
                     /\ S.transactions[i] = IF i \in acquired THEN Given(T[i])
                                            ELSE Unread(Given(T[i]))
    BY <1>3, InspectedBlock
  <1> HIDE DEF B, S, E, ib, T, D
  <1>7. /\ b.height = activation_height + L /\ b.height \in Nat /\ L \in Nat /\ block = None
        /\ CommitsPublished(chain, db.commits, L + 1, 0)
    <2>1. L \in Nat
      BY <1>1, ChainFacts
    <2>2. /\ block = None /\ B.height = next_height
      BY <1>2 DEF HBeginBlock, BeginBlock
    <2>3. next_height \in Height /\ next_height # None
      BY <1>2, <2>2, ValuesAssumption DEF Block
    <2>4. /\ TipValid(next_height, tip_height)
          /\ tip_height = None <=> L = 0
          /\ tip_height # None => tip_height = activation_height + L - 1
      BY <1>1, <2>2 DEF FullInv, SnapInv, ChainInv, CurrentHeight
    <2>5. b.height = activation_height + L
      BY <1>2, <2>1, <2>2, <2>3, <2>4, ParameterFacts DEF TipValid
    <2>6. CommitsPublished(chain, db.commits, L + 1, 0)
      BY <1>1, <2>2 DEF CommitInv, FrontBlock, FrontTx
    <2> QED BY <2>1, <2>2, <2>5, <2>6, ParameterFacts
  <1>8. \A r \in RevealReferences(ib) : r \in CommitRef
    <2> SUFFICES ASSUME NEW k \in DOMAIN ib.transactions,
                        ib.transactions[k].operation # None,
                        ib.transactions[k].operation.kind = "Reveal"
                 PROVE  ib.transactions[k].operation.commit \in CommitRef
      BY DEF RevealReferences
    <2>1. ib.transactions[k] \in Transaction
      BY <1>5 DEF Block
    <2>2. ib.transactions[k].operation \in Operation
      BY <2>1 DEF Transaction, Option
    <2> QED BY <2>2 DEF Operation
  <1>9. RevealReferences(S) \subseteq RevealReferences(ib)
    <2>1. \A i \in D : S.transactions[i].operation # None =>
                         S.transactions[i].operation = ib.transactions[i].operation
      <3> SUFFICES ASSUME NEW i \in D, S.transactions[i].operation # None
                   PROVE  S.transactions[i].operation = ib.transactions[i].operation
        OBVIOUS
      <3>1. /\ Given(T[i]).operation # None => Given(T[i]) = Read(T[i])
            /\ Unread(Given(T[i])) = Unread(Read(T[i]))
        BY <1>2, GivenFacts
      <3> QED BY <1>6, <3>1
    <2> QED BY <1>5, <2>1 DEF RevealReferences
  <1>10. ASSUME NEW i \in DOMAIN chain, NEW k \in DOMAIN chain[i].transactions
         PROVE  /\ Before(L + 1, 0, i, k) /\ i \in Nat
                /\ chain[i].height = activation_height + i - 1
                /\ RefAt(chain, i, k).height = activation_height + i - 1
                /\ (L + 1) - i = b.height - RefAt(chain, i, k).height
    <2>1. i \in 1 .. L /\ chain[i].height = activation_height + i - 1
      BY <1>1, ChainFacts DEF Wellformed
    <2>2. RefAt(chain, i, k).height = chain[i].height
      BY DEF RefAt
    <2> QED BY <1>7, <2>1, <2>2, ParameterFacts DEF Before
  <1>11. \A i \in DOMAIN B.transactions :
           LET op == B.transactions[i].operation
           IN  (/\ op # None /\ op.kind # "Commit" /\ op.name = requested
                /\ accepts_operation(requested, B.height)) => i \in acquired
    <2> SUFFICES ASSUME NEW i \in D, B.transactions[i].operation # None,
                        B.transactions[i].operation.kind # "Commit",
                        accepts_operation(requested, B.height)
                 PROVE  i \in acquired
      BY <1>2
    <2>1. AtNameRoute(T[i]).status = "Operation"
      BY <1>2, GivenFacts
    <2> QED BY <1>2, <1>3, <2>1
        DEF Acquires, inspect_validated_name_transaction, AtNameRoute, T, D
  <1>12. ASSUME NEW e \in E
         PROVE  /\ e.reference \in DOMAIN db.commits
                /\ e.commitment = db.commits[e.reference]
    <2>7. PICK r \in RevealReferences(ib) : \E tx \in Located(r) :
                /\ ib.height - r.height < commit_ttl_blocks
                /\ AtCommitRoute(tx).status = "Operation"
                /\ e = [reference |-> r, commitment |-> AtCommitRoute(tx).operation.commitment]
      BY <1>12, EvidenceFacts DEF E
    <2>1. PICK tx \in Located(r) :
                /\ ib.height - r.height < commit_ttl_blocks
                /\ AtCommitRoute(tx).status = "Operation"
                /\ e = [reference |-> r, commitment |-> AtCommitRoute(tx).operation.commitment]
      BY <2>7
    <2>2. PICK i \in DOMAIN chain : \E k \in DOMAIN chain[i].transactions :
             tx = chain[i].transactions[k] /\ r = RefAt(chain, i, k)
      BY <1>1, <1>8, <2>1, LocatedAt
    <2>3. PICK k \in DOMAIN chain[i].transactions :
             tx = chain[i].transactions[k] /\ r = RefAt(chain, i, k)
      BY <2>2
    <2>4. CommitAt(chain, i, k) = AtCommitRoute(tx) /\ AloneAt(chain, i, k)
      BY <2>1, <2>3 DEF CommitAt, Unambiguous
    <2>5. Before(L + 1, 0, i, k) /\ (L + 1) - i < commit_ttl_blocks
      BY <1>5, <1>10, <2>1, <2>3
    <2>6. /\ RefAt(chain, i, k) \in DOMAIN db.commits
          /\ db.commits[RefAt(chain, i, k)] = CommitAt(chain, i, k).operation.commitment
      BY <1>7, <2>4, <2>5 DEF CommitsPublished
    <2> QED BY <2>1, <2>3, <2>4, <2>6
  <1>13. ASSUME NEW r \in RevealReferences(S), r \in DOMAIN db.commits,
                accepts_commit(r.height, B.height)
         PROVE  \E e \in E : e.reference = r
    <2>1. r \in RevealReferences(ib) /\ r \in CommitRef
      BY <1>8, <1>9, <1>13
    <2>2. PICK i \in DOMAIN chain : \E k \in DOMAIN chain[i].transactions :
             r = RefAt(chain, i, k) /\ CommitAt(chain, i, k).status = "Operation"
      BY <1>7, <1>13 DEF CommitsPublished
    <2>3. PICK k \in DOMAIN chain[i].transactions :
             r = RefAt(chain, i, k) /\ CommitAt(chain, i, k).status = "Operation"
      BY <2>2
    <2> DEFINE tx == chain[i].transactions[k]
               e == [reference |-> r, commitment |-> AtCommitRoute(tx).operation.commitment]
    <2>4. tx \in Located(r) /\ AtCommitRoute(tx).status = "Operation"
      BY <1>1, <2>1, <2>3, LocatedAt DEF CommitAt
    <2>5. /\ r.height >= activation_height /\ b.height - r.height < commit_ttl_blocks
      BY <1>2, <1>13 DEF accepts_commit
    <2>6. r.height < b.height
      <3>1. i \in 1 .. L /\ r.height = activation_height + i - 1
        BY <1>1, <1>10, <2>3, ChainFacts
      <3> QED BY <1>7, <3>1, ParameterFacts
    <2>7. e \in E
      BY <1>5, <2>1, <2>4, <2>5, <2>6, EvidenceFacts DEF E
    <2> QED BY <2>7
  <1>14. HostSupplies(B, acquired, E)
    BY <1>4, <1>11, <1>12, <1>13 DEF HostSupplies
  <1>15. EBeginBlock(B, acquired, E)
    BY <1>2, <1>4, <1>14 DEF EBeginBlock
  <1> QED BY <1>15 DEF B, E, ib, D, T

\* With that, the two replays stay twins.
LEMMA AgreeStep ==
    ASSUME TransportInv, TwinInv, Unambiguous, [TNext]_tvars
    PROVE  TwinInv'
  <1>1. ExactInv /\ Wellformed(chain)
    BY DEF ExactInv, TransportInv, ChainInv
  <1>2. CASE UNCHANGED tvars
    BY <1>1, <1>2, StutterTwin DEF tvars
  <1>3. ASSUME NEW b \in CoreBlock, NEW acquired, TBeginBlock(b, acquired)
        PROVE  TwinInv'
    <2>1. PICK B \in Block, E \in SUBSET ReferencedCommit : EBeginBlock(B, acquired, E)
      BY <1>1, <1>3, HostFollows, BeginGiven
    <2> QED BY <1>1, <2>1, BeginTwin
  <1>4. CASE TApplyTransaction
    BY <1>1, <1>4, ApplyTwin DEF TApplyTransaction
  <1>5. CASE TEndBlock
    BY <1>1, <1>5, EndTwin DEF TEndBlock
  <1>6. ASSUME NEW hash \in Hashes, TRollbackTip(hash)
        PROVE  TwinInv'
    BY <1>1, <1>6, RollbackTwin DEF TRollbackTip
  <1> QED BY <1>2, <1>3, <1>4, <1>5, <1>6 DEF TNext, CoreBlock

\* A resolver that followed references agrees with one that read every byte,
\* on every branch whose COMMITs stand alone at the name's route, whatever the
\* host acquired and however the branch was reorganized.
THEOREM AcquisitionDoesNotMatter == TSpec /\ []Unambiguous => []AcquisitionsAgree
  <1>1. TInit => TwinInv
    BY ExactInit DEF TInit, ExactInv
  <1>2. TransportInv /\ TwinInv /\ Unambiguous /\ [TNext]_tvars => TwinInv'
    BY AgreeStep
  <1>3. TransportInv /\ TwinInv => AcquisitionsAgree
    BY TwinRecords DEF AcquisitionsAgree, ExactInv, TransportInv, Get
  <1> QED BY <1>1, <1>2, <1>3, TransportInit, TransportStep, PTL DEF TSpec
=============================================================================
