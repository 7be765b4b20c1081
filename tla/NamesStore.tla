----------------------------- MODULE NamesStore -----------------------------
(***************************************************************************)
(* The SQLite store (crates/coppice-names-sqlite/src/lib.rs): the rows that *)
(* persist the reducer's records, the deltas that change them, the journal *)
(* rows behind a rewind, and the two adapters that write them:             *)
(* SqliteNamesTransaction, which owns its SQLite transaction and gives the *)
(* host a savepoint per block, and WalletNamesTransaction, which writes    *)
(* inside a transaction of the wallet that embeds it.                      *)
(*                                                                         *)
(* A database is one value: the rows as a transaction sees them.  The two  *)
(* child tables of a journal row are deleted with it (ON DELETE CASCADE)   *)
(* and are fields of it here.  What a row says of a name's spelling, its   *)
(* address and its field encodings is checked on every write and is left   *)
(* out: the model has no malformed record.                                 *)
(***************************************************************************)
EXTENDS NamesReducer

CONSTANT Identities     \* the StoreIdentity values a caller may open with

\* coverage is [kind, name]: Complete, Owned or Exact with its name.
ASSUME IdentitiesAssumption ==
    \A id \in Identities :
        /\ id.minimum_rollback_blocks \in Nat
        /\ id.coverage.kind \in {"Complete", "Exact", "Owned"}
        /\ id.coverage.kind = "Exact" <=> id.coverage.name \in NameIds

Tip(height, hash) == [height |-> height, hash |-> hash]
HeightOf(tip) == IF tip = None THEN None ELSE tip.height

\* Reducer::tip.
reducer_tip == IF tip_height = None THEN None ELSE Tip(tip_height, previous_hash)

\* A record change is its previous and its current value, None for no record.
Changes(journal, map) ==
    [k \in DOMAIN journal |-> [previous |-> journal[k], current |-> Get(map, k)]]

\* The delta of the block just applied: the keys its undo record journaled,
\* with the value journaled and the value the reducer holds now.
delta_from_undo(from_tip, to_tip, u) ==
    [from_tip |-> from_tip, to_tip |-> to_tip,
     heads   |-> Changes(u.heads, db.heads),
     commits |-> Changes(u.commits, db.commits)]

-----------------------------------------------------------------------------
(***************************************************************************)
(* Opening: the schema is created with the identity, or the identity must  *)
(* match.                                                                  *)
(***************************************************************************)
\* The wallet's own scan progress lives in other tables of the same database;
\* scan is the blocks it has scanned.
NewStore(identity) ==
    [identity |-> identity, tip |-> None, finalized_height |-> None,
     core_snapshot |-> None, heads |-> EmptyMap, pending_commits |-> EmptyMap,
     wallet_commits |-> EmptyMap, rollback_blocks |-> EmptyMap, scan |-> << >>]

SameSource(stored, id) ==
    stored.deployment = id.deployment /\ stored.coverage = id.coverage

\* Mutant: the stored retention is not compared.
identity_matches_any_retention(stored, id) == SameSource(stored, id)

\* initialize_or_validate_metadata on a database that has its metadata row.
identity_matches(stored, id) ==
    /\ SameSource(stored, id)
    /\ stored.minimum_rollback_blocks = id.minimum_rollback_blocks

\* WalletNamesTransaction::new asks only for as much retention as it needs.
wallet_identity_matches(stored, id) ==
    /\ SameSource(stored, id)
    /\ stored.minimum_rollback_blocks >= id.minimum_rollback_blocks

-----------------------------------------------------------------------------
(***************************************************************************)
(* Rows.                                                                   *)
(***************************************************************************)
validate_head(head, tip) ==
    /\ head.expiry_height >= head.producer.height
    /\ head.terminal_height # None => head.terminal_height >= head.producer.height
    /\ tip # None =>
          /\ head.producer.height <= tip
          /\ head.terminal_height # None => head.terminal_height <= tip

read_head(s, name) == Get(s.heads, name)
read_commit(s, ref) == Get(s.pending_commits, ref)

\* The rows of several names or places replaced, None: deleted.
write_head(s, records) == [s EXCEPT !.heads = Updated(@, records)]
write_commit(s, values) == [s EXCEPT !.pending_commits = Updated(@, values)]
write_tip(s, tip) == [s EXCEPT !.tip = tip]

Previous(changes) == [k \in DOMAIN changes |-> changes[k].previous]
Current(changes)  == [k \in DOMAIN changes |-> changes[k].current]
Part(changes, keys) == [k \in keys |-> changes[k]]

-----------------------------------------------------------------------------
(***************************************************************************)
(* A delta.  The journal row goes in first, then each head, then each      *)
(* COMMIT, then the tip; every record must still have the value the delta  *)
(* says it had.                                                            *)
(***************************************************************************)
Sequential(delta) ==
    /\ delta.to_tip # None
    /\ delta.from_tip # None =>
          /\ delta.to_tip.height = delta.from_tip.height + 1
          /\ delta.to_tip.hash # delta.from_tip.hash

Covered(s, delta) ==
    s.identity.coverage.kind = "Exact" =>
        DOMAIN delta.heads \subseteq {s.identity.coverage.name}

HeadChangeAccepted(s, delta, name) ==
    LET change == delta.heads[name]
    IN  /\ change.previous # None =>
              validate_head(change.previous, HeightOf(delta.from_tip))
        /\ change.current # None =>
              validate_head(change.current, delta.to_tip.height)
        /\ read_head(s, name) = change.previous

DeltaAccepted(s, delta) ==
    /\ s.tip = delta.from_tip
    /\ Sequential(delta)
    /\ Covered(s, delta)
    /\ delta.to_tip.height \notin DOMAIN s.rollback_blocks
    /\ \A n \in DOMAIN delta.heads : HeadChangeAccepted(s, delta, n)
    /\ \A r \in DOMAIN delta.commits : read_commit(s, r) = delta.commits[r].previous

\* The rows after the statements for some names and some places have run.
Written(s, delta, names, refs) ==
    LET heads   == Part(delta.heads, names)
        commits == Part(delta.commits, refs)
        row == [hash |-> delta.to_tip.hash, previous_tip |-> delta.from_tip,
                heads |-> Previous(heads), commits |-> Previous(commits)]
        journaled == [s EXCEPT !.rollback_blocks =
                         Updated(@, [h \in {delta.to_tip.height} |-> row])]
    IN  write_commit(write_head(journaled, Current(heads)), Current(commits))

\* Mutant: the journal keeps the value the block left behind.
apply_delta_journals_current(s, delta) ==
    LET done == Written(s, delta, DOMAIN delta.heads, DOMAIN delta.commits)
    IN  write_tip([done EXCEPT
                     !.rollback_blocks[delta.to_tip.height].commits =
                         Current(delta.commits)], delta.to_tip)

apply_delta(s, delta) ==
    write_tip(Written(s, delta, DOMAIN delta.heads, DOMAIN delta.commits),
              delta.to_tip)

\* The wallet's adapter repeats the checks and statements of the other one.
wallet_apply_delta(s, delta) == apply_delta(s, delta)

\* A statement of apply_delta failed: the heads before it, and when they are
\* all done the COMMITs before it, are already written.
PartlyApplied(s, delta) ==
    {Written(s, delta, names, {}) : names \in SUBSET DOMAIN delta.heads}
      \cup
    {Written(s, delta, DOMAIN delta.heads, refs) : refs \in SUBSET DOMAIN delta.commits}

-----------------------------------------------------------------------------
(***************************************************************************)
(* Rewinding and finalizing.                                               *)
(***************************************************************************)
Journaled_tip(s) ==
    /\ s.tip # None
    /\ s.tip.height \in DOMAIN s.rollback_blocks
    /\ s.rollback_blocks[s.tip.height].hash = s.tip.hash

RestorableRows(row) ==
    \A n \in DOMAIN row.heads :
        row.heads[n] # None => validate_head(row.heads[n], HeightOf(row.previous_tip))

DeleteJournal(s, heights) ==
    [s EXCEPT !.rollback_blocks = Updated(@, [h \in heights |-> None])]

\* Mutant: the COMMITs a block pruned or added stay as they are.
rollback_tip_heads_only(s) ==
    LET row == s.rollback_blocks[s.tip.height]
    IN  write_tip(DeleteJournal(write_head(s, row.heads), {s.tip.height}),
                  row.previous_tip)

rollback_tip(s) ==
    LET row == s.rollback_blocks[s.tip.height]
        restored == write_commit(write_head(s, row.heads), row.commits)
    IN  write_tip(DeleteJournal(restored, {s.tip.height}), row.previous_tip)

\* Row by row with its journal entry deleted behind it; the same rows in the
\* end.  The wallet says how far to go, so there is no hash to compare.
wallet_rollback_tip(s) == rollback_tip(s)

finalize_safe(s, id, height) ==
    /\ s.tip.height >= id.minimum_rollback_blocks
    /\ height <= s.tip.height - id.minimum_rollback_blocks

\* Mutant: a lower height replaces the finalized one.
finalize_through_lowers(s, height) ==
    [DeleteJournal(s, {h \in DOMAIN s.rollback_blocks : h <= height}) EXCEPT
       !.finalized_height = height]

finalize_through(s, height) ==
    [DeleteJournal(s, {h \in DOMAIN s.rollback_blocks : h <= height}) EXCEPT
       !.finalized_height = IF @ = None THEN height
                            ELSE IF @ < height THEN height ELSE @]

put_core_snapshot(s, snapshot) == [s EXCEPT !.core_snapshot = snapshot]

\* Mutant: a reset forgets the journals.
reset_for_replay_keeps_journals(s) ==
    [s EXCEPT !.pending_commits = EmptyMap, !.heads = EmptyMap, !.tip = None,
              !.finalized_height = None, !.core_snapshot = None]

\* Everything replay can rebuild; not the wallet's own COMMIT locations.
reset_for_replay(s) ==
    [s EXCEPT !.rollback_blocks = EmptyMap, !.pending_commits = EmptyMap,
              !.heads = EmptyMap, !.tip = None, !.finalized_height = None,
              !.core_snapshot = None]

\* A COMMIT of the wallet already recorded elsewhere is an error.
WalletCommitAccepted(s, commitment, ref) ==
    Get(s.wallet_commits, commitment) \in {None, ref}

record_wallet_commit(s, commitment, ref) ==
    [s EXCEPT !.wallet_commits = Updated(@, [c \in {commitment} |-> ref])]

\* Mutant: a rewind leaves the snapshot.
ClearStaleSnapshot_kept(s, original_tip) == s

\* The end of rollback_to_height, and what rollback_to_height_or_reset adds.
ClearStaleSnapshot(s, original_tip) ==
    IF s.tip # original_tip THEN [s EXCEPT !.core_snapshot = None] ELSE s

\* Mutant: the locations above the height survive.
forget_wallet_commits_none(s, height) == s

forget_wallet_commits(s, height) ==
    LET gone == {c \in DOMAIN s.wallet_commits : s.wallet_commits[c].height > height}
    IN  [s EXCEPT !.wallet_commits = Updated(@, [c \in gone |-> None])]
=============================================================================
