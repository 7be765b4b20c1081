---------------------------- MODULE ExactReplay ----------------------------
(***************************************************************************)
(* Exact-name resolution (crates/coppice-names/src/resolver.rs) beside the *)
(* complete replay it must agree with.  An ExactResolver is a second       *)
(* reducer, fed the same canonical blocks with two reductions: transport   *)
(* decodes a bulletin only where the full transaction was acquired         *)
(* (inspect_exact_name_block_parts), and the resolver drops bulletins of   *)
(* other names.  A COMMIT it never saw is supplied with the block of the   *)
(* REVEAL that names it.                                                   *)
(*                                                                         *)
(* Both replays stand at the same position of the same branch; each        *)
(* finalizes and restarts on its own.  Both carry the trail of             *)
(* ReducerRollback, a history variable that guards nothing.                *)
(***************************************************************************)
EXTENDS ReducerRollback

CONSTANT requested      \* the name the resolver was made for

ASSUME RequestedAssumption == requested \in NameIds

VARIABLES x_next_height, x_tip_height, x_previous_hash, x_db, x_history,
          x_block, x_pos, x_undo, x_trail

xvars == <<x_next_height, x_tip_height, x_previous_hash, x_db, x_history,
           x_block, x_pos, x_undo, x_trail>>
evars == <<hvars, xvars>>

\* The resolver's own reducer.
Exact == INSTANCE ReducerRollback WITH
    next_height <- x_next_height, tip_height <- x_tip_height,
    previous_hash <- x_previous_hash, db <- x_db, history <- x_history,
    block <- x_block, pos <- x_pos, undo <- x_undo, trail <- x_trail

-----------------------------------------------------------------------------
\* Mutant: bulletins of other names are replayed too.
relevant_any_name(operation) == operation # None

relevant(operation) ==
    /\ operation # None
    /\ operation.kind # "Commit" => operation.name = requested

\* Mutant: an irrelevant transaction loses its actions with its bulletin.
filtered_with_actions(b, acquired) ==
    [b EXCEPT !.transactions =
        [i \in DOMAIN b.transactions |->
            LET tx == b.transactions[i]
            IN  IF i \in acquired /\ relevant(tx.operation) THEN tx
                ELSE [tx EXCEPT !.operation = None, !.actions = << >>]]]

\* The block the resolver's reducer is given: acquired are the transactions
\* whose full bytes were fetched and authenticated.  Every action stays.
filtered(b, acquired) ==
    [b EXCEPT !.transactions =
        [i \in DOMAIN b.transactions |->
            LET tx == b.transactions[i]
            IN  IF i \in acquired /\ relevant(tx.operation) THEN tx
                ELSE [tx EXCEPT !.operation = None]]]

\* The host's part: it fetches every transaction with a bulletin for the
\* requested name in that name's windows (operation_windows_descending), what
\* it likes of the others, and the COMMIT of each REVEAL it found, unless the
\* resolver holds it.  Evidence is authenticated against the canonical chain,
\* whose COMMITs of the last commit_ttl_blocks the complete replay holds.
HostSupplies(b, acquired, evidence) ==
    /\ \A i \in DOMAIN b.transactions :
          LET op == b.transactions[i].operation
          IN  (/\ op # None /\ op.kind # "Commit" /\ op.name = requested
               /\ accepts_operation(requested, b.height)) => i \in acquired
    /\ \A e \in evidence : /\ e.reference \in DOMAIN db.commits
                           /\ e.commitment = db.commits[e.reference]
    /\ \A r \in RevealReferences(filtered(b, acquired)) :
          (r \in DOMAIN db.commits /\ accepts_commit(r.height, b.height))
            => \/ r \in DOMAIN x_db.commits
               \/ \E e \in evidence : e.reference = r

EInit == HInit /\ Exact!HInit

EBeginBlock(b, acquired, evidence) ==
    /\ HostSupplies(b, acquired, evidence)
    /\ HBeginBlock(b, {})
    /\ Exact!HBeginBlock(filtered(b, acquired), evidence)

EApplyTransaction == HApplyTransaction /\ Exact!HApplyTransaction
EEndBlock == HEndBlock /\ Exact!HEndBlock
ERollbackTip(hash) == HRollbackTip(hash) /\ Exact!HRollbackTip(hash)
EFinalizeThrough(height) == HFinalizeThrough(height) /\ UNCHANGED xvars
XFinalizeThrough(height) == Exact!HFinalizeThrough(height) /\ UNCHANGED hvars

is_exact_for(name) ==
    /\ DOMAIN x_db.heads \subseteq {name}
    /\ \A i \in 1 .. Len(x_history) : DOMAIN x_history[i].heads \subseteq {name}

XRestart == is_exact_for(requested) /\ Exact!HRestart /\ UNCHANGED hvars

ENext == \/ \E b \in Block, evidence \in SUBSET ReferencedCommit :
              \E acquired \in SUBSET DOMAIN b.transactions :
                 EBeginBlock(b, acquired, evidence)
         \/ EApplyTransaction
         \/ EEndBlock
         \/ \E hash \in Hashes : ERollbackTip(hash)
         \/ \E height \in Height : EFinalizeThrough(height) \/ XFinalizeThrough(height)
         \/ XRestart

ESpec == EInit /\ [][ENext]_evars

-----------------------------------------------------------------------------
\* docs/SPECIFICATION.md section 11: exact replay and complete replay give the
\* same lifecycle, address and head for the requested name at every tip, with
\* whatever the resolver fetched or left out, and through reorganizations.
ResolversAgree ==
    block = None =>
        \A height \in Height :
            /\ resolve_answers(height) <=> Exact!resolve_answers(height)
            /\ resolve_answers(height) =>
                  resolve(requested, height) = Exact!resolve(requested, height)

\* Whatever the resolver keeps of the COMMITs is canonical: evidence installed
\* for a REVEAL leaves with the block that carried it (rollback_tip) and is
\* pruned with the COMMIT it stands for, so no reorganization leaves a COMMIT
\* behind that the new branch does not have.
EvidenceIsCanonical ==
    \A r \in DOMAIN x_db.commits : Get(db.commits, r) = x_db.commits[r]

\* The resolver's own snapshot always loads: it passes the reducer's checks
\* and holds and journals no head of another name (ExactResolver::load_snapshot,
\* is_exact_for).
ExactSnapshotAccepted ==
    x_block = None => is_exact_for(requested) /\ Exact!SnapshotValid
=============================================================================
