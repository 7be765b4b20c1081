------------------------------ MODULE Schedule ------------------------------
(***************************************************************************)
(* The height schedule of Coppice Names (crates/coppice-names/src/         *)
(* schedule.rs): the timing parameters, the per-name operation window of   *)
(* each epoch, COMMIT eligibility, lease expiry.                           *)
(*                                                                         *)
(* Heights are u32.  A `Result' of a checked computation is modelled by a  *)
(* "fits" predicate beside the value: the value is the exact integer and   *)
(* the Rust code returns Err(Overflow) exactly when it exceeds U32Max.     *)
(***************************************************************************)
EXTENDS Integers, Sequences, FiniteSets

CONSTANTS
    activation_height, epoch_blocks, window_blocks, commit_maturity_blocks,
    commit_ttl_blocks, lease_blocks, cooldown_blocks,
    U32Max,     \* the largest u32: small in the model-checked instances
    NameIds,    \* hashed names; a name and its id are one value
    Digest      \* the hash behind a name's offset: [NameIds -> Nat]

Height == 0 .. U32Max

\* Parameters::validate: a reducer is only ever built on validated parameters.
Valid == /\ window_blocks # 0
         /\ window_blocks <= commit_maturity_blocks
         /\ commit_maturity_blocks < commit_ttl_blocks
         /\ commit_ttl_blocks < epoch_blocks
         /\ lease_blocks > epoch_blocks
         /\ cooldown_blocks = epoch_blocks

ASSUME ParametersAssumption ==
    /\ U32Max \in Nat
    /\ {activation_height, epoch_blocks, window_blocks, commit_maturity_blocks,
        commit_ttl_blocks, lease_blocks, cooldown_blocks} \subseteq Height
    /\ Digest \in [NameIds -> Nat]
    /\ Valid

-----------------------------------------------------------------------------
\* Fails with BeforeActivation below the activation height: callers check it.
epoch(height) == (height - activation_height) \div epoch_blocks

\* The hash reduced modulo the span of starts that keep the window inside
\* its epoch.
offset(name_id) == Digest[name_id] % (epoch_blocks - window_blocks + 1)

\* The operation window of a name in an epoch, and whether it fits in u32.
window(name_id, e) ==
    LET start == activation_height + e * epoch_blocks + offset(name_id)
    IN  [start |-> start, end |-> start + window_blocks]

window_fits(name_id, e) == window(name_id, e).end <= U32Max

contains(w, height) == w.start <= height /\ height < w.end

accepts_operation(name_id, height) ==
    /\ height >= activation_height
    /\ window_fits(name_id, epoch(height))
    /\ contains(window(name_id, epoch(height)), height)

\* Mutant: maturity counted one block short.
accepts_commit_immature(commit_height, reveal_height) ==
    /\ commit_height >= activation_height
    /\ reveal_height >= commit_height
    /\ reveal_height - commit_height + 1 >= commit_maturity_blocks
    /\ reveal_height - commit_height < commit_ttl_blocks

\* Mutant: the upper bound is forgotten.
accepts_commit_forever(commit_height, reveal_height) ==
    /\ commit_height >= activation_height
    /\ reveal_height >= commit_height
    /\ reveal_height - commit_height >= commit_maturity_blocks

accepts_commit(commit_height, reveal_height) ==
    /\ commit_height >= activation_height
    /\ reveal_height >= commit_height
    /\ reveal_height - commit_height >= commit_maturity_blocks
    /\ reveal_height - commit_height < commit_ttl_blocks

\* Mutant: the last block of the lease is lost.
expiry_early(producer_height) == producer_height + lease_blocks - 1

expiry(producer_height) == producer_height + lease_blocks
\* Mutant: an unchecked addition.
expiry_unchecked(producer_height) == TRUE

expiry_fits(producer_height) == expiry(producer_height) <= U32Max

-----------------------------------------------------------------------------
(***************************************************************************)
(* The resolver's scan plan: the windows that intersect [start, end),      *)
(* newest first and clipped to the range.  The Rust loop fails as a whole  *)
(* when start >= end or when one of the visited windows overflows u32.     *)
(***************************************************************************)
effective_start(start) ==
    IF start >= activation_height THEN start ELSE activation_height

scan_epochs(start, end) ==
    IF effective_start(start) >= end THEN {}
    ELSE epoch(effective_start(start)) .. epoch(end - 1)

scan_fails(name_id, start, end) ==
    \/ start >= end
    \/ \E e \in scan_epochs(start, end) : ~window_fits(name_id, e)

\* Mutant: a window that straddles the end of the range is not cut.
clipped_at_start_only(name_id, e, start, end) ==
    LET w == window(name_id, e)
    IN  [start |-> IF w.start >= effective_start(start)
                     THEN w.start ELSE effective_start(start),
         end   |-> w.end]

clipped(name_id, e, start, end) ==
    LET w == window(name_id, e)
    IN  [start |-> IF w.start >= effective_start(start)
                     THEN w.start ELSE effective_start(start),
         end   |-> IF w.end <= end THEN w.end ELSE end]

\* The epochs whose window has a height in the range.
scanned_epochs(name_id, start, end) ==
    {e \in scan_epochs(start, end) :
        LET w == clipped(name_id, e, start, end) IN w.start < w.end}

\* The loop runs from the last epoch to the first, so a window is pushed behind
\* the windows of the later epochs.
operation_windows_descending(name_id, start, end) ==
    LET epochs == scanned_epochs(name_id, start, end)
        place(e) == Cardinality({f \in epochs : f >= e})
    IN  [i \in 1 .. Cardinality(epochs) |->
            clipped(name_id, CHOOSE e \in epochs : place(e) = i, start, end)]
=============================================================================
