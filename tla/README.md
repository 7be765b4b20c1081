# Coppice Names in TLA+

A formal model of the Coppice Names application: the canonical reducer that
decides which names exist, its rollback and snapshots, the height schedule it
rests on, the transport that reads operations off the chain, the exact-name
resolver that must agree with complete replay, the SQLite store that persists
the records, and the wallet that plans operations and builds their transactions.
Modules are translated from the Rust source under `crates/`; the tests and
`docs/SPECIFICATION.md` were read to know what the code intends.

## 1. The system

| Component | State | Operations | Interaction |
|---|---|---|---|
| Height schedule (`schedule.rs`) | none (parameters) | `epoch`, `window`, `accepts_operation`, `accepts_commit`, `expiry`, `operation_windows_descending` | called by the reducer and by resolvers that plan what to fetch |
| Canonical reducer (`reducer.rs`) | COMMITs, heads, four derived indexes, tip | `apply_block` (COMMIT, REVEAL, REFRESH, spends; expiry, compaction, pruning at block start), `resolve` | fed one canonical block at a time by a host; emits a `StateDelta` |
| Rollback journal and snapshot (`reducer.rs`) | a deque of undo records | `rollback_tip`, `finalize_through`, `save_snapshot`, `load_snapshot` | shares the reducer's state |
| Exact resolver (`resolver.rs`) | a private reducer | filtered `apply_block` with COMMIT evidence, `resolve`, rollback, finalize, snapshot | same chain as a complete replay, fewer bulletins |
| Transport (`transport.rs`) | none | decode and classify a bulletin at the COMMIT route or a name route, select the one operation of a transaction, locate an action in the note commitment tree | produces the reducer's blocks |
| SQLite store (`coppice-names-sqlite`) | rows of heads, COMMITs, per-block prior records, tip, finalization, staged Core snapshot, coverage | `apply_delta`, `rollback_tip`, `rollback_to_height_or_reset`, `finalize_through`, block savepoints | persists `StateDelta`s inside the wallet's transaction |
| Wallet planning and recovery (`replacement.rs`, `recovery.rs`, `bond.rs`) | none: every secret is derived again from the seed | `prepare_commit`, `prepare_reveal`, `prepare_refresh`, bond classification | reads a resolver's records; its plans are mined and judged by the reducer |
| PCZT builder (`builder.rs`) | a PCZT and the metadata beside it, passed from call to call | build, IO-finalize, witness, prove, sign, extract | wraps the roles of the pinned `orchard` and `pczt` libraries |
| Sealed checkpoint (`checkpoint.rs`) | none | seal, open | authenticated encryption of bytes |
| Codec, protocol types, statements, proofs, deployment identity | none | pure functions | used everywhere |

What is hard: several changes of one record inside one block against a journal
that may keep only the first value; indexes maintained by hand beside the
records; the order of spend detection, operation and termination inside one
transaction; reorganizations interleaved with finalization and restarts;
half-open windows and checked additions at the edge of u32; a resolver that
sees part of the chain and must still give the complete answer; in the store,
crashes and failures between statements, a snapshot blob beside indexed rows and
rewinds deeper than the journals; in the wallet, plans that are mined later than
they were made and bond notes rebuilt from nothing but the seed; and a PCZT that
goes through seven external roles and several hands before it is a transaction.
`PROJECT.json` lists these hazards line by line with the properties that cover
them.  Nothing in the reducer runs concurrently: `apply_block` holds
`&mut self` to its end.

## 2. Modules

| Module | Models |
|---|---|
| `Schedule` | `schedule.rs`, with u32 overflow as `..._fits` predicates beside exact integers |
| `ScheduleScan` | a resolver's use of it: a range of heights that grows, its scan plan, and what a COMMIT or head at one end means at the other |
| `NamesReducer` | `reducer.rs`: state, block application, rollback, finalization, restart, resolution |
| `RewindableView` | abstract specification: a view, the past views still kept, Advance, Rewind, Forget |
| `ReducerRollback` | the reducer with the ghost `trail` of past views and the refinement mapping to `RewindableView` |
| `LeaseHistory` | `ReducerRollback` with ghosts about the branch: nullifiers revealed, heads installed, owner served at each tip |
| `ExactReplay` | `resolver.rs`: a second `ReducerRollback`, fed filtered blocks and evidence, beside the complete one |
| `Transport` | `transport.rs` in front of two resolvers of one name with different acquisitions |
| `NamesStore` | `coppice-names-sqlite`: the rows, and each call as a function from rows to rows |
| `NamesHost` | the store composed with the reducer and a host: transactions, savepoints, faults, restarts, rewinds |
| `WalletPlans` | `replacement.rs`, `recovery.rs`, `bond.rs` composed with the reducer |
| `NamesBuilder` | `builder.rs`: the wrappers from plan to transaction, with the external roles' contracts |
| `MCNames` | data and candidate blocks of the instances |
| `MCSchedule`, `MCRollback`, `MCLease`, `MCExact`, `MCStore`, `MCTransport`, `MCWallet`, `MCBuilder` | the model-checked instances |
| `ScheduleFacts`, `ScheduleProofs` | arithmetic of epochs and windows, induction over naturals and recursive functions; the timing theorems and the scan plan |
| `ReducerProofs`, `LeaseProofs` | theorems about the reducer: indexes, types, rollback and refinement, snapshots; leases |
| `ExactProofs` | theorems about the exact resolver beside complete replay, and about transport in front of two resolvers |
| `WalletProofs` | theorems about the wallet's plans |
| `BuilderProofs` | theorems about the PCZT pipeline |
| `StoreProofs` | theorems about the store's journals, the scanned branch, and the rows as the reducer's records and as a replay |

How `NamesReducer` corresponds to the code:

* `BTreeMap`s are functions on their key sets; an index of nonempty buckets is
  the set of its `<<key, value>>` pairs; `Option::None` is the constant `None`.
* `apply_block_detailed` becomes `BeginBlock` (every check, then `mark_expired`,
  `compact_claimable`, `prune_commits` and the supplied COMMITs, in that order),
  one `ApplyTransaction` per transaction, and `EndBlock` (tip, hash, journal).
  While `block # None` no other operation is enabled, as under `&mut self`; the
  split exposes the intermediate states to the invariants.
* A loop of the code that replaces records one key after another is one map
  update: the keys are distinct and each replacement touches its own entries.
  `remember_*` followed by `replace_*` stays in that order.
* A call that the code rejects returns an error and changes nothing: its
  conditions are guards.  An operation that a transaction carries and that fails
  a clause changes nothing but the transaction's spends still count.
* `Restart` is `save_snapshot`, process end and `load_snapshot` of the same
  bytes: records and journals survive, indexes are rebuilt, and `SnapshotValid`
  is every structural check of `load_snapshot`.  That `Restart` is always enabled
  in an idle reducer is the property `SnapshotAccepted`.
* The proof verifier, the digest behind a name's offset, addresses, hashes and
  commitments are constants.  The instances give the verifiers the meaning of the
  Halo2 statements (a proof is the owner whose keys it shows).

How `Transport` corresponds to the code:

* A Core transaction is its position, its effects, and what Core finds of it at
  each of the two rendezvous a resolver looks at: the value of the routed frames
  and one message (none, malformed, of another application, with a payload that
  does not decode, or an operation).  `classify_inspection` and
  `select_single_operation` work on that; bytes do not appear.
* One resolver acquires every transaction.  The other acquires what its host
  chose, and decodes the COMMIT a REVEAL names with the COMMIT-only inspection
  (`inspect_validated_commit_transaction`).  Both are the reducers of `ExactReplay`.
* `chain` keeps the Core blocks of the branch, so that positions in the note
  commitment tree can be compared with the leaves themselves.

How `NamesStore` and `NamesHost` correspond to the code:

* A database is one value, the rows as a transaction sees them: `disk` is the
  committed one, `tx` that of the open transaction, `savepoint` the one before the
  block in progress.  The child tables of a journal row go with it
  (`ON DELETE CASCADE`), so they are fields of that row.
* `StateDelta` is built from the reducer's undo record (`delta_from_undo`).
  `apply_delta` writes the journal row, then heads, then COMMITs, then the tip;
  `DeltaFails` stops between any two of these statements, also when a check
  refuses the delta.  `BlockFails` is an error returned from
  `with_block_savepoint`, `AbortBatch` one returned from `with_transaction`,
  `Crash` the end of the process.
* `adapter` selects the writer: `SqliteNamesTransaction` with a savepoint per
  block, or `WalletNamesTransaction` inside the wallet's transaction.  The loop of
  `rollback_to_height_or_reset` is `WalletRewind`, a `RewindStep` per tip, and
  `RewindEnd` or, where a journal is missing, `RewindReset`.
* The host is not in this repository.  It is taken from what the store's tests call and
  from `docs/decisions/0005`: it scans a block, applies it to the reducer, hands
  the delta to the store, and after a failure reloads the stored snapshot if
  that is of the stored tip, else replays what was scanned.  `scan` stands for
  the wallet's own progress in other tables of the same database.

How `WalletPlans` corresponds to the code:

* A derivation (spending key, COMMIT opening, bond note) is the record of its
  inputs: two derivations agree exactly when their inputs do.  The retry loops
  look for the first valid candidate and are deterministic, so they have none.
* `prepare_*` are guarded by the `ensure!`s of the code against the records the
  wallet sees; a plan is kept in `plans`, and `PlanTx` is the transaction that
  carries it.  Blocks mine any prepared plan at any height, with rollbacks
  (`ReducerRollback`).
* A block is `Mineable` if a txid names one transaction on the branch and only the
  wallet proves with its keys.  Both are external (the digest behind a txid, the
  circuits), and both are what the plans rest on: a COMMIT is found again by its
  txid.  `MCWallet` derives txids from a transaction's content.

How `NamesBuilder` corresponds to the code:

* Each public wrapper is one action: checks before, the role, checks after.  A
  failed check is `Refuse`.  A role returns what its contract says, or that with
  one thing altered (`Altered`: a pair moved or replaced, an action added or
  lost, a witness, signature, proof, anchor or balance changed).
* `HandOver` alters the PCZT between two wrappers; the metadata fields stay with
  the wallet.  Each wrapper compares with what it was given, so an alteration in
  transit is caught only where it touches the metadata.  That is why
  `ExtractedAsBuilt`, `WitnessesByNullifier` and `NoRealSignatureYet` speak about
  runs without one, and `OperationStaysBound` about all.
* The proving and signing wrappers check that witnesses are there, not their
  values: a wrong path is the Prover's and the Extractor's to refuse
  (`Authorized`).  The anchor is deferred, hence not part of what is signed.
* Witness and signing lists that are too short, too long, or name the wrong
  note are among the inputs, so refusals happen without any fault too.

## 3. Runs

Every step of the reducer, the transport and the planner is a call by a host, so
`schedule`, `rollback`, `lease`, `exact`, `transport`, `ambiguous_commit` and
`wallet_plans` assume no fairness.  They, and the three runs of the store, say
`CHECK_DEADLOCK FALSE`, because a replay may stop anywhere: the instances offer
no block beyond `MaxHeight`.  `builder` checks deadlock: each wrapper either returns a
result or refuses, and only those two ends may stay (`Ended`).

`store_liveness` assumes `SFairness`, weak fairness of what a host does of its own
accord: open, begin, resume, finish the block, delta, savepoint or rewind it
began, commit, and replay the next block it has scanned.  Faults, new blocks,
snapshots, finalization and rewinds are not fair, and faults and rewinds are
bounded.  The code never waits for another party inside these steps, so weak
fairness is what a running process gives.  Fairness of replay is stated on
`ReplayStarts`, the guards of `ReplayScanned` and the block it starts, because TLC
would otherwise evaluate a whole block application to decide whether the step is
enabled.

| Run | Bounds | What it shows |
|---|---|---|
| `schedule` | 27 heights, activation at 3, five-block epochs, three offsets (first, wrapped, last possible) | `ScanCoversExactly`: the scan plan is exactly the set of heights where the reducer accepts an operation, newest window first.  `CommitPrecedesWindow`, `CommitServesOneEpoch`, `RenewalBeforeExpiry`: the three timing facts that validation of the parameters is for |
| `rollback` | two names with adjacent windows, heights 0..8 with 8 the last u32, two transactions a block, reorganizations of two blocks, finalization at any height, restarts, COMMIT evidence | `IndexesCoherent`, `JournalsExact`, `SnapshotAccepted`, `Rewindable`, `TypeOK` |
| `lease` | one name, two owners (symmetric), heights to 10, two transactions a block, one-block reorganizations | `ActiveBondUnspent`, `LeaseEndExplained`, `OneInstallPerEpoch`, `Quarantine` |
| `exact` | two names, a resolver of one, heights to 10, two-block reorganizations, any choice of fetched transactions and evidence the host may make | `ResolversAgree`, `EvidenceIsCanonical`, `ExactSnapshotAccepted` |
| `store_sqlite` | one name, heights to 3, retention 1 or 2, one fault and two reorganizations of any depth the journals allow | `RowsAreReplay`, `DeltaTaken`, `JournalsReachBack`, `SnapshotIsOfRows`, and the action property `RetentionKept` |
| `store_wallet` | the same with the wallet's adapter, rewinds to any height | `RowsAreReplay`, `RowsAreRecords`, `DeltaTaken`, `OnScannedBranch`, `SnapshotOnBranch`, `WalletCommitsCanonical` |
| `store_liveness` | the wallet's adapter, heights to 2, one fault, two rewinds | `CatchesUp`: the committed rows catch up with the committed scan again and again |
| `transport` | one name, heights to 4, one transaction a block, beside each REVEAL or REFRESH nothing, another application's message, a carrier with value or a message at the wrong route | `AcquisitionsAgree`, `SoleCandidate`, `EffectsKept`, `PositionsLocate` |
| `ambiguous_commit` | as `transport`, with a COMMIT that shares its transaction with an undecodable Names payload at the name's route | **violation** of `ReferencedCommitIsForward` (below) |
| `wallet_plans` | one seed, one name, heights to 6, three plans with two action indexes and notes of the right and the wrong value, two-block reorganizations | `PreparedAccepted`, `CommitsRevealable`, `LeasesRefreshable` |
| `builder` | five bundle shapes (with and without funding, carriers, change and padding) at every action index and plans a check must refuse; one altered role result and one altered handover | `ExtractedAsBuilt`, `OperationStaysBound`, `WitnessesByNullifier`, `NoRealSignatureYet`, `VerdictHasCause` |

The finding.  `docs/SPECIFICATION.md` (lines 265-266) says that a COMMIT met as the
evidence of a REVEAL "is semantically identical to observing it during forward
replay".  Forward replay of a name looks at a transaction at the COMMIT route and
at the name's route, and `select_single_operation` drops a COMMIT beside any other
candidate.  The inspection of evidence looks at the COMMIT route only, since the
evidence is checked without the name.  `ambiguous_commit` shows such a COMMIT in one resolver's records and
not in the other's.  `transport` leaves out COMMITs that share their transaction with another Names
candidate (`CommitNoise`), and shows that everything else agrees.

Why the bounds are enough: with `epoch_blocks = cooldown_blocks = 3`,
`lease_blocks = 4`, `commit_ttl_blocks = 2` ten heights hold a full cycle
(COMMIT, REVEAL, REFRESH or not, expiry or release, cooldown, registration by
another owner), and eight hold one that runs into the end of the height range.
Two journals are enough for a rollback after a rollback and for finalization
that drops one of two.  The instance's candidate blocks contain every operation
the current state makes meaningful and some it must reject (REVEALs by another
owner, REFRESHes outside the window or of an ended head, ordinary spends,
transactions whose bulletin concerns one name and whose actions spend the bond
of another); blocks are a subset of those `Spec` allows, so the theorems cover
more.  `Memory` bounds how far `LeaseHistory`'s ghosts reach back; at five
heights it exceeds the epoch, the cooldown and the lease, the longest distances
the properties speak about.  `MaxReorg`
bounds the journals, `MaxTxs` the transactions of a block, `Room` is the guard
that applies these bounds.

In the store three heights hold a batch of two blocks after a committed one, a
rewind over the finalized height and a replay of all of it; one fault at every
statement of every block is every place where a process can stop, and a second
rewind meets what the first one and its reset left behind.  The hash of a block
in `MCStore` is its branch, so a row of a left branch is never mistaken for one of
the present branch.  In `MCWallet` seven heights hold COMMIT, REVEAL and the
window of the next REFRESH.  In `MCBuilder` one alteration of each kind is the
interesting number: two can cancel out, and each wrapper sees one role.

In `MCLease` blocks respect one consensus rule: a nullifier appears once on a
branch.  The reducer does not check it and does not have to: Zcash does.

Each property has a mutant in `PROJECT.json`: a plausible slip in the code
(last value journaled instead of the first, an index entry kept, cooldown one
block short, evidence installed without a journal entry, ...) under which TLC
finds the property violated.

## 4. Proofs

Proved for every value of the constants that satisfies the assumptions of the
modules: `ParametersAssumption` (what `Parameters::validate` enforces, heights in
u32), `ValuesAssumption` (`None` is not a value of another type),
`RequestedAssumption` (the resolver's name is a name) and `PlansAssumption` (a
builder plan counts its notes, and the values of its notes, in naturals).  Some theorems have a hypothesis of
their own, named in their statements and explained below.

**The reducer** (`ReducerProofs`).

* `IndexCoherence`: `Spec => []IndexesCoherent`.  Records change only through
  `ReplaceHeads` and `ReplaceCommits`.  The inductive invariant `IndexInv` adds to
  coherence that the maps are functions that never take the value `None`
  (`Proper`) and that the block in progress is well-formed; two lemmas show that a
  replacement moves the index entries with the record, the rest follows each
  operation down to them.
* `RollbackExact`: `HSpec => []JournalsExact`.  Two map facts carry it:
  overwriting a journaled key does not change where the journal leads
  (`UpdatedTwice`), nor does journaling a key with its current value
  (`UpdatedJournaled`).  `LeadsTo(w, v)` says that the pair of maps and undo record
  `w` leads back to view `v`; each piece of block application preserves it.
  `JournalsExact` alone is not inductive: `RollbackInv` adds `IndexInv`, the fields
  of the undo record in progress, and that its block has the height the view
  before it was waiting for.
* `ReducerIsRewindable`: `HSpec => Rewindable`, the refinement: `BeginBlock`,
  `ApplyTransaction` and `Restart` are stutters, `EndBlock` is Advance,
  `RollbackTip` is Rewind, `FinalizeThrough` is Forget.
* `TypeCorrect`: `Spec => []TypeOK`, with `TypeInv` adding that `history` is a
  sequence and which fields the undo record has.  The interesting part is
  arithmetic: epochs, expiries and tips stay inside u32.

**Snapshots** (`ReducerProofs`): `SnapshotsLoad`, `HSpec => []SnapshotAccepted`.  The
checks of `load_snapshot` are about the present records and about every record a
journal holds, so one view is not enough: a rollback may make any past view the
present one.  `SnapInv` says that every view of `trail` would pass the checks at its
own tip (`PastValid`), that the journals are linked to each other and to the tip by
height and hash (`Linked`), and the same of the block in progress.  With
`RollbackInv` and `TypeInv` it is the inductive `FullInv`, on which the modules
about leases, the exact resolver, the wallet and the store build.  Each record a journal holds is then a record of the view before its
block, hence one that passes.

**Leases** (`LeaseProofs`).  For the same reason each invariant is stated of all
views: `Below(records, v.tip)` is the part of the ghosts a view knows.

* `BondsHold`: `LSpec => []ActiveBondUnspent`, from `BondInv` and from `GhostInv`, which
  places the ghosts on the branch and before the transactions still to come.
* `InstallsAreApart`: `LSpec => []OneInstallPerEpoch`.  `EpochInv` relates every past
  install to the head that stands in its name's place, or, where none stands, to
  the cooldown that has passed; that epochs are no longer than the cooldown is
  then what separates them.
* `OwnersAreApart`: `RefreshKeepsOwner => (LSpec => []Quarantine)`.  The hypothesis is
  what the REFRESH circuit proves, that the successor belongs to the predecessor's
  owner.  The circuit is outside the model, so it is stated of the constant
  `VerifyRefresh`; the instances' verifier satisfies it.
* `LeasesEndOnce`: `NothingForgotten => (LSpec => []LeaseEndExplained)`.  The ghosts of
  `LeaseHistory` are cut to the last `Memory` heights to keep TLC's states few; the
  hypothesis is that `Memory` is not below the largest height, so nothing is cut.
  The run shows the same with a short memory.

**The exact resolver** (`ExactProofs`): `CommitsAreCanonical`
(`ESpec => []EvidenceIsCanonical`), `ResolutionIsExact` (`ESpec => []ResolversAgree`) and
`ResolverSnapshotsLoad` (`ESpec => []ExactSnapshotAccepted`), for every chain, every
choice of acquired transactions and evidence, and each side's own finalization and
restarts.  `ExactInv` is `FullInv` of both reducers and `TwinInv`: the two present
views are twins (the same head of the requested name, the resolver's COMMITs among
the complete ones, no head of another name), so are any two kept views of the same
height, and while a block is applied the resolver's copy is a filter of it whose
REVEALs of the requested name find their COMMIT in the resolver iff it is in the
complete reducer.  Twins of past views are needed because a rollback returns to them
on both sides, while the two may have finalized different heights.  The step that
carries the argument is `ApplyTransaction`: what a transaction does to one name
depends on that name's head and on the COMMIT it cites only.

**The transport** (`ExactProofs`, second half), for every branch, every message at
either route and every choice of acquired transactions.  The inductive `TransportInv`
is `FullInv` of both reducers and three parts that relate the views to the branch.
`ChainInv`: the branch has one block per height from activation up to the present
one, and what each reducer was given of a block is what inspection makes of it, a
transaction not acquired keeping its actions.  `PublishInv`: every head of every
view, past views included, was produced by a transaction of the branch before that
view's place that is `Sole` at both routes, and, while the head is active, no later
block before that place spends its bond.  `CommitInv`: every COMMIT of the complete
replay was decoded at the COMMIT route of the transaction its reference names, and
every COMMIT alone in its transaction is held until its lifetime ends.  Places are
needed for the same reason as twins: a rollback returns to a past view, and cuts the
branch with it.

* `ProducersStandAlone`: `TSpec => []SoleCandidate`, and `SpendsAreSeen`:
  `TSpec => []EffectsKept`.
* `AcquisitionDoesNotMatter`: `TSpec /\ []Unambiguous => []AcquisitionsAgree`.
  `Unambiguous` says that no COMMIT of the branch shares its transaction with another
  candidate at the name's route.  It cannot be dropped: such a COMMIT is the finding
  of section 3, invisible to complete replay and visible to one that follows a
  reference.  Under it, what the two resolvers get is a step of `ExactReplay`
  (`HostFollows`: the sparse block is a filter of the complete one, the evidence is
  canonical, and there is some for every usable COMMIT), so `TwinInv` is preserved.
* `PositionsAreLeaves`: `TSpec /\ []TreeFits => []PositionsLocate`.  The position the
  code computes for an action, from the tree size before the block and the actions of
  the transactions before it, is the place of that action's commitment among all the
  leaves of the branch.  `TreeFits` says that the branch has not produced more
  commitments than the tree of depth 32 holds.  `ProducedAt`, a part of
  `TransportInv`, says which action of its producer made a head's bond.  Sums and
  concatenations over sequences are unfolded by induction; the property is given as
  a set of naturals (`LeastNatural`, `SetInduction`, `Recursion` in `ScheduleFacts`),
  because an induction theorem over an operator is out of the provers' reach.

**The wallet** (`WalletProofs`), for every wallet, every branch it is mined on and
every mix of other transactions: `CommitsOpen` (`CommitsRevealable`),
`PlansAccepted` (`PreparedAccepted`) and `LeasesExtend` (`LeasesRefreshable`), each
under `CircuitsExact`: the verifiers accept exactly the proofs of true statements.
`WalletInv` is `FullInv` and three parts.  `SoundInv`: every head of every view, past
ones included because a rollback returns to them, is what its producer's txid names,
its bond was opened by the proof that installed it, and a bond of the wallet is of this
name and of the epoch the head was produced in (`SoundHead`).  `PlansInv`: every plan is
the result of a `prepare_*` call whose guards held.  `BlockInv`: the block in progress
is mineable.  A head under the wallet's keys then comes from one of its plans, and what
the wallet derives again for that name and epoch is the head's bond.

**The builder** (`BuilderProofs`), for every plan, every arrangement the Orchard
builder may choose, and any number of altered role results and handovers (the
bounds `MaxRoleFaults` and `MaxHandFaults` are arbitrary).

* `TransactionsStayBound`: `Spec => []OperationStaysBound`, and
  `TransactionsAreAsBuilt`: `Spec => []ExtractedAsBuilt`.  `BuilderInv` says that the
  metadata is what the plan said, that whatever was altered the PCZT still is a
  finite list of actions, and that without a handover fault its layout is that of
  `built`: each wrapper compares the layout it got with the one it returns.
* `PathsReachTheirSpends`: `Spec => []WitnessesByNullifier`, and `SignaturesWait`:
  `Spec => []NoRealSignatureYet`.  `PathsInv` adds that the witnessed actions of the
  metadata are those IO finalization left unwitnessed.  The prover's wrapper knows
  the padding by number only; that its signatures are the ones IO finalization made
  follows by counting (`ProvedSignatures`).
* `VerdictsHaveCauses`: `NoneIsPlain => (Spec => []VerdictHasCause)`, both directions:
  a transaction comes out only of sound inputs, and sound inputs with no fault are
  never refused.  `NoneIsPlain` says that `None` is no witness, signature or proof
  record and no nullifier or commitment pair.  `SoundInv`: a wrong witness list
  leaves a PCZT that the prover's wrapper or the Prover refuses (`Defective`), the
  padding is counted before witnesses are installed (`EarlyPczt`), and wrong keys are
  refused by nullifier and key.  `CleanInv`: while the plan is right and nothing was
  altered, the PCZT is placed as the builder arranged it (`Placed`, `Open`,
  `Witnessed`, `SignedAt`, `Listed`), so every check of every wrapper passes.

**The store** (`StoreProofs`), for both adapters, every chain and any number of
failed statements, failed blocks, aborted batches, crashes, rewinds, resets and
finalizations.  The hypothesis `NoneIsNoRecord` says that `None` is none of the
records of the store and its host.

* `JournalsAreComplete`: `SSpec => []JournalsReachBack`, and `RetentionIsKept`:
  `SSpec => RetentionKept`.  The invariant `StoreInv` has four parts.  `MemOK`: the
  reducer's journals are stacked one per height below its tip, each naming a tip the
  reducer can have had; a stored image has the same shape, so loading it restores
  this.  `StoresInv`: the committed database, the savepoint, and the open transaction
  unless a statement has failed in it, have complete journals and name the same
  identity.  `CallsInv`: which calls can be in progress together.  `HeightsInv`: the
  rows and the reducer are at the same height, and a savepoint is at the height the
  reducer falls back to when the block fails; without it a snapshot could be stored
  for rows of another height.
* `RowsAreOnBranch`: `SSpec => []OnScannedBranch`, and `LocationsAreCanonical`:
  `SSpec => []WalletCommitsCanonical`.  `BranchInv` says that the scan has one block per
  height from activation, that the tip, the journaled blocks and the recorded COMMIT
  locations are blocks of it, and that the block and the delta in progress are of a
  block it already has.  While a rewind is in progress the scan is already cut, and
  only what lies at or below the rewind's height is claimed to be on the branch; the
  end of the rewind has to make that everything.
* With the wallet's adapter, `RowsAreTheRecords`: `SSpec => []RowsAreRecords`, and
  `SnapshotsAreOfRows`: `SSpec => []SnapshotIsOfRows`; `SnapshotsAreOnBranch`:
  `SSpec => []SnapshotOnBranch`.  The invariant `RowsInv` has two parts.  `RecordsInv`:
  the journal row of a height is the reducer's undo record of that block, so a rewind
  takes rows and records to the same place; while a block is applied, or its delta
  waits, the rows are what the undo record leads back to (`UpdatedBack`: undoing a
  journal and putting back the values it overwrote changes nothing).  `ImagesInv`: a
  stored image is no higher than the tip and of a scanned block; at the tip it is of the
  rows, journals included, and that is what a restart loads.  A rewind that has moved
  the tip has the image still to clear.
* With the wallet's adapter, `DeltasAreTaken`: `SSpec => []DeltaTaken`.  `PastInv` says
  that every tip the undo records lead back to, those of stored images included, has
  heads that `validate_head` accepts at that tip; the store refuses a delta with a head
  that is not, and one whose two tips have the same hash.  That they have not is
  `OfChain`, external: a header covers its parent's hash, so the two differ.
* With the wallet's adapter, `ReplayRebuilds`: `SSpec => []RowsAreReplay`.  The rows are
  compared with the reducer run from genesis over the scan, two recursions that are
  unfolded by the induction lemmas (`EffectIs`, `ReplayIs`).  `ReplayInv` says that the
  rows are the replay of the scan up to the tip and that each journal row leads from
  the records after its block to those before (`Replays`); while a block is applied the
  records are those of the replay after the same transactions; while a rewind is in
  progress the rows replay a chain that continues the cut scan.  The reducer's records
  are compared as heads and COMMITs only: coherent records are determined by them.
* With the store's own adapter the same four: `OwnReplayRebuilds`,
  `OwnRowsAreTheRecords`, `OwnSnapshotsAreOfRows` and `OwnDeltasAreTaken`, each
  `SSpec /\ []ScansFrom(C) => []P` for a set `C` of blocks with `HashesName(C)`.
  `rollback_tip` of this adapter leaves the stored image in place, so the image can be of
  a branch the scan has left, and a restart loads it when its tip is the stored tip.
  What makes that right is that a block hash names one block, and through `prev_hash`
  the branch below it (`HashNamesBranch`).  That is the hypothesis: the blocks the
  wallet scans come from a set with one block for each hash.  It is true of a
  collision-free hash and of `MCStore`, whose hash is the branch; without it two
  blocks with one hash would let an image of one branch be loaded beside the rows of
  another.  `OwnInv` compares everything with the replay and nothing with the
  image: `OwnStores`, the rows of the committed database, the transaction and the
  savepoint are the replay of their own scan (`RowsFollow`), the savepoint's scan is an
  initial part of the transaction's, and an image is the replay of some chain of
  `C` (`ImageFollows`); `OwnMemory`, the reducer's records, its undo records and
  the validity of every earlier tip's heads are those of the scan (`MemoryFollows`).
  Facts about the first blocks of a chain carry over to every chain that has them
  (`PastAgrees`), which is what a failed block, a tip given back and a loaded image need.

**The schedule** (`ScheduleProofs`): `CommitsPrecedeWindows`, `CommitsServeOneEpoch`,
`RenewalsPrecedeExpiry`, the timing facts for all validated parameters and all
names, from the fact that two windows of a name lie whole epochs apart
(`WindowStarts`).  `ScansCoverExactly`: `Spec => []ScanCoversExactly`.  An epoch of
the range has one place in the scan plan, later epochs come first, and the windows at
these places are all the heights at which the reducer accepts an operation; that the
plan has no further place is a count of an injection.

The theorems about `HSpec` transfer to `Spec`: `HSpec` only adds a variable that no
guard reads.

Only model-checked:

* `CatchesUp`: liveness under fairness, which the prover does not reach.

## 5. Not modelled

* Byte encodings (`codec.rs`), parsing and hashing (`protocol.rs`), fingerprints
  (`deployment.rs`, `ruleset.rs`, `publication.rs`): pure functions of data the
  properties do not distinguish.
* The Halo2 circuits behind `proof.rs`: soundness is assumed; the fields of the
  statements the reducer binds are modelled.
* Clause identifiers and `BlockOutcome`: reports about a step.
* Snapshots that the reducer did not write itself, and stored rows that the store
  did not write itself (malformed records, foreign schemas).
* `validate_runtime` of the transport and the identities in `deployment.rs`: they
  compare constants.
* `missing_authority`, `verify_integrity` and the maintenance of SQL indexes: they
  change no record.  `Exact` and `Owned` coverage is in `NamesStore` (`Covered`),
  the instances open with `Complete`.
* The ordinary Ironwood spend that releases a bond and the ZIP-317 fee in
  `builder.rs`: one call each over external roles, with no state between calls.
  A release is an ordinary spend in the reducer's models.
* The sealed checkpoint: authenticated encryption, no state.
* The semantic trace tool: it replays fixed histories for the conformance vectors.

## 6. Plan

Every safety property the runs check is a theorem.  What would extend the project is
more of the program: the circuits behind `proof.rs` with their witnesses, `Exact` and
`Owned` coverage in the store's instances, and the ordinary spend of `builder.rs`.
