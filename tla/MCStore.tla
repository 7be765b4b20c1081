------------------------------ MODULE MCStore ------------------------------
(***************************************************************************)
(* Instance of NamesHost: one name on a short chain, a bounded number of   *)
(* faults and of reorganizations.  A block's hash is its parent's hash     *)
(* with its own transactions, so it stands for all of the branch below it. *)
(***************************************************************************)
EXTENDS MCNames, NamesHost

CONSTANTS
    Deployments,    \* deployment, ruleset and network identities
    Retentions,     \* minimum_rollback_blocks a caller may ask for
    MaxFaults,      \* crashes, aborted batches, failed statements and blocks
    MaxRewinds      \* reorganizations and wallet rewinds

VARIABLES faults, rewinds

mcVars == <<hostVars, faults, rewinds>>

MCIdentities ==
    [deployment : Deployments, minimum_rollback_blocks : Retentions,
     coverage : {[kind |-> "Complete", name |-> None]}]

EmptyBranch == << >>
MCBranchHashes == Seq(Seq(Transaction))

NextBlock(body) ==
    [height |-> next_height, hash |-> Append(previous_hash, body),
     prev_hash |-> previous_hash, transactions |-> body]

MCBeginBlock ==
    /\ next_height <= MaxHeight
    /\ tx # None /\ CaughtUp(tx)
    /\ \E br \in Branches :
          \E body \in Bodies(next_height, br) : SBeginBlock(NextBlock(body))

HostAction == (HostStep \/ ReplayScanned) /\ UNCHANGED <<faults, rewinds>>

OtherAction ==
    /\ \/ MCBeginBlock
       \/ PutSnapshot
       \/ RecordWalletCommit
       \/ \E height \in 0 .. MaxHeight : Finalize(height)
    /\ UNCHANGED <<faults, rewinds>>

Fault ==
    /\ faults < MaxFaults /\ faults' = faults + 1
    /\ DeltaFails \/ BlockFails \/ AbortBatch \/ Crash
    /\ UNCHANGED rewinds

Reorganize ==
    /\ rewinds < MaxRewinds /\ rewinds' = rewinds + 1
    /\ \/ ReorganizeTip(previous_hash)
       \/ \E height \in activation_height - 1 .. MaxHeight : WalletRewind(height)
    /\ UNCHANGED faults

MCNext == HostAction \/ OtherAction \/ Fault \/ Reorganize

MCInit == SInit /\ faults = 0 /\ rewinds = 0

MCSpec == MCInit /\ [][MCNext]_mcVars /\ SFairness

MCSafe == MCInit /\ [][MCNext]_mcVars

MCDigest == [n \in NameIds |-> 1]
=============================================================================
