SPECIFICATION MCSpec
CONSTANTS
  activation_height = 0
  epoch_blocks = 3
  window_blocks = 1
  commit_maturity_blocks = 1
  commit_ttl_blocks = 2
  lease_blocks = 4
  cooldown_blocks = 3
  U32Max = 14
  NameIds = {a}
  Digest <- MCDigest
  None = None
  Uas = {o1, o2}
  Owners = {o1, o2}
  Txids = {x}
  Branches = {x}
  Hashes <- MCHashes
  Fields <- MCFields
  Commitments <- MCCommitments
  Proofs = {o1, o2}
  ActivationParentHash = genesis
  VerifyReveal <- MCVerifyReveal
  VerifyRefresh <- MCVerifyRefresh
  MaxTxs = 2
  MaxReorg = 1
  MaxHeight = 10
  Owner <- MCOwner
  Memory = 5
INVARIANTS ActiveBondUnspent  OneInstallPerEpoch Quarantine
CHECK_DEADLOCK FALSE
SYMMETRY OwnerSymmetry
