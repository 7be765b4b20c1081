SPECIFICATION MCSpec
CONSTANTS
  activation_height = 1
  epoch_blocks = 3
  window_blocks = 1
  commit_maturity_blocks = 1
  commit_ttl_blocks = 2
  lease_blocks = 4
  cooldown_blocks = 3
  U32Max = 12
  NameIds = {a}
  Digest <- MCDigest
  None = None
  Uas = {o1}
  Owners = {o1}
  Txids = {x}
  Branches = {x}
  Hashes <- MCBranchHashes
  Fields <- MCFields
  Commitments <- MCCommitments
  Proofs = {o1}
  ActivationParentHash <- EmptyBranch
  VerifyReveal <- MCVerifyReveal
  VerifyRefresh <- MCVerifyRefresh
  MaxTxs = 1
  MaxReorg = 2
  MaxHeight = 2
  Deployments = {d}
  Retentions = {1}
  Identities <- MCIdentities
  MaxFaults = 1
  MaxRewinds = 2
  adapter = "wallet"
PROPERTY CatchesUp
CHECK_DEADLOCK FALSE
