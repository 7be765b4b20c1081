SPECIFICATION MCSpec
CONSTANTS
  activation_height = 0
  epoch_blocks = 3
  window_blocks = 1
  commit_maturity_blocks = 1
  commit_ttl_blocks = 2
  lease_blocks = 4
  cooldown_blocks = 3
  U32Max = 14
  NameIds = {a, b}
  LateNames = {b}
  Digest <- MCDigest
  None = None
  Uas = {o1}
  Owners = {o1}
  Txids = {x}
  Branches = {x}
  Hashes <- MCHashes
  Fields <- MCFields
  Commitments <- MCCommitments
  Proofs = {o1}
  ActivationParentHash = genesis
  VerifyReveal <- MCVerifyReveal
  VerifyRefresh <- MCVerifyRefresh
  MaxTxs = 1
  MaxReorg = 2
  MaxHeight = 10
  requested = a
INVARIANTS ResolversAgree EvidenceIsCanonical ExactSnapshotAccepted
CHECK_DEADLOCK FALSE
