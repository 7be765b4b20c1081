SPECIFICATION MCSpec
CONSTANTS
  activation_height = 0
  epoch_blocks = 4
  window_blocks = 2
  commit_maturity_blocks = 2
  commit_ttl_blocks = 3
  lease_blocks = 6
  cooldown_blocks = 4
  U32Max = 30
  NameIds = {a}
  Digest <- MCDigest
  None = None
  Uas = {u1}
  Txids = {}
  Hashes <- MCHashes
  Fields <- MCFields
  Commitments <- MCCommitments
  Proofs = {}
  ActivationParentHash = genesis
  VerifyReveal <- MCVerifyReveal
  VerifyRefresh <- MCVerifyRefresh
  Seeds = {s1}
  WalletNotes <- MCNotes
  BOND_ZATOSHIS = 1
  MaxPlans = 3
  MaxHeight = 6
  MaxIndex = 1
  MaxReorg = 2
INVARIANTS PreparedAccepted CommitsRevealable LeasesRefreshable
CHECK_DEADLOCK FALSE
