SPECIFICATION Spec
CONSTANTS
    None = None
    Plans <- MCPlans
    BOND_ZATOSHIS = 1
    MaxRoleFaults = 1
    MaxHandFaults = 1
INVARIANTS
    ExtractedAsBuilt
    OperationStaysBound
    WitnessesByNullifier
    NoRealSignatureYet
    VerdictHasCause
