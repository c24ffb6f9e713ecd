CONSTANTS
    Subnets <- MCSubnets
    Nodes <- MCNodes
    ValidatorTxs <- MCValidatorTxs
    DelegatorTxs <- MCDelegatorTxs
    SubnetOf <- MCSubnetOf
    NodeOf <- MCNodeOf
    InitStakers <- MCInitStakers
    Nil = Nil
SPECIFICATION Spec
INVARIANTS
    TypeOK
    ViewsAgree
    NoLeakedEntries
    BaseDiffRecordsChanges
CHECK_DEADLOCK FALSE
