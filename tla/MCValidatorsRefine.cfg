CONSTANTS
    Subnets <- MCSubnets
    Nodes <- MCNodes
    ValidatorTxs <- MCValidatorTxs
    DelegatorTxs <- MCDelegatorTxs
    SubnetOf <- MCSubnetOf
    NodeOf <- MCNodeOf
    InitStakers <- MCInitStakers
    Nil = Nil
SPECIFICATION Spec
PROPERTIES
    AbsSpec
CHECK_DEADLOCK FALSE
