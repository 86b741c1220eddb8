SPECIFICATION Spec
CONSTANTS
    BufLen = 3
    Depth = 2
    Threshold = 1
    IntMax = 4
    DefaultTimeout = 2
    Timeouts = {0}
    Setups <- MCSetups
    Marks = 6
INVARIANTS TypeOK TxArmed RxArmed
PROPERTIES TxStream RxStream WritesWhole WriteReturns ReadReturns
