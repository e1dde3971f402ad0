SPECIFICATION Spec
CONSTANTS
    Cmds = {"SET", "INCR"}
    DbIndexes = {0, 1}
    InitDbIndex = 0
    MaxReqs = 5
    MaxConns = 2
    MaxPipeline = 2
    ServerErrors = FALSE
INVARIANT
    TransactionModeAgrees
