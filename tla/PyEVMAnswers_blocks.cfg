SPECIFICATION Spec
CONSTANTS
    Forks = {"berlin", "london", "shanghai", "cancun"}
    GasUses = {1, 2}
    LogCounts = {1}
    MaxSent = 3
    MaxBlocks = 1
INVARIANTS
    AnswersReturned
    AnswersAgree
    GasAddsUp
