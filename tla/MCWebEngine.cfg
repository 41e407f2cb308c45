SPECIFICATION Spec
CONSTANTS
    Names = {"Go", "fs", "process", "own"}
    MaxWrites = 1
    Holder = {h1, h2}
    Module = {m1, m2}
    Initial = 1
    MemoryBound = 2
    MaxMemory = 4
    MaxCalls = 2
INVARIANTS GlobalsAreThePages AnswersAreTheirOwn NoDetachedBuffer NextCallMeetsTheOneSoundEngine
PROPERTY EveryHolderIsAnswered
CHECK_DEADLOCK FALSE
