\* One initial process; up to two more actors, created or forked.
SPECIFICATION FairSpec
CONSTANTS
    NbInitial = 1
    MaxActors = 3
    MaxDecisions = 3
    ThinkTimes = {"unset", "zero", "positive", "AS_MEASURED_BY_CLIENT"}
    ServerMayDie = TRUE
INVARIANTS
    TypeOK
    MutualExclusion
    ConnectIsExpected
PROPERTIES
    ClockFrozen
    EverybodyLeaves
