CONSTANTS
    Thread = {t1, t2}
    NObj = 1
    MaxOps = 3
    RTM_BATCH_N = 2
    TicketMod = 3
SPECIFICATION FairSpec
INVARIANTS
    CommitReplayTypeOK
    TurnAssertHolds
    BlocksReplayed
PROPERTIES
    CommitReplayCompletes
