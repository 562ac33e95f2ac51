SPECIFICATION FairSpec
CONSTANT NumWorkloads = 3
INVARIANT TypeOK
INVARIANT NoWildResume
INVARIANT ScheduleMatchesCpu
INVARIANT RegistersSurvive
INVARIANT HandlerNeverSpins
INVARIANT LockHolderStaysOnCpu
INVARIANT AcknowledgedBeforeResume
INVARIANT KernelInv
PROPERTY NoStarvation
PROPERTY ImplementsRoundRobin
