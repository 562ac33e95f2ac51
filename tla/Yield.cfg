SPECIFICATION YieldSpec
CONSTANT NumWorkloads = 3
INVARIANT YieldIsSeamless
CHECK_DEADLOCK FALSE
