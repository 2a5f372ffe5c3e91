SPECIFICATION GazeboSpec
CONSTANT Troubles = {"late"}
INVARIANT SkippedTargetFaults
CHECK_DEADLOCK FALSE
