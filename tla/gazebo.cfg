SPECIFICATION GazeboFairSpec
CONSTANT Troubles = {"child", "adapter", "call", "write", "probe", "stop", "late"}
INVARIANTS GazeboTypeOK HeldUntilDelivered EvidenceIsClosed QuiescenceIsEarned
PROPERTY RequestIsAnswered
\* The process ends; afterwards nothing need happen.
CHECK_DEADLOCK FALSE
