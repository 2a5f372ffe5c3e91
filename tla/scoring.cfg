SPECIFICATION ScoringSpec
CONSTANTS Flights <- MCFlights
 AdapterCapacity = 2
 MaxLost = 1
 MaxLead = 1
 Courses <- MCCourses
 LastEpoch = 9
 MaxBacklog = 4
 JudgePatience = 2
 StatusPeriod = 2
 SettleEpochs = 1
 ActiveEpochs = 6
 ApprovalEpochs = 2
 Contests <- MCContests
 StabilitySamples = 1
 RestSamples = 1
 DeadlineSamples = 18
 Losable = {1, 3}
 MaxLag = 1
 Descents <- MCDescents
 ScenarioEvents <- MCScenarioEvents
 SettledSamples = 2
 MaxLostTruth = 1
 MaxFlushFailures = 1
INVARIANTS ScoringTypeOK TruthIsKept 
 
CHECK_DEADLOCK FALSE
