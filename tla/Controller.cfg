SPECIFICATION Spec
CONSTANTS
  b1 = b1
  b2 = b2
  b3 = b3
  a = a
  b = b
  r1 = r1
  Document <- MCDocument
  Local <- MCLocal
  Scenario <- MCScenario
  Servers = 3
  LeaderProbe = TRUE
  Cooldown = 2
  MaxBackoff = 2
  Edition <- MCEdition
  FeedBackoff = 2
  MaxTime = 4
  Backend <- MCBackend
  SuccessCount = 2
  FailureCount = 2
  Endpoint <- MCEndpoint
  Request <- MCRequest
  SaveFaults = TRUE
INVARIANTS
  GivesUpOnlyWhenNoneAnswers IdentitiesAreTheNewest 
PROPERTIES VerdictsFollowProbes Recovers
