SPECIFICATION FairSpec
CONSTANTS
  Chains <- OneEach
  UidMax = 1
  MaxData = 1
INVARIANTS TypeOK GrantedMeansReached DataIntact AuthRespected AnsweredOnce GrantUsed
PROPERTIES HandshakeEnds
CHECK_DEADLOCK FALSE
