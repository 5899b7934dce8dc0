CONSTANTS
  c1 = c1
  c2 = c2
  Call <- MCCall
  NoCall = NoCall
  MultiCall <- MCCall
  MaxId = 3
  MaxParts = 3
SPECIFICATION FairSpec
INVARIANTS
  TypeOK
  RegistrationMatches
  NoCallerForgotten
  AnswersOwnPartsInOrder
  UndamagedAnswersComplete
  OrphanPartsOnlyAfterDamage
PROPERTIES
  ImplementsService
  IntactCallsAreAnswered
CHECK_DEADLOCK FALSE
