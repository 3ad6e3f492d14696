CONSTANTS
  Calls = {k1, k2}
  Entities <- TwoEntities
  Nobody = Nobody
  Outcomes <- HandlerOutcomes
  MaxRequests <- FewRequests
SPECIFICATION FairSpec
CHECK_DEADLOCK FALSE
INVARIANTS
  TypeOK
  AnswersInOrder
  LossesPaid
  NeverToReplaced
  DeliveredOnce
PROPERTIES
  CommandsServed
  RequestsSettle
