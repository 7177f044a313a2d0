CONSTANTS
  MaxGo = 4
  Stochastic = {TRUE, FALSE}
SPECIFICATION FairSpec
INVARIANTS AnswersItsGo PromiseKept TimeIsWatched StopHasReason
PROPERTIES CommandsEnd
