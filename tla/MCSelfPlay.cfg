CONSTANTS
  NGames = 1
  UsiThreads = 1
  UsiEngineNum = 1
  UsiTurn = "Black"
  PlayoutNum = 2
  ExtensionTimes = 2
  RandomMove = 2
  MinMove = 2
  MaxMove = 4
  OutMaxMove = TRUE
  TrainRandom = TRUE
  TeacherNodes = 1
SPECIFICATION FairSpec
INVARIANTS AnswersAreOwn OutputIsTheGame
PROPERTIES AllEnds
CHECK_DEADLOCK FALSE
