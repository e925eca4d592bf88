SPECIFICATION DSpec
CONSTANTS
  NCpus = 2
  MAXNUM_OF_THREADS = 4
  NStacks = 2
  Builds = {TRUE}
INVARIANTS
  OneAtATime
  AnsweredInTurn
  QuestionStands
PROPERTY AnswerTaken

