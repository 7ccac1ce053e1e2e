SPECIFICATION FairSpec
CONSTANTS
  Streams <- MCStreams
  CHUNK = 5
  HeapBytes = {"x", "r", "n"}
  Answers <- MCAnswers
  Request <- MCRequest
  AnswerHead <- MCAnswerHead
  Files <- MCFiles
  Texts <- MCTexts
  READ_SIZE = 2
  None = None
INVARIANTS EndsAtBlankLine TakenIsProper EndsAgree ExitsKnown
PROPERTIES HeaderIsJudged ExchangeEnds
CHECK_DEADLOCK FALSE
