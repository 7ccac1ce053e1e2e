SPECIFICATION IndexSpec
CONSTANTS
  Corpora <- MCCorpora
  Queries <- MCQueries
INVARIANTS IndexExact AnswersExact
CHECK_DEADLOCK FALSE
