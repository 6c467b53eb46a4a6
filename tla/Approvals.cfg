SPECIFICATION FairSpec
CONSTANTS
  ChatRun <- ChatRuns
  MaxCalls = 2
  MaxSubmissions = 3
INVARIANTS
  TypeOK
  DecisionsHonoured
  ExecutedOnce
  RecordsAgree
  HistoryAnswered
  ApprovalsReachRun
PROPERTY DecisionNotLost
CHECK_DEADLOCK FALSE
