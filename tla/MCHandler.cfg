SPECIFICATION FairSpec
CONSTANTS
  Zones <- MCZones  Records <- MCRecords  Questions <- MCQuestions
  maxChain = 2  maxAdditional = 1  maxLabels = 4
  MaxWrites = 1
INVARIANTS AnswersWhole NegativeRight ReferralsNameCuts
PROPERTY Answered
CHECK_DEADLOCK FALSE
