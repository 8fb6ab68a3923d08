SPECIFICATION Spec
CONSTANTS
  Schema <- MCSchema
  IntBits = 6
  FloatBits = 4
  Indexes <- MCIndexes
  Preferred <- MCPreferred
  Queries <- MCQueries
  Databases <- MCDatabases
INVARIANTS
  PlanInv
  AnswerIsExact
  AcceptedQueriesRun
  TablesInv
