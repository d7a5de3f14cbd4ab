CONSTANTS
  Loggers = {"cpu", "memory"}
  NumStatements = 2
  MaxFaults = 2
  Width = 4
  MaxCount = 1
SPECIFICATION LoggersFairSpec
INVARIANTS GrowthToldOnce
PROPERTIES InsertsResume
CHECK_DEADLOCK FALSE
