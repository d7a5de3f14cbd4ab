CONSTANTS
  Loggers = {"cpu", "memory"}
  NumStatements = 2
  MaxFaults = 1
  Width = 4
  MaxCount = 1
SPECIFICATION LoggersFairSpec
PROPERTIES DDLErrorDelays
CHECK_DEADLOCK FALSE
