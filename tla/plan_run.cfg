SPECIFICATION Spec
CONSTANTS
  Tasks = {"t1", "t2", "t3"}
  Agents = {"a1", "a2", "a3"}
  NoAgent = "no agent"
  NoTask = "no task"
  TaskOf <- OneAgentEach
  Folded <- LowerCase
  MaxEdges = 4
  MaxEvents = 6
  MaxReceipts = 1
  MaxFindings = 3
  Cases <- AllCases
INVARIANTS PreflightAdmits ScheduleIsSafe RecordTellsTheRun ReportIsHonest ReuseIsClosed ExportsAreSupported
PROPERTY ViewKeepsItsPast
CHECK_DEADLOCK FALSE
