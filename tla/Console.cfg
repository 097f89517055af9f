SPECIFICATION Spec
CONSTANTS
  s1 = s1
  s2 = s2
  Slots <- MCSlots
  None = None
  Agents = {a, b}
  Found = {a}
  PageSize = 1
  MaxChanges = 2
  MaxRuns = 3
  Failed = Failed
  MaxNews = 2
  Models = {m, n}
  Keys = {k}
  MaxSaves = 2
  MaxTests = 2
  Tabs = {t, u}
  Odd = Odd
  Absent = Absent
  Things <- MCThings
  StaticCommands <- MCStaticCommands
  Sources = {"agents", "conversations"}
  SourceOf <- MCSourceOf
  Queries = {"k", "x"}
  Match <- MCMatch
  Limit = 3
  MaxOpenings = 2
  auto = auto
  direct = direct
  run = run
  Conversations = {auto, direct}
  MultiAgent = {auto}
  RunsOf <- MCRunsOf
  MaxEvents = 3
  MaxRecords = 3
SYMMETRY MCSymmetry
INVARIANTS
  TypeOK
  SpinnersEnd
  
  
  ListsShowWhatTheyHold
  ChunksDoNotMatter

  
CHECK_DEADLOCK FALSE
