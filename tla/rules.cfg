\* Every table of three networks of 3-bit addresses; two edits and two saves beside one request.
SPECIFICATION Spec
CONSTANTS
  Width = 3
  DomainRows <- MCDomainRows
  IpRows <- MCIpRows
  Names <- MCNames
  Ips <- MCIps
  Files <- MCFiles
  Defaults <- MCDefaults
  Table <- MCTable
  None = None
  MaxRows = 2
  MaxEdits = 2
  MaxSaves = 2
  MaxAsks = 1
INVARIANTS IntervalsExact KeptRuleDecides HighestPriorityWins
PROPERTY RestartKeepsRules
CHECK_DEADLOCK FALSE
