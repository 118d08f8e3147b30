SPECIFICATION MCSpec
CONSTANTS
  NoVlan = NoVlan
  Unreadable = Unreadable
  Refused = Refused
  Numeral <- MCNumeral
  Addresses <- MCAddresses
  Texts <- LineTexts
  Tables <- GrammarTables
  MaxArgs = 4
  MaxTables = 2
  MaxSeparators = 4
INVARIANTS
  GrammarsAgree
  NothingTypedIsDropped
  OnlyTopologiesRun
  DashboardAnywhere
CHECK_DEADLOCK FALSE
