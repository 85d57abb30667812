SPECIFICATION LawsSpec
CONSTANTS
  Samples <- Around
  Files <- ConfigFiles
  Stagings <- Requests
  Targets <- Booted
  Lines <- Options
  Stores <- Listings
  Alphabetic <- SlateNames
INVARIANTS
  ShellReadsOctal
  NamesSortAsText
  NumberingAgrees
  PruneTakesOldest
  ReadersAgree
  StagedIsRead
  EntryBootsItsSlate
  ReferencesAreExact
