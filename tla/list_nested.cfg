SPECIFICATION LawsSpec
CONSTANTS
  Samples <- Around
  Files <- ConfigFiles
  Stagings <- Requests
  Targets <- Booted
  Lines <- Options
  Stores <- Listings
  Alphabetic <- SlateNames
INVARIANTS
  OnlySlatesListed
