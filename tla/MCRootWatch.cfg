CONSTANTS
  Roots = {r1, r2}
  Names = {a}
  Themes = {1}
  NoRoot = NoRoot

SPECIFICATION FairSpec

INVARIANTS
  StaleAfterListing
  SettingsKept
PROPERTIES
  RootFollowed
  ContentFollowed
