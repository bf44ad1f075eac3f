SPECIFICATION Spec
CONSTANTS
  aws = aws
  here = here
  there = there
  NoImages = NoImages
  Plugins <- OnePlugin
  Locations <- OneLocation
  Versions <- EdgeVersions
  MaxPlugins = 2
  MaxEntries = 2
INVARIANTS
  ServerInWindow
