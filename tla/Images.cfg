SPECIFICATION Spec
CONSTANTS
  aws = aws
  here = here
  there = there
  NoImages = NoImages
  Plugins <- OnePlugin
  Locations <- TwoLocations
  Versions <- EdgeVersions
  MaxPlugins = 2
  MaxEntries = 2
INVARIANTS
  RunsAsRequested
  RefusedForAReason
  PodAuthenticates
  InjectedOnce
PROPERTIES
  AppendingIsSafe
