CONSTANTS
  main = main
  world = world
  noise = noise
  intersect = intersect
  shade = shade
  hit_info = hit_info
  hit_info_inside = hit_info_inside
  perlin = perlin
  Main = main
  Suites <- MCSuites
  Tests <- MCTests
  Name <- MCName
  TestsOf <- MCTestsOf
  Children <- MCChildren
  Hooked <- MCHooked
  Prefixes <- MCPrefixes
  MaxFails = 2
SPECIFICATION Spec
INVARIANTS
  TypeOK
  SelectedTestsRun
  ReportIsExact
  MessagesAreOwn
