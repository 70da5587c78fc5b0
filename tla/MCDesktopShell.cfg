\* Two workers, presses, motions and releases at three places.
CONSTANTS
  None = None  Main = Main  w1 = w1  w2 = w2
  Titles <- MCTitles
  Positions <- MCPositions
  Sizes <- MCSizes
  MouseEvents <- MCMouseEvents
  Handlers <- TwoWorkers
  IdModulus = 16
  MaxCreates = 4
  MaxEvents = 3
SPECIFICATION DesktopFairSpec
INVARIANTS
  
  LauncherAgrees
  ShownIsDrawn
PROPERTIES
  BackgroundStays
  EventsHandled
