\* A drag across the button toggles twice: expected violation.
CONSTANTS
  None = None  Main = Main  w1 = w1  w2 = w2
  Titles <- MCTitles
  Positions <- MCPositions
  Sizes <- MCSizes
  MouseEvents <- ButtonEvents
  Handlers <- TwoWorkers
  IdModulus = 16
  MaxCreates = 4
  MaxEvents = 2
SPECIFICATION DesktopSpec
INVARIANT ToggleOnlyOnPress
