\* Three windows with pictures, one mouse handler interleaved with every
\* operation.
CONSTANTS
  h1 = h1
  Titles <- OneTitle
  Positions <- MCPositions
  Sizes <- MCSizes
  MouseEvents <- MCMouseEvents
  Handlers <- MCHandlers
  IdModulus = 16
  MaxCreates = 3
  Font <- MCFont
  Drawings <- MCDrawings
  DisplayWidth = 2
  DisplayHeight = 2
SPECIFICATION Spec
INVARIANTS
  ZOrderIsPermutation
  FrameAgrees
  ClickHitsWhatIsShown
PROPERTY ImplementsStack
