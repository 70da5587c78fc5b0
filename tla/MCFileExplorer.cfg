\* Two names, two nodes below the root, two handles, files of up to two bytes.
CONSTANTS
  n0 = n0  n1 = n1  n2 = n2  h1 = h1  h2 = h2  None = None
  Names <- MCNames
  NameOrder <- MCNameOrder
  Points <- MCPoints
  Font <- MCFont
  Nodes <- MCNodes
  m_root = n0
  Handles <- MCHandles
  Bytes = {1}
  RawPaths <- MCRawPaths
  MaxSize = 2
SYMMETRY Symmetry
SPECIFICATION Spec
INVARIANTS
  PathsAgree
  NothingResurrected
  RowsBelong
  QuietRowsExact
CONSTRAINT WrittenBeforeStart
PROPERTIES
  TreeKept
  ImplementsTree
