\* Blobs of up to sixteen cells, with two node names and two property names.
CONSTANTS
  Word = 16
  SLASH = 10
  AtChars = {5}
  phandle <- P
  linux_phandle <- Q
  compatible <- P
  aliases <- P
  RsvStart = 1
  MaxSize = 16
  MaxNodes = 4
  BufSizes = {2, 4, 5, 6, 12, 16}
  Indexes = {0, 2}
  MaxLen = 4
  Sources <- ThreeSources
  NodeNames <- TwoNodes
  PropNames <- TwoProps
  Values <- TwoValues
  Regions = {1}
SPECIFICATION Spec
VIEW Blob
INVARIANTS
  TypeOK
  BlocksApart
  StructureSound
  ReadsAgree
PROPERTY ImplementsTree
