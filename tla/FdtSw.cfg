\* A header whose aligned size is larger, and up to eight cells after the map.
CONSTANTS
  HeaderSize = 1
  RsvOffset = 2
  MaxSize = 11
  Entries = {1}
  NodeNames = {3}
  Names <- TwoNames
  Values <- TwoValues
SPECIFICATION Spec
INVARIANTS
  TypeOK
  BlocksFit
PROPERTIES
  BlocksKept
  ImplementsStream
