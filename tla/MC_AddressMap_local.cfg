\* Any order of configuration writes, as for address_map_layout: the
\* _Local/_Remote typing against the scratchpad the line is placed on.
CONSTANTS
  NumCPU = 2
  NumSpdSets = 3
  MaxChunkSize = 2
  VAddrs <- MCVAddrs
  Starts <- MCStarts
  Strides <- MCStrides
  Chunks <- MCChunks
  NumVertices <- MCNumVertices
  Opps = {"d", "c"}

SPECIFICATION Spec

INVARIANT
  LocalMatchesPlace
