\* The same program when the first array it maps is empty.
CONSTANTS
  A = A
  B = B
  NULL = NULL
  TEMP = TEMP
  Arrays <- MCArrays
  ArrayLen <- MCArrayLenEmpty
  NumMapped = 2
  Values = {0, 1}

SPECIFICATION Spec

INVARIANT
  NoSpuriousExit
