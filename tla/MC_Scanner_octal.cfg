\* Int literals of up to three digits: each token's value against the
\* decimal value of its digits.  lex stops at the end of the stream.
CONSTANTS
  Inputs <- MCInputs
  Keywords <- MCKeywords

INIT ScanInit
NEXT ScanNext

INVARIANT
  LiteralValueExact

CHECK_DEADLOCK FALSE
