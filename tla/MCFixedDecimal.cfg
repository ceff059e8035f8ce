\* Every text of up to six bytes, in every format.
SPECIFICATION Spec
CONSTANTS
  Formats <- MCFormats
  OtherByte = {"x"}
  MaxLength = 6
INVARIANTS
  TypeOK
  AcceptsExactly
  RefusesOnlyUnfit
  PrintsExactly
\* Parsing stops when the text is accepted or refused.
CHECK_DEADLOCK FALSE
