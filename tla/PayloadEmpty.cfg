SPECIFICATION Spec
CONSTANTS
  ByteRange = 4
  MaxDataLen = 7
  Widths = {1, 2}
  Ints = {0, 7}
  Strings <- MCStrings
  Lead = {2}
  Trail = {3}
  MaxValues = 2
INVARIANT StringsReturn
CHECK_DEADLOCK FALSE
