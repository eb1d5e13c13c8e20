CONSTANTS
  Mems = {m1, m2}
  Contexts = {ctx}
  Width = 3
  Align = 2
  Sizes = {0, 1, 2}
  FlagSets <- MCFlags
  AllowWrap = TRUE
  MaxWrites = 1
  MaxRefs = 1
SPECIFICATION MemSpec
PROPERTY OutOfRangeRefused
