\* Three pointers, pages of 6 rows, blocks of 2, 3, 4 and more rows in a list each.
SPECIFICATION Spec
CONSTANTS
  u1 = u1
  u2 = u2
  u3 = u3
  NoUser = NoUser
  Users <- MCUsers
  PAGE_SZ = 12
  LIST_1_MAX = 4
  LIST_2_MAX = 6
  LIST_3_MAX = 8
  Sizes = {0, 1, 4, 13, 47}
  MaxCalls = 6
SYMMETRY Symmetry
CONSTRAINT HarmedBriefly
CHECK_DEADLOCK FALSE
INVARIANTS
  TypeOK
  BlocksTile
  ListsExact
  RegionsInBlocks
  DataKept
  ValidCallsReturn
