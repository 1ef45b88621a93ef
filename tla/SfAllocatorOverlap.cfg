\* Finds two regions that overlap.  Three pointers, pages of 6 rows, blocks of 2, 3, 4 and more rows in a list each.
SPECIFICATION Spec
CONSTANTS
  u1 = u1
  u2 = u2
  u3 = u3
  NoUser = NoUser
  Users <- MCUsers
  PAGE_SZ = 12
  LIST_1_MAX = 4
  LIST_2_MAX = 6
  LIST_3_MAX = 8
  Sizes = {0, 1, 4, 13}
  MaxCalls = 6
SYMMETRY Symmetry
CHECK_DEADLOCK FALSE
INVARIANTS
  RegionsAreOwn
