\* One position, two sessions resumed and recovered in every order.
CONSTANTS
  Sid = {x1, x2}
  NoSid = none
  MaxRow = 2
  Gps = {g1}
  Auth = {}
SPECIFICATION Spec
SYMMETRY Symmetry
INVARIANT TInv
PROPERTIES RecoveryNamesOwnSession DataBeforeFinish
