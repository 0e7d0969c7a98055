CONSTANTS
  MaxDepth = 6
  None = None
  Name = {None}
  EmptyText = ""
  Text <- MCText
  Count <- MCCount
  Account <- MCAccount
  Request = {r1, r2}
  r1 = r1
  r2 = r2
  View = {v1, v2, v3, v4}
SPECIFICATION ReservSpec
SYMMETRY ReservSymmetry
INVARIANT DatesHaveTheirPath
