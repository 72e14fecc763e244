SPECIFICATION Spec
CONSTANTS
  Modes = {"open", "lab_password", "proxy_headers"}
  Ttl = 1
  MaxSkew = 1
  ServiceKey = TRUE
  Conns = {c1, c2}
  Requests <- MCRequests
  RoleLists <- MCRoleLists
  AccMax = 7
  MaxOpen <- MCMaxOpen
  MaxNow <- MCMaxNow
SYMMETRY MCSymmetry
INVARIANTS
  TypeOK
  AccessJustified
  AccessHonoured
  StoredWhole
  CompleteAnswered
CHECK_DEADLOCK FALSE
