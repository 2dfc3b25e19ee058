SPECIFICATION Spec
CONSTANTS
  Usernames = {u1, u2}
  Requests = {r1, r2}
  Bootstrap = Bootstrap
  NoUser = NoUser
SYMMETRY Symmetry
CHECK_DEADLOCK FALSE
INVARIANT BootstrapOnce
