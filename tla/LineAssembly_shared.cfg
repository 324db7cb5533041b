\* Two clients whose lines may arrive in pieces.
SPECIFICATION Spec
CONSTANTS
  Clients = {a, b}
  Or20 = {}
  Nobody = Nobody
  MAXBYTES = 6
INVARIANT LinesOfOneClient
CHECK_DEADLOCK FALSE
