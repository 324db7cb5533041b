\* Two clients, one of them OpenRemote; what they send is cut anywhere
\* and they may hang up at any time.
SPECIFICATION Spec
CONSTANTS
  Clients = {a, b}
  Or20 = {b}
  Nobody = Nobody
  MAXBYTES = 6
INVARIANT LinesAreTheStream
CHECK_DEADLOCK FALSE
