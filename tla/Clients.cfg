\* Two entries per table.  While nothing fails there is room for three clients
\* of a kind and one more; otherwise there is one descriptor, so that accept
\* runs out of them, three accepts that fail, and signals.
SPECIFICATION FairSpec
CONSTANTS
  MAXCLISOCKETS = 2
  Fds = {5, 6, 7}
  FewFds = {5}
  Faults = {TRUE, FALSE}
  MAXFAILED = 3
INVARIANTS CountsDriftByFailures TablesHoldOpenSockets NoSocketForgotten
  RoundServesAll ReadsClientsOnly AcceptNeverWaits
PROPERTY EveryoneAccepted
CHECK_DEADLOCK FALSE
