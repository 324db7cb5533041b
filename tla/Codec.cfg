\* Every house and unit; amounts and addresses at the edges of their ranges.
SPECIFICATION Spec
CONSTANTS
  Houses = {0, 1, 2, 3, 4, 5, 6, 7, 8, 9, 10, 11, 12, 13, 14, 15}
  Units = {0, 1, 2, 3, 4, 5, 6, 7, 8, 9, 10, 11, 12, 13, 14, 15}
  Params = {0, 1, 7, 31, 32, 63, 64, 255, 256, 300}
  Addrs8 = {0, 17, 93, 128, 170, 255}
  Addrs17 = {0, 3, 255, 256, 257, 6912, 12974848, 13043457, 16777215}
INVARIANTS EchoMeansCommand PeerAgrees
CHECK_DEADLOCK FALSE
