SPECIFICATION PrSpec
CONSTANTS
  Upload = {u1, u2}
  Binary = {b1, b2}
  NoBinary = NoBinary
  MaxVersion = 2
  SigningKey = {k1, k2}
  NoKey = NoKey
  MaxAdmin = 1
  MaxPluginFaults = 0
INVARIANT PackagesDownloadable
CHECK_DEADLOCK FALSE
