SPECIFICATION Spec
CONSTANTS
  w1 = w1  w2 = w2  w3 = w3  t1 = t1  t2 = t2  a1 = a1  a2 = a2
  AuditTenant = {t1, t2}
  Writer = {w1, w2, w3}
  TenantOf <- WritersTenant
  MaxRows = 3
  Ticks = 2
  Login = {c1, c2}
  Changer = {k1}
  LockThreshold <- TwoFailuresLock
  MaxPwd = 3
  MaxRevocations = 1
  MaxIdentityFaults = 1
  Call = {c1, c2}
  User = {u1, u2}
  NoUser = NoUser
  MaxSightings = 2
  MaxFindingFaults = 1
  Matcher = {m1, m2}
  TTL = 2
  LoadTime = 1
  MaxRules = 3
  MaxTime = 5
  Upload = {u1, u2}
  Binary = {b1, b2}
  NoBinary = NoBinary
  MaxVersion = 2
  SigningKey = {k1, k2}
  NoKey = NoKey
  MaxAdmin = 1
  MaxPluginFaults = 1
  Agent = {a1, a2}
  Token = {t1, t2}
  MaxCerts <- OneRenews
  MaxFleetFaults = 1
  Template = {c1}
  Continuous = {k1, k2}
  ContSweeper = {s1, s2}
  MaxFinishes = 2
  MaxInstanceFaults = 1
  AddrBits = 2
  HostName = {h1}
  MaxItems = 2
  MaxExpansion = 4
  MaxOnline = 3
  ProjectNode = {a1, a2}
  SetCall = {s1, s2}
  CreateCall = {c1}
  Project = {u1, u2, u3}
  NotAfter = 6
  ExpiryWindow = 4
  DedupeWindow = 2
  MaxEvents = 3
  MaxMissed = 1
CHECK_DEADLOCK FALSE
INVARIANTS
  ServicesTypeOK ChainContinues RevokedStaysOut ThresholdLocks TimelineReplays
  StalenessBounded InstalledVerified TokenOnce SavedBeforeUsed TemplateRegistered LoopKept
  PlanCovers WhitelistHolds ExpiryToldInTime
PROPERTIES
  OnlyAllowedTransitions DisabledStaysDown PullerConverges
