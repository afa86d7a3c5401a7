SPECIFICATION AcSpec
CONSTANTS
  t1 = t1
  AuditTenant = {t1}
  Writer = {w1, w2}
  TenantOf <- OneTenant
  MaxRows = 3
  Ticks = 2
INVARIANT UntouchedChainVerifies
CHECK_DEADLOCK FALSE
