CONSTANTS
  t1 = t1  t2 = t2  a1 = a1  a2 = a2
  c1 = c1  c2 = c2  c3 = c3  c4 = c4
  NoTenant = NoTenant
  Tenants = {t1, t2}
  Accounts = {a1, a2}
  Callbacks = {c1, c2, c3, c4}
  UserOf <- Users
  TenantOf <- Signed
  AccountOf <- Queried
SPECIFICATION FairSpec
INVARIANTS
  OneActiveConnection
  BoundToItsUser
  WaitsAreOrdered
PROPERTY CallbacksAreAnswered
