\* Three requests of two accounts for two models, one call a minute for each:
\* who may hold a slot, in which order, and that all are answered.
SPECIFICATION FairSpec
CONSTANTS
  r1 = r1
  r2 = r2
  r3 = r3
  Requests = {r1, r2, r3}
  AccountOf <- MCAccountOf
  RoleOf <- MCRoleOf
  PriorityOf <- MCPriorityOf
  RoleLimit <- OnePerRole
  RolePerMinute <- MCPerMinute
  RoleMinDelay <- MCMinDelay
  GlobalConcurrency = 2
  PerAccountConcurrency = 1
  LiveReservedSlots = 1
  QueueMax = 2
  WaitTimeout = 2
  LockWait = 0
  MaxAge = 2
  Lease = 2
  CallMax = 3
  Minute = 1
INVARIANT LeasesWithinLimits ReserveLeftFree CallsWithinLimits PurgedOnlyExpired
PROPERTY EveryCallerAnswered
