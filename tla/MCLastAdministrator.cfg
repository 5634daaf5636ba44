SPECIFICATION AccountsSpec
CONSTANTS
  Account = {a1, a2}
  Caller = {k1, k2}
  MaxCalls = 4
INVARIANT AdministratorRemains
CHECK_DEADLOCK FALSE
