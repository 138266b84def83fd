SPECIFICATION Spec
CONSTANTS
  boss = boss
  ann = ann
  i1 = i1
  r1 = r1
  r2 = r2
  Admins = {boss, ann}
  Founder = boss
  Invites = {i1}
  Logins = {r1}
  Clerks = {r2}
  NoOne = NoOne
  LockAfter = 2
  Mistyped = {ann}
  MaxAsked = 3
  Asked = {"admin", "superadmin"}
INVARIANTS TypeOK TokensWereGiven OnlySuperadminsGive ShutAccountsStayLocked
PROPERTY KeepsRolePromise
