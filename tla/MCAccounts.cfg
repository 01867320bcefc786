SPECIFICATION Spec
CONSTANTS
  u1 = u1
  u2 = u2
  r1 = r1
  r2 = r2
  r3 = r3
  r4 = r4
  Users = {u1, u2}
  Passwords = {"p", "q"}
  Requests = {r1, r2, r3}
  Names = {"n"}
  DefaultProject = "Default Project"
  DefaultQueue = "default-queue"
  InitAccounts <- MCInitAccounts
  MaxErrors = 1
INVARIANTS
  AccountsInv
  OneAccount
  NamesAreUnique
  CreatedIsVisible
  SeedsOnlyConcurrently
SYMMETRY Alike
CHECK_DEADLOCK FALSE
