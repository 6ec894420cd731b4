SPECIFICATION Spec
CONSTANTS
  User <- MCUser
  NoUser = NoUser
  Role <- MCRole
  NoRole = NoRole
  Perm <- MCPerm
  Wild = "*"
  RoleAssign = "role.assign"
  RbacManage = "rbac.manage"
  System = {"people"}
  Seeded = {"people", "admin"}
  InitPerms <- MCInitPerms
  InitRow <- MCInitRow
  MaxRow = 4
  Edits <- MCEdits
  Grants <- MCGrants
  Wanted <- MCWanted
  Call = {"api", "web"}
  Ops <- MCOps
INVARIANTS
  NoEscalation
  CopiesInSync
  ReconcileExact
CHECK_DEADLOCK FALSE
CONSTANT MaxChanges = 2
PROPERTY RevocationTakesEffect
