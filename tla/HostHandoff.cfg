SPECIFICATION Spec
CONSTANTS
  Alias = {"x1", "x2"}
  Actor = {"m", "s"}
  Tenant = {"t1", "t2"}
  Scope = {"s1", "s2"}
  Role = {"manager", "staff"}
  Capability = {"overview", "finance"}
  None = None
  Grants <- MCGrants
  AutoBindSingleScope = TRUE
  MultiScopeStatus = "pending_scope"
  InvalidScopeStatus = "suspended"
  Calls <- MCCalls
  ActorFiles <- MCActorFiles
  AliasFiles <- MCAliasFiles
  RoleFiles <- MCRoleFiles
  ScopeFiles <- MCScopeFiles
  MaxMixtures = 4
INVARIANTS GrantedWasEntitled ScopeIsNeverGuessed LayersAgree
