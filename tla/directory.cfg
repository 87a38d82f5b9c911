SPECIFICATION Spec
CONSTANTS
  NULL = NULL
  Undefined = Undefined
  r1 = r1
  r2 = r2
  r3 = r3
  ada = ada
  bob = bob
  n1 = n1
  n2 = n2
  n3 = n3
  p0 = p0
  p1 = p1
  p2 = p2
  p3 = p3
  Requests <- MCRequests
  UserIds <- MCUserIds
  NewUserIdOf <- MCNewUserIdOf
  ProjectIds <- MCProjectIds
  NewProjectIdOf <- MCNewProjectIdOf
  Usernames <- MCUsernames
  FullNames <- MCFullNames
  Passwords <- MCPasswords
  ProjectNames <- MCProjectNames
  RegisteredUsers <- MCRegisteredUsers
  FirstProjects <- MCFirstProjects
  Calls <- MCCalls
  Lifetime = 2
  MaxClock = 2
SYMMETRY MCSymmetry
INVARIANTS
  TypeOK
  OwnersExist
  RemovalsAreAudited
PROPERTIES
  AuthorizedAtCommit
  RoleChangesAreAudited
  ShownByRestoreOnly
