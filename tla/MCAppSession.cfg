CONSTANTS
  Roles = {member, master}
  Member = member
  Changes = 1
  Notes = 1
  Tables = 1
  None = None
SPECIFICATION FairSpec
INVARIANTS TypeOK OneCopy NoDeadWait
PROPERTIES WaitEnds RoleSettles
