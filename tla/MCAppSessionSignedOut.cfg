CONSTANTS
  Roles = {member, master}
  Member = member
  Changes = 0
  Notes = 1
  Tables = 1
  None = None
SPECIFICATION Spec
INVARIANTS SignedOut
