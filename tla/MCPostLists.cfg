SPECIFICATION Spec
CONSTANTS
  MaxPost = 3
  Listing = {"newest"}
  Shown <- ThreePosts
  PageSize = 2
  LoadId = {l1}
  MaxId = 2
INVARIANTS
  TypeOK
  NumbersFit
  MarksShown
