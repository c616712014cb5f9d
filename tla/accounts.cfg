SPECIFICATION Spec
SYMMETRY HandlerSymmetry
CONSTANTS
  u1 = u1
  u2 = u2
  g1 = g1
  base = base
  proj = proj
  Users = {u1, u2}
  Groups = {g1}
  Memberships <- Groupings
  Root = root
  Remote = remote
  Names = {base, proj}
  Default = base
  Config <- OneAccount
  Admins = {u1}
  CreateReqs <- Creations
  AttachNames = {base, proj}
  Handlers = {p1, p2}
  IOOutcomes = {TRUE, FALSE}
  Lookups = {TRUE, FALSE}
  MaxRequests = 2
  MaxKills = 1
  MaxChanges = 1
INVARIANTS
  TypeOK
  CreatedKept
  AccessKept
PROPERTIES
  AccessHonoured
