SPECIFICATION Spec
CONSTANTS
  u1 = u1
  u2 = u2
  g1 = g1
  base = base
  proj = proj
  Users = {u1, u2}
  Groups = {g1}
  Memberships <- Ungrouped
  Root = root
  Remote = remote
  Names = {base, proj}
  Default = base
  Config <- OneAccount
  Admins = {u1}
  CreateReqs <- Creations
  AttachNames = {base, proj}
  Handlers = {p1}
  IOOutcomes = {TRUE}
  Lookups = {TRUE}
  MaxRequests = 0
  MaxKills = 0
  MaxChanges = 0
PROPERTIES
  OnlyListedFund
