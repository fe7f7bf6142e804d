SPECIFICATION Spec
CONSTANTS
  t1 = t1 t2 = t2 p1 = p1 p2 = p2 bob = bob eve = eve acme = acme
  None = None
  Users = {bob, eve}
  Nobody = {}
  Organizations = {}
  Orgs = {acme}
  OrgsOf <- MembersOfAcme
  PublicOrgsOf <- NothingPublic
  AllowedUsers = {}
  AllowedOrgs <- OneOrg
  Tabs = {t1, t2}
  Projects = {p1, p2}
  Foundings <- OwnerOfOne
  Visits <- SomePages
  MaxClicks = 2
  MaxChanges = 1
  MaxTokens = 4
INVARIANTS TypeOK PageOfOneProject
PROPERTY SwitchLands
SYMMETRY TabSymmetry
CHECK_DEADLOCK FALSE
