SPECIFICATION Spec
CONSTANTS
  ada = ada bob = bob eve = eve mia = mia old = old new = new r1 = r1 r2 = r2 acme = acme corp = corp
  Users = {ada, bob, eve, mia}
  Nobody = {}
  Organizations = {}
  Orgs = {acme, corp}
  OrgsOf <- MembersOfOrgs
  PublicOrgsOf <- NothingPublic
  AllowedUsers = {}
  AllowedOrgs <- BothOrgs
  Foundings <- OwnerAndAnother
  Invitees = {eve, mia}
  Staff = {ada, bob}
  Names = {old, new}
  Durations = {0, 30}
  Requests = {r1, r2}
  MaxForms = 2
INVARIANTS TypeOK WarningsTrue
PROPERTIES StaleTabsPowerless
SYMMETRY RequestSymmetry
CHECK_DEADLOCK FALSE
