SPECIFICATION FairSpec
CONSTANTS
  t1 = t1 t2 = t2 p1 = p1 p2 = p2 bob = bob eve = eve acme = acme
  None = None
  Users = {bob}
  Nobody = {}
  Organizations = {}
  Orgs = {acme}
  OrgsOf <- MembersOfAcme
  PublicOrgsOf <- NothingPublic
  AllowedUsers = {}
  AllowedOrgs <- OneOrg
  Tabs = {t1}
  Projects = {p1, p2}
  Foundings <- OwnerOfOne
  Visits <- MorePages
  MaxClicks = 2
  MaxChanges = 2
  MaxTokens = 9
PROPERTY LoadsEnd
CHECK_DEADLOCK FALSE
