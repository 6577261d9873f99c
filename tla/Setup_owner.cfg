SPECIFICATION Spec
CONSTANTS
  wizard = wizard
  signup = signup
  desktop = desktop
  phone = phone
  Users = {u1, u2}
  Browsers = {desktop, phone}
  Pages = {wizard, signup}
  Orgs = {o1, o2}
  Wizards = {wizard}
  Nobody = Nobody
  BrowserOf <- MCBrowserOf
  Incidents = {"network", "api", "crash", "other_tab"}
  MaxIncidents = 2
  MaxVisits = 3
INVARIANT SetupIsTrue OrgsAreLinked
PROPERTY OwnerIsFixed
SYMMETRY MCSymmetry
CHECK_DEADLOCK FALSE
