SPECIFICATION Spec
CONSTANTS
  retry1 = retry1
  retry2 = retry2
  refresh = refresh
  onboarding = onboarding
  dashboard = dashboard
  admin = admin
  token = token
  NoOne = NoOne
  Servers = {dashboard, admin}
  Jobs = {refresh, onboarding}
  Public = {}
  Tokens = {token}
  Home <- HomeTwo
  Kind <- KindOf
  Token <- TokenOf
  Budget = 1
  Requests = 2
  Days = 1
  Faults = 1
  Restarts = 1
\* every request is answered, every job ends
CHECK_DEADLOCK FALSE
PROPERTIES InterruptedMeansStopped
