SPECIFICATION Spec
CONSTANTS
  retry1 = retry1
  retry2 = retry2
  refresh = refresh
  onboarding = onboarding
  dashboard = dashboard
  admin = admin
  token = token
  NoOne = NoOne
  Servers = {dashboard}
  Jobs = {retry1, retry2, refresh, onboarding}
  Public = {retry1, retry2}
  Tokens = {token}
  Home <- HomeOne
  Kind <- KindOf
  Token <- TokenOf
  Budget = 1
  Requests = 3
  Days = 1
  Faults = 2
  Restarts = 1
SYMMETRY Alike
\* every request is answered, every job ends
CHECK_DEADLOCK FALSE
INVARIANTS TypeOK QueuedHasWorker PendingHasWorker SuccessIsNews ActivationIsEarned 
PROPERTIES OwnJobsDoNotCollide
