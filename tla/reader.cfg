SPECIFICATION Spec
CONSTANTS
  catalog = catalog
  summary = summary
  health = health
  old = old
  new = new
  None = None
  N = 2
  Contents = {old, new}
  Requests = {catalog}
  Warmups = {summary}
  Probes = {health}
  Route <- RouteOf
  Attempts = 2
  Changes = 2
SYMMETRY Alike
INVARIANTS TypeOK AnswerIsSnapshot GivesUpOnlyWhenBusy ReadyIsCurrent
