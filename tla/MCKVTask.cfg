CONSTANTS
  t1 = t1
  t2 = t2
  b1 = b1
  local = local
  remote = remote
  Tasks = {t1, t2}
  Batches = {b1}
  AllHandles = {local, remote}
  RemoteHandles = {remote}
  Scopes <- MCScopes
SPECIFICATION Spec
CHECK_DEADLOCK FALSE
INVARIANTS
  PublishedEverywhere
  SuccessIsEarned
  CountersDrained
PROPERTIES
  ReleasedWhenQuiet
  SettledOnce
  PlanSettles
