\* Six modules in four layers, two of them shared; every hook may reject and
\* shutdown() may overtake start().
CONSTANTS
  app = app
  web = web
  jobs = jobs
  log = log
  cache = cache
  db = db
  Module = {app, web, jobs, log, cache, db}
  Root = app
  Requires <- Layered
  StartHooks <- SomeHooks
  StopHooks <- SomeHooks
  MayFail <- AllHooks
  Impatient = {"start"}
SPECIFICATION FairSpec
INVARIANTS
  IInv
  CreatedBeforeStarted
  DependenciesStartFirst
  DependentsDestroyedFirst
  NoDestroyDuringStart
  DestroyAfterStop
  NothingLeftBehind

PROPERTIES
  KeepsContract
  ShutdownSettles
