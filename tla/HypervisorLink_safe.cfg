CONSTANTS
  Main = main
  Inits = {t1, t2}
  Clients = {h1, h2}
  MaxRequests = 2
  MaxQueue = 1
  MaxFailures = 1
SPECIFICATION FairSpec
CHECK_DEADLOCK FALSE
INVARIANTS IInv PublisherHasContext
PROPERTIES ImplementsChannel HypervisorListens ServerHears
