SPECIFICATION FairSpec
CONSTANTS
  m = m
  a1 = a1
  t1 = t1
  t2 = t2
  r1 = r1
  r2 = r2
  Main = m
  Announcers = {a1}
  Relays = {t1, t2}
  Registrars = {r1, r2}
  Threads = {m, a1, t1, t2, r1, r2}
  None = None
  Own = Own
  Legacy = Legacy
  Servers <- MCServers
  Homes <- MCHomes
  LoggerOn = TRUE
  Retries = 2
  Deliveries = 2
  MaxLoads = 2
CHECK_DEADLOCK FALSE
CONSTRAINT Budget
INVARIANTS
  OneServer
  LoggersBounded
  RelaysTold
  RegistryReadable
PROPERTIES
  ShutdownReaches
  EverythingEnds
