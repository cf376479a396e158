\* Two runs of the client, of two calls each, and two of the server.
CONSTANTS
  NULL = NULL
  Calls = 2
  MaxClients = 2
  MaxServers = 2
SPECIFICATION SessionSpec
INVARIANTS IInv OldRunsDelay HalvesStayTogether
PROPERTIES RestartedClientIsServed
CHECK_DEADLOCK FALSE
