\* One shutdown request is enough to see the process leave before Stop is done.
\* The process ends: CHECK_DEADLOCK FALSE.
CONSTANTS
  play = play  set = set  quit = quit
  NoRequest = NoRequest  MaxRequests = 1
  Servers <- BothServers
  Requests <- AllRequests
  Kind <- Kinds
SPECIFICATION Spec
INVARIANT GracefulExit
CHECK_DEADLOCK FALSE
