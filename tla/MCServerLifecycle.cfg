\* HTTPS and HTTP, a stream, a change of the settings, a shutdown
\* request, any two of them, and a signal.  The process ends: CHECK_DEADLOCK FALSE.
CONSTANTS
  play = play  set = set  quit = quit
  NoRequest = NoRequest  MaxRequests = 2
  Servers <- BothServers
  Requests <- AllRequests
  Kind <- Kinds
SPECIFICATION FairSpec
INVARIANTS TypeOK CleanStop DrainedBeforeClose CachesKept
PROPERTIES ProcessEnds
CHECK_DEADLOCK FALSE
