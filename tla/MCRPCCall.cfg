\* Three servers, and each of five configurations.
SPECIFICATION FairSpec
CONSTANTS
  NumServers = 3
  Servers <- MCServers
  Configs <- MCConfigs
  Fields = {f1, f2}
INVARIANTS
  TypeOK
  ResultOfDecider
  
PROPERTIES
  ResultKept
  KeepsPromise
  CallReturns
\* the call has returned, or waits for a goroutine that is not there
CHECK_DEADLOCK FALSE
