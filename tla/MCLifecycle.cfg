\* With a channel of three the collector may need 3 + 1 + 2 * (1 + 2) + 1 = 11
\* units: it is killed with a grace period of 11 and not with 12.  4 is to the
\* HTTP timeout of 3 as the 60s of the manifest are to 45s; 0 is no grace period.
CONSTANTS
  Commands = {"collector", "query-api", "processor"}
  Settings <- MCSettings
  DefaultCapacity = 2
  Cpus = 1
  ShutdownTimeout = 3
  PublishTimeout = 2
  CloseTime = 1
  Graces = {0, 3, 4, 11, 12}
  MaxConns = 4
SPECIFICATION Spec
INVARIANTS TypeOK KilledOnlyWhenGraceTooShort HandlersGoneBeforeClose
PROPERTIES SignalledProcessEnds FailedListenerEndsProcess
