\* One task of the daemon and one of a CLI command, a failure or crash.
CONSTANTS
  Backend = "sqlite"
  Namespace = {n1}
  daemon = daemon
  cli = cli
  w1 = w1
  w2 = w2
  Process <- MCProcess
  Writer <- MCWriter
  Home <- MCHome
  Database = Database
  None = None
  MaxEntries = 3
  MaxFaults = 1
SPECIFICATION FairSpec
PROPERTIES
  ImplementsAuditLog
  CallsReturn
