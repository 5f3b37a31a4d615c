CONSTANTS
  Kexts = {a, b}
  InvalidTag = 2
  Wanted = {b}
  Asking = {a}
  May = {"memory", "start", "stop", "services", "late", "cancel"}
  None = None
SPECIFICATION FairSpec
INVARIANTS RecordsHaveCode QueuedIsTold TimeoutSpansScans
PROPERTIES  RequestsEnd
CHECK_DEADLOCK FALSE
