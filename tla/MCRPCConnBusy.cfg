\* Two ends that call each other at their own pace: both read loops answer
\* "server busy" into a full stream, and neither reads.
CONSTANTS
  desktop = desktop
  host = host
  r1 = r1
  r2 = r2
  q1 = q1
  q2 = q2
  NoRequest = NoRequest
  Ends = {desktop, host}
  Requests = {r1, r2, q1, q2}
  From <- BothWays
  Parent <- NoParents
  Impatient = {}
  Slots <- OneSlot
  QueueSize = 1
  PipeSize = 1
  MaxNotes <- NoNotes
SPECIFICATION FairSpec
PROPERTY OverloadBlocksNoDispatch
CHECK_DEADLOCK FALSE
