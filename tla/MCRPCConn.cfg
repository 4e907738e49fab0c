CONSTANTS
  desktop = desktop
  host = host
  r1 = r1
  r2 = r2
  q1 = q1
  q2 = q2
  NoRequest = NoRequest
  Ends = {desktop, host}
  Requests = {r1, r2, q1}
  From <- CallBack
  Parent <- CallBackParent
  Impatient = {r2}
  Slots <- OneSlot
  QueueSize = 1
  PipeSize = 1
  MaxNotes <- HostNotes
SPECIFICATION FairSpec
INVARIANT NotesInOrder
PROPERTIES
  EveryCallReturns
  ServeEnds
CHECK_DEADLOCK FALSE
