SPECIFICATION FairSpec
CONSTANTS
  j1 = j1
  s1 = s1
  s2 = s2
  NoSession = NoSession
  Jobs <- OneJob
  Sessions <- TwoSessions
  SessionOf <- MCSessionOf
  MaxCrashes = 1
INVARIANTS
  CommittedMeansReviewed
  UnreviewedStaysPending
  NotesOfLivingSessions
  RemovedStaysRemoved
PROPERTY DestroyEnds
CHECK_DEADLOCK FALSE
