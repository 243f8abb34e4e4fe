CONSTANTS
  Texts = {t1, t2}
  NoText = NoText
  MaxSessions = 2
  MaxPending = 2
SPECIFICATION FairSpec
INVARIANTS EndedReleasesAll SilenceWithinSession ClosedOnRequest ClosedIsQuiet
PROPERTIES IsListener AcceptedCloseDestroys
CHECK_DEADLOCK FALSE
