SPECIFICATION LiveSpec
CONSTANTS
  Session = {s1, s2, t1}
  Terminal = {t1}
  Batch <- Batches
  maxToolSteps = 2
  MaxEvents = 2
  MaxStarts = 2
  MaxFailures = 1
INVARIANTS
  FileInv
  SavedStepsAreWhole
  ResumePathIsClean
  AcknowledgedIsSaved
PROPERTY EnvelopeIsAnswered
CHECK_DEADLOCK FALSE
