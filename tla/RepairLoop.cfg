\* Three rounds and six calls: enough for two edits with a check each, and a publish
\* before or between them.  Two diagnoses and none; three versions, by whoever edits.
CONSTANTS
  d1 = d1
  d2 = d2
  Clean = Clean
  Signatures = {d1, d2, Clean}
  MaxRounds = 3
  MaxCalls = 6
  MaxVersion = 3
SPECIFICATION FairSpec
INVARIANTS TypeOK RunIsHandedBack OneRunPerLoop SuccessIsConfirmed NoProgressIsEarned
PROPERTIES Terminates
CHECK_DEADLOCK FALSE
