CONSTANTS
  Interval <- Cadence
  MaxDuration = 0
  MaxManual = 1
  LastGameweek = 2
  MaxDeclared = 1
  MaxVersion = 1
  MaxFaults = 1
SPECIFICATION FairSpec
INVARIANT AttemptedInTime
PROPERTIES FinalIsConfirmed FinalUntilCorrected SettledBecomesFinal EveryPolicyStarts
