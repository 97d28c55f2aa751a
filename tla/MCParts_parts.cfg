SPECIFICATION FairSpec
INVARIANTS
  TypeOK
  DecimalAddition
  StackRoundTrip
  MirrorInStep
  MirrorFollows
  HeardOnTime
  SettingsLast
  SessionNests
  PaintedIsCurrent
PROPERTIES FlagsAreArithmetic SettledIsShown
CHECK_DEADLOCK FALSE
