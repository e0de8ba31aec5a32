CONSTANTS
  MaxCalls <- MC_MaxCalls
SPECIFICATION Spec
CHECK_DEADLOCK FALSE
INVARIANT TypeOK
INVARIANT AnsweredOnlyWhenBridged
INVARIANT NodeIdNamesLiveTee
PROPERTY OtherEndFollows
