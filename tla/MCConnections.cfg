CONSTANTS
  Peers = 2
  Few = 1
  Many = 5
  Short = 4
  Long = 6
  MaxDelay = 1
  MaxFaults = 2
  EmptyRouted = FALSE
SPECIFICATION FairSpec
INVARIANTS
  IInv
  AnswersAreFresh
  BackOff
PROPERTIES
  LiveIsServed
  RecoversOrForgotten
