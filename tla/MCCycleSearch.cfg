SPECIFICATION SearchSpec
CONSTANTS
  Id <- ThreeIds
  NoArc = NoArc
  MaxTargets = 2
INVARIANTS
  SearchExact
  ForecastExact
  NeverReentered
PROPERTY LookedAtOnce
