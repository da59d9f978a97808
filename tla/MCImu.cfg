SPECIFICATION FairISpec
CONSTANTS
  CALIBRATION_SAMPLES = 3
  Raw <- SomeRaw
INVARIANTS RestReadsZero FilterBounded
PROPERTY BumpPasses
