SPECIFICATION ExampleSpec
CONSTANTS
  size = 8
  PAGE_SIZE = 4
  Bits = {0, 1}
  LowByte = {0}
  Images <- MCImages
  Offsets = {0, 4, 6}
  MaxOffset = 16
  RegionStart = 4
  RegionEnd = 16
  VerifyLength = 8
  Pattern <- MCPattern
INVARIANTS TypeOK BurstLands PatternLands VerdictIsExact
PROPERTIES OnlyEraseSetsBits ProgramIsLocal MainKeepsToRegion
