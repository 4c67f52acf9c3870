SPECIFICATION ExampleSpec
CONSTANTS
  size = 12
  PAGE_SIZE = 4
  Bits = {0, 1}
  LowByte = {0}
  Images <- MCImages
  Offsets = {0, 4, 6}
  MaxOffset = 12
  RegionStart = 4
  RegionEnd = 12
  VerifyLength = 4
  Pattern <- MCPattern
PROPERTIES ErasedPageReadsOnes
