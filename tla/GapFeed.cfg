SPECIFICATION GapSpec
CONSTANTS
  MaxSeq = 5
  MaxResync = 1
INVARIANTS GapInv StaleIffHole ReaderInformed
PROPERTIES OnlyResyncRewinds
