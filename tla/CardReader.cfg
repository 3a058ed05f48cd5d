CONSTANT Cards <- MCCards
SPECIFICATION ReaderSpec
INVARIANTS
  Understood
  DetectedRight
  AreasInPlace
