CONSTANT Cards <- MCCards
SPECIFICATION ReaderSpec
INVARIANT RetailDsiRecognised
