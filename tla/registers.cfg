SPECIFICATION Spec
CONSTANTS
  Cuts <- CutsOf
  Splits = 2
  Payloads <- Payload
  Bursts <- Shapes
  Sections <- Section
  Most = 5
  Slaves = {1, 2}
  Counts = {0, 1, 3, 4, 5, 16, 17}
  Raised <- RaisedBits
  Numbers = {300, 1000, 70000}
  Raws = {0, 1, 5, 42, 99, 100, 504, 2310, 5210, 65535}
  Answers = {0, 100, 2300, 123400}
INVARIANTS EndsAsMeant ResponseSound ShowsWhatIsThere WriteReadsBack ObservationSound
CHECK_DEADLOCK FALSE
