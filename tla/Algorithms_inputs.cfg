SPECIFICATION Spec
CONSTANTS
  U16Max = 3
  Text = {"text"}
  PortCount = 8
  WordCount = 32
  Secret = {"one", "two"}
  Challenge = {"first", "second"}
  Mac <- Macs
  Numeral <- Numerals
  Address = {"0.0.0.0", "::"}
  Unset = Unset
  MaxDraws = 2
  MaxTag = 6
  MaxTokens = 4
INVARIANTS Strict RoundTrip Uniform TagExact LineIsRead
CHECK_DEADLOCK FALSE
