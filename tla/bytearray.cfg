CONSTANTS
  Base = 2
  Bytes = {b0, b1}
  MaxSize = 6
  MaxWrite = 3
  Uses = {}
  Width = 16
SPECIFICATION Spec
INVARIANTS  VarintReadsBack
PROPERTIES ImplementsStream
