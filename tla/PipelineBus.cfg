SPECIFICATION FairSpec
CONSTANTS
  BusEventCapacity = 2
  MaxMessages = 5
  Kinds = {"error", "eos", "warning", "qos"}
  None = None
INVARIANTS TypeOK TerminalIsFirst NoSpuriousClose QuietAfterStop
PROPERTIES ImplementsLatch StopEnds TerminalEndsCycle
