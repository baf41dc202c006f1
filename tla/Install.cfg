SPECIFICATION Spec
CONSTANTS
  Crashing = {"rx"}
  Previous = {{}, {"rx", "rx_unit", "share"}, {"tx", "rx", "share", "tx_unit", "rx_unit"}}
  Request = {{}, {"tx"}}
INVARIANTS TypeOK NothingLost ServicesMatch
PROPERTY ImplementsAtomic
