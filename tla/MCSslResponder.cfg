CONSTANTS
  Data = 7
  MaxReadAhead = 2
  MaxWriteBehind = 2

SPECIFICATION Spec

INVARIANT TypeOK
INVARIANT BoundedWriteBehind

PROPERTY EchoCompletes
PROPERTY ResponderReleased
PROPERTY ImplementsEchoService

CHECK_DEADLOCK FALSE
