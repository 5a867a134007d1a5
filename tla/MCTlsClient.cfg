SPECIFICATION FairSpec
CONSTANTS
  Offers = {"tls13"}
  MaxConns = 2
  NData = 3
  MaxSends = 1
  ReadSizes = {1, 3}
  RecvMax = 3
  CompactAt = 2
  ServerMay = {"ccs", "retry", "certRequest", "fragment", "keyUpdate"}
INVARIANT NothingRejected
PROPERTIES ImplementsStream OpenReturns RecvReturns
CHECK_DEADLOCK FALSE
