SPECIFICATION Spec
CONSTANTS
  Digit = {"0", "5", "8", "9212"}
  Lines <- SomeLines
  MaxLines = 4
  SocketAddrs <- Addresses
  Nets <- SomeNets
  Numbers <- SomeNumbers
INVARIANTS TypeOK StopsAtFirstBad AsWritten TlsAsAsked
