SPECIFICATION Spec
CONSTANTS
  Radix = 8
  IdSize = 2
  LengthSize = 2
  ExtIdSize = 2
  SignalIdSize = 2
  SignalLengthSize = 2
  SignalPrefix <- MCPrefix
  StatusIds = {0, 1}
  MaxPercentage = 5
  MaxPrefix4 = 3
  MaxPrefix6 = 5
  Space = 1
  Brace = 2
  Units = 4
  Intervals = {1, 15, 16}
  Sender = "router"
  Items <- MCItems
  Signals <- MCSignals
  Offered <- MCOffered
  MaxItems = 2
  HeaderSize = 4
  BodyLength <- MCBodyLength
  SocketSize = 6
  BufferSize = 9
  MaxSent = 3
  Streamed <- MCStreamed
  Defaults <- MCDefaults
  Freed = {5}
INVARIANTS TypeOK ReadsBack NoByteIgnored HandlersCanRead TextReadsBack
PROPERTIES DeliversMessages Delivered
CHECK_DEADLOCK FALSE
