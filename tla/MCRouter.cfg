SPECIFICATION Spec
CONSTANTS
  Conn = {0, 1}
  Object = {1, 2}
  Value = {0, 1}
  TooBig = 2
  Missing = 9
  Subscribed = {1}
  TxBuffer = 42
  Pdu <- MCPdu
  Nothing = Nothing
VIEW View
INVARIANTS
  ActiveConnOfPdu
  ReplyComplete
PROPERTIES
  ImplementsCommands
  WholeBatchAnswered
