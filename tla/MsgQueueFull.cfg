SPECIFICATION MsgSpec
CONSTANTS
  Types = {0, 1}
  Bodies = {nul, a}
  EmptyBody = nul
  MaxLen = 2
  MAX_MESSAGES = 3
  MSG_SIZE = 2
PROPERTY ReceivedIsRemoved
