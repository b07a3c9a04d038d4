\* Small instances of the pages, and the notification service with three messages;
\* two uploads and two requests.
CONSTANTS
  NoData = NoData
  None = None
  Empty = Empty
  NoDriver = NoDriver
  NoTxn = NoTxn
  NoOrder = NoOrder
  NoUser = NoUser
  NoApplication = NoApplication
  Message = {"first", "second", "bad"}
  Receiver = {"one", "two"}
  to <- ReceiversOf
  Renders = {"first", "second"}
  MAX_RETRIES = 2
  MaxRefusals = 4
  MaxKills = 1
SPECIFICATION LiveSpec
INVARIANTS
  LiveTypeOK
  MessagesAccounted
  UploadsServed
PROPERTIES
  PagesCatchUp
  WaitingEnds
  MessagesDelivered
\* Nobody has to do anything.
CHECK_DEADLOCK FALSE
