SPECIFICATION TemplateSpec
CONSTANTS
  WORD = 4096
  MAX_EVENT_WAIT_REPLY = 2
  Sizes = {24, 60, 110, 180, 460}
  Property = {"a", "b"}
  IntProperty = {"a"}
  data_buff_len = 4
  Action = {"x"}
  MaxToken = 3
  MaxHandlers = 2
  NodeList <- MCNodeList
  SelfList <- MCSelfList
  Event <- MCEvent
  EventList <- MCEventList
  RawText <- MCRawText
  OldText <- MCOldText
INVARIANTS
  BuiltIsWhole
  RoomSuffices
  BuiltIsRead
  EventAnsweredOnce
  MessageIsRead
