CONSTANTS
  Size = 2
  OutCap = 1
  InCap = 1
  MaxQueries = 2
  MaxNotes = 2
  MayClose = TRUE
SPECIFICATION FairSpec
INVARIANTS
  TypeOK
  GetResultNeverBlocks
  ReadyAfterSuccess
  NotificationsConserved
  NoStrandedNotification
PROPERTIES
  QueryEndsAlone
  NotificationDelivered
  ReceiverToldOfClose
CHECK_DEADLOCK FALSE
