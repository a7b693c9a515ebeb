SPECIFICATION Spec
INVARIANTS
  TypeOK
  PushedOnceInOrder
  PassedLinesPushed
  OneRecordPerPacket
  ScannedLinesKept
PROPERTIES
  HistoryKept
CONSTANTS
  Uids <- MCUids
  Sender <- MCSender
  Environments <- MCEnvironments
  MaxLines = 2
  MaxEvents = 2
