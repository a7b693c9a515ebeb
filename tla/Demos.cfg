\* Three units make a payload of the QUIC demo, and its client keeps two streams;
\* files of up to seven units, so that one has a stream too many.
CONSTANTS
  a = a
  b = b
  Data = {a, b}
  Files <- MCFiles
  DatagramFaults <- MCDatagramFaults
  StreamFaults <- MCStreamFaults
  MaxFaults = 2
  MaxPayload = 3
  Capacity = 2
  MaxText = 4
  Multiplexed = 3
  Attempts <- MCAttempts
  Byte <- MCByte
  Ids <- MCIds
  ChunkSize = 2
  MaxPassword = 2
  DigestSize = 2
  RecvBuffer = 15
  Block = 8
  LengthSize = 2
  Sizes <- MCSizes
  Pieces <- MCPieces
  Requests <- MCRequests
  RequestBuffer = 5
  MaxBody = 6
  FrameLengths = {0, 1, 3, 5}
  ShortLength = 2
  MediumLength = 4
  MaxFrames = 2
SPECIFICATION Spec
INVARIANTS
  TypeOK
  TestedOutcome
  OutputIsWholeFile
  TransferOnlyWithSecret
  WritesInSequence
  StreamsKept
  ResultsAgree
  ParsedAsBuilt
  PaddedInPieces
  RequestsRead
  StreamAligned
PROPERTY
  BothEnd
CHECK_DEADLOCK FALSE
