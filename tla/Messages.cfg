\* Every request in every segmentation, one after the other on one object, for both
\* parsers; and responses with every file size, each writev() stopping anywhere, with
\* the texts of http_write_buffer() in a buffer of the real size.
SPECIFICATION MessagesSpec
CONSTANTS
  Requests <- AllRequests
  BodyLen = 3
  BufferSize = 14
  HeadLen = 3
  FileLens <- FileSizes
  FileKinds <- Kinds
  WriteBufferSize = 1024
INVARIANTS TypeOK SegmentsIrrelevant FileOnlyForWhole KeepAliveOfThisRequest ParsersAgree
  SenderTypeOK EntriesPointIntoBuffers AllReceived ContentImpliesWhole OnlyPrintedIsSent
  HeadIsThisResponse
PROPERTIES WriteReturns
\* A client that has sent all it has may leave its request incomplete.
CHECK_DEADLOCK FALSE
