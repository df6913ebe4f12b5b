\* A writev() that stops inside the head or at its end.
SPECIFICATION MessagesSpec
CONSTANTS
  Requests <- AllRequests
  BodyLen = 3
  BufferSize = 14
  HeadLen = 3
  FileLens <- FileSizes
  FileKinds <- Kinds
  WriteBufferSize = 1024
INVARIANTS PrefixReceived
\* A client that has sent all it has may leave its request incomplete.
CHECK_DEADLOCK FALSE
