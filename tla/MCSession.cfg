\* A session with every client behaviour within the bounds; the handler
\* thread is fair, the client is free.
SPECIFICATION FairSpec
CONSTANTS
  max_auth_attempts = 1
  max_commands = 1
  ChunkLines = 2
  AuthFailLimit = 2
  MaxExecs = 1
  MaxLines = 3
  Sinks <- MCSinks
INVARIANT TypeOK
INVARIANT SinksSeeGrowingRecords
INVARIANT EverySinkWritten
INVARIANT ShellCommandsBounded
 
PROPERTY EndsOrWaitsForClient
PROPERTY DisconnectEndsSession
\* The session is over when it has ended.
CHECK_DEADLOCK FALSE
