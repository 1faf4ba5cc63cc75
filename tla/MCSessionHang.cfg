\* A silent client in the shell.
SPECIFICATION FairSpec
CONSTANTS
  max_auth_attempts = 1
  max_commands = 2
  ChunkLines = 2
  AuthFailLimit = 3
  MaxExecs = 2
  MaxLines = 4
  Sinks <- MCSinks
PROPERTY SessionEnds
\* The session is over when it has ended.
CHECK_DEADLOCK FALSE
