\* CloseSecureChannel while another thread is in a service call: the close 
\* frame is written without send_mutex.
CONSTANTS
  Callers <- MCCallers
  c1 = c1
  c2 = c2
  NoHolder = NoHolder
  MaxTokens = 2
  MaxOps = 4
  Renewals = FALSE
  CloseWhileSending = TRUE

SPECIFICATION Spec
INVARIANT NoInterleavedFrames
CHECK_DEADLOCK FALSE
