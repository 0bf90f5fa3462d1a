\* Two pieces in each direction; the kernel takes one, the buffer two.  Octets one of
\* which begins with another.
CONSTANTS
  MaxSend = 2
  Wire = 1
  MAX_LENGTH = 2
  Octets = {1, 12}
  Parts = 4
  MaxLines = 2
SPECIFICATION SocksFairSpec
INVARIANTS FirewallDecides RepliesFirst AnswerComplete
PROPERTIES ImplementsProxied SessionEnds
CHECK_DEADLOCK FALSE
