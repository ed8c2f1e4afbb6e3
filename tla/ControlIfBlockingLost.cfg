\* A type registered for blocking context (flags = 1) loses its requests.
CONSTANTS
  Size = 2
  Types = {t1, t2}
  Receivers = {r1}
  NoOwner = NoOwner
  RegFlags = {0, 1}
  MaxMsgs = 2
  MaxTx = 0
  ResponseTypes = {}
  MaxResponses = 0
SPECIFICATION Spec
INVARIANT NoMessageLost
