SPECIFICATION Spec
CONSTANTS
  Client = {c1, c2}
  NoClient = NoClient
  Ttl = 2
  Handler = {h1, h2}
  NoHandler = NoHandler

PROPERTY StaysRegistered
CHECK_DEADLOCK FALSE
