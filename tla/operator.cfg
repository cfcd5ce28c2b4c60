SPECIFICATION Spec
CONSTANTS
  Client = {c1, c2}
  NoClient = NoClient
  Ttl = 2
  Handler = {h1, h2, h3}
  NoHandler = NoHandler
SYMMETRY Symmetry
INVARIANTS TypeOK GrantHonoured ClientsInformed
CHECK_DEADLOCK FALSE
