CONSTANTS
  Updaters = {u1, u2}
  GfwLists = {g1, g2, bad}
  BadLists = {bad}
  MaxChunks = 2
  None = None
SPECIFICATION Spec
INVARIANTS TypeOK Servable OnlyValidated
PROPERTIES AllOrNothing DnsComesBack
