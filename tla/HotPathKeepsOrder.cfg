CONSTANTS
  Clients = {c1}
  Workers = {w1, w2}
  None = None
SPECIFICATION Spec
PROPERTY HotPathKeepsOrder
