SPECIFICATION BusSpec
CONSTANTS
  Publishers = {p, q, r}
  Nobody = Nobody
  Ids = {1, 2}
  Tasks = {1}
  MaxListeners = 1
  MaxLog = 4
INVARIANTS FinalFollowsEnd InSequence
PROPERTIES Served ImplementsStream
CHECK_DEADLOCK FALSE
