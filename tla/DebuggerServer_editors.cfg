SPECIFICATION ServerSpec
CONSTANTS
  Client = {c1, c2}
  Unsteady = {c1}
  Request = {r1, r2}
  WithDataset = {r1}
  AbortMessage = {m1}
  None = None
PROPERTIES
  RequestsAreAnswered
  AbortsReachAll
  HeartbeatIsFair
CHECK_DEADLOCK FALSE
