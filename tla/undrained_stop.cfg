\* One request is enough: it is accepted after SIGTERM.
CONSTANTS
  Request = {r1}
  Layer = {"environment"}
SPECIFICATION Spec
INVARIANT DockerStopDrains
CHECK_DEADLOCK FALSE
