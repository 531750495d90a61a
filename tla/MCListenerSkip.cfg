SPECIFICATION Spec
CONSTANTS
  Datagrams <- MCDatagrams
  Builds = {"udevData", "deviceEvent"}
  Numerals = {"0", "8"}
  AtoiOf <- MCAtoiOf
  MaxDatagrams = 2
  PageSize = 4
  DatagramSizes <- MCDatagramSizes

INVARIANT NoBlockEventSkipped
\* Run returns once its loop ends: a final state with no step left.
CHECK_DEADLOCK FALSE
