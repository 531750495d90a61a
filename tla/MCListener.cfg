SPECIFICATION FairSpec
CONSTANTS
  Datagrams <- MCDatagrams
  Builds = {"udevData", "deviceEvent"}
  Numerals = {"0", "8"}
  AtoiOf <- MCAtoiOf
  MaxDatagrams = 3
  PageSize = 4
  DatagramSizes <- MCDatagramSizes
INVARIANT TypeOK
INVARIANT QueueDecodesReceived
INVARIANT AtMostOnePushAfterCancel
INVARIANT PeekReadsWholeDatagram
PROPERTY CancelEventuallyEndsRun
\* Run returns once its loop ends: a final state with no step left.
CHECK_DEADLOCK FALSE
