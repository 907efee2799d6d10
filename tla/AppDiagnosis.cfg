SPECIFICATION FairSpec
CONSTANTS
  Kinds = {"po"}
  HomeKind = "po"
  PodKind = "po"
  ClusterKinds = {}
  Namespaces = {"n1"}
  HomeNamespace = "n1"
  Names = {"a"}
  Inputs = {"diagnose", "ns", "failSwitch"}
  MaxStreams = 1
  MaxVersion = 1
  MaxLogs = 0
  MaxBatches = 0
  MaxModals = 2
  MaxEvents = 1
  MaxInFlight = 3
  AIConfigured = TRUE
INVARIANT PumpedSessionIsStashed
PROPERTIES StreamingEnds TranscriptSaved
CHECK_DEADLOCK FALSE
