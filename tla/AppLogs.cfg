SPECIFICATION Spec
CONSTANTS
  Kinds = {"po"}
  HomeKind = "po"
  PodKind = "po"
  ClusterKinds = {}
  Namespaces = {"n1"}
  HomeNamespace = "n1"
  Names = {"a"}
  Inputs = {"logs", "diagnose", "kind", "ns", "failLogs"}
  MaxStreams = 2
  MaxVersion = 1
  MaxLogs = 2
  MaxBatches = 1
  MaxModals = 1
  MaxEvents = 0
  MaxInFlight = 3
  AIConfigured = TRUE
INVARIANTS TypeOK ServiceOwnsLogs
CHECK_DEADLOCK FALSE
