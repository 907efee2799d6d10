SPECIFICATION Spec
CONSTANTS
  Kinds = {"po", "no"}
  HomeKind = "po"
  PodKind = "po"
  ClusterKinds = {"no"}
  Namespaces = {"n1"}
  HomeNamespace = "n1"
  Names = {"a"}
  Inputs = {"kind", "ns", "home", "failSwitch", "describe", "help"}
  MaxStreams = 3
  MaxVersion = 1
  MaxLogs = 1
  MaxBatches = 1
  MaxModals = 1
  MaxEvents = 1
  MaxInFlight = 3
  AIConfigured = TRUE
INVARIANTS ShownKind ServiceOwnsLive
CHECK_DEADLOCK FALSE
