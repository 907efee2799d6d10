SPECIFICATION Spec
CONSTANTS
  Kinds = {"po"}
  HomeKind = "po"
  PodKind = "po"
  ClusterKinds = {}
  Namespaces = {"n1", "n2"}
  HomeNamespace = "n1"
  Names = {"a"}
  Inputs = {"ns"}
  MaxStreams = 3
  MaxVersion = 1
  MaxLogs = 1
  MaxBatches = 1
  MaxModals = 1
  MaxEvents = 1
  MaxInFlight = 3
  AIConfigured = TRUE
INVARIANT BoundToNamespace
CHECK_DEADLOCK FALSE
