SPECIFICATION MCSpec
CONSTANTS
  None = None
  TaskIds = {t1, t2}
  VectorTasks = {t1, t2}
  Nil = None
  HttpRequests <- WebRequests
  NetCallers = {"alice", "bob"}
  Hosts <- WebHosts
  Builtin = {"priv"}
  BlockList = {}
  AllowList = {}
  HttpLimit = 1
  HttpRetries = 1
  HttpRedirects = 1
  CacheEntries = 1
  CacheBytes = 2
  HttpTime = 2
  HttpChunks = 1
  HttpKinds = {"ok", "busy", "notfound", "fatal"}
  Colls = {"c1", "c2"}
  VectorIds = {"i1", "i2"}
  VectorDocs <- SomeDocs
  VectorBatches <- SomeBatches
  VectorBytes = 2
  Fallback = "fake"
  ModelDim <- ModelDims
  MaxPasses = 1
  VectorOps = 3
  VectorCrashes = 1
  FileRows = {1, 2, 3}
  CorruptRows = {2}
  MaxOpens = 3
  MaxEdits = 2
SYMMETRY Symmetry
INVARIANTS NetworkInv AccountsInv AiInv VectorsInv HeldInv WatchInv
CHECK_DEADLOCK FALSE
