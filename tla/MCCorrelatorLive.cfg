SPECIFICATION FairSpec
CONSTANTS
  None = None
  db = db  web = web  api = api  p = p  h = h
  n_db = n_db  n_web = n_web  n_api = n_api
  n_id = n_id  n_probe = n_probe  n_disk = n_disk  n_mem = n_mem
  Containers = {db, web}
  Probes = {p}
  Hosts = {h}
  Names = {n_db, n_web, n_api, n_id, n_probe, n_disk, n_mem}
  NameOf <- TwoNames
  DependsOn <- TwoChain
  ProbeID <- ProbeIDs
  ProbeName <- ProbeNames
  StorageOf <- Disks
  MemoryOf <- Memories
  LocalHost = h
  Round <- LocalTurn
  Requests = {r1}
  MaxFailures = 2
  MaxRestarts = 1
PROPERTIES OnlyTheLockStops
CHECK_DEADLOCK FALSE
