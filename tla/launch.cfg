SPECIFICATION Spec
CONSTANTS
  None = None
  Files <- MCFiles
  SystemDirs <- MCSystemDirs
  Store <- MCStore
  Lock <- MCLock
  Proc <- MCProc
  Devices <- MCDevices
  Sessions <- MCSessions
  ProbeConfig <- MCProbeConfig
  MaxFaults = 2
  NotifyCap = 1
  MaxLaunches = 2
  MaxServices = 2
  MaxNotices = 2
INVARIANTS
  PlanHolds
  HostIntact
  Accounted
PROPERTY
  Settles
CHECK_DEADLOCK FALSE
