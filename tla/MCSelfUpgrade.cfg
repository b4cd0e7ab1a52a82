SPECIFICATION Spec
CONSTANTS
  p1 = p1
  p2 = p2
  Procs = {p1, p2}
  MaxVersion = 2
  Workload <- MCWorkload
  InitialDisks <- MCDisks
CHECK_DEADLOCK FALSE
PROPERTIES
  OnlyOwnInstallation
  NoUnaskedDowngrade
  ReportedIsLive
  Ends
