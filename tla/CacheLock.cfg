SPECIFICATION Spec
CONSTANTS
  VMs <- TheVMs
  Process <- TheProcess
  Dir <- TheDir
  MaxFiles = 4
INVARIANTS TypeOK Exclusive
\* Applications may stop creating VMs.
CHECK_DEADLOCK FALSE
