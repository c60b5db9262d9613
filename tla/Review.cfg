SPECIFICATION Spec
CONSTANTS
  Tasks = {t1}
  Records = {d1}
  Suppliers = {s1, s2}
  Bodies = {0, 1}
  Blocking = {0}
  MachineType <- MCMachineType
  MachineBody <- MCMachineBody
  Requests = {q1, q2}
  Null = Null
  MaxVersions = 3
  MaxNumber = 2
  Comparers = {p1}
  MaxReconciliations = 1
SYMMETRY Names
CHECK_DEADLOCK FALSE
INVARIANTS
  TypeOK
  AuditTellsTheDecision
  LinearWithoutOverlap
  OfferedIsAccepted
  ReceivingOnlyMovesOn
  ReconciledWhileUsable
