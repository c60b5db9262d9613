SPECIFICATION Spec
CONSTANTS
  Cases = {c1}
  Items = {line, header}
  Reviewers = {r1, r2, r3}
  Admins = {a1}
  Inactive = {r3}
  Requests = {q1, q2}
  Null = Null
  Typed = {"business_exception", "matching_error", "waiting_for_documents"}
  MaxRevision = 5
SYMMETRY Names
CHECK_DEADLOCK FALSE
INVARIANTS
  TypeOK
  AuditExplainsWhatIsShown
  DecisionsAreSupported
PROPERTIES
  ImplementsCaseWorkflow
