SPECIFICATION Spec
CONSTANTS
  i1 = i1
  i2 = i2
  m1 = m1
  u1 = u1
  k1 = k1
  k2 = k2
  k3 = k3
  k4 = k4
  Null = Null
  Invoices = {i1, i2}
  UploadNotes = {}
  UpstreamNotes = {u1}
  Uploaded = {i1, i2}
  LegacyUsed = {}
  Keys = {k1, k2, k3}
  FileOf <- MCFileOf
  Extracted <- MCExtracted
  Corrections <- MCCorrections
  Imported <- MCImported
  Failures = {}
  Offered = {"confirm", "reopen"}
  MaxVersion = 1
  MaxRuns = 1
  MaxOverwrites = 0
  MaxFaults = 0
  MaxCrashes = 0
SYMMETRY KeySymmetry
INVARIANTS
  TypeOK
  ClaimsAreTheConfirmedSelections
  FreshPreviewIsTrue
PROPERTIES
  ImplementsReceivingClaims
