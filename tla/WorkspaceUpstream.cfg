SPECIFICATION Spec
CONSTANTS
  i1 = i1
  i2 = i2
  m1 = m1
  u1 = u1
  k1 = k1
  k2 = k2
  k3 = k3
  k4 = k4
  Null = Null
  Invoices = {i1}
  UploadNotes = {}
  UpstreamNotes = {u1}
  Uploaded = {i1}
  LegacyUsed = {}
  Keys = {k1, k2}
  FileOf <- MCFileOf
  Extracted <- MCExtracted
  Corrections <- MCCorrections
  Imported <- MCVoidable
  Failures = {}
  Offered = {"confirm", "reopen", "select", "edit", "void"}
  MaxVersion = 2
  MaxRuns = 1
  MaxOverwrites = 1
  MaxFaults = 0
  MaxCrashes = 0
SYMMETRY KeySymmetry
INVARIANTS
  ConfirmedSourcesUnchanged
  FreshPreviewIsTrue
PROPERTIES
  GenerationCoversInputs
  EditsReplaceWhatWasRead
  CorrectionsAreKept
  ConfirmedAsShown
  HeldRecordsChangeVisibly
