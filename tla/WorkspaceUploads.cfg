SPECIFICATION UploadSpec
CONSTANTS
  i1 = i1
  i2 = i2
  m1 = m1
  u1 = u1
  k1 = k1
  k2 = k2
  k3 = k3
  k4 = k4
  Null = Null
  Invoices = {i1, i2}
  UploadNotes = {}
  UpstreamNotes = {}
  Uploaded = {}
  LegacyUsed = {}
  Keys = {k1, k2, k3}
  FileOf <- MCSameFile
  Extracted <- MCExtracted
  Corrections <- MCCorrections
  Imported <- MCImported
  Failures = {"failed"}
  Offered = {"upload", "void", "retry"}
  MaxVersion = 1
  MaxRuns = 2
  MaxOverwrites = 0
  MaxFaults = 0
  MaxCrashes = 0
  MaxPuts = 3
  MaxTroubles = 1
SYMMETRY KeySymmetry
INVARIANTS
  OriginalsAreKept
  OrphansHaveACause
