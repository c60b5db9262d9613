SPECIFICATION FairSpec
CONSTANTS
  i1 = i1
  i2 = i2
  m1 = m1
  u1 = u1
  k1 = k1
  k2 = k2
  k3 = k3
  k4 = k4
  Null = Null
  Invoices = {i1}
  UploadNotes = {}
  UpstreamNotes = {u1}
  Uploaded = {i1}
  LegacyUsed = {}
  Keys = {k1, k2}
  FileOf <- MCFileOf
  Extracted <- MCExtracted
  Corrections <- MCCorrections
  Imported <- MCImported
  Failures = {"failed"}
  Offered = {"upload", "retry", "confirm", "select", "investigate"}
  MaxVersion = 1
  MaxRuns = 2
  MaxOverwrites = 0
  MaxFaults = 1
  MaxCrashes = 1
PROPERTIES
  StalePreviewsAreRenewed
  DraftsAreProjected
