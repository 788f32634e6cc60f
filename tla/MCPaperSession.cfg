SPECIFICATION FairSpec
CONSTANTS
  Feeds <- MCFeeds
  Probes <- MCProbes
  Messages <- MCMessages
  Listings <- MCListings
  Outputs <- MCOutputs
  Assets = {"btc"}
  Quarter = 3
  MaxPages = 1
  MaxCycles = 2
  MaxMessages = 1
  Deadline = 4
  MaxSteps = 1
INVARIANTS
  RecordIsSound
  ReportIsAudited
  DivergesOnlyWhenDisturbed
PROPERTIES
  EndsInTime
CHECK_DEADLOCK FALSE
