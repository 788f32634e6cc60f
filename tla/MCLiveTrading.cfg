\* The rehearsals and a session of live trading, or the checks of the live_alpha account.
SPECIFICATION CommandsSpec
CONSTANTS
  Orders = {t1, t2}
  t1 = t1
  t2 = t2
  Incidents = {"i1"}
  MaxAge = 0
  LastTime = 1
  Offs <- MCOffs
  MaxCommands = 1
  NoIntent = NoIntent
  NoOrder = NoOrder
  NoTrade = NoTrade
  NoBalance = NoBalance
  PageLimit = 2
  RequiredCollateral = 1
  Me = "me"
  NoBaselineFile = NoBaselineFile
  Configs <- MCConfigs
  Accounts <- MCAccounts
  Journals <- MCJournals
  Commands <- MCCommands
  MaxChecks = 1
INVARIANTS
  RehearsalsAreHonest
  ChecksAreSound
PROPERTIES
  NextOrderWaits
  PassedMeansTold
  AllowedIsBacked
SYMMETRY MCSymmetry
CHECK_DEADLOCK FALSE
