\* The code's own times in units of ten seconds, and M-Pesa's hour.
SPECIFICATION FairServerSpec
CONSTANTS
  Configured = 0
  DefaultDur = 90
  Expo = 1
  Lifetime = 360
  MaxFailures = 5
  Tolerated = 2
  Configs <- OneKeyMissing
  MaxHold = 2
  Length <- MCLength
INVARIANTS
  ServerTypeOK
  AgeBounded
  NotExpired
  ReadyBeforeWork
  HeaderIsGood
PROPERTIES
  DownOnlyBeforeWork
  ComesToServe
  Refreshes
