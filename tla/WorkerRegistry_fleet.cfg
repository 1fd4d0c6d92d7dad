SPECIFICATION RegistryFairSpec
CONSTANTS
  old = old
  new = new
  Processes = {old, new}
  Ttl = 2
  ReapAfter = 3
  MaxCold = 5
  MaxFailures = 2
  NoRow = NoRow
  NoProcess = NoProcess
PROPERTIES HealthyIsNotReaped UpIsShown DeadIsReaped
