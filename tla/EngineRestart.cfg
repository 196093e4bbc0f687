SPECIFICATION Spec
CONSTANTS
  r1 = r1
  r2 = r2
  u1 = u1
  watcher = watcher
  post = post
  Readers <- MCReaders
  UIDs <- MCUIDs
  Configs <- MCConfigs
  Admins = {a1}
  Updaters <- MCUpdaters
  MaxRestarts = 1
  MaxFed = 1
INVARIANT
  RestartForgets
