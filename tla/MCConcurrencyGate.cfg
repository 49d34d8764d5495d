SPECIFICATION FairSpec
CONSTANTS
  provider = provider
  search = search
  chapters = chapters
  download = download
  ProviderWorkers = 0
  Browser = browser
  NoGate = NoGate
  Callers = {search, chapters, download}
  Abortable = {search}
  Gates = {provider, browser}
  ProviderOf <- MCProviderOf
  BrowserUsers = {search, chapters, download}
  StartLimit <- MCLimit
  Counts = {1, 2}
  MaxSpawned = 1
INVARIANTS
  TypeOK
  SlotsAccounted
  SleepersAreWoken
PROPERTIES
  NobodyOverLimit
  GateKeepsMoving
