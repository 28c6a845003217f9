SPECIFICATION LauncherSpec
CONSTANTS
  first = first
  second = second
  apart = apart
  p8080 = p8080
  p9090 = p9090
  inTemp = inTemp
  own = own
  notGiven = notGiven
  Processes = {first, second, apart}
  Executing = {second, apart}
  Ports = {p8080, p9090}
  Files = {inTemp, own}
  Port <- MCPort
  CaCertOut <- MCCaCertOut
  DefaultFile = inTemp
  NotGiven = notGiven
  Taken = {}
  MaxPolls = 1
  MaxAsks = 1
  MayFail = TRUE
  Nobody = Nobody
  Stranger = Stranger
INVARIANTS
  LauncherTypeOK
  
  ReadyWhenRun
  ZeroMeansSuccess
PROPERTIES
  Exits
