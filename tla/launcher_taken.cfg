SPECIFICATION LauncherSpec
CONSTANTS
  first = first
  second = second
  apart = apart
  p8080 = p8080
  p9090 = p9090
  inTemp = inTemp
  own = own
  notGiven = notGiven
  Processes = {second}
  Executing = {second}
  Ports = {p8080, p9090}
  Files = {inTemp, own}
  Port <- MCPort
  CaCertOut <- MCCaCertOut
  DefaultFile = inTemp
  NotGiven = notGiven
  Taken = {p8080}
  MaxPolls = 3
  MaxAsks = 1
  MayFail = FALSE
  Nobody = Nobody
  Stranger = Stranger
INVARIANTS
  CommandAfterServer
