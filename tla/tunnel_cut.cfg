SPECIFICATION ConnectSpec
CONSTANTS
  cratesIo = cratesIo
  indexCratesIo = indexCratesIo
  staticCratesIo = staticCratesIo
  other = other
  MaxRequests = 2
  MaxBody = 2
  Window = 2
  Units <- MCUnits
  MayBreak = FALSE
  Piece = {"https://crates.io", "https://index.crates.io"}
  Hosts <- MCHosts
  NoHost = noHost
  HostOf <- MCHostOf
  SubdomainOf <- MCSubdomainOf
  SaysCratesIo = {cratesIo, indexCratesIo, staticCratesIo}
  StaticCratesIo = staticCratesIo
  CratesIoApi <- MCApi
  CratesIoIndex <- MCIndex
  Setups <- MCSetups
INVARIANTS
  PassesThrough
