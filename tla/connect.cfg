SPECIFICATION ServerSpec
CONSTANTS
  cratesIo = cratesIo
  indexCratesIo = indexCratesIo
  staticCratesIo = staticCratesIo
  api = api
  index = index
  belowIndex = belowIndex
  other = other
  MaxRequests = 2
  MaxBody = 2
  Window = 2
  Units <- MCUnits
  MayBreak = TRUE
  Piece <- MCPiece
  Hosts <- MCHosts
  NoHost = noHost
  HostOf <- MCHostOf
  SubdomainOf <- MCSubdomainOf
  SaysCratesIo = {cratesIo, indexCratesIo, staticCratesIo}
  StaticCratesIo = staticCratesIo
  CratesIoApi <- MCApi
  CratesIoIndex <- MCIndex
  Setups <- MCSetups
  Words <- MCWords
  Width <- MCWidth
  Names <- MCNames
  Versions <- MCVersions
  First <- MCFirst
  FirstTwo <- MCFirstTwo
  NextTwo <- MCNextTwo
  Visits <- MCVisits
INVARIANTS
  ConnectTypeOK
  ServerTypeOK
  HandledWhole
  AnswersMatch
  NeverStuck
  RightOperation
  AnswerIsTrue
  RegistryTrafficStaysIn
  ActsForRegistriesOnly
  SpecsSurvive
PROPERTIES
  RequestsSpec
  AllAnswered
  AnswerArrives
