SPECIFICATION StackSpec
CONSTANTS
  v1 = v1
  v2 = v2
  Base = 6
  Texts <- MCJson
  Metadata <- MCMetadata
  Meaning <- MCMeaning
  Serialised <- MCSerialised
  NotJson = NotJson
  NameLimit = 4
  Workloads <- MCWorkloads
  Want <- MCWant
  Others <- MCOthers
  Versions = {v1, v2}
  MayFail = TRUE
  NoCrate = NoCrate
INVARIANTS
  StackTypeOK
  BodyParsedAsFramed
  AnswerTellsTruth
  ValidatedHasPath
  FirstLayerWins
  MergedAsHeard
  ShownIsSent
  ShownIsFound
