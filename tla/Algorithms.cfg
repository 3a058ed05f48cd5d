SPECIFICATION Spec
CHECK_DEADLOCK FALSE
CONSTANTS
  Jobs <- MCJobs
  Calls <- MCCalls
  Cipher <- MCCipher
  Decipher <- MCDecipher
  gEncrData <- MCData
  gEncrDataTwl <- MCTwl
  gEncrDataTwlDev <- MCTwlDev
  Sd <- MCSd
  Sdmc <- MCSdmc
  Nand <- MCNand
  Title <- MCTitle
  Content <- MCContent
  Apps <- MCApps
  VramSize = 64
  LoadSize = 8
  DataSize = 8
  boot_type_at = 4
  boot_path_offset = 12
  boot_path_max_len = 8
  moduleParamsSignature <- MCParamsSignature
  PARAMS_HALVES = 14
  sleepInputWriteEndSignature <- MCSleepEnd
  sleepInputWriteSignature <- MCSleep
  sleepInputWriteSignature2 <- MCSleep2
  sleepInputWriteBeqSignatureThumb <- MCBeq
  Nop <- MCNop
  NopThumb <- MCNopThumb
  SleepSpan <- MCSpan
  handlerStartSig <- MCStart
  handlerEndSig <- MCEnd
  MAX_HANDLER_SIZE = 6
  HookOfSize <- MCHookOfSize
INVARIANTS
  DecryptsItsOwn
  NumbersAndKeys
  SealsHold
  ReadBack
  MovesWhatItSays
  EngineArrives
  PatchesTheGame
  HookIsTheGamesTable
PROPERTY CipherOfTheStandard
