SPECIFICATION FrontendSpec
CONSTANTS
  Words <- Letters
  Digits <- Numerals
  Programs <- AllPrograms
  Texts <- LexicalTexts
  OnLines <- LinePrograms
INVARIANTS
  FrontendTypeOK
  LexesAsWritten
  ParsesAsMeant
  TakesWhatIsMeant
  AcceptedIsStaticallyRight
  RefusedIsWrong
  AcceptedIsSupported
  RefusedIsUnsupported
CHECK_DEADLOCK FALSE
