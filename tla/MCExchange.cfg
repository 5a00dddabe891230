SPECIFICATION ExchangeSpec
CONSTANTS
  MaxAttempts = 2
  RetryOn = {503}
  MinBytes = 2
  AcceptHeaders <- MCAcceptHeaders
  Bodies <- MCBodies
INVARIANTS
  ExchangeTypeOK
  OneAnswer
  AnswerComplete
  
  
  LoggedIsSent
  FailuresReported
  
