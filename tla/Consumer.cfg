SPECIFICATION Spec
CONSTANTS
  w1 = w1
  w2 = w2
  opA = opA
  opB = opB
  c1 = c1
  c2 = c2
  q1 = q1
  q2 = q2
  r1 = r1
  r2 = r2
  None = None
  Worker <- MCWorker
  OPs <- MCOPs
  Claimed <- MCClaimed
  Services <- MCServices
  Choices <- MCChoices
  Sharers <- MCSharers
  Answers <- MCAnswers
  Unsolicited <- MCUnsolicited
  Requests <- MCRequests
  Responses <- MCResponses
  StoreKinds = {"none", "memory", "file"}
SYMMETRY Symmetry
CHECK_DEADLOCK FALSE
INVARIANTS
  AcceptedOnce
  RequestUsedOnce
  SuccessVouched
  DumbNeedsConfirmation
  NoncesVerified
