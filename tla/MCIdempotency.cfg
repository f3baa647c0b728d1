CONSTANTS
  h1 = h1
  h2 = h2
  p1 = p1
  p2 = p2
  p3 = p3
  p4 = p4
  p5 = p5
  p6 = p6
  Posts = {p1, p2, p3, p4, p5, p6}
  Headers = {h1, h2}
  NoKey = NoKey
  MaxCrashes = 2
  NameOrder <- MCNameOrder
  Values <- MCValues
  Payloads <- MCPayloads
  Awaiting <- MCAwaiting
  Fingerprint <- MCFingerprint
  Meaning <- MCMeaning
  Sent <- MCSent
SPECIFICATION IdemSpec
INVARIANTS
  IdemTypeOK
  RecordsRecognise
  AnswerJustified
  AnswersAgree
  ExecutedOnce
CHECK_DEADLOCK FALSE
