SPECIFICATION FairSpec
CONSTANTS
  a1 = a1
  a2 = a2
  b1 = b1
  ka = ka
  kb = kb
  m1 = m1
  m2 = m2
  None = None
  Requests = {a1, a2, b1}
  Keys = {ka, kb}
  Media = {m1, m2}
  KeyOf <- KeyOfTwo
  Wants <- WantsMost
  OwnedBy <- OwnsAll
  MaxAttempts = 3
  MaxRounds = 2
  MaxFaults = 1
INVARIANTS
  TypeOK
  OneRowPerKey
  AnswersAgree
  MediaWhole
  PublishedAreDurable
  AbandonedNeedsFault
PROPERTIES
  EveryRequestEnds
  StoresOnce
CHECK_DEADLOCK FALSE
