SPECIFICATION FairSpec
CONSTANTS
  u1 = u1
  u2 = u2
  t1 = t1
  t2 = t2
  Uri <- MCUri
  Text <- MCText
  Empty = Empty
  NoDoc = NoDoc
  NoUri = NoUri
  NoCg = NoCg
  NoDiag = NoDiag
  MaxMsgs = 4
INVARIANTS CacheValid PendingNeverHits ClosedDocsClear ActiveShown
PROPERTIES AnswersFresh PublishIsCurrent PendingFlushed RequestsAnswered
