SPECIFICATION FairSpec
CONSTANTS
  Timeout = 2
  MaxAddresses = 2
  RequestPieces = 2
  MaxReply = 3
  NoReply = NoReply
  Models = {m1, m2}
  Digests = {d1}
  Absent = Absent
  NotListed = NotListed
  Sizes = {1, 3}
INVARIANTS
  StopsWithinASlice
  AnswersAreWhole
PROPERTIES
  ImplementsProvider
