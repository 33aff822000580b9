\* Two threads and four ids, which wrap twice and more.
CONSTANTS
  cpu = cpu
  gpu = gpu
  Nothing = Nothing
  Threads = {cpu, gpu}
  First <- MCFirst
  Last = 1
  MaxReplies = 8
SPECIFICATION FairResolveSpec
INVARIANTS
  ResolveTypeOK
  MatchedUnlessOverrun
PROPERTIES
  EveryReplyIsCalled
CHECK_DEADLOCK FALSE
