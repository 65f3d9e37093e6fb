SPECIFICATION FairSpec
CONSTANTS
  c1 = c1
  c2 = c2
  p1 = p1
  p2 = p2
  Client <- Clients
  Content <- OneContent
  Command <- LoadAndPoll
  None = None
PROPERTIES
  RequestsEnd
  BuildEnds
