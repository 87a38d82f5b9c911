SPECIFICATION Spec
CONSTANTS
  NULL = NULL
  r1 = r1
  r2 = r2
  r3 = r3
  c1 = c1
  c2 = c2
  c3 = c3
  c4 = c4
  NewIdOf <- MCNewIdOf
  ann = ann
  bob = bob
  toAnn = toAnn
  toBoth = toBoth
  toNobody = toNobody
  Requests <- MCRequests3
  CommentIds <- MCCommentIds
  Tickets <- MCTickets
  Users <- MCUsers
  Usernames <- MCUsernames
  UsernameOf <- MCUsernameOf
  Contents <- MCContents
  UsernamesIn <- MCUsernamesIn
  Calls <- MCCalls
  CreatedComments <- MCCreatedComments
INVARIANTS
  TypeOK
  MentionsAreSound
  MentionsWereWritten
  ContentIsAudited
  RemovalIsAudited
PROPERTIES
  EveryRequestIsAnswered
