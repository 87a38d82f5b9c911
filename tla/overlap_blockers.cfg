SPECIFICATION Spec
CONSTANTS
  NULL = NULL
  Undefined = Undefined
  t1 = t1
  t2 = t2
  t3 = t3
  r1 = r1
  r2 = r2
  r3 = r3
  r4 = r4
  p1 = p1
  p2 = p2
  alice = alice
  draft = draft
  revised = revised
  Tickets <- MCTickets2
  Users <- MCUsers
  Titles <- MCTitles
  ProjectOf <- MCProjectOf
  Requests <- MCRequests3
  Calls <- MCCalls
  CreatedTickets <- MCCreatedTickets
PROPERTIES
  DoneHasNoOpenBlockers
