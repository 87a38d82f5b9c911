SPECIFICATION Spec
CONSTANTS
  NULL = NULL
  r1 = r1
  r2 = r2
  ann = ann
  bob = bob
  p1 = p1
  t0 = t0
  a0 = a0
  Requests <- MCRequests
  Projects <- MCProjects
  Users <- MCUsers
  RegisteredAt <- MCRegisteredAt
  Calls <- MCCalls
  Others <- MCOthers
  FirstUsers <- MCFirstUsers
  FirstTickets <- MCFirstTickets
  FirstAttachments <- MCFirstAttachments
  MaxRows = 3
CHECK_DEADLOCK FALSE
PROPERTIES
  AttachmentsGoToActiveTickets
