CONSTANTS
  Clients = {c1, c2, c3}
  NoClient = NoClient
SPECIFICATION Spec
INVARIANTS
  ReportBeforePowerOff
  QuitAnsweredBeforePowerOff
PROPERTIES
  QuitPowersOff
  AcceptFailurePowersOff
  ImplementsGuestReport
CHECK_DEADLOCK FALSE
