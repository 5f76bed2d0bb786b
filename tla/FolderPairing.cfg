SPECIFICATION Spec
CONSTANTS
  s1 = s1 s2 = s2
  Receiver = Receiver
  Senders = {s1, s2}
  Codes = {1, 2}
  CodeOf <- MCCodeOf
  NoSender = NoSender
  NoCode = NoCode
  MaxInvitations = 3
  MaxInflight = 2
INVARIANTS
  ReadyWasApproved
  RevokedByParty
  ReceiptsAreHonest
PROPERTIES
  DisconnectIsFinal
CHECK_DEADLOCK FALSE
