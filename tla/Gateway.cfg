SPECIFICATION MCSpec
CONSTANTS
  Sessions = {s1, s2}
  Traders = {0, 1, 2}
  nil = nil
  PacketChanCapacity = 1
  ChanCapacity = 1
  RingSize = 1
  MaxMessages = 2
  NumFields = 2
  MaxValue <- Widths
  Alphabet <- Characters
  MaxLength = 6
INVARIANTS
  TypeOK
  RegistryOpen
  RoutedToParty
  ParserMatchesFormat
PROPERTIES
  EveryReportRouted
  EveryMessageSettled
  SessionEnds
CHECK_DEADLOCK FALSE
