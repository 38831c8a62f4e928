SPECIFICATION Spec
CONSTANTS
  Sessions = {s1, s2}
  Traders = {1, 2}
  nil = nil
  PacketChanCapacity = 1
  ChanCapacity = 1
  RingSize = 1
  MaxMessages = 2
INVARIANT TraderStaysBound
