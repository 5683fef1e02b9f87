\* Two-bit bytes, so that 3 has the sign bit of a char.  A pipe holds two bytes and the
\* terminal's buffer too: a read fills it or not, and a third byte blocks in write().
SPECIFICATION CSpec
CONSTANTS
  Half = 2
  PipeSize = 2
  Sources = {1}
  Priorities = {0, 1}
  Ids = {1}
  GuestBytes = {3}
  TypedBytes = {0, 3}
  MaxSent = 3
  ChunkMax = 2
INVARIANTS CTypeOK NoByteLost WaitingByteAnnounced
PROPERTIES TxChannel RxChannel
