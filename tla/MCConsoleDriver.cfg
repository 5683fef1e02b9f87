\* Three bytes each way, a pipe of two and a terminal that reads both at once:
\* the guest can be in the handler of one byte while the next two arrive.
SPECIFICATION DSpec
CONSTANTS
  Half = 1
  PipeSize = 2
  Sources = {1}
  Priorities = {0, 1}
  Ids = {1}
  GuestBytes = {1}
  TypedBytes = {1}
  MaxSent = 3
  ChunkMax = 2
PROPERTIES EveryByteRead EveryByteShown
