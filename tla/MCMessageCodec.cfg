\* Two event loops, four messages, frames with the 4-byte length of the code.
CONSTANTS
  l1 = l1
  l2 = l2
  m1 = m1
  m2 = m2
  m3 = m3
  NULL = NULL
  Loops = {l1, l2}
  Messages = {m1, m2, m3}
  Inbound <- MCInbound
  Outbound <- MCOutbound
  BodyLength <- MCBodyLength
  MESSAGE_LENGTH = 4
SPECIFICATION Spec
INVARIANTS
  StreamAligned
  OrderKept
  CloserEmptyAtRest
  KryoExclusive
PROPERTY EveryFrameDelivered
\* Everything has been decoded, or its channel is closed.
CHECK_DEADLOCK FALSE
