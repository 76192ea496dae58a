\* Two queues of up to two entries, each configured over and over with either
\* of two plans, across resets, and two feature words of one bit.
CONSTANTS
  q1 = q1
  q2 = q2
  p1 = p1
  p2 = p2
  NoQueue = NoQueue
  Queues = {q1, q2}
  Plans = {p1, p2}
  Rings = {"desc"}
  MaxSize = 2
  Bits = {1}
  Banks = {0, 1}
SPECIFICATION Spec
INVARIANTS TypeOK ReadyQueueIsWhole FeaturesAsAccepted NeverOversized
SYMMETRY Symmetry
