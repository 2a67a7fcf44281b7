\* Two streams, frames of three sizes of which the second fits into the headroom
\* of the first, and a capture that is reopened after two failed reads.
CONSTANTS
  Streams = {s1, s2}
  MaxFailedReads = 2
  Sizes = {1, 2, 4}
  Headroom = 1
  None = none
SPECIFICATION FairSpec
INVARIANTS
  ProducerFits
  OneProducer
PROPERTIES
  HandedOnce
  FramesFlow
  WorkerFreed
