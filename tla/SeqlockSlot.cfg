SPECIFICATION LiveSpec
CONSTANTS
    Producer = {core0}
    Word = {w1, w2}
    Event = {press, release}
    Blank = zeroed
    MaxRetry = 2
    SeqMod = 8
    MaxPublish = 3
INVARIANTS
  SlotOK
  NoTornFrame
  BoundedRetry
PROPERTIES
  ImplementsOutputSlot
  EveryEventSeenOrSuperseded
