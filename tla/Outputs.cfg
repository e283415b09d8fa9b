SPECIFICATION Spec
CONSTANTS
    Button = {a, b}
    Consoles = {"pcengine", "nuon", "n64", "dreamcast"}
    Parallel = FALSE
    MaxPads = 2
    MaxPublish = 4
    DirectModes = {"standard"}
    ThreadedModes = {"sinput"}
    ParallelModes = {"xbox"}
    Kinds = {"gamepad", "keyboard"}
    Input = {n, p}
    Neutral = n
    Stall = 1
    MaxLost = 1
INVARIANTS
  SendPathOK
PROPERTIES
  ConsoleFollows
  HostCatchesUp
