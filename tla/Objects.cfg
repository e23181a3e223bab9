SPECIFICATION Spec
CONSTANTS
    KeyOf <- DistinctKeys
    Names = {"a", "b"}
    Foreign = {"f", "g"}
    MaxOid = 4
    MaxSize = 4
    BlockSize = 2
    TailMax = 2
    CutMax = 4
    MaxFaults = 1
    Scenes = {"names", "scan", "files"}
INVARIANTS CountsExact NoneMissed FileExact
