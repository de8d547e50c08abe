CONSTANTS
    NumSectors = 3
    BufSectors = 2
    MaxWork = 3
    Kinds = {"read", "write", "result", "residue", "nodata", "eject", "badout", "badcbw", "silent", "sat_reset", "sat_none", "sat_in", "sat_out"}
SPECIFICATION Spec
INVARIANTS TypeOK ReadsCurrent NoBufferRace AckedIsKept 
PROPERTIES ErrorIsReported EveryCommandEnds
CHECK_DEADLOCK FALSE
