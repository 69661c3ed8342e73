SPECIFICATION PartFairSpec
PROPERTIES CursorCatchesUp WorkSettles EndingsHappen
CHECK_DEADLOCK FALSE
