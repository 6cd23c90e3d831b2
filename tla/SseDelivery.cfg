SPECIFICATION Spec
CONSTANT MaxEvents = 2
INVARIANT ChunkingIsInvisible
CHECK_DEADLOCK FALSE
