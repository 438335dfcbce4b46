SPECIFICATION Spec
CONSTANT Operations <- RebuildOperations
INVARIANT ClearedEngineQuiet
