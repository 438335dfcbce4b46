SPECIFICATION Spec
CONSTANT Operations <- OversamplingOperations
PROPERTY RefusedOversamplingRestoresGate
