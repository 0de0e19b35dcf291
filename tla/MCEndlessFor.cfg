SPECIFICATION Spec
CONSTANT Programs <- ContinuedFor
PROPERTY ScriptEnds
CHECK_DEADLOCK FALSE
