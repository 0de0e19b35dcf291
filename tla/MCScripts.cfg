SPECIFICATION Spec
CONSTANT Programs <- SupportedPrograms
INVARIANTS ScriptsTypeOK FoldsTrue PrintsAsMeant StaysInStep VariablesAgree ReturnsReachTheirCall
PROPERTY ScriptEnds
CHECK_DEADLOCK FALSE
