SPECIFICATION Spec
CONSTANTS
    Conns = {c1, c2}
    Syncs = {s1}
    None = None
    Callers = {c1, c2}
    Nobody = Nobody
INVARIANTS PluginStaysWhileUsed DisconnectAnswerIsNotLost OrphanHasCause OneInjectionUnlessShared
PROPERTIES CallsReturn OwnAnswerUnlessLateOrShared RequestsReturn
