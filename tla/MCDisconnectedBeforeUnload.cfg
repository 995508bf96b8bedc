SPECIFICATION ExtSpec
CONSTANTS
    Conns = {c1, c2}
    Syncs = {s1}
    None = None
INVARIANTS DisconnectedBeforeUnload
