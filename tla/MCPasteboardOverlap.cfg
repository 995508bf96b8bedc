SPECIFICATION PasteSpec
CONSTANTS
    Callers = {c1, c2}
    Nobody = Nobody
INVARIANTS OneInjectionAtATime
