SPECIFICATION Spec
CONSTANTS
    Callers = {c1, c2}
    Kids = {"sig", "enc"}
    Usable = {"sig"}
    Ttl = 3
    Cooldown = 2
    Timeout = 2
    Faults = {"fetch"}
INVARIANTS HandsOutListed FindsListed
