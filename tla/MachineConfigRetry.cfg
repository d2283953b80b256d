SPECIFICATION Spec
CONSTANTS
    r1 = r1
    r2 = r2
    Reqs = {r1, r2}
    Ifaces = {"eth0", "eth1"}
    Values = {"v", "w"}
    Escaped = {"w"}
    Faults = {}
    Configs <- MCConfigs
SYMMETRY Symmetry
INVARIANTS
    ChangedArgsTold
