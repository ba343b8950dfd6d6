SPECIFICATION Spec
CONSTANTS
    Devices = {d1, d2}
    Files = {f1}
    Passphrases = {p}
    RandomKeys = {r}
SYMMETRY Alike
INVARIANT ClearStartsOver
