SPECIFICATION Spec
CONSTANTS
    Devices = {d1, d2}
    Files = {f1, f2}
    Passphrases = {p}
    RandomKeys = {r}
VIEW ExceptFresh
SYMMETRY Alike
CONSTRAINT SetsUpAlone
INVARIANTS
    TypeOK
    NoMixedKeys
PROPERTIES
    OnlyOldStateTrashes
    ForeignKeyRemovesNothing
