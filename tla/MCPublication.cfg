CONSTANTS
    Importers = {p1, p2}
    Readers = {r}
    Images = {i1, i2}
    MaxVersion = 3
    NoImporter = NoImporter
SPECIFICATION Spec
SYMMETRY Symmetry
INVARIANTS
    TypeOK
    VersionsKept
PROPERTIES
    ImplementsCatalog
