SPECIFICATION Spec
CONSTANTS
    EhSize = 4
    ShEntSize = 4
    SymbolSize = 3
    RelocationSize = 3
    NameSize = 2
    Sizes = {2}
    Aligns = {8}
    SymbolTypes = {10}
    RelocTypes = {5}
    Specials = {0, 3}
    MixedBindings = TRUE
    MaxSections = 6
    MaxEntries = 2
CHECK_DEADLOCK FALSE
INVARIANT RelocationsFindSymbols
