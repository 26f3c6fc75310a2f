SPECIFICATION Spec
CONSTANTS
    EhSize = 4
    ShEntSize = 4
    SymbolSize = 3
    RelocationSize = 3
    NameSize = 2
    Sizes = {0, 2, 3}
    Aligns = {0, 8}
    SymbolTypes = {10}
    RelocTypes = {5}
    Specials = {0, 3}
    MixedBindings = FALSE
    MaxSections = 6
    MaxEntries = 2
CHECK_DEADLOCK FALSE
INVARIANTS
    TypeOK
    ReadsBack
    LayoutSound
    EverythingFits
    RelocationsFindSymbols
