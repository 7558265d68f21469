SPECIFICATION Spec
CONSTANTS
    Scripts <- MCScripts
    Builtin <- MCBuiltin
    Additional <- MCAdditional
    MaxLen = 5
INVARIANTS TypeOK Tiles DictExact FewestWords
PROPERTIES CutEnds
