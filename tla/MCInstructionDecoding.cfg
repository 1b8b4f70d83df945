SPECIFICATION DecodingSpec
CONSTANTS
    ARMWords <- MCARMWords
    THUMBWords <- MCTHUMBWords
INVARIANTS RegistersExist FieldsRebuildTheWord IgnoredBitsAreIgnored NoIllegalShift
CHECK_DEADLOCK FALSE
