SPECIFICATION CodecSpec
CONSTANTS
    Keys <- MCKeys
    Lower <- MCLower
    SensitiveKeys <- MCSensitive
    Texts <- MCTexts
    Counts <- MCCounts
    Fields = {0, 5}
    MaxUtf = 1
    MaxNestDepth = 3
    MaxDecodedNodes = 4
    MaxFormatted = 3
    KeptShare = 2
    MaxKept = 1
INVARIANTS
    DecoderBounded
    EncodesBack
    NothingSensitiveShown
    PrintBounded
CHECK_DEADLOCK FALSE
