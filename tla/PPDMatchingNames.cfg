CONSTANTS
    Inputs <- MCInputs
    NoDocument <- MCNoDocument
    Language <- MCLanguage
    ShortLanguage <- MCShortLanguage
    LowerCase <- MCLowerCase
    Digits <- MCDigits
    Length <- MCLength
    Common <- MCCommon
    Before <- MCBefore
    Glue <- MCGlue
SPECIFICATION Spec
INVARIANT FitNamesPPDs
CHECK_DEADLOCK FALSE
