SPECIFICATION DocSpec
CONSTANTS
    Texts <- MCTexts
    Typed = {}
    Snippets = {}
    Bodies <- MCBodies
    MaxEdits = 2
INVARIANT
    FormShowsItsBlock
CHECK_DEADLOCK FALSE
