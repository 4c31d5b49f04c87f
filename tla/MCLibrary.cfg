SPECIFICATION LibrarySpec
CONSTANTS
    t1 = t1
    t2 = t2
    t3 = t3
    t4 = t4
    Docs <- MCDocs
    Choice = {"x", "y"}
    NoPick = "none"
    Texts <- MCTexts
    Typed <- MCTyped
    Snippets <- MCSnippets
    Bodies <- MCBodies
    MaxEdits = 2
    Account = {a1, a2}
    Client = {c1, c2}
    Overlap = FALSE
    MaxCodes = 2
    Topic = {t1, t2, t3, t4}
    Seeded <- MCSeeded
    Editor = {c1, c2}
    EdgeOverlap = FALSE
    Runner = {u1, u2}
    Window = 2
    RunnerCap = 2
    AddressCap = 3
    Slots = 1
    MaxTime = 3
    MaxLeft = 1
    Line = {l1, l2, blank}
    Blank = blank
    MaxLines = 3
    Word = {"1", "x", "abs", "-", "<", "(", ")"}
    Number = {"1"}
    ValueOf <- MCValueOf
    Name = {"x", "abs"}
    MaxWords = 5
    Written <- MCWritten
    Passages <- MCPassages
    Entry = {"", "w", "quote"}
    MaxTyped = 2
INVARIANTS
    
    ReaderHolds
    
    AccountsHold
    
    
    DiffIsLeast
    ReadsAsWritten
    FormReopensSame
PROPERTIES
    RunIsAnswered
CHECK_DEADLOCK FALSE
