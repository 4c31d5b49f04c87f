SPECIFICATION PagesSpec
CONSTANTS
    None = None
    x1 = x1
    x2 = x2
    k1 = k1
    k2 = k2
    Option <- MCOption
    Block = {blk}
    Key <- MCKey
    Val = {0, 1}
    CorrectOption = x1
    Writes <- MCWrites
    Author <- MCAuthor
    Target <- MCTarget
    Goal <- MCGoal
    Questions = 2
    Elsewhere <- MCElsewhere
    MaxDay = 1
    MaxReviews = 2
    Slug = {s1, s2, s3}
    Written = {s1, s2}
    Tour = {s2}
    Reader = {u1}
    NoTopic = NoTopic
    NoOne = NoOne
    MaxVisits = 2
    Text = {txt1, txt2}
    Blank = Blank
    Warns = {txt2}
    Blocks <- MCBlocks
    NoText = NoText
    MaxLoads = 2
    MaxPreviews = 1
    MaxSaves = 1
    Row = {r1, r2}
    NoRow = NoRow
    MaxSelects = 1
    MaxRuns = 2
    MaxMounts = 2
    Node = {"ra", "a1", "rb", "b1"}
    Root = {"ra", "rb"}
    DomainOf <- MCDomainOf
    Graphs <- MCGraphs
    Query = {"q1", "q2"}
    Titled <- MCTitled
    Nothing = "nothing"
    MaxClicks = 2
    MaxFetches = 2
    Word = {"aa", "ab"}
    Found <- MCFound
    Place = {"p1", "p2"}
    Popular <- MCPopular
    NoWord = "-"
    NoPlace = "-"
    MaxSearches = 2
    MaxPaths = 2
    User = {u1, u2}
    Anyone = Anyone
    Admins = {u1}
    MaxAsks = 1
    MaxForms = 1
    Dot = {"r", "p", "s"}
    RootDot = {"r", "s"}
    FamilyOf <- MCFamilyOf
    Links <- MCLinks
    Required <- MCRequired
    Bearing <- MCBearing
    Payloads = {{}, {"r"}, {"r", "p"}}
    NoDot = NoDot
    Story <- MCStory
    NoAnchor = "none"
    MaxScrolls = 3
    Flight = {f1, f2}
    Aimed = {aim1, aim2}
    NoAim = NoAim
    MaxFlights = 3
    Person = {p1, p2}
    Me = Me
    NoPerson = NoPerson
    Title = {t1}
    MaxTurns = 3
    StepCount = 3
    MaxFlips = 2
INVARIANTS
    PagesTypeOK
    PracticeHolds
    TopicIsItsOwn
    CleanIsStored
    PaneIsSelection
    RunnerHolds
    ExploreHolds
    PathIsTheAsked
    
    CanvasHolds
    FiguresAimTrue
    SnapshotIsOfAddress
PROPERTIES
    SuccessEarned
    
CHECK_DEADLOCK FALSE
