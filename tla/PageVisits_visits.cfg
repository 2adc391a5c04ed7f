SPECIFICATION Spec
CONSTANTS
    one = one
    two = two
    story = story
    board = board
    Nothing = Nothing
    Tasks = {t1, t2}
    Urls <- AllUrls
    Seeds = {one}
    Patterns <- Kinds
    PatternOf <- KindOf
    Faces <- AllFaces
    MinObservations = 2
    MaxBrowserPages = 1
    MaxVisits = 3
    MaxChanges = 1
    MaxFailures = 1
    MaxAborts = 1
INVARIANTS
    ObservationsAddUp
    HealthIsBounded
    BrowserIsLearned
    
SYMMETRY Symmetry
CHECK_DEADLOCK FALSE
