SPECIFICATION TargetsSpec
CONSTANTS
    None = None
    Editors = {e1, e2}
    Roots = {m1, m2}
    MaxVersion = 1
    Snapshots = 2
    ClickChanges = 2
    Controls = {"a", "b"}
    Surfaces = {"s", "t"}
    Layouts <- TwoControls
    PopupChanges = 1
    Inspections = 3
    Candidates = 2
    Options = {"o", "p"}
    Selectable <- ControlKinds
    SelectionChanges = 1
    Selections = 2
SYMMETRY PageSymmetry
CHECK_DEADLOCK FALSE
INVARIANTS TypeOK OneDocument OnlyWhatIsShown
PROPERTIES ClicksOnce PopupsBelong SelectsWhatWasAsked
