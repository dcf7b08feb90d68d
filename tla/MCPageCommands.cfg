SPECIFICATION Spec
CONSTANTS
    None = None
    t1 = t1
    t2 = t2
    CommandRuns = 1
    FileRuns = 2
    MaxVersion = 1
    Uploads = {"earlier"}
    Editors = {"e1", "e2"}
    FieldKinds <- SmallKinds
    Fields <- SmallForms
    MaxChanges = 1
    MaxForms = 2
    MaxFields = 2
    MaxWorkflows = 2
    MaxArticles = 0
    MaxSteps = 2
    MaxPolls = 1
    Dialogs = {"d1", "d2"}
    Types = {"confirm", "alert"}
    Calls = {1, 2}
    Last = 2
    MaxNodes = 2
    MaxWorkers = 2
CHECK_DEADLOCK FALSE
INVARIANTS FillsOneEditor FilesAreWatched ScrollsAreTold InspectsAndGivesBack AnswersOneDialog FieldIsGivenBack
PROPERTIES PlansKeepToTheirForm
