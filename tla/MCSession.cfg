SPECIFICATION SessionSpec
CONSTANTS
    Shells = {s1, s2}
    Dirs <- Directories
    Paths = {"home", "bin", "home/", "gone"}
    Leads <- LeadsTo
    Nowhere = Nowhere
    Words = {"ls", "cat", "ll"}
    Files <- FilesIn
    Profiles <- SomeProfiles
    Unset = Unset
    NoValue = NoValue
    DefaultHome = "home"
    DEFAULT_PATH <- HomeFirst
    PathNoValue <- BinFirst
    MaxAliases = 3
INVARIANT SessionTypeOK
INVARIANT OncePerShell
INVARIANT HidesOnlyEarlier
PROPERTY MeaningStable
PROPERTY PromptWrongFromStart
SYMMETRY AnyShell
CHECK_DEADLOCK FALSE
