\* One server of two threads; three requests, one edit and one fault per behaviour.
CONSTANTS
    t1 = t1
    t2 = t2
    Threads <- MCThreads
    SampleLines <- MCSampleLines
    PostedLines <- MCPostedLines
    ParsedLines <- MCParsedLines
    Clocks <- MCClocks
    Directory <- MCDirectory
    FirstDir <- MCFirstDir
    Edits <- MCEdits
    ExportLimit = 3
    SearchCap = 2
    MaxRequests = 3
    MaxEdits = 1
    MaxFaults = 1
SYMMETRY ThreadSymmetry
SPECIFICATION Spec
INVARIANTS
    TypeOK
    AnswersKept
    RoutedByOneGeneration
    ShownIsCounted
    ExportsReconcile
    OnlyUnusableQuarantined
    LegacyAgrees
    StoresReconcile
PROPERTY PublishedListHonest
CHECK_DEADLOCK FALSE
