SPECIFICATION FrontendSpec
CONSTANTS
    Files <- MCFiles
    Model <- MCModel
    Exports <- MCExports
    Builds = {TRUE, FALSE}
INVARIANTS
    LoadsExactlySupported
    LoadedIsDescribed
    CallersBindEverything
