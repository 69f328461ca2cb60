CONSTANTS
    CommandLines <- MCCommandLines
    Installations <- MCInstallations
    Empty = ""
SPECIFICATION MainSpec
INVARIANTS
    FilesFit
    ListExact
    SelectedExactly
    RequestSound
