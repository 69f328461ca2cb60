CONSTANTS
    CommandLines <- MCCommandLines
    Installations <- MCInstallations
    Empty = ""
SPECIFICATION MainSpec
INVARIANT HighestVersion
