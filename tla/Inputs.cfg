\* Folder names that do not begin with a dash and specs with at most one; lists of
\* up to seven fields.
SPECIFICATION InputsSpec
CONSTANTS
    Base = {"x", "y", "gmail"}
    Gmail = {"gmail"}
    MaxDashes = 1
    FolderDashes <- Undashed
    MaxSpecs = 3
    Rank <- Ranks
    MaxFields = 7
INVARIANTS LastSpecWins RepliesToldApart NothingGuessed
\* expandFolders and rfc822FromEmail return.
CHECK_DEADLOCK FALSE
