\* Two sessions add a note each.
CONSTANTS
    Adders = {"a", "b"}
    NoteIds = {"n1", "n2"}
    NoteBudget = 1
    MaxAdds = 2
    MaxSaves = 0
    MaxDeaths = 0
SPECIFICATION KnowSpec
INVARIANTS DigestIsKept
CHECK_DEADLOCK FALSE
