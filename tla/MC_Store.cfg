\* Cards: a user and two agent calls about two files or issues, two dials, three
\* requests (a listed issue is one); which file, title, dial or call is which does not matter.
\* Recipes: two names, five kinds of file, two edits.  Provisions: two vault
\* entries, two targets, two services, one of them required, two edits and one
\* trouble.  Knowledge: two adds at a time, a save by the user, a death.
CONSTANTS
    Callers = {"u"}
    AgentCalls = {a1, a2}
    Refs = {f, g}
    Texts = {x1, x2}
    Dials = {d1, d2}
    Lanes = {"inbox", "done"}
    CardBudget = 1
    MaxCards = 3
    MaxRequests = 3
    Recipes = {"standard", "mine"}
    Files <- TheFiles
    Bundled <- TheBundled
    MaxEdits = 2
    EnvKeys = {1, 2}
    Targets = {"t1", "t2"}
    Services = {1, 2}
    Required = {1}
    MaxVaultEdits = 2
    MaxTroubles = 1
    Adders = {"a", "b"}
    NoteIds = {"n1", "n2"}
    NoteBudget = 1
    MaxAdds = 2
    MaxSaves = 1
    MaxDeaths = 1
SPECIFICATION MCSpec
SYMMETRY Alike
INVARIANTS
    StoreTypesOK  RecipesRunAsGranted AloneAllAgree
PROPERTIES CardsStand 
CHECK_DEADLOCK FALSE
