---------------------------- MODULE RecipeConsent ----------------------------
(***************************************************************************)
(* Flow recipes: files in three scopes, resolution with inheritance        *)
(* (recipe/mod.rs, recipe/scope.rs), the trust tier and the per-project    *)
(* grant a privileged recipe needs (recipes.rs, store/recipes.rs), and     *)
(* what dispatch.start asks of the recipe it runs.                         *)
(*                                                                         *)
(* A file is its parsed front matter, which stands for its hash too: two   *)
(* files have the same hash when they are the same.  One project.          *)
(***************************************************************************)
EXTENDS Integers, Sequences, FiniteSets, SequencesExt

CONSTANTS
    Recipes,     \* names of recipes; "standard" is one of them
    Files,       \* the contents files may have: part of Content, and Malformed
    Bundled,     \* the compiled-in files: [Recipes -> Files \cup {NoFile}]
    MaxEdits     \* bound: installs, edits and removals of files

Absent    == "absent"
NoFile    == [kind |-> "none"]
Malformed == [kind |-> "malformed"]
NoParent  == "noparent"

\* What parsing leaves of a file: the blocks that decide its tier, each absent
\* or with one of the values its parser accepts (guidance, budgets and axes are
\* left out).
Content ==
    [ kind   : {"recipe"}, extends : Recipes \cup {NoParent},
      stages : {Absent, "ships", "shipless"},   \* absent only with a parent
      mcp    : {Absent, "mounts"},
      tree   : {Absent, "pooled", "in_place"},
      gate   : {Absent, "full", "none"},
      ship   : {Absent, "pr", "local_merge"} ]

Blocks == {"stages", "mcp", "tree", "gate", "ship"}

Parsable(f) == f.kind = "recipe" /\ (f.stages = Absent => f.extends # NoParent)

ASSUME RecipeAssumption ==
    /\ "standard" \in Recipes /\ IsFiniteSet(Recipes)
    /\ Files \subseteq Content \cup {Malformed}
    /\ Bundled \in [Recipes -> Files \cup {NoFile}] /\ Parsable(Bundled["standard"])
    /\ MaxEdits \in Nat

Scopes == 1 .. 3       \* bundled < user < project

NoGrant == [hash |-> NoFile]

VARIABLES
    file,       \* the files on disk, by scope and name
    edits,      \* changes made to them
    grant,      \* recipe_grants of the project: the hash and what was listed
    ran         \* the last dispatch that got through

recipeVars == << file, edits, grant, ran >>

-----------------------------------------------------------------------------
(* Resolution.                                                             *)

Entries == {e \in Scopes \X Recipes : Parsable(file[e[1]][e[2]])}
At(e)   == file[e[1]][e[2]]

Topmost(S) == CHOOSE e \in S : \A d \in S : d[1] <= e[1]

Named(n) == {e \in Entries : e[2] = n}

\* select_parent: the most specific file of that name, and a strictly less
\* specific one when a recipe extends its own name.
Candidates(e) == {c \in Named(At(e).extends) : At(e).extends = e[2] => c[1] < e[1]}

MAX_EXTENDS_DEPTH == 16

\* resolve_entry, one ancestor at a time: where the walk from e stands.
Ascend(w) ==
    LET at == Last(w.path)
    IN  IF w.end # "walking" THEN w
        ELSE IF At(at).extends = NoParent THEN [w EXCEPT !.end = "ok"]
        ELSE IF Candidates(at) = {} THEN [w EXCEPT !.end = "missing"]
        ELSE LET p == Topmost(Candidates(at))
             IN  IF p \in Range(w.path) \/ Len(w.path) > MAX_EXTENDS_DEPTH
                 THEN [w EXCEPT !.end = "cycle"]
                 ELSE [w EXCEPT !.path = Append(@, p)]

\* The walk has ended after as many steps as the depth guard lets it take.
Depth == MAX_EXTENDS_DEPTH + 1
Walk(e) ==
    LET walk[k \in 0 .. Depth] ==
            IF k = 0 THEN [path |-> << e >>, end |-> "walking"] ELSE Ascend(walk[k - 1])
    IN  walk[Depth]

\* The files of a path, the recipe's own first.
FilesOf(path) == [i \in 1 .. Len(path) |-> At(path[i])]

\* merge_over: a block of the child replaces the parent's wholesale.
MergeOver(child, parent) ==
    [b \in Blocks |-> IF child[b] # Absent THEN child[b] ELSE parent[b]]

Plain(f) == [b \in Blocks |-> f[b]]

\* The root's blocks, merged over by its descendants down to the recipe.
Merged(files) ==
    LET n == Len(files)
        merged[k \in 0 .. n - 1] ==
            IF k = 0 THEN Plain(files[n]) ELSE MergeOver(Plain(files[n - k]), merged[k - 1])
    IN  merged[n - 1]

\* RecipeCatalog::resolve: nothing, or the merged recipe; the hash is that of
\* the winning file alone.
Unresolved == [name |-> NoParent]
Resolve(n) ==
    IF Named(n) = {} THEN Unresolved
    ELSE LET w == Walk(Topmost(Named(n)))
             files == FilesOf(w.path)
             merged == Merged(files)
         IN  IF w.end # "ok" \/ merged.stages = Absent THEN Unresolved
             ELSE [name |-> n, blocks |-> merged, hash |-> Head(files), parents |-> Tail(files)]

\* Recipe::elevations; any of them makes the recipe privileged.
Elevations(b) ==
    {x \in {"mcp", "in_place", "no_gate", "local_merge"} :
        \/ x = "mcp" /\ b.mcp = "mounts"
        \/ x = "in_place" /\ b.tree = "in_place"
        \/ x = "no_gate" /\ b.gate = "none" /\ b.stages = "ships"
        \/ x = "local_merge" /\ b.ship = "local_merge"}

-----------------------------------------------------------------------------
(* The files, and the daemon's verbs.                                      *)

\* A recipe.install, or a human's editor: the file of a name changes.
WriteFile(s, n, f) ==
    /\ edits < MaxEdits /\ s # 1 /\ file[s][n] # f
    /\ file' = [file EXCEPT ![s][n] = f]
    /\ edits' = edits + 1
    /\ UNCHANGED << grant, ran >>

\* recipe.grant, for a privileged recipe at its present hash.
Grant(n) ==
    LET r == Resolve(n)
    IN  /\ r # Unresolved /\ Elevations(r.blocks) # {}
        /\ grant' = [grant EXCEPT ![n] =
              [hash |-> r.hash, parents |-> r.parents, listed |-> Elevations(r.blocks)]]
        /\ UNCHANGED << file, edits, ran >>

\* recipe.revoke_grant.
RevokeGrant(n) ==
    /\ grant[n] # NoGrant
    /\ grant' = [grant EXCEPT ![n] = NoGrant]
    /\ UNCHANGED << file, edits, ran >>

\* A slip: a grant holds whatever became of the file.
GrantedOnce(r) == grant[r.name] # NoGrant

\* ensure_privilege_grant.
Granted(r) == grant[r.name] # NoGrant /\ grant[r.name].hash = r.hash

\* The part of dispatch.start that reads recipes: the request's recipe, else
\* the card's dial, else the project's default or "standard"; the grant; MCP
\* mounts only on a harness that has them; work in place only when
\* acknowledged.  A refusal changes nothing.
Effective(asked, dial) == IF asked # NoParent THEN asked ELSE IF dial # NoParent THEN dial ELSE "standard"

Dispatch(n, capable, ack) ==
    LET r == Resolve(n)
        x == Elevations(r.blocks)
    IN  /\ r # Unresolved
        /\ x # {} => Granted(r)
        /\ "mcp" \in x => capable
        /\ "in_place" \in x => ack
        /\ ran' = [name |-> n, elevations |-> x, parents |-> r.parents, by |-> grant[n]]
        /\ UNCHANGED << file, edits, grant >>

RecipeInit ==
    /\ file = << Bundled, [n \in Recipes |-> NoFile], [n \in Recipes |-> NoFile] >>
    /\ edits = 0
    /\ grant = [n \in Recipes |-> NoGrant]
    /\ ran = [name |-> NoParent, elevations |-> {}]

RecipeNext ==
    \/ \E n \in Recipes :
         \/ Grant(n) \/ RevokeGrant(n)
         \/ \E s \in Scopes, f \in Files \cup {NoFile} : WriteFile(s, n, f)
    \/ \E asked, dial \in Recipes \cup {NoParent}, capable, ack \in BOOLEAN :
         Dispatch(Effective(asked, dial), capable, ack)

RecipeSpec == RecipeInit /\ [][RecipeNext]_recipeVars

-----------------------------------------------------------------------------
(* Properties.                                                             *)

\* The types of the variables.
RecipeTypeOK ==
    /\ file \in [Scopes -> [Recipes -> Files \cup {NoFile}]]
    /\ edits \in 0 .. MaxEdits
    /\ \A n \in Recipes : grant[n] = NoGrant \/ grant[n].hash \in Files
    /\ ran.name \in Recipes \cup {NoParent}

\* Resolution ends for every name and every arrangement of files, cycles and
\* self-shadowing included, and gives each block as the nearest file of the
\* chain that has it states it ("overrides merge shallowly").
ResolvesToNearest ==
    \A e \in Entries :
        LET w == Walk(e)
        IN  /\ w.end # "walking"
            /\ \A i, j \in DOMAIN w.path : w.path[i] = w.path[j] => i = j
            /\ \A b \in Blocks, i \in DOMAIN w.path :
                 /\ w.end = "ok" /\ At(w.path[i])[b] # Absent
                 /\ \A j \in 1 .. i - 1 : At(w.path[j])[b] = Absent
                 => Merged(FilesOf(w.path))[b] = At(w.path[i])[b]

\* "a project recipe may `extends` the same name in a less-specific scope ...
\* without tripping the cycle guard": a chain of a recipe and its own shadowed
\* versions, with a root, always resolves.
TweakingABundledRecipeWorks ==
    \A e \in Entries :
        (\A d \in Named(e[2]) : At(d).extends \in {e[2], NoParent})
            => Walk(e).end = "ok" \/ \A d \in Named(e[2]) : d[1] <= e[1] => At(d).extends = e[2]

\* "an explicit per-project grant listing exactly what is elevated, re-confirmed
\* when the recipe file's hash changes": a dispatch gets through with no
\* elevation that the grant it ran under did not list, whatever was edited,
\* shadowed, revoked or granted again since, unless a file it inherits from
\* changed (the hash is the winning file's alone).
RunsAsGranted ==
    ran.elevations # {} =>
        /\ ran.by # NoGrant
        /\ ran.elevations = ran.by.listed \/ ran.parents # ran.by.parents

\* A dispatch runs the recipe the files of the moment resolve to, with the
\* elevations its grant listed.
RecipesRunAsGranted == ResolvesToNearest /\ TweakingABundledRecipeWorks /\ RunsAsGranted
=============================================================================
