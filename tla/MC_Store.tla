------------------------------- MODULE MC_Store -------------------------------
(* What the daemon keeps for projects, one part at a time: the cards, the      *)
(* recipes, a worktree's provisions, the knowledge base.  They share no state, *)
(* so each is explored while the others rest in their initial states.          *)
EXTENDS Cards, RecipeConsent, Provision, Knowledge, TLC

(* Recipe files: the bundled standard one, a tweak of it, one that mounts an   *)
(* MCP server, and one that extends its own name.                              *)
Standard == [kind |-> "recipe", extends |-> NoParent, stages |-> "ships", mcp |-> Absent,
             tree |-> "pooled", gate |-> "full", ship |-> "pr"]
Tweak    == [kind |-> "recipe", extends |-> "standard", stages |-> Absent, mcp |-> Absent,
             tree |-> "in_place", gate |-> Absent, ship |-> Absent]
Mount    == [kind |-> "recipe", extends |-> "standard", stages |-> "ships", mcp |-> "mounts",
             tree |-> Absent, gate |-> "none", ship |-> Absent]
Loop     == [kind |-> "recipe", extends |-> "mine", stages |-> Absent, mcp |-> Absent,
             tree |-> Absent, gate |-> "full", ship |-> "local_merge"]

TheFiles   == {Standard, Tweak, Mount, Loop, Malformed}
TheBundled == [n \in {"standard", "mine"} |-> IF n = "standard" THEN Standard ELSE NoFile]

VARIABLE part   \* the part that runs

parts == << cardVars, recipeVars, provVars, knowVars >>

MCInit ==
    /\ part \in {"cards", "recipes", "provision", "knowledge"}
    /\ CardsInit /\ RecipeInit /\ ProvInit /\ KnowInit
    /\ part # "cards" => audit = FALSE

CardsPart ==
    /\ part = "cards" /\ CardsNext
    /\ UNCHANGED << part, recipeVars, provVars, knowVars >>

RecipesPart ==
    /\ part = "recipes" /\ RecipeNext
    /\ UNCHANGED << part, cardVars, provVars, knowVars >>

ProvisionsPart ==
    /\ part = "provision" /\ ProvNext
    /\ UNCHANGED << part, cardVars, recipeVars, knowVars >>

KnowledgePart ==
    /\ part = "knowledge" /\ KnowNext
    /\ UNCHANGED << part, cardVars, recipeVars, provVars >>

MCNext == CardsPart \/ RecipesPart \/ ProvisionsPart \/ KnowledgePart

\* What the cards are made of can be permuted: nothing compares two of a kind.
Alike == Permutations(Refs) \cup Permutations(Texts) \cup Permutations(Dials)
             \cup Permutations(AgentCalls)

MCSpec == MCInit /\ [][MCNext]_<< part, parts >>

\* The types of the parts' variables.
StoreTypesOK == CardsTypeOK /\ RecipeTypeOK /\ ProvTypeOK /\ KnowTypeOK
================================================================================
