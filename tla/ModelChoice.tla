----------------------------- MODULE ModelChoice ----------------------------
(***************************************************************************)
(* How Agent._build_model chooses the language model, from a configuration *)
(* that config.py accepted and the answer of <base_url>/models.            *)
(*                                                                         *)
(* A model's name is reduced to what the code looks at: whether it is one  *)
(* of the generic names and whether it contains "instruct".  As in         *)
(* WebPaths, an operator that may raise is the set of its results.         *)
(***************************************************************************)
EXTENDS Naturals, Sequences, Selection

CONSTANTS Names,     \* model names
          Blank,     \* the one that is blank
          Generic,   \* those that stand for "auto", "default", "local", "generic"
          Instruct,  \* those that contain "instruct"
          NoName     \* an item of the answer that is no string and has none

ASSUME NamesAssumption ==
    /\ Generic \subseteq Names /\ Instruct \subseteq Names
    /\ Blank \in Names /\ NoName \notin Names

(* What AgentConfig validates of its sources.                              *)
IsAgentConfig(config) ==
    /\ config.vaultDir = "directory"
    /\ config.provider # "blank" /\ config.model # Blank
    /\ config.baseUrl \in {"none", "url"}

(* The answer of the server: not reached or an HTTP error, JSON of another *)
(* shape than a list of models, or the list.  A blank string in it is kept *)
(* as a name.                                                              *)
ExtractModelIds(answer) ==
    IF answer.shape = "list"
    THEN ItemsAt(answer.items, {i \in DOMAIN answer.items : answer.items[i] # NoName})
    ELSE << >>

\* A mutant of ResolveModelName.
FallsBackToFirst(answer) ==
    LET ids      == ExtractModelIds(answer)
        instruct == ItemsAt(ids, {i \in DOMAIN ids : ids[i] \in Instruct})
    IN  CASE answer.shape = "error" \/ ids = << >>     -> {}
          [] Len(ids) = 1 \/ instruct = << >>          -> {Head(ids)}
          [] OTHER                                     -> {Head(instruct)}

ResolveModelName(answer) ==
    LET ids      == ExtractModelIds(answer)
        instruct == ItemsAt(ids, {i \in DOMAIN ids : ids[i] \in Instruct})
    IN  CASE answer.shape = "error"                    -> {}
          [] Len(ids) = 1                              -> {Head(ids)}
          [] Len(ids) > 1 /\ instruct # << >>          -> {Head(instruct)}
          [] OTHER                                     -> {}

BuildModel(config, answer) ==
    IF config.baseUrl = "url" /\ config.provider = "openai" /\ config.model \in Generic
    THEN ResolveModelName(answer)
    ELSE {config.model}

=============================================================================
