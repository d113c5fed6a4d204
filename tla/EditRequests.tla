---------------------------- MODULE EditRequests ----------------------------
(***************************************************************************)
(* From a request to what it does to the vault: the service starts with a  *)
(* model it could find, an apply request is validated and becomes a job    *)
(* with a policy, and the run's tools are checked against the policy; the  *)
(* vault routes resolve a path or a URL and answer with the file's URL.    *)
(*                                                                         *)
(* Requests that are refused change nothing.  The queue runs one job at a  *)
(* time (JobQueue), so there is one run; how a run ends and commits is in  *)
(* VaultEdits.  The vault is external: it takes a path that is relative    *)
(* and stays inside.  The tools hand it the path as the model wrote it,    *)
(* and whether it strips blanks is its own affair.                         *)
(***************************************************************************)
EXTENDS ToolPolicy, ModelChoice, FiniteSets

CONSTANTS Texts,    \* paths in apply requests and tool calls
          Paths,    \* paths in requests to the vault routes
          Urls,     \* URLs in requests to the vault routes
          Sites,    \* values of site_base_url and flat_urls
          Answers   \* answers of the model server

ASSUME RequestsAssumption ==
    /\ Texts \cup Paths \subseteq Seq(Parts)
    /\ Urls \subseteq [host: {"none", "site", "other"}, path: Seq(Parts)]
    /\ Sites \subseteq [flat: BOOLEAN, prefix: Seq(Parts)]
    /\ Answers \subseteq [shape: {"error", "other", "list"},
                         items: Seq(Names \cup {NoName})]

VARIABLES
    server,   \* "building" the agent, "built", "serving", "failed"
    config,   \* AgentConfig, without the site
    answer,   \* what the model server answered
    model,    \* the model the agent asks: none or one
    site,     \* config.site_base_url and config.flat_urls
    link,     \* a file and the URL last answered for it
    run,      \* the run and its policy
    edited,   \* paths its editing tools wrote to, as they gave them to the vault
    created,  \* it created a page from a template
    synced    \* it called a tool that talks to the remote

bootVars == <<server, config, answer, model>>
runVars  == <<run, edited, created, synced>>
vars == <<bootVars, site, link, runVars>>

Configs == [vaultDir: {"directory", "file", "missing"},
            provider: {"openai", "other", "blank"},
            model: Names,
            baseUrl: {"none", "url", "invalid"}]

NoConfig == [vaultDir |-> "missing", provider |-> "blank", model |-> Blank, baseUrl |-> "none"]
NoAnswer == [shape |-> "error", items |-> << >>]
NoLink   == [file |-> Missing, url |-> NoUrl]
NoRun    == [interface |-> "none", scope |-> NoScope, current |-> Missing, tools |-> {},
             paths |-> {}]

Scopes == [kind: ScopeKinds, path: Texts, wellFormed: BOOLEAN,
           nested: {{}} \cup {{text} : text \in Texts}]

Payloads == [interface: Interfaces \cup {"none", "unknown"},
             instruction: BOOLEAN,
             scope: Scopes \cup {NoScope},
             current: Texts \cup {Missing}]

(* Those that reach the handler.                                           *)
Requests == {payload \in Payloads : IsApplyRequest(payload)}

Files == {Normalized(text) : text \in {t \in Texts : IsVaultPath(t)}}

(* What the vault routes' requests resolve to.                             *)
LinkFiles == UNION {ResolvePathOrUrl(path, url) :
                        path \in Paths \cup {Missing}, url \in Urls \cup {NoUrl}}

RequestsTypeOK ==
    /\ server \in {"building", "built", "serving", "failed"}
    /\ config \in Configs
    /\ answer \in Answers \cup {NoAnswer}
    /\ model \subseteq Names /\ Cardinality(model) <= 1
    /\ site \in Sites
    /\ link.file \in LinkFiles \cup {Missing}
    /\ run.interface \in Interfaces \cup {"none"}
    /\ run.tools \subseteq CommandTools
    /\ run.current \in {Unpadded(text) : text \in Texts} \cup Files \cup {Missing}
    /\ run.paths \subseteq Files
    /\ edited \subseteq Texts /\ created \in BOOLEAN
    /\ synced \in BOOLEAN

Init ==
    /\ server = "building"
    /\ config \in {c \in Configs : IsAgentConfig(c)}
    /\ site \in Sites
    /\ answer = NoAnswer
    /\ model = {}
    /\ link = NoLink
    /\ run = NoRun
    /\ edited = {} /\ created = FALSE /\ synced = FALSE

-----------------------------------------------------------------------------
(* Agent.__init__ chooses the model; when it raises, the service stops.    *)
BuildAgent(a) ==
    /\ server = "building"
    /\ answer' = a
    /\ model' = BuildModel(config, a)
    /\ server' = IF model' = {} THEN "failed" ELSE "built"
    /\ UNCHANGED <<config, site, link, runVars>>

(* The lifespan goes on to serve.  The model and what it was chosen from   *)
(* are not looked at again, and leave the state.                           *)
Serve ==
    /\ server = "built"
    /\ server' = "serving"
    /\ config' = NoConfig /\ answer' = NoAnswer /\ model' = {}
    /\ UNCHANGED <<site, link, runVars>>

-----------------------------------------------------------------------------
(* The job that handle_apply and submit_job make of an apply request.      *)
JobRequest(payload) ==
    LET interface == IF payload.interface = "none" THEN "command" ELSE payload.interface
        scope     == Validated(payload.scope)
    IN  [interface |-> interface,
         scope     |-> scope,
         current   |-> IF payload.current = Missing THEN scope.path ELSE Unpadded(payload.current),
         tools     |-> AllowedToolNames(interface, scope),
         paths     |-> AllowedWritePaths(scope)]

Apply(payload) ==
    /\ server = "serving" /\ run = NoRun
    /\ payload.instruction
    /\ payload.interface # "unknown"
    /\ run' = JobRequest(payload)
    /\ UNCHANGED <<bootVars, site, link, edited, created, synced>>

MayUse(tools) == {tool \in tools : ToolAllowed(run, tool)} # {}

(* An editing tool that succeeds.  The policy looks at the path freed of   *)
(* blanks and normalised; the vault and changed_files get it as it is.     *)
EditWith(path) ==
    /\ run # NoRun
    /\ MayUse(EditingTools) /\ PathAllowed(run, path)
    /\ StaysInside(path) \/ IsVaultPath(path)
    /\ edited' = edited \cup {path}
    /\ UNCHANGED <<bootVars, site, link, run, created, synced>>

(* create_from_template: the template chooses the page; there is no check  *)
(* of its path.                                                            *)
CreateFromTemplate ==
    /\ run # NoRun
    /\ MayUse({"create_from_template"})
    /\ created' = TRUE
    /\ UNCHANGED <<bootVars, site, link, run, edited, synced>>

Sync ==
    /\ run # NoRun
    /\ MayUse(SyncingTools)
    /\ synced' = TRUE
    /\ UNCHANGED <<bootVars, site, link, run, edited, created>>

EndRun ==
    /\ run # NoRun
    /\ run' = NoRun
    /\ edited' = {} /\ created' = FALSE /\ synced' = FALSE
    /\ UNCHANGED <<bootVars, site, link>>

-----------------------------------------------------------------------------
(* A vault route that answers with the URL of the file it resolved, whose  *)
(* path is normalised once more.                                           *)
AnswerUrl(file) ==
    /\ server = "serving"
    /\ IsVaultPath(file)
    /\ link' = [file |-> file, url |-> VaultPathToUrl(file, site)]
    /\ UNCHANGED <<bootVars, site, runVars>>

Run ==
    \/ \E path \in Texts : EditWith(path)
    \/ CreateFromTemplate
    \/ Sync
    \/ EndRun

Next ==
    \/ \E a \in Answers : BuildAgent(a)
    \/ Serve
    \/ \E payload \in Requests : Apply(payload)
    \/ Run
    \/ \E file \in LinkFiles : AnswerUrl(file)

Spec == Init /\ [][Next]_vars

-----------------------------------------------------------------------------
(* Properties.                                                             *)

(* Every path a run with a scope writes to is a spelling of the path of    *)
(* its scope: freed of surrounding blanks and normalised, it is the same.  *)
(* The vault gets it with its blanks, so this says nothing of a vault that *)
(* keeps them apart; and it leaves out a scope whose normalised path       *)
(* begins with blanks, which stands for another file each time it is       *)
(* normalised.  The run may create a page from a template elsewhere, but   *)
(* not from the web interface when it is about a part of a file, and a run *)
(* from there never reaches the remote (tools.py 42-58, 79, forge_web.py   *)
(* 20-33).                                                                 *)
ScopedRunKeepsToItsFile ==
    /\ run.scope # NoScope /\ ~StartsWithBlanks(run.scope.path) =>
          \A path \in edited : NormalizeVaultPath(path) = {run.scope.path}
    /\ run.interface = "forge_web" =>
          ~synced /\ (run.scope.kind \in {"heading", "block", "selection"} => ~created)

(* The file that the prompt names as the current one is a file the run may *)
(* write: two validators, the default of current_file and the policy       *)
(* agree, whichever of the fields the client sent.  A name that begins     *)
(* with blanks may turn out not to be a path of the vault without them     *)
(* (models.py 54, 73, 87-92, agent_routes.py 51-53).                       *)
PromptFileIsWritable ==
    run.current # Missing =>
        /\ PathAllowed(run, run.current)
        /\ StartsWithBlanks(run.current) \/ IsVaultPath(run.current)

(* A page whose URL can lead back: its name ends in ".md" once, has a      *)
(* stem, and does not begin with blanks; and as URLs are not quoted, it    *)
(* has no "?" or "#" anywhere and, where its name ends the URL, no ";".    *)
HasLastingUrl(file) ==
    /\ Last(file).md = 1 /\ Last(file).stem # ""
    /\ ~StartsWithBlanks(file)
    /\ \A i \in DOMAIN file : file[i].stem \notin DOMAIN BeforeMark
    /\ site.flat => Last(file).stem \notin DOMAIN BeforeSemicolon

(* The URL answered for such a page leads back to that page, whether it    *)
(* was asked for by a path or by a URL, for a site without a path of its   *)
(* own (web_paths.py 30-90).  The URLs of other names lead elsewhere: that *)
(* of "a#b.md" to "a.md".                                                  *)
AnsweredUrlLeadsBack ==
    link # NoLink /\ site.prefix = << >> /\ HasLastingUrl(link.file)
    => ResolvePathOrUrl(Missing, link.url) = {link.file}

(* The service starts exactly when there is a model to ask, and never with *)
(* a generic name sent to a server of models: then it asks the only one    *)
(* the server offers, a blank one too, or one of several that says         *)
(* "instruct" (agent.py 54-140).                                           *)
AsksAnOfferedModel ==
    server \in {"built", "failed"} =>
        IF config.baseUrl = "url" /\ config.provider = "openai" /\ config.model \in Generic
        THEN LET offered == {answer.items[i] : i \in DOMAIN answer.items} \ {NoName}
                 fit     == {m \in offered : m \in Instruct}
                 single  == Cardinality({i \in DOMAIN answer.items : answer.items[i] # NoName}) = 1
             IN  IF answer.shape # "list" THEN model = {}
                 ELSE IF single THEN model = offered
                 ELSE model \subseteq fit /\ (model = {} <=> fit = {})
        ELSE model = {config.model}

=============================================================================
