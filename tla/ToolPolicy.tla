----------------------------- MODULE ToolPolicy -----------------------------
(***************************************************************************)
(* What a job may do to the vault: the edit scopes of scope.py, the        *)
(* validation of ApplyRequest in models.py, the interface profiles, and    *)
(* the checks of tools.py.                                                 *)
(***************************************************************************)
EXTENDS WebPaths

(* A scope as the client sends it: its kind, the path it names, the paths  *)
(* of the nested scopes of a "multi", and whether its block id is not      *)
(* blank and its lines are a range from 1 up.                              *)
NoScope == [kind |-> "none", path |-> Missing, nested |-> {}, wellFormed |-> TRUE]

ScopeKinds == {"file", "heading", "block", "selection", "multi"}

IsScope(scope) ==
    /\ IsVaultPath(scope.path)
    /\ scope.kind \in {"block", "selection"} => scope.wellFormed
    /\ scope.kind = "multi" =>
          \A path \in scope.nested :
              IsVaultPath(path) /\ Normalized(path) = Normalized(scope.path)

\* A mutant of Validated.
KeepsRawPath(scope) ==
    IF scope = NoScope THEN NoScope
    ELSE [NoScope EXCEPT !.kind = scope.kind, !.path = scope.path]

(* The validators leave the normalised path in the scope.  What else it    *)
(* says goes into the prompt only.                                         *)
Validated(scope) ==
    IF scope = NoScope THEN NoScope
    ELSE [NoScope EXCEPT !.kind = scope.kind, !.path = Normalized(scope.path)]

\* A mutant of IsApplyRequest.
SkipsAlignment(payload) ==
    /\ payload.current # Missing => IsVaultPath(payload.current)
    /\ payload.scope # NoScope => IsScope(payload.scope)

(* current_file is only freed of its blanks, and must then be the same     *)
(* text.                                                                   *)
IsApplyRequest(payload) ==
    /\ payload.current # Missing => IsVaultPath(payload.current)
    /\ payload.scope # NoScope => IsScope(payload.scope)
    /\ payload.scope # NoScope /\ payload.current # Missing =>
          Validated(payload.scope).path = Unpadded(payload.current)

-----------------------------------------------------------------------------
EditingTools == {"write_file", "delete_file", "set_frontmatter", "update_frontmatter",
                 "delete_frontmatter_field", "write_heading", "write_block"}

SyncingTools == {"ensure_sync_ready", "configure_sync_remote", "sync_fetch", "sync_push",
                 "sync_now"}

ReadOnly == {"read_file", "list_files", "search_files", "get_frontmatter", "read_heading",
             "read_block", "check_sync_readiness", "sync_status"}

CommandTools == ReadOnly \cup EditingTools \cup SyncingTools \cup {"create_from_template"}

ForgeWebTools(kind) ==
    ReadOnly \cup
        CASE kind = "block"     -> {"write_block"}
          [] kind = "heading"   -> {"write_heading", "update_frontmatter"}
          [] kind = "selection" -> {"write_heading", "write_block"}
          [] OTHER              -> {"write_file", "write_heading", "write_block",
                                    "update_frontmatter", "create_from_template"}

Interfaces == {"command", "forge_web"}

AllowedToolNames(interface, scope) ==
    IF interface = "command" THEN CommandTools ELSE ForgeWebTools(scope.kind)

(* None when there is no scope, here the empty set.                        *)
AllowedWritePaths(scope) == IF scope = NoScope THEN {} ELSE {scope.path}

-----------------------------------------------------------------------------
(* The checks of the tools, against the policy of the run.                 *)

ToolAllowed(run, tool) == tool \in run.tools

NormalizeForPolicy(path) == IF IsVaultPath(path) THEN Normalized(path) ELSE path

\* A mutant of PathAllowed.
ComparesNames(run, path) ==
    \/ run.paths = {}
    \/ Last(path) \in {Last(p) : p \in run.paths}

PathAllowed(run, path) ==
    \/ run.paths = {}
    \/ NormalizeForPolicy(path) \in {NormalizeForPolicy(p) : p \in run.paths}

=============================================================================
