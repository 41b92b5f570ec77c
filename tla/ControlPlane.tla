----------------------------- MODULE ControlPlane -----------------------------
(* What the operator sets and what the agents get: POST /api/settings of one   *)
(* server writes config.json, which every process reads when it needs it; any  *)
(* process registers workspaces, by whose ids the settings name the variables  *)
(* that a command of shell.run_command may be given.                           *)
EXTENDS Naturals, FiniteSets

CONSTANTS
    Agents,             \* the processes that run tools
    Roots,              \* canonical paths of directories
    Ids,                \* the workspace ids that are ever given out
    Other,              \* a setting that is not an allowlist
    Vars,               \* names of environment variables
    Environ,            \* those that the agents' processes have themselves
    Patches,            \* what the operator posts
    Origins,            \* where the operator's pages come from
    OriginAllowlist,    \* and from where they are let in
    Missing,            \* config.json does not exist
    Torn,               \* it is opened for writing, or was left half written
    Absent              \* a key that is not there; no id; no command yet

(* A setting is a key (a path of names to a list or scalar) with its value.    *)
Keys == Ids \union {Other}
Settings == [Keys -> {Absent} \union SUBSET Vars]
Defaults == [k \in Keys |-> IF k = Other THEN {} ELSE Absent]
Nothing == [k \in Keys |-> Absent]

ASSUME ControlAssumption ==
    /\ Patches \subseteq Settings
    /\ \A x \in Settings : x # Missing /\ x # Torn
    /\ Absent \notin Ids \union Roots /\ Other \notin Ids
    /\ Environ \subseteq Vars /\ IsFiniteSet(Agents)
    /\ \A x \in SUBSET Vars : x # Absent

VARIABLES
    config,     \* the content of config.json
    save,       \* the settings_apply() in progress
    posted,     \* history: the patches saved since a save was last cut short
    granted,    \* history: by id, the variables the operator last let it have
    session,    \* the page has the CSRF cookie and token
    refused,    \* history: origins that were refused
    table,      \* the rows of workspaces, each an id and a root
    reg,        \* per agent, the root it is about to insert
    rivals,     \* history: per root, who had looked in vain when it got its first id
    ran         \* the last command: its variables, and what was due to it

settingsVars == <<config, save, posted, granted>>
pageVars == <<session, refused>>
registryVars == <<table, reg, rivals>>
vars == <<settingsVars, pageVars, registryVars, ran>>

Saving == {"idle", "open", "write"}
Environments == [Vars -> {"unset", "server", "agent"}]
Commands == [env : Environments, due : SUBSET Vars, whole : BOOLEAN]

TypeOK ==
    /\ config \in {Missing, Torn} \union Settings
    /\ save \in [at : Saving, to : Settings, patch : Settings]
    /\ posted \in Settings
    /\ granted \in [Ids -> SUBSET Vars]
    /\ session \in BOOLEAN
    /\ refused \in SUBSET Origins
    /\ table \in SUBSET (Ids \X Roots)
    /\ reg \in [Agents -> Roots \union {Absent}]
    /\ rivals \in [Roots -> SUBSET Agents]
    /\ ran \in {Absent} \union Commands

Init ==
    /\ config = Missing
    /\ save = [at |-> "idle", to |-> Nothing, patch |-> Nothing]
    /\ posted = Nothing
    /\ granted = [id \in Ids |-> {}]
    /\ session = FALSE
    /\ refused = {}
    /\ table = {}
    /\ reg = [a \in Agents |-> Absent]
    /\ rivals = [root \in Roots |-> {}]
    /\ ran = Absent

(* _merge() and _deep_merge(), over whole paths.                               *)
Merge(base, over) == [k \in Keys |-> IF over[k] = Absent THEN base[k] ELSE over[k]]

(* load_settings() never raises.                                               *)
Load == IF config \in {Missing, Torn} THEN Defaults ELSE Merge(Defaults, config)
--------------------------------------------------------------------------------
(* OriginCSRF: the origin is compared as it is, also for /api/csrf-token.      *)
Admitted(origin) == origin \in OriginAllowlist

Refuse(origin) ==
    /\ ~Admitted(origin)
    /\ refused' = refused \union {origin}
    /\ UNCHANGED <<settingsVars, session, registryVars, ran>>

CsrfToken(origin) ==
    /\ Admitted(origin)
    /\ session' = TRUE
    /\ UNCHANGED <<settingsVars, refused, registryVars, ran>>

(* settings_apply() runs on the event loop without an await: one at a time.    *)
(* The ids it names are random (uuid4): the operator has them from the table.  *)
MutMerged(patch) == Merge(Defaults, patch)
Merged(patch) == Merge(Load, patch)

SettingsApply(origin, patch) ==
    /\ save.at = "idle" /\ session /\ Admitted(origin)
    /\ \A id \in Ids : patch[id] # Absent => \E root \in Roots : <<id, root>> \in table
    /\ save' = [at |-> "open", to |-> Merged(patch), patch |-> patch]
    /\ UNCHANGED <<config, posted, granted, pageVars, registryVars, ran>>

(* write_text(): the file is truncated, then written. Either may fail, which   *)
(* is answered with a 400, and the server may end in between.                  *)
Truncate ==
    /\ save.at = "open"
    /\ config' = Torn
    /\ save' = [save EXCEPT !.at = "write"]
    /\ UNCHANGED <<posted, granted, pageVars, registryVars, ran>>

Fill ==
    /\ save.at = "write"
    /\ config' = save.to
    /\ save' = [save EXCEPT !.at = "idle"]
    /\ posted' = Merge(posted, save.patch)
    /\ granted' = [id \in Ids |-> IF save.patch[id] = Absent THEN granted[id]
                                  ELSE save.patch[id]]
    /\ UNCHANGED <<pageVars, registryVars, ran>>

CutShort ==
    /\ save.at # "idle"
    /\ save' = [save EXCEPT !.at = "idle"]
    /\ posted' = IF save.at = "write" THEN Nothing ELSE posted
    /\ UNCHANGED <<config, granted, pageVars, registryVars, ran>>
--------------------------------------------------------------------------------
(* register(): SELECT by the root; a row that is there is returned (what its   *)
(* UPDATE does is in ControlledExec), or a new one is inserted, under a new    *)
(* id. Both autocommit, and canonical_root is not UNIQUE.                      *)
Known(root) == {id \in Ids : <<id, root>> \in table}
Trying(root) == {a \in Agents : reg[a] = root}

MutRegister(a, root) ==
    /\ reg[a] = Absent
    /\ reg' = [reg EXCEPT ![a] = root]
    /\ UNCHANGED <<table, rivals, settingsVars, pageVars, ran>>
Register(a, root) ==
    /\ reg[a] = Absent /\ Known(root) = {}
    /\ reg' = [reg EXCEPT ![a] = root]
    /\ UNCHANGED <<table, rivals, settingsVars, pageVars, ran>>

Insert(a) ==
    /\ reg[a] # Absent
    /\ \E id \in Ids :
        /\ \A root \in Roots : <<id, root>> \notin table
        /\ table' = table \union {<<id, reg[a]>>}
    /\ rivals' = IF Known(reg[a]) = {}
                 THEN [rivals EXCEPT ![reg[a]] = Trying(reg[a])] ELSE rivals
    /\ reg' = [reg EXCEPT ![a] = Absent]
    /\ UNCHANGED <<settingsVars, pageVars, ran>>

(* The agent's process ends, or waits too long for the lock of the database.   *)
Abandon(a) ==
    /\ reg[a] # Absent
    /\ reg' = [reg EXCEPT ![a] = Absent]
    /\ UNCHANGED <<table, rivals, settingsVars, pageVars, ran>>

(* shell.run_command resolves the id it is called with, and _filtered_env()    *)
(* puts over the environment of its own process what the agent asks for and    *)
(* the allowlist of this id has by now; "env" may be left out.                 *)
MutAllowlist(id) == UNION {Load[x] : x \in {x \in Ids : Load[x] # Absent}}
Allowlist(id) == IF Load[id] = Absent THEN {} ELSE Load[id]

Own(x) == IF x \in Environ THEN "server" ELSE "unset"
FilteredEnv(asked, allowed) ==
    [x \in Vars |-> IF asked # Absent /\ x \in asked \intersect allowed
                    THEN "agent" ELSE Own(x)]

RunCommand(id, asked) ==
    /\ \E root \in Roots : <<id, root>> \in table
    /\ ran' = [env |-> FilteredEnv(asked, Allowlist(id)),
               due |-> IF asked = Absent THEN {} ELSE asked \intersect granted[id],
               whole |-> save.at # "write" /\ posted[id] # Absent]
    /\ UNCHANGED <<settingsVars, pageVars, registryVars>>
--------------------------------------------------------------------------------
Page ==
    \E origin \in Origins :
        \/ Refuse(origin)
        \/ CsrfToken(origin)
        \/ \E patch \in Patches : SettingsApply(origin, patch)

Agent(a) ==
    \/ \E root \in Roots : Register(a, root)
    \/ Insert(a)
    \/ Abandon(a)

Command == \E id \in Ids, asked \in {Absent} \union SUBSET Vars : RunCommand(id, asked)

Next == Page \/ Truncate \/ Fill \/ CutShort \/ Command \/ \E a \in Agents : Agent(a)

Spec == Init /\ [][Next]_vars
--------------------------------------------------------------------------------
(* Whatever is read while nothing is being written is the defaults with every  *)
(* patch that was saved, in their order, since a save was last cut short: a    *)
(* save that is refused leaves no trace, and none loses what another saved.    *)
SettingsKept == save.at # "write" => Load = Merge(Defaults, posted)

(* A directory gets at most one id for every registration that had looked for  *)
(* it in vain when its first row was inserted: registrations that begin later, *)
(* that are abandoned, or that are of other directories add none. So a         *)
(* directory registered by one process at a time has one id, and a race of n   *)
(* leaves no more than n.                                                      *)
IdsPerRival ==
    \A root \in Roots : Cardinality(Known(root)) <= Cardinality(rivals[root])

(* "Concurrent workspace.register calls on the same path must be idempotent -  *)
(* only one row, same workspace_id returned to every caller": a directory has  *)
(* one id, however many processes register it at once.                         *)
OneIdPerRoot == \A root \in Roots : \A x, y \in Known(root) : x = y

(* A command gets an agent's value for a variable only if it asks for it and   *)
(* the last save that was finished for its workspace id let this id have it:   *)
(* also while a save is being written, and after saves that were cut short.    *)
(* It gets all of these if the settings are not just being written and no save *)
(* was cut short since that one (which loses the allowlists in the file). All  *)
(* other variables of the server's process reach it as they are, whatever the  *)
(* allowlist says. A second id of the directory has a list of its own.         *)
EnvAsGranted ==
    ran # Absent => \A x \in Vars :
        /\ ran.env[x] = "agent" => x \in ran.due
        /\ x \in ran.due /\ ran.whole => ran.env[x] = "agent"
        /\ ran.env[x] # "agent" => ran.env[x] = Own(x)

(* "When a request has Origin: http://127.0.0.1:<port> then the request is     *)
(* allowed" (REQ-HTTP-3): the UI of this very server is not refused.           *)
OwnOriginServed == "http://127.0.0.1:7890" \notin refused
================================================================================
