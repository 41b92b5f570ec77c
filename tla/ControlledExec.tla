----------------------------- MODULE ControlledExec -----------------------------
(***************************************************************************)
(* The tools that execute something: shell.run_command, the presets of     *)
(* tools/workspace.py, process.start_dev_server, process.stop_managed and, *)
(* as "ui", the tools that click and type (what they do with the window is *)
(* in UiTools).  All follow one order: read the workspace's profile,       *)
(* prepare the command, match the deny rules, ask for an approval or       *)
(* consume one, and execute.  Calls run in threads of their own; the       *)
(* operator, who selects profiles and grants approvals, workspace.register *)
(* and the files of the workspace change what a call has read while it     *)
(* goes on.  The approvals are used through their contract, which          *)
(* Approvals implements.                                                   *)
(***************************************************************************)
EXTENDS Naturals

CONSTANTS Ids,         \* the approval ids
          Calls,       \* the tool calls in progress
          Workspaces,
          Args,        \* the tool's other arguments: the command, the filter
          Denied,      \* the arguments that make a command a deny rule matches
          Projects,    \* the project types that have presets
          None         \* no id, no digest

ASSUME ConstantsAssumption ==
    /\ Denied \subseteq Args
    /\ None \notin Ids

VARIABLES phase, bound, usedFor,  \* the approvals
          review,    \* what the operator is asked to review
          profile,   \* the profile column of the workspace
          project,   \* what detect_project_type() finds in it
          call,      \* each call
          ran,       \* history: what was executed
          runs,      \* history: how often each approval was followed by that
          selected   \* history: the profiles the operator has selected

approvalVars == <<phase, bound, usedFor, review>>
histVars == <<ran, runs, selected>>
vars == <<approvalVars, profile, project, call, histVars>>

Profiles == {"observe", "workspace_exec", "managed_process", "interactive_ui"}
Tools == {"shell", "preset", "start", "stop", "ui"}

(* check(): every other profile is denied. *)
Needs == [shell |-> "workspace_exec", preset |-> "workspace_exec",
          start |-> "managed_process", stop |-> "managed_process",
          ui |-> "interactive_ui"]

(* The tools whose command goes through RuleEngine.match(). *)
Ruled == {"shell", "start"}

Commands == [args : Args \cup {None}, by : Projects \cup {None}]
NoCommand == [args |-> None, by |-> None]

Action == [tool : Tools, ws : Workspaces, profile : Profiles, args : Args]

(* digest_for(tool, args, workspace_id, profile), without approval_id. *)
MutDigest(a) == [ws |-> a.ws, profile |-> a.profile, args |-> a.args]
Digest(a) == [tool |-> a.tool, ws |-> a.ws, profile |-> a.profile, args |-> a.args]

Contract == INSTANCE OneShotApproval WITH Digests <- Action

Call == [pc : {"idle", "preparing", "approval", "spent", "running"},
         tool : Tools \cup {None}, ws : Workspaces \cup {None},
         profile : Profiles \cup {None}, args : Args \cup {None},
         id : Ids \cup {None}, command : Commands]
Idle == [pc |-> "idle", tool |-> None, ws |-> None, profile |-> None, args |-> None,
         id |-> None, command |-> NoCommand]

Executed == [id : Ids, tool : Tools, ws : Workspaces, profile : Profiles,
             args : Args, command : Commands]

NoReview == [action |-> None, command |-> NoCommand]
Review == [action : Action \cup {None}, command : Commands]

TypeOK ==
    /\ Contract!TypeOK
    /\ review \in [Ids -> Review]
    /\ profile \in [Workspaces -> Profiles]
    /\ project \in [Workspaces -> Projects]
    /\ call \in [Calls -> Call]
    /\ ran \subseteq Executed
    /\ runs \in [Ids -> Nat]
    /\ selected \in [Workspaces -> SUBSET Profiles]

Init ==
    /\ Contract!Init
    /\ review = [i \in Ids |-> NoReview]
    /\ profile = [w \in Workspaces |-> "observe"]
    /\ project \in [Workspaces -> Projects]
    /\ call = [c \in Calls |-> Idle]
    /\ ran = {}
    /\ runs = [i \in Ids |-> 0]
    /\ selected = [w \in Workspaces |-> {}]

--------------------------------------------------------------------------------
Over(c) == call' = [call EXCEPT ![c] = Idle]

(* The workspace and its profile are read, and check() allows the tool.  A *)
(* call it denies ends at once with insufficient_capability.               *)
Begin(c, tool, w, args, id) ==
    /\ call[c].pc = "idle"
    /\ profile[w] = Needs[tool]
    /\ call' = [call EXCEPT ![c] =
                   [pc |-> "preparing", tool |-> tool, ws |-> w, profile |-> profile[w],
                    args |-> args, id |-> id, command |-> NoCommand]]
    /\ UNCHANGED <<approvalVars, profile, project, histVars>>

(* A preset's command comes from the project type, any other from the      *)
(* arguments alone.                                                        *)
Resolved(tool, w, args) ==
    [args |-> args, by |-> IF tool = "preset" THEN project[w] ELSE None]

MutBlocked(tool, args) == FALSE     \* the rules are not asked
Blocked(tool, args) == tool \in Ruled /\ args \in Denied

Prepare(c) ==
    /\ call[c].pc = "preparing"
    /\ ~Blocked(call[c].tool, call[c].args)
    /\ call' = [call EXCEPT ![c] =
                   [@ EXCEPT !.pc = "approval",
                             !.command = Resolved(call[c].tool, call[c].ws, call[c].args)]]
    /\ UNCHANGED <<approvalVars, profile, project, histVars>>

(* denied_by_rule, arguments that are not valid, a window that is not      *)
(* authorized, an event without verify_with.                               *)
Refuse(c) ==
    /\ call[c].pc = "preparing"
    /\ Over(c)
    /\ UNCHANGED <<approvalVars, profile, project, histVars>>

(* Without an approval_id: request(), and approval_required with the       *)
(* preview and the id.                                                     *)
RequestApproval(c) ==
    /\ call[c].pc = "approval" /\ call[c].id = None
    /\ \E i \in Ids :
          /\ Contract!Ask(i, Digest(call[c]))
          /\ review' = [review EXCEPT ![i] =
                           [action |-> [tool |-> call[c].tool, ws |-> call[c].ws,
                                        profile |-> call[c].profile, args |-> call[c].args],
                            command |-> call[c].command]]
    /\ Over(c)
    /\ UNCHANGED <<profile, project, histVars>>

Usable(c) == phase[call[c].id] = "approved" /\ bound[call[c].id] = Digest(call[c])

MutConsume(c) ==                    \* looks, but does not spend
    /\ call[c].pc = "approval" /\ call[c].id # None
    /\ Usable(c)
    /\ call' = [call EXCEPT ![c] = [@ EXCEPT !.pc = "spent"]]
    /\ UNCHANGED <<approvalVars, profile, project, histVars>>

(* consume(), which is atomic by its contract. *)
Consume(c) ==
    /\ call[c].pc = "approval" /\ call[c].id # None
    /\ Usable(c)
    /\ Contract!Use(call[c].id)
    /\ call' = [call EXCEPT ![c] = [@ EXCEPT !.pc = "spent"]]
    /\ UNCHANGED <<review, profile, project, histVars>>

(* The id is unknown, or consume() raises. *)
NotGranted(c) ==
    /\ call[c].pc = "approval" /\ call[c].id # None
    /\ ~Usable(c)
    /\ Over(c)
    /\ UNCHANGED <<approvalVars, profile, project, histVars>>

(* run(), start_dev_server(), stop() or the events of act_and_verify(). *)
Execute(c) ==
    /\ call[c].pc = "spent"
    /\ ran' = ran \cup {[id |-> call[c].id, tool |-> call[c].tool, ws |-> call[c].ws,
                         profile |-> call[c].profile, args |-> call[c].args,
                         command |-> call[c].command]}
    /\ runs' = [runs EXCEPT ![call[c].id] = @ + 1]
    /\ call' = [call EXCEPT ![c] = [@ EXCEPT !.pc = "running"]]
    /\ UNCHANGED <<approvalVars, profile, project, selected>>

(* The approval is spent, but nothing is executed: arguments that are      *)
(* looked at too late (env, timeout_ms), a queue timeout, the limit of     *)
(* managed processes, no such program, a window revoked or an action_type  *)
(* unknown by now.                                                         *)
FailSpent(c) ==
    /\ call[c].pc = "spent"
    /\ Over(c)
    /\ UNCHANGED <<approvalVars, profile, project, histVars>>

End(c) ==
    /\ call[c].pc = "running"
    /\ Over(c)
    /\ UNCHANGED <<approvalVars, profile, project, histVars>>

(* The server dies in the middle of the call. *)
Lost(c) ==
    /\ call[c].pc # "idle"
    /\ Over(c)
    /\ UNCHANGED <<approvalVars, profile, project, histVars>>

--------------------------------------------------------------------------------
(* approve() by the operator. *)
Grant(i) ==
    /\ Contract!Grant(i)
    /\ UNCHANGED <<review, profile, project, call, histVars>>

(* Approvals expire. *)
Expire ==
    /\ Contract!Void
    /\ UNCHANGED <<review, profile, project, call, histVars>>

(* The operator selects a profile, in the database: no tool does. *)
SelectProfile(w, p) ==
    /\ profile' = [profile EXCEPT ![w] = p]
    /\ selected' = [selected EXCEPT ![w] = @ \cup {p}]
    /\ UNCHANGED <<approvalVars, project, call, ran, runs>>

MutRegister(w) ==                   \* profile taken from the arguments
    /\ \E p \in Profiles : profile' = [profile EXCEPT ![w] = p]
    /\ UNCHANGED <<approvalVars, project, call, histVars>>

(* workspace.register of a known root writes the default profile back. *)
Register(w) ==
    /\ profile' = [profile EXCEPT ![w] = "observe"]
    /\ UNCHANGED <<approvalVars, project, call, histVars>>

(* Marker files appear and disappear. *)
FilesChange(w) ==
    /\ \E t \in Projects : project' = [project EXCEPT ![w] = t]
    /\ UNCHANGED <<approvalVars, profile, call, histVars>>

Step(c) ==
    \/ \E tool \in Tools, w \in Workspaces, args \in Args, id \in Ids \cup {None} :
          Begin(c, tool, w, args, id)
    \/ Prepare(c) \/ Refuse(c) \/ RequestApproval(c) \/ Consume(c) \/ NotGranted(c)
    \/ Execute(c) \/ FailSpent(c) \/ End(c) \/ Lost(c)

Next ==
    \/ \E c \in Calls : Step(c)
    \/ \E i \in Ids : Grant(i)
    \/ Expire
    \/ \E w \in Workspaces :
          \/ \E p \in Profiles : SelectProfile(w, p)
          \/ Register(w)
          \/ FilesChange(w)

Spec == Init /\ [][Next]_vars
--------------------------------------------------------------------------------
(* An approval is followed by at most one execution, however many calls    *)
(* retry with it at once (shell.py 77-91, process.py 70-81 and 130-137,    *)
(* workspace.py 319-327, ui.py 564-582, 612-628 and 656-671).              *)
RunsOnce == \A i \in Ids : runs[i] <= 1

(* What is executed is the tool, in the workspace, under the profile and   *)
(* with the arguments that were up for review: an approval of one action   *)
(* is worth nothing to another (REQ-APR-1, digest.py 20-23).               *)
RunsAsGranted ==
    \A r \in ran :
        /\ phase[r.id] = "used"
        /\ review[r.id].action =
             [tool |-> r.tool, ws |-> r.ws, profile |-> r.profile, args |-> r.args]

(* No approval is ever spent on a command that a deny rule matches:        *)
(* "Rules run before consuming the approval" (shell.py 60-67).             *)
DeniedUnspent ==
    \A i \in Ids : phase[i] = "used" =>
        ~(review[i].action.tool \in Ruled /\ review[i].action.args \in Denied)

(* What is executed needs a profile the operator has selected for that     *)
(* very workspace: no sequence of tool calls raises a profile              *)
(* (profile.py 61-65, tools/workspace.py 80).                              *)
RunsAsSelected ==
    \A r \in ran : r.profile = Needs[r.tool] /\ r.profile \in selected[r.ws]

(* The command that runs is the one that was shown with the request: "the  *)
(* approval payload in UI MUST show the resolved command".                 *)
RunsWhatWasShown == \A r \in ran : r.command = review[r.id].command
================================================================================
