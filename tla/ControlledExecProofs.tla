-------------------------- MODULE ControlledExecProofs --------------------------
(***************************************************************************)
(* What ControlledExec guarantees for any number of approvals, calls,      *)
(* workspaces and commands: one execution per approval, of the action that *)
(* was reviewed, never of a command the rules deny, and only under a       *)
(* profile that the operator has selected.                                 *)
(***************************************************************************)
EXTENDS ControlledExec, TLAPS

(* What a call has established when it has come to a place. *)
CallInv(c) ==
    /\ call[c].pc # "idle" =>
          /\ call[c].tool \in Tools /\ call[c].ws \in Workspaces /\ call[c].args \in Args
          /\ call[c].profile = Needs[call[c].tool]
          /\ call[c].profile \in selected[call[c].ws]
    /\ call[c].pc \in {"approval", "spent", "running"} =>
          ~Blocked(call[c].tool, call[c].args)
    /\ call[c].pc = "spent" =>
          /\ call[c].id \in Ids
          /\ phase[call[c].id] = "used"
          /\ bound[call[c].id] = Digest(call[c])
          /\ runs[call[c].id] = 0

(* An approval that is not used was not followed by an execution, and one  *)
(* that exists is bound to the action under review.                        *)
IdInv(i) ==
    /\ phase[i] # "used" => runs[i] = 0
    /\ phase[i] # "absent" =>
          /\ review[i].action \in Action
          /\ bound[i] = review[i].action
          /\ ~Blocked(review[i].action.tool, review[i].action.args)

(* No two calls have spent one approval. *)
OneHolder ==
    \A c, d \in Calls :
        call[c].pc = "spent" /\ call[d].pc = "spent" /\ call[c].id = call[d].id => c = d

ProfileInv == \A w \in Workspaces : profile[w] # "observe" => profile[w] \in selected[w]

IInv ==
    /\ TypeOK
    /\ \A c \in Calls : CallInv(c)
    /\ \A i \in Ids : IdInv(i)
    /\ OneHolder
    /\ ProfileInv
    /\ RunsOnce
    /\ RunsAsGranted
    /\ RunsAsSelected

--------------------------------------------------------------------------------
LEMMA InitIInv == Init => IInv
<1> SUFFICES ASSUME Init PROVE IInv
  OBVIOUS
<1> USE DEF Init, Contract!Init
<1>1. TypeOK
  BY DEF TypeOK, Contract!TypeOK, Contract!Phases, Review, NoReview, NoCommand, Commands,
         Call, Idle, Profiles
<1>2. \A c \in Calls : CallInv(c)
  BY DEF CallInv, Idle
<1>3. \A i \in Ids : IdInv(i)
  BY DEF IdInv
<1>4. OneHolder
  BY DEF OneHolder, Idle
<1> QED
  BY <1>1, <1>2, <1>3, <1>4 DEF IInv, ProfileInv, RunsOnce, RunsAsGranted, RunsAsSelected

(* The needed profiles are profiles other than the default. *)
LEMMA NeedsProfile ==
  ASSUME NEW t \in Tools PROVE Needs[t] \in Profiles /\ Needs[t] # "observe"
  BY DEF Tools, Needs, Profiles

(* A step that changes nothing but its own call, to a place where that     *)
(* call owes nothing new.                                                  *)
LEMMA OwnStep ==
  ASSUME IInv, NEW c \in Calls, NEW k \in Call,
         call' = [call EXCEPT ![c] = k],
         UNCHANGED <<approvalVars, profile, project, histVars>>,
         k.pc # "spent",
         CallInv(c)'
  PROVE  IInv'
<1> USE DEF IInv, approvalVars, histVars
<1>1. TypeOK'
  BY DEF TypeOK, Contract!TypeOK
<1>2. \A d \in Calls : CallInv(d)'
  <2> TAKE d \in Calls
  <2>1. CASE d = c
    BY <2>1
  <2>2. CASE d # c
    <3>1. call'[d] = call[d] /\ CallInv(d)
      BY <2>2 DEF TypeOK
    <3> QED
      BY <3>1 DEF CallInv
  <2> QED
    BY <2>1, <2>2
<1>3. \A i \in Ids : IdInv(i)'
  BY DEF IdInv
<1>4. OneHolder'
  BY DEF OneHolder, TypeOK
<1>5. ProfileInv' /\ RunsOnce' /\ RunsAsGranted' /\ RunsAsSelected'
  BY DEF ProfileInv, RunsOnce, RunsAsGranted, RunsAsSelected
<1> QED
  BY <1>1, <1>2, <1>3, <1>4, <1>5

LEMMA IdleCall == Idle \in Call /\ Idle.pc = "idle"
  BY DEF Idle, Call, Commands, NoCommand

(* The call is over: Refuse, NotGranted, FailSpent, End, Lost. *)
LEMMA OverStep ==
  ASSUME IInv, NEW c \in Calls, Over(c),
         UNCHANGED <<approvalVars, profile, project, histVars>>
  PROVE  IInv'
<1>1. call'[c] = Idle
  BY DEF Over, IInv, TypeOK
<1>2. CallInv(c)'
  BY <1>1, IdleCall DEF CallInv
<1> QED
  BY <1>2, IdleCall, OwnStep DEF Over

LEMMA BeginStep ==
  ASSUME IInv, NEW c \in Calls, NEW tool \in Tools, NEW w \in Workspaces,
         NEW args \in Args, NEW id \in Ids \cup {None}, Begin(c, tool, w, args, id)
  PROVE  IInv'
<1> DEFINE k == [pc |-> "preparing", tool |-> tool, ws |-> w, profile |-> profile[w],
                 args |-> args, id |-> id, command |-> NoCommand]
<1>1. profile[w] = Needs[tool] /\ profile[w] \in selected[w] /\ profile[w] \in Profiles
  BY NeedsProfile DEF Begin, IInv, ProfileInv, TypeOK
<1>2. k \in Call /\ k.pc = "preparing"
  BY <1>1 DEF Call, Commands, NoCommand
<1>3. call' = [call EXCEPT ![c] = k] /\ UNCHANGED <<approvalVars, profile, project, histVars>>
  BY DEF Begin
<1>4. call'[c] = k /\ selected' = selected
  BY <1>3 DEF IInv, TypeOK, histVars
<1>5. CallInv(c)'
  BY <1>1, <1>4 DEF CallInv
<1> HIDE DEF k
<1> QED
  BY <1>2, <1>3, <1>5, OwnStep

LEMMA PrepareStep ==
  ASSUME IInv, NEW c \in Calls, Prepare(c)
  PROVE  IInv'
<1> DEFINE k == [call[c] EXCEPT !.pc = "approval",
                    !.command = Resolved(call[c].tool, call[c].ws, call[c].args)]
<1>1. call[c] \in Call /\ CallInv(c) /\ call[c].pc = "preparing"
  BY DEF IInv, TypeOK, Prepare
<1>2. Resolved(call[c].tool, call[c].ws, call[c].args) \in Commands
  BY <1>1 DEF CallInv, Resolved, Commands, IInv, TypeOK
<1>3. k \in Call /\ k.pc = "approval"
  BY <1>1, <1>2 DEF Call
<1>4. call' = [call EXCEPT ![c] = k] /\ UNCHANGED <<approvalVars, profile, project, histVars>>
  BY DEF Prepare
<1>5. call'[c] = k /\ selected' = selected
  BY <1>4 DEF IInv, TypeOK, histVars
<1>6. /\ k.tool = call[c].tool /\ k.ws = call[c].ws /\ k.args = call[c].args
      /\ k.profile = call[c].profile
  BY <1>1 DEF Call
<1>7. ~Blocked(k.tool, k.args)
  BY <1>6 DEF Prepare
<1>8. CallInv(c)'
  <2> HIDE DEF k
  <2> QED
    BY <1>1, <1>3, <1>5, <1>6, <1>7 DEF CallInv
<1> HIDE DEF k
<1> QED
  BY <1>3, <1>4, <1>8, OwnStep

LEMMA RequestStep ==
  ASSUME IInv, NEW c \in Calls, RequestApproval(c)
  PROVE  IInv'
<1> DEFINE a == [tool |-> call[c].tool, ws |-> call[c].ws,
                 profile |-> call[c].profile, args |-> call[c].args]
<1>1. PICK i \in Ids :
         /\ Contract!Ask(i, Digest(call[c]))
         /\ review' = [review EXCEPT ![i] = [action |-> a, command |-> call[c].command]]
  BY DEF RequestApproval
<1>2. /\ call' = [call EXCEPT ![c] = Idle]
      /\ UNCHANGED <<profile, project, ran, runs, selected>>
      /\ call[c].pc = "approval"
  BY DEF RequestApproval, Over, histVars
<1>3. Digest(call[c]) = a
  BY DEF Digest
<1>4. a \in Action /\ ~Blocked(a.tool, a.args) /\ call[c].command \in Commands
  <2>1. CallInv(c) /\ call[c] \in Call
    BY DEF IInv, TypeOK
  <2>2. call[c].profile \in Profiles
    BY <1>2, <2>1, NeedsProfile DEF CallInv
  <2> QED
    BY <1>2, <2>1, <2>2 DEF CallInv, Action, Call
<1>5. /\ phase[i] = "absent"
      /\ phase' = [phase EXCEPT ![i] = "pending"]
      /\ bound' = [bound EXCEPT ![i] = a]
      /\ usedFor' = usedFor
  BY <1>1, <1>3 DEF Contract!Ask
<1> HIDE DEF a
<1> USE DEF IInv
<1>6. TypeOK'
  BY <1>1, <1>2, <1>4, <1>5, IdleCall
     DEF TypeOK, Contract!TypeOK, Contract!Phases, Review
<1>7. /\ phase'[i] = "pending" /\ bound'[i] = a /\ review'[i].action = a
      /\ \A j \in Ids : j # i => /\ phase'[j] = phase[j] /\ bound'[j] = bound[j]
                                 /\ review'[j] = review[j]
  BY <1>1, <1>5 DEF TypeOK, Contract!TypeOK
<1>8. \A d \in Calls : CallInv(d)'
  <2> TAKE d \in Calls
  <2>1. CASE d = c
    BY <1>2, <2>1, IdleCall DEF CallInv, TypeOK
  <2>2. CASE d # c
    <3>1. call'[d] = call[d] /\ CallInv(d)
      BY <1>2, <2>2 DEF TypeOK
    <3>2. call[d].pc = "spent" => call[d].id # i
      BY <1>5, <3>1 DEF CallInv
    <3> QED
      BY <1>2, <1>7, <3>1, <3>2 DEF CallInv
  <2> QED
    BY <2>1, <2>2
<1>9. \A j \in Ids : IdInv(j)'
  <2> TAKE j \in Ids
  <2>1. CASE j = i
    BY <1>2, <1>4, <1>5, <1>7, <2>1 DEF IdInv
  <2>2. CASE j # i
    BY <1>2, <1>7, <2>2 DEF IdInv
  <2> QED
    BY <2>1, <2>2
<1>10. OneHolder'
  BY <1>2, IdleCall DEF OneHolder, TypeOK
<1>11. RunsAsGranted'
  <2>1. \A r \in ran : r.id \in Ids /\ r.id # i
    BY <1>5 DEF RunsAsGranted, TypeOK, Executed
  <2> QED
    BY <1>2, <1>7, <2>1 DEF RunsAsGranted
<1>12. ProfileInv' /\ RunsOnce' /\ RunsAsSelected'
  BY <1>2 DEF ProfileInv, RunsOnce, RunsAsSelected
<1> QED
  BY <1>6, <1>8, <1>9, <1>10, <1>11, <1>12

LEMMA ConsumeStep ==
  ASSUME IInv, NEW c \in Calls, Consume(c)
  PROVE  IInv'
<1> DEFINE i == call[c].id
           k == [call[c] EXCEPT !.pc = "spent"]
<1>1. call[c] \in Call /\ CallInv(c) /\ call[c].pc = "approval" /\ i \in Ids
  BY DEF IInv, TypeOK, Consume, Call
<1>2. /\ phase[i] = "approved" /\ bound[i] = Digest(call[c])
      /\ phase' = [phase EXCEPT ![i] = "used"]
      /\ usedFor' = [usedFor EXCEPT ![i] = bound[i]]
      /\ call' = [call EXCEPT ![c] = k]
      /\ UNCHANGED <<bound, review, profile, project, ran, runs, selected>>
  BY DEF Consume, Usable, Contract!Use, histVars
<1>3. /\ k \in Call /\ k.pc = "spent" /\ k.id = i
      /\ k.tool = call[c].tool /\ k.ws = call[c].ws /\ k.args = call[c].args
      /\ k.profile = call[c].profile
  BY <1>1 DEF Call
<1>4. Digest(k) = Digest(call[c])
  BY <1>3 DEF Digest
<1>5. \A d \in Calls : call[d].pc = "spent" => call[d].id # i
  BY <1>2 DEF IInv, CallInv
<1> HIDE DEF k, i
<1> USE DEF IInv
<1>6. TypeOK'
  BY <1>1, <1>2, <1>3 DEF TypeOK, Contract!TypeOK, Contract!Phases
<1>7. call'[c] = k /\ phase'[i] = "used" /\ \A j \in Ids : j # i => phase'[j] = phase[j]
  BY <1>1, <1>2 DEF TypeOK, Contract!TypeOK
<1>8. \A d \in Calls : CallInv(d)'
  <2> TAKE d \in Calls
  <2>1. CASE d = c
    <3>1. runs[i] = 0
      BY <1>1, <1>2 DEF IdInv
    <3> QED
      BY <1>1, <1>2, <1>3, <1>4, <1>7, <2>1, <3>1 DEF CallInv
  <2>2. CASE d # c
    <3>1. call'[d] = call[d] /\ CallInv(d)
      BY <1>2, <2>2 DEF TypeOK
    <3> QED
      BY <1>2, <1>5, <1>7, <3>1 DEF CallInv
  <2> QED
    BY <2>1, <2>2
<1>9. \A j \in Ids : IdInv(j)'
  BY <1>1, <1>2, <1>7 DEF IdInv
<1>10. OneHolder'
  <2> SUFFICES ASSUME NEW d \in Calls, NEW e \in Calls,
                      call'[d].pc = "spent", call'[e].pc = "spent", call'[d].id = call'[e].id
               PROVE  d = e
    BY DEF OneHolder
  <2>1. \A f \in Calls : f # c => call'[f] = call[f]
    BY <1>2 DEF TypeOK
  <2> QED
    BY <1>3, <1>5, <1>7, <2>1 DEF OneHolder
<1>11. RunsAsGranted'
  <2>1. \A r \in ran : r.id \in Ids
    BY DEF TypeOK, Executed
  <2> QED
    BY <1>2, <1>7, <2>1 DEF RunsAsGranted
<1>12. ProfileInv' /\ RunsOnce' /\ RunsAsSelected'
  BY <1>2 DEF ProfileInv, RunsOnce, RunsAsSelected
<1> QED
  BY <1>6, <1>8, <1>9, <1>10, <1>11, <1>12

LEMMA ExecuteStep ==
  ASSUME IInv, NEW c \in Calls, Execute(c)
  PROVE  IInv'
<1> DEFINE i == call[c].id
           k == [call[c] EXCEPT !.pc = "running"]
           r == [id |-> i, tool |-> call[c].tool, ws |-> call[c].ws,
                 profile |-> call[c].profile, args |-> call[c].args,
                 command |-> call[c].command]
<1>1. call[c] \in Call /\ CallInv(c) /\ call[c].pc = "spent"
  BY DEF IInv, TypeOK, Execute
<1>2. /\ ran' = ran \cup {r}
      /\ runs' = [runs EXCEPT ![i] = @ + 1]
      /\ call' = [call EXCEPT ![c] = k]
      /\ UNCHANGED <<phase, bound, usedFor, review, profile, project, selected>>
  BY DEF Execute, approvalVars
<1>3. /\ i \in Ids /\ phase[i] = "used" /\ runs[i] = 0
      /\ bound[i] = Digest(call[c])
  BY <1>1 DEF CallInv
<1>4. /\ k \in Call /\ k.pc = "running"
      /\ k.tool = call[c].tool /\ k.ws = call[c].ws /\ k.args = call[c].args
      /\ k.profile = call[c].profile
  BY <1>1 DEF Call
<1>5. /\ r.id = i /\ r.profile = Needs[r.tool] /\ r.profile \in selected[r.ws]
      /\ review[i].action =
           [tool |-> r.tool, ws |-> r.ws, profile |-> r.profile, args |-> r.args]
  BY <1>1, <1>3 DEF CallInv, IInv, IdInv, Digest
<1>6. r \in Executed
  <2>1. call[c].profile \in Profiles
    BY <1>1, NeedsProfile DEF CallInv
  <2> QED
    BY <1>1, <1>3, <2>1 DEF CallInv, Call, Executed
<1>7. \A d \in Calls : d # c /\ call[d].pc = "spent" => call[d].id # i
  BY <1>1 DEF IInv, OneHolder
<1> HIDE DEF k, i, r
<1> USE DEF IInv
<1>8. TypeOK'
  BY <1>2, <1>3, <1>4, <1>6 DEF TypeOK, Contract!TypeOK
<1>9. call'[c] = k /\ runs'[i] = 1 /\ \A j \in Ids : j # i => runs'[j] = runs[j]
  BY <1>2, <1>3 DEF TypeOK
<1>10. \A d \in Calls : CallInv(d)'
  <2> TAKE d \in Calls
  <2>1. CASE d = c
    BY <1>1, <1>2, <1>4, <1>9, <2>1 DEF CallInv
  <2>2. CASE d # c
    <3>1. call'[d] = call[d] /\ CallInv(d)
      BY <1>2, <2>2 DEF TypeOK
    <3> QED
      BY <1>2, <1>7, <1>9, <2>2, <3>1 DEF CallInv
  <2> QED
    BY <2>1, <2>2
<1>11. \A j \in Ids : IdInv(j)'
  BY <1>2, <1>3, <1>9 DEF IdInv
<1>12. OneHolder'
  BY <1>2, <1>4 DEF OneHolder, TypeOK
<1>13. RunsOnce'
  BY <1>9 DEF RunsOnce
<1>14. RunsAsGranted' /\ RunsAsSelected'
  <2> SUFFICES ASSUME NEW q \in ran'
               PROVE  /\ phase[q.id] = "used"
                      /\ review[q.id].action = [tool |-> q.tool, ws |-> q.ws,
                                                profile |-> q.profile, args |-> q.args]
                      /\ q.profile = Needs[q.tool] /\ q.profile \in selected[q.ws]
    BY <1>2 DEF RunsAsGranted, RunsAsSelected
  <2>1. CASE q = r
    BY <1>3, <1>5, <2>1
  <2>2. CASE q \in ran
    BY <2>2 DEF RunsAsGranted, RunsAsSelected
  <2> QED
    BY <1>2, <2>1, <2>2
<1> QED
  BY <1>2, <1>8, <1>10, <1>11, <1>12, <1>13, <1>14 DEF ProfileInv

(* The operator grants, or time voids: a used approval stays used.         *)
LEMMA PhaseStep ==
  ASSUME IInv, (\E i \in Ids : Grant(i)) \/ Expire
  PROVE  IInv'
<1>1. /\ UNCHANGED <<bound, usedFor, review, profile, project, call, ran, runs, selected>>
      /\ phase' \in [Ids -> Contract!Phases]
      /\ \A i \in Ids : /\ phase'[i] = "used" <=> phase[i] = "used"
                        /\ phase'[i] = "absent" <=> phase[i] = "absent"
  <2> USE DEF IInv, TypeOK, Contract!TypeOK, Contract!Phases, histVars
  <2>1. CASE \E i \in Ids : Grant(i)
    BY <2>1 DEF Grant, Contract!Grant
  <2>2. CASE Expire
    BY <2>2 DEF Expire, Contract!Void
  <2> QED
    BY <2>1, <2>2
<1> USE DEF IInv
<1>2. TypeOK'
  BY <1>1 DEF TypeOK, Contract!TypeOK
<1>3. \A c \in Calls : CallInv(c)'
  BY <1>1 DEF CallInv
<1>4. \A i \in Ids : IdInv(i)'
  BY <1>1 DEF IdInv
<1>5. RunsAsGranted'
  BY <1>1 DEF RunsAsGranted, TypeOK, Executed
<1> QED
  BY <1>1, <1>2, <1>3, <1>4, <1>5 DEF OneHolder, ProfileInv, RunsOnce, RunsAsSelected

(* The profile or the files of a workspace change under the calls.         *)
LEMMA WorkspaceStep ==
  ASSUME IInv, NEW w \in Workspaces,
         (\E p \in Profiles : SelectProfile(w, p)) \/ Register(w) \/ FilesChange(w)
  PROVE  IInv'
<1> USE DEF IInv, approvalVars, histVars
<1>1. /\ UNCHANGED <<phase, bound, usedFor, review, call, ran, runs>>
      /\ profile' \in [Workspaces -> Profiles] /\ project' \in [Workspaces -> Projects]
      /\ selected' \in [Workspaces -> SUBSET Profiles]
      /\ \A v \in Workspaces : selected[v] \subseteq selected'[v]
      /\ ProfileInv'
  <2> USE DEF TypeOK, ProfileInv
  <2>1. CASE \E p \in Profiles : SelectProfile(w, p)
    BY <2>1 DEF SelectProfile
  <2>2. CASE Register(w)
    BY <2>2 DEF Register, Profiles
  <2>3. CASE FilesChange(w)
    BY <2>3 DEF FilesChange
  <2> QED
    BY <2>1, <2>2, <2>3
<1>2. TypeOK'
  BY <1>1 DEF TypeOK, Contract!TypeOK
<1>3. \A c \in Calls : CallInv(c)'
  BY <1>1 DEF CallInv
<1>4. \A i \in Ids : IdInv(i)'
  BY <1>1 DEF IdInv
<1>5. RunsAsSelected'
  BY <1>1 DEF RunsAsSelected, TypeOK, Executed
<1> QED
  BY <1>1, <1>2, <1>3, <1>4, <1>5 DEF OneHolder, RunsOnce, RunsAsGranted

LEMMA StutterStep ==
  ASSUME IInv, UNCHANGED vars PROVE IInv'
<1> USE DEF IInv, vars, approvalVars, histVars
<1>1. TypeOK' /\ \A c \in Calls : CallInv(c)'
  BY DEF TypeOK, Contract!TypeOK, CallInv
<1>2. \A i \in Ids : IdInv(i)'
  BY DEF IdInv
<1> QED
  BY <1>1, <1>2 DEF OneHolder, ProfileInv, RunsOnce, RunsAsGranted, RunsAsSelected

(* The invariant is inductive: one case for each action of Next. *)
LEMMA IInvStep == IInv /\ [Next]_vars => IInv'
<1> SUFFICES ASSUME IInv, [Next]_vars PROVE IInv'
  OBVIOUS
<1>1. ASSUME NEW c \in Calls, Step(c) PROVE IInv'
  <2>1. CASE \E tool \in Tools, w \in Workspaces, args \in Args, id \in Ids \cup {None} :
                Begin(c, tool, w, args, id)
    BY <2>1, BeginStep
  <2>2. CASE Prepare(c)
    BY <2>2, PrepareStep
  <2>3. CASE RequestApproval(c)
    BY <2>3, RequestStep
  <2>4. CASE Consume(c)
    BY <2>4, ConsumeStep
  <2>5. CASE Execute(c)
    BY <2>5, ExecuteStep
  <2>6. CASE Refuse(c) \/ NotGranted(c) \/ FailSpent(c) \/ End(c) \/ Lost(c)
    BY <2>6, OverStep DEF Refuse, NotGranted, FailSpent, End, Lost
  <2> QED
    BY <1>1, <2>1, <2>2, <2>3, <2>4, <2>5, <2>6 DEF Step
<1>2. CASE (\E i \in Ids : Grant(i)) \/ Expire
  BY <1>2, PhaseStep
<1>3. ASSUME NEW w \in Workspaces,
             (\E p \in Profiles : SelectProfile(w, p)) \/ Register(w) \/ FilesChange(w)
      PROVE  IInv'
  BY <1>3, WorkspaceStep
<1>4. CASE UNCHANGED vars
  BY <1>4, StutterStep
<1> QED
  BY <1>1, <1>2, <1>3, <1>4 DEF Next

LEMMA Invariance == Spec => []IInv
<1>1. Init => IInv
  BY InitIInv
<1>2. IInv /\ [Next]_vars => IInv'
  BY IInvStep
<1> QED
  BY <1>1, <1>2, PTL DEF Spec

--------------------------------------------------------------------------------
(* The variables keep their types.                                         *)
THEOREM ExecTyped == Spec => []TypeOK
<1>1. IInv => TypeOK
  BY DEF IInv
<1> QED
  BY <1>1, Invariance, PTL

(* However many calls retry with an approval at once, and wherever they    *)
(* die, one of them at most executes (shell.py 77-91 and its siblings).    *)
THEOREM OneRunPerApproval == Spec => []RunsOnce
<1>1. IInv => RunsOnce
  BY DEF IInv
<1> QED
  BY <1>1, Invariance, PTL

(* What is executed is what was reviewed: tool, workspace, profile and     *)
(* arguments, although profiles and files change in between.               *)
THEOREM RunIsTheGrantedAction == Spec => []RunsAsGranted
<1>1. IInv => RunsAsGranted
  BY DEF IInv
<1> QED
  BY <1>1, Invariance, PTL

(* No approval is spent on a command that the deny rules match.            *)
THEOREM NothingSpentOnDenied == Spec => []DeniedUnspent
<1>1. IInv => DeniedUnspent
  BY DEF IInv, IdInv, DeniedUnspent, Blocked
<1> QED
  BY <1>1, Invariance, PTL

(* No sequence of tool calls executes under a profile that the operator    *)
(* has not selected for the workspace.                                     *)
THEOREM RunNeedsOperator == Spec => []RunsAsSelected
<1>1. IInv => RunsAsSelected
  BY DEF IInv
<1> QED
  BY <1>1, Invariance, PTL
================================================================================
