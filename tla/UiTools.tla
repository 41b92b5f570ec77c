-------------------------------- MODULE UiTools --------------------------------
(* The ui.* tools and ocr.* on a window (tools/ui.py, ui/act_and_verify.py,    *)
(* ui/actions.py, ui/verify.py, ui/screens.py) on Windows: several calls at    *)
(* once, each a thread, look at windows and drive them while authorizations    *)
(* come, expire and are revoked, screenshots are limited, and captures and     *)
(* artifacts fail.                                                             *)
EXTENDS AuthorizedWindows, ScreenshotLimit, WindowCapture, ArtifactStore

CONSTANT Requests   \* by call, what an agent may ask for

(* A predicate is about a row (uia, ocr) or a window handle (screenshot).      *)
Looks == {"tree", "ocr"}
Shots == {"window", "file", "full"}
Acts == {"click", "type", "act", "odd"}
Predicate == [row : Rows \union {NoRow}, hwnd : Handles]

(* verify: verify_with is given; preds: what _build_predicates() makes of it.  *)
(* chars: the input events of the action. odd: act with an unknown action.     *)
Request == [tool : Looks \union Shots \union Acts, row : Rows \union {NoRow},
            verify : BOOLEAN, preds : Seq(Predicate), chars : Nat \ {0}]

ASSUME RequestsAssumption == Requests \in [Calls -> SUBSET Request]

VARIABLES
    pc,         \* per call, what it does next
    req,        \* the request
    since,      \* history: rows that were valid at some time since the call
                \*   began or, of an action, since its approval was consumed
    sent,       \* the input events sent
    failed,     \* the action has an error
    checked,    \* the predicates that passed
    stamp,      \* the clock as the limiter will count it
    reply       \* the answer

callVars == <<pc, req, since, sent, failed, checked, stamp, reply>>
vars == <<windowVars, limitVars, captureVars, storeVars, callVars>>

Stages == {"idle", "require", "again", "look", "admit", "approve", "begin", "act",
           "input", "verify", "ask", "count", "grab", "release", "store",
           "protect", "insert", "compare"}
Replies == {"none", "ok", "handle", "passed", "failed", "error"}
Key(kind, id) == <<kind, id>>
LimitKeys == {"window", "file", "full", "verify"} \X (Rows \union {NoRow} \union Handles)

ASSUME ComposedAssumption == Keys = LimitKeys /\ Writers = Calls

UiTypeOK ==
    /\ pc \in [Calls -> Stages]
    /\ req \in [Calls -> Request]
    /\ since \in [Calls -> SUBSET Rows]
    /\ sent \in [Calls -> Nat]
    /\ failed \in [Calls -> BOOLEAN]
    /\ checked \in [Calls -> Nat]
    /\ stamp \in [Calls -> Nat]
    /\ reply \in [Calls -> Replies]

TypeOK == WindowsTypeOK /\ LimitTypeOK /\ CaptureTypeOK /\ StoreTypeOK /\ UiTypeOK

Init ==
    /\ WindowsInit /\ LimitInit /\ CaptureInit /\ StoreInit
    /\ pc = [c \in Calls |-> "idle"]
    /\ req \in {q \in [Calls -> UNION {Requests[c] : c \in Calls}] :
                \A c \in Calls : q[c] \in Requests[c]}
    /\ since = [c \in Calls |-> {}]
    /\ sent = [c \in Calls |-> 0]
    /\ failed = [c \in Calls |-> FALSE]
    /\ checked = [c \in Calls |-> 0]
    /\ stamp = [c \in Calls |-> 0]
    /\ reply = [c \in Calls |-> "none"]

Goto(c, stage) == pc' = [pc EXCEPT ![c] = stage] /\ UNCHANGED <<since, reply>>
Answer(c, text) ==
    /\ pc' = [pc EXCEPT ![c] = "idle"]
    /\ since' = [since EXCEPT ![c] = {}]
    /\ reply' = [reply EXCEPT ![c] = text]

(* Rows that the table holds, that nobody revoked, and whose time is not over. *)
Valid == {r \in Rows : rows[r] # NoRow /\ rows[r].revoked = FALSE /\ now < rows[r].expires}

Call(c) ==
    /\ pc[c] = "idle"
    /\ \E q \in Requests[c] :
        /\ req' = [req EXCEPT ![c] = q]
        /\ pc' = [pc EXCEPT ![c] =
                    IF q.tool \in Acts THEN "admit"
                    ELSE IF q.tool = "ocr" THEN "again"
                    ELSE IF q.row = NoRow /\ q.tool \in Shots THEN "ask" ELSE "require"]
    /\ reply' = [reply EXCEPT ![c] = "none"]
    /\ since' = [since EXCEPT ![c] = Valid]
    /\ sent' = [sent EXCEPT ![c] = 0]
    /\ failed' = [failed EXCEPT ![c] = FALSE]
    /\ checked' = [checked EXCEPT ![c] = 0]
    /\ stamp' = [stamp EXCEPT ![c] = 0]
    /\ NewArtifact(c)
    /\ UNCHANGED <<windowVars, limitVars, captureVars>>

Elsewhere == UNCHANGED <<windowVars, limitVars, captureVars, storeVars>>
SameCall == UNCHANGED <<req, sent, failed, checked, stamp>>
--------------------------------------------------------------------------------
(* Tools that look at a window ask for its row twice: in _require_window(),    *)
(* then for its handle. ocr.* asks once.                                       *)
Require(c) ==
    /\ pc[c] = "require"
    /\ IF Lookup(req[c].row) THEN Goto(c, "again") ELSE Answer(c, "error")
    /\ SameCall /\ Elsewhere

Again(c) ==
    /\ pc[c] = "again"
    /\ IF Lookup(req[c].row)
       THEN Goto(c, IF req[c].tool = "tree" THEN "look"
                    ELSE IF req[c].tool = "ocr" THEN "grab" ELSE "ask")
       ELSE Answer(c, "error")
    /\ SameCall /\ Elsewhere

(* A tree of more than 500 nodes becomes an artifact.                          *)
Look(c) ==
    /\ pc[c] = "look"
    /\ Goto(c, "store") \/ \E text \in {"ok", "error"} : Answer(c, text)
    /\ SameCall /\ Elsewhere
--------------------------------------------------------------------------------
(* The acting tools: the profile must allow it; click and type want the row    *)
(* and verify_with now, act_and_verify wants neither.                          *)
Admit(c) ==
    /\ pc[c] = "admit"
    /\ \/ Answer(c, "error")
       \/ /\ req[c].tool \in {"click", "type"} => Lookup(req[c].row) /\ req[c].verify
          /\ Goto(c, "approve")
    /\ SameCall /\ Elsewhere

(* consume() of policy/approval.py accepts the approval, once, or raises.      *)
Approve(c) ==
    /\ pc[c] = "approve"
    /\ \/ Answer(c, "error")
       \/ /\ pc' = [pc EXCEPT ![c] = "begin"]
          /\ since' = [since EXCEPT ![c] = Valid]
          /\ UNCHANGED reply
    /\ SameCall /\ Elsewhere

(* act_and_verify(): its errors have no "passed".                              *)
Begin(c) ==
    /\ pc[c] = "begin"
    /\ IF Lookup(req[c].row) /\ req[c].tool # "odd"
       THEN Goto(c, "act") ELSE Answer(c, "failed")
    /\ SameCall /\ Elsewhere

(* click() and type_text() look the row up for themselves, once. An error of   *)
(* theirs does not keep the predicates from being checked.                     *)
ActionFails(c) ==
    /\ failed' = [failed EXCEPT ![c] = TRUE]
    /\ Goto(c, "verify")
    /\ UNCHANGED <<req, sent, checked, stamp>>

Act(c) ==
    /\ pc[c] = "act"
    /\ IF Lookup(req[c].row) THEN Goto(c, "input") /\ SameCall ELSE ActionFails(c)
    /\ Elsewhere

(* One event: the click, or the WM_CHAR of one character. The row is not       *)
(* looked at again; the window may be gone, or a call of Windows raise.        *)
Input(c) ==
    /\ pc[c] = "input"
    /\ \/ /\ sent' = [sent EXCEPT ![c] = @ + 1]
          /\ Goto(c, IF sent[c] + 1 = req[c].chars THEN "verify" ELSE "input")
          /\ UNCHANGED <<req, failed, checked, stamp>>
       \/ ActionFails(c)
    /\ Elsewhere

(* verify(): the predicates in their order, up to the first that fails. One    *)
(* about a row finds nothing when the row is not valid any more.               *)
AllPassed(c) == checked[c] = Len(req[c].preds)
Pred(c) == req[c].preds[checked[c] + 1]
MutVerdict(c) == IF AllPassed(c) THEN "passed" ELSE "failed"
Verdict(c) == IF AllPassed(c) /\ ~failed[c] THEN "passed" ELSE "failed"

Passes(c) ==
    /\ checked' = [checked EXCEPT ![c] = @ + 1]
    /\ Goto(c, "verify")
    /\ UNCHANGED <<req, sent, failed, stamp>>

Verify(c) ==
    /\ pc[c] = "verify"
    /\ \/ AllPassed(c) /\ Answer(c, Verdict(c)) /\ SameCall
       \/ ~AllPassed(c) /\ Pred(c).row = NoRow /\ Goto(c, "ask") /\ SameCall
       \/ /\ ~AllPassed(c) /\ Pred(c).row # NoRow
          /\ \/ Lookup(Pred(c).row) /\ Passes(c)
             \/ Answer(c, Verdict(c)) /\ SameCall
    /\ Elsewhere

(* The screenshot predicate compares its capture with the reference.           *)
Compare(c) ==
    /\ pc[c] = "compare"
    /\ Passes(c) \/ (Answer(c, "failed") /\ SameCall)
    /\ Elsewhere
--------------------------------------------------------------------------------
(* capture(), capture_to_file() and the capture of ocr.*.                      *)
LimitKey(c) ==
    IF req[c].tool \in Acts THEN Key("verify", Pred(c).hwnd)
    ELSE Key(req[c].tool, req[c].row)

Ask(c) ==
    /\ pc[c] = "ask"
    /\ stamp' = [stamp EXCEPT ![c] = now]
    /\ Goto(c, "count")
    /\ UNCHANGED <<req, sent, failed, checked>>
    /\ Elsewhere

Refused(c) == Answer(c, IF req[c].tool \in Acts THEN "failed" ELSE "error")

Count(c) ==
    /\ pc[c] = "count"
    /\ CheckLimit(LimitKey(c), stamp[c], now)
    /\ IF Allowed(LimitKey(c), stamp[c]) THEN Goto(c, "grab") ELSE Refused(c)
    /\ stamp' = [stamp EXCEPT ![c] = 0]
    /\ UNCHANGED <<req, sent, failed, checked>>
    /\ UNCHANGED <<windowVars, captureVars, storeVars>>

(* A window is printed through GDI; the desktop is grabbed by PIL.             *)
OnWindow(c) == req[c].row # NoRow \/ req[c].tool \in Acts
Grab(c) ==
    /\ pc[c] = "grab"
    /\ IF OnWindow(c) THEN Acquire(c) ELSE UNCHANGED gdi
    /\ Goto(c, "release")
    /\ SameCall
    /\ UNCHANGED <<windowVars, limitVars, storeVars>>

(* No picture after all, or one: printed, or grabbed from the window's place   *)
(* where it was not; ocr.* takes only what was printed. A tool other than a    *)
(* screenshot to an artifact is done.                                          *)
ReleaseAll(c) ==
    /\ pc[c] = "release"
    /\ Release(c)
    /\ \/ Refused(c)
       \/ req[c].tool = "file" /\ Answer(c, "ok")
       \/ req[c].tool = "ocr" /\ Printable(c) /\ Answer(c, "ok")
       \/ req[c].tool \notin {"file", "ocr"} /\ Goto(c, "store")
    /\ SameCall
    /\ UNCHANGED <<windowVars, limitVars, storeVars>>

(* artifacts.write(), whose every exception capture() turns into an error.     *)
KeepsRest == UNCHANGED <<windowVars, limitVars, captureVars>>

Store(c) ==
    /\ pc[c] = "store"
    /\ \/ PutFile(c) /\ Goto(c, "protect")
       \/ Refused(c) /\ UNCHANGED storeVars
    /\ SameCall /\ KeepsRest

MutRestrictAcl(c) ==
    /\ pc[c] = "protect"
    /\ \/ Protect(c) /\ Goto(c, "insert")
       \/ ProtectFails(c) /\ Goto(c, "insert")
       \/ ProtectMissing(c) /\ Refused(c)
    /\ SameCall /\ KeepsRest
RestrictAcl(c) ==
    /\ pc[c] = "protect"
    /\ \/ Protect(c) /\ Goto(c, "insert")
       \/ ProtectFails(c) /\ Refused(c)
       \/ ProtectMissing(c) /\ Refused(c)
    /\ SameCall /\ KeepsRest

Insert(c) ==
    /\ pc[c] = "insert"
    /\ \/ PutRow(c) /\ IF req[c].tool \in Acts THEN Goto(c, "compare") ELSE Answer(c, "handle")
       \/ Refused(c) /\ UNCHANGED storeVars
    /\ SameCall /\ KeepsRest
--------------------------------------------------------------------------------
Step(c) ==
    \/ Call(c)
    \/ Require(c) \/ Again(c) \/ Look(c)
    \/ Admit(c) \/ Approve(c) \/ Begin(c) \/ Act(c) \/ Input(c) \/ Verify(c) \/ Compare(c)
    \/ Ask(c) \/ Count(c) \/ Grab(c) \/ ReleaseAll(c)
    \/ Store(c) \/ RestrictAcl(c) \/ Insert(c)

(* ui.authorize_window, ui.revoke_window, their endpoints, and the clock. The  *)
(* history notes rows that become valid.                                       *)
Environment ==
    /\ \/ \E r \in Rows :
            \/ /\ Authorize(r)
               /\ since' = [c \in Calls |-> since[c] \union {r}]
               /\ UNCHANGED limitVars
            \/ Revoke(r) /\ UNCHANGED <<since, limitVars>>
       \/ Tick /\ Forget(now + 1) /\ UNCHANGED since
    /\ UNCHANGED <<captureVars, storeVars, pc, req, sent, failed, checked, stamp, reply>>

Next == Environment \/ \E c \in Calls : Step(c)

Spec == Init /\ [][Next]_vars
--------------------------------------------------------------------------------
(* The stages in which a call touches the window of its row.                   *)
Touching(c) ==
    \/ pc[c] \in {"look", "input"}
    \/ pc[c] \in {"ask", "count", "grab"} /\ req[c].row # NoRow /\ req[c].tool \notin Acts

(* A window is driven only under a row that was valid at some time after the   *)
(* approval of that call was consumed, and looked at only under one that was   *)
(* valid after the call began: neither a row that was revoked while the call   *)
(* waited for its approval nor one that expired before it is ever used.        *)
UseAuthorized == \A c \in Calls : Touching(c) => req[c].row \in since[c]

(* ok: true of an acting tool means that every event was sent and that then    *)
(* every predicate passed, whatever failed on the way.                         *)
PassedIsEarned ==
    \A c \in Calls : reply[c] = "passed" /\ pc[c] = "idle" =>
        sent[c] = req[c].chars /\ checked[c] = Len(req[c].preds)

(* A handle that is given out leads to a row and a whole file that only the    *)
(* user can read, whatever step of the write of this or another call fails.    *)
HandleLeadsToImage ==
    \A c \in Calls : reply[c] = "handle" /\ pc[c] = "idle" => entry[c] /\ file[c] = "private"

(* Every GDI object is given back, from wherever the capture was left.         *)
GdiReturned == \A c \in Calls : pc[c] # "release" => gdi[c] = {}

(* "Don't leave a 0644 file behind": a write that fails leaves no file that    *)
(* others can read.                                                            *)
LeavesNoOpenFile == \A c \in Calls : pc[c] = "idle" => file[c] # "open"

(* "ui.act_and_verify must run at least one assertion": a pass rests on one.   *)
PassedMeansVerified ==
    \A c \in Calls : reply[c] = "passed" /\ pc[c] = "idle" => checked[c] >= 1
================================================================================
