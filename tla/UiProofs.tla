-------------------------------- MODULE UiProofs --------------------------------
(* What UiTools guarantees for any number of calls, windows and requests, any  *)
(* rate and any lifetimes: windows are used under a valid authorization, a     *)
(* pass was earned, a handle leads to its file, GDI objects are given back.    *)
EXTENDS UiTools, FiniteSetTheorems, TLAPS

(* From where a call that acts has come, and what lies behind it.              *)
Acting == {"admit", "approve", "begin", "act", "input", "verify", "compare"}
Capturing == {"ask", "count", "grab", "release", "store", "protect", "insert"}

(* A call that is under way knows of every row that is valid; a call that      *)
(* acts acts for an acting tool; after the input all events are sent, or it    *)
(* failed; a file that gets its row is private; what a call holds of GDI.      *)
CallInv(c) ==
    /\ pc[c] # "idle" => Valid \subseteq since[c]
    /\ pc[c] \in Acting => req[c].tool \in Acts
    /\ pc[c] \in {"require", "again", "look"} => req[c].tool \notin Acts
    /\ pc[c] \in {"verify", "compare"} \/ (pc[c] \in Capturing /\ req[c].tool \in Acts) =>
            failed[c] \/ sent[c] = req[c].chars
    /\ pc[c] = "insert" => file[c] = "private"
    /\ gdi[c] \in Prefixes
    /\ Touching(c) => req[c].row \in since[c]
    /\ reply[c] = "passed" /\ pc[c] = "idle" =>
            sent[c] = req[c].chars /\ checked[c] = Len(req[c].preds)
    /\ reply[c] = "handle" /\ pc[c] = "idle" => entry[c] /\ file[c] = "private"
    /\ pc[c] # "release" => gdi[c] = {}

IInv == TypeOK /\ \A c \in Calls : CallInv(c)
--------------------------------------------------------------------------------
(* There are as many numbers up to l as l.                                     *)
LEMMA UpTo ==
  ASSUME NEW l \in Nat
  PROVE  IsFiniteSet(1..l) /\ Cardinality(1..l) = l
<1>1. 1 \in Int /\ l \in Int
  OBVIOUS
<1>2. /\ IsFiniteSet(1..l)
      /\ 1 > l => Cardinality(1..l) = 0
      /\ ~(1 > l) => Cardinality(1..l) = l - 1 + 1
  BY <1>1, FS_Interval, Zenon
<1>3. (1 > l => l = 0) /\ (~(1 > l) => l - 1 + 1 = l)
  OBVIOUS
<1> QED
  BY <1>2, <1>3, Zenon

(* The head of a deque that is evicted is no longer than the deque.            *)
LEMMA EvictedType ==
  ASSUME NEW bucket \in Seq(Nat), NEW moment \in Nat
  PROVE  Evicted(bucket, moment) \in Seq(Nat) /\ Len(Evicted(bucket, moment)) <= Len(bucket)
<1> DEFINE n == Cardinality(Old(bucket, moment))
<1>1. IsFiniteSet(1..Len(bucket)) /\ Cardinality(1..Len(bucket)) = Len(bucket)
  BY UpTo
<1>2. Old(bucket, moment) \subseteq 1..Len(bucket)
  BY DEF Old
<1>3. n \in Nat /\ n <= Len(bucket)
  BY <1>1, <1>2, FS_Subset, FS_CardinalityType
<1> HIDE DEF n
<1>4. SubSeq(bucket, n + 1, Len(bucket)) \in Seq(Nat)
  BY <1>3
<1>5. Len(SubSeq(bucket, n + 1, Len(bucket))) <= Len(bucket)
  BY <1>3
<1> QED
  BY <1>4, <1>5 DEF Evicted, n

(* A screenshot is counted within the cap.                                     *)
LEMMA CheckLimitType ==
  ASSUME LimitTypeOK, NEW key \in Keys, NEW s \in Nat, NEW time \in Nat,
         CheckLimit(key, s, time)
  PROVE  LimitTypeOK'
<1> DEFINE kept == Evicted(buckets[key], s)
<1>1. buckets[key] \in Seq(Nat) /\ Len(buckets[key]) <= RATE /\ RATE \in Nat
  BY LimitAssumption DEF LimitTypeOK
<1>2. kept \in Seq(Nat) /\ Len(kept) <= RATE
  BY <1>1, EvictedType
<1>3. /\ buckets' = [buckets EXCEPT ![key] = IF Len(kept) < RATE THEN Append(kept, s) ELSE kept]
      /\ taken' = [taken EXCEPT ![key] = IF Len(kept) < RATE /\ Recent(s, time)
                                         THEN taken[key] \union {Granted(key, s)} ELSE taken[key]]
  BY DEF CheckLimit, Allowed
<1> HIDE DEF kept
<1>4. /\ Len(kept) < RATE => Append(kept, s) \in Seq(Nat) /\ Len(Append(kept, s)) <= RATE
  BY <1>1, <1>2
<1>5. buckets' \in [Keys -> Seq(Nat)] /\ \A k \in Keys : Len(buckets'[k]) <= RATE
  BY <1>2, <1>3, <1>4 DEF LimitTypeOK
<1>6. /\ IsFiniteSet(taken[key] \union {Granted(key, s)})
      /\ Granted(key, s) \in Nat \X Nat
  <2>1. IsFiniteSet(taken[key])
    BY DEF LimitTypeOK
  <2>2. IsFiniteSet({t \in taken[key] : t[1] = s})
    BY <2>1, FS_Subset
  <2> QED
    BY <2>1, <2>2, FS_AddElement, FS_CardinalityType DEF Granted
<1>7. taken' \in [Keys -> SUBSET (Nat \X Nat)] /\ \A k \in Keys : IsFiniteSet(taken'[k])
  BY <1>3, <1>6 DEF LimitTypeOK
<1> QED
  BY <1>5, <1>7 DEF LimitTypeOK

(* What has become too old can be forgotten.                                   *)
LEMMA ForgetType ==
  ASSUME LimitTypeOK, NEW time \in Nat, Forget(time)
  PROVE  LimitTypeOK'
<1>1. taken' = [k \in Keys |-> {t \in taken[k] : Recent(t[1], time)}] /\ buckets' = buckets
  BY DEF Forget
<1>2. ASSUME NEW k \in Keys
      PROVE  /\ {t \in taken[k] : Recent(t[1], time)} \in SUBSET (Nat \X Nat)
             /\ IsFiniteSet({t \in taken[k] : Recent(t[1], time)})
  BY FS_Subset DEF LimitTypeOK
<1> QED
  BY <1>1, <1>2 DEF LimitTypeOK

(* The finally clause gives back whatever the capture got.                     *)
LEMMA AllGivenBack ==
  ASSUME NEW held \in Prefixes
  PROVE  GivenBack(held) = {}
BY DEF GivenBack, Prefixes, Objects

(* A row that lookup() finds is valid.                                         *)
LEMMA LookupValid ==
  ASSUME TypeOK, NEW r, Lookup(r)
  PROVE  r \in Valid
BY DEF Lookup, Valid, TypeOK, WindowsTypeOK, Row
--------------------------------------------------------------------------------
(* The types of one call's own state are kept by each of its steps.            *)
CallTypeOK ==
    /\ UiTypeOK
    /\ gdi \in [Calls -> SUBSET Objects]
    /\ file \in [Calls -> {"none", "open", "stripped", "private"}]
    /\ entry \in [Calls -> BOOLEAN]

(* TypeOK, taken apart.                                                        *)
LEMMA CallTypes == TypeOK <=> WindowsTypeOK /\ LimitTypeOK /\ CallTypeOK
BY ComposedAssumption DEF TypeOK, CallTypeOK, CaptureTypeOK, StoreTypeOK

(* No call has a hand in the state of another one.                             *)
Apart(c) ==
    /\ UNCHANGED windowVars
    /\ \A d \in Calls \ {c} :
        /\ pc'[d] = pc[d] /\ req'[d] = req[d] /\ since'[d] = since[d]
        /\ sent'[d] = sent[d] /\ failed'[d] = failed[d] /\ checked'[d] = checked[d]
        /\ reply'[d] = reply[d]
        /\ gdi'[d] = gdi[d] /\ file'[d] = file[d] /\ entry'[d] = entry[d]

(* What another call does leaves a call as it is.                              *)
LEMMA OthersKept ==
  ASSUME NEW c \in Calls, NEW d \in Calls \ {c}, CallInv(d), Apart(c)
  PROVE  CallInv(d)'
<1>1. Valid' = Valid
  BY DEF Apart, Valid, windowVars
<1> QED
  BY <1>1 DEF Apart, CallInv, Touching

(* A call that is answered, after which nothing depends on what it knew.       *)
LEMMA Answered ==
  ASSUME CallTypeOK, NEW c \in Calls, NEW text \in Replies, Answer(c, text)
  PROVE  /\ pc' \in [Calls -> Stages] /\ since' \in [Calls -> SUBSET Rows]
         /\ reply' \in [Calls -> Replies]
         /\ pc'[c] = "idle" /\ reply'[c] = text
         /\ \A d \in Calls \ {c} : pc'[d] = pc[d] /\ since'[d] = since[d] /\ reply'[d] = reply[d]
BY DEF CallTypeOK, UiTypeOK, Answer, Stages

(* A call that goes on to its next stage.                                      *)
LEMMA Gone ==
  ASSUME CallTypeOK, NEW c \in Calls, NEW stage \in Stages, Goto(c, stage)
  PROVE  /\ pc' \in [Calls -> Stages] /\ since' \in [Calls -> SUBSET Rows]
         /\ reply' \in [Calls -> Replies]
         /\ pc'[c] = stage /\ since' = since /\ reply' = reply
         /\ \A d \in Calls \ {c} : pc'[d] = pc[d]
BY DEF CallTypeOK, UiTypeOK, Goto

(* A step that only answers an error, or fails the action.                     *)
LEMMA Errors ==
  ASSUME TypeOK, NEW c \in Calls, CallInv(c), pc[c] # "release",
         \E text \in {"ok", "error", "failed"} : Answer(c, text),
         UNCHANGED <<windowVars, captureVars, req>>,
         sent' = sent, failed' = failed, checked' = checked,
         \A d \in Calls \ {c} : file'[d] = file[d] /\ entry'[d] = entry[d]
  PROVE  /\ CallInv(c)' /\ Apart(c)
         /\ pc' \in [Calls -> Stages] /\ since' \in [Calls -> SUBSET Rows]
         /\ reply' \in [Calls -> Replies]
<1>0. PICK text \in {"ok", "error", "failed"} : Answer(c, text)
  OBVIOUS
<1>1. text \in Replies
  BY DEF Replies
<1>2. /\ pc' \in [Calls -> Stages] /\ since' \in [Calls -> SUBSET Rows]
      /\ reply' \in [Calls -> Replies]
      /\ pc'[c] = "idle" /\ reply'[c] = text
      /\ \A d \in Calls \ {c} : pc'[d] = pc[d] /\ since'[d] = since[d] /\ reply'[d] = reply[d]
  BY <1>0, <1>1, CallTypes, Answered
<1>3. gdi' = gdi /\ req' = req /\ windowVars' = windowVars
  BY DEF captureVars
<1>4. CallInv(c)'
  BY <1>2, <1>3 DEF CallInv, Touching, Acting, Capturing
<1>5. Apart(c)
  BY <1>2, <1>3 DEF Apart
<1> QED
  BY <1>2, <1>4, <1>5

(* A step from one stage to another that touches nothing else.                 *)
LEMMA Moves ==
  ASSUME TypeOK, NEW c \in Calls, CallInv(c), pc[c] # "release", pc[c] # "idle",
         NEW stage \in Stages \ {"idle", "insert"}, Goto(c, stage),
         stage \in Acting => req[c].tool \in Acts,
         stage \in {"require", "again", "look"} => req[c].tool \notin Acts,
         (stage \in {"verify", "compare"} \/ (stage \in Capturing /\ req[c].tool \in Acts))
            => failed'[c] \/ sent'[c] = req[c].chars,
         stage \in {"look", "input"} \/ (stage \in {"ask", "count", "grab"}
                /\ req[c].row # NoRow /\ req[c].tool \notin Acts) => req[c].row \in since[c],
         UNCHANGED <<windowVars, captureVars, req>>,
         \A d \in Calls \ {c} :
            /\ sent'[d] = sent[d] /\ failed'[d] = failed[d] /\ checked'[d] = checked[d]
            /\ file'[d] = file[d] /\ entry'[d] = entry[d]
  PROVE  /\ CallInv(c)' /\ Apart(c)
         /\ pc' \in [Calls -> Stages] /\ since' \in [Calls -> SUBSET Rows]
         /\ reply' \in [Calls -> Replies]
<1>2. /\ pc' \in [Calls -> Stages] /\ since' \in [Calls -> SUBSET Rows]
      /\ reply' \in [Calls -> Replies]
      /\ pc'[c] = stage /\ since' = since /\ reply' = reply
      /\ \A d \in Calls \ {c} : pc'[d] = pc[d]
  BY CallTypes, Gone
<1>3. gdi' = gdi /\ req' = req /\ windowVars' = windowVars
  BY DEF captureVars
<1>V. Valid' = Valid
  BY <1>3 DEF Valid, windowVars
<1>4. CallInv(c)'
  <2>1. pc'[c] # "idle" => Valid' \subseteq since'[c]
    BY <1>2, <1>V DEF CallInv
  <2>2. Touching(c)' => req'[c].row \in since'[c]
    BY <1>2, <1>3 DEF Touching
  <2>3. gdi'[c] \in Prefixes /\ (pc'[c] # "release" => gdi'[c] = {})
    BY <1>3 DEF CallInv
  <2> QED
    BY <1>2, <1>3, <2>1, <2>2, <2>3 DEF CallInv
<1>5. Apart(c)
  BY <1>2, <1>3 DEF Apart
<1> QED
  BY <1>2, <1>4, <1>5
--------------------------------------------------------------------------------
(* What each step of a call has to show.                                       *)
Kept(c) == CallInv(c)' /\ Apart(c) /\ TypeOK'

(* A step that leaves the windows, limits, captures and artifacts alone.       *)
LEMMA ElsewhereTypes ==
  ASSUME TypeOK, Elsewhere
  PROVE  /\ UNCHANGED <<windowVars, captureVars>> /\ file' = file /\ entry' = entry
         /\ WindowsTypeOK' /\ LimitTypeOK'
         /\ gdi' \in [Calls -> SUBSET Objects]
         /\ file' \in [Calls -> {"none", "open", "stripped", "private"}]
         /\ entry' \in [Calls -> BOOLEAN]
<1>1. gdi' = gdi /\ file' = file /\ entry' = entry /\ rows' = rows /\ now' = now
      /\ buckets' = buckets /\ taken' = taken
  BY DEF Elsewhere, windowVars, captureVars, storeVars, limitVars
<1> QED
  BY <1>1, CallTypes DEF CallTypeOK, WindowsTypeOK, LimitTypeOK, windowVars, captureVars

(* A request has the shape requests have.                                      *)
LEMMA RequestOf ==
  ASSUME TypeOK, NEW c \in Calls
  PROVE  /\ req[c].tool \in Looks \union Shots \union Acts
         /\ req[c].row \in Rows \union {NoRow} /\ req[c].chars \in Nat
         /\ req[c].preds \in Seq(Predicate)
BY DEF TypeOK, UiTypeOK, Request

(* A new call knows of every row that is valid.                                *)
LEMMA CallKept ==
  ASSUME TypeOK, NEW c \in Calls, CallInv(c), Call(c)
  PROVE  Kept(c)
<1>1. PICK q \in Requests[c] :
        /\ req' = [req EXCEPT ![c] = q]
        /\ pc' = [pc EXCEPT ![c] =
                    IF q.tool \in Acts THEN "admit"
                    ELSE IF q.tool = "ocr" THEN "again"
                    ELSE IF q.row = NoRow /\ q.tool \in Shots THEN "ask" ELSE "require"]
  BY DEF Call
<1>2. q \in Request
  BY RequestsAssumption
<1>3. /\ pc' \in [Calls -> Stages] /\ req' \in [Calls -> Request] /\ req'[c] = q
      /\ pc'[c] \in {"admit", "again", "ask", "require"}
      /\ pc'[c] = "admit" <=> q.tool \in Acts
      /\ pc'[c] = "ask" => q.row = NoRow
  BY <1>1, <1>2, CallTypes DEF CallTypeOK, UiTypeOK, Stages
<1>4. /\ UNCHANGED <<windowVars, limitVars, captureVars>> /\ pc[c] = "idle"
      /\ reply' = [reply EXCEPT ![c] = "none"] /\ since' = [since EXCEPT ![c] = Valid]
      /\ sent' = [sent EXCEPT ![c] = 0] /\ failed' = [failed EXCEPT ![c] = FALSE]
      /\ checked' = [checked EXCEPT ![c] = 0] /\ stamp' = [stamp EXCEPT ![c] = 0]
      /\ file' = [file EXCEPT ![c] = "none"] /\ entry' = [entry EXCEPT ![c] = FALSE]
  BY DEF Call, NewArtifact
<1>5. Valid' = Valid /\ gdi' = gdi /\ Valid \in SUBSET Rows
  BY <1>4 DEF Valid, windowVars, captureVars
<1>6. UiTypeOK'
  BY <1>3, <1>4, <1>5, CallTypes DEF CallTypeOK, UiTypeOK, Replies
<1>7. TypeOK'
  <2>1. CaptureTypeOK' /\ StoreTypeOK'
    BY <1>4, <1>5, CallTypes, ComposedAssumption DEF CallTypeOK, CaptureTypeOK, StoreTypeOK
  <2>2. WindowsTypeOK' /\ LimitTypeOK'
    BY <1>4, CallTypes DEF WindowsTypeOK, LimitTypeOK, windowVars, limitVars
  <2> QED
    BY <1>6, <2>1, <2>2 DEF TypeOK
<1>8. CallInv(c)'
  <2>1. since'[c] = Valid /\ reply'[c] = "none"
    BY <1>4, CallTypes DEF CallTypeOK, UiTypeOK
  <2>2. gdi'[c] = {}
    BY <1>4, <1>5 DEF CallInv
  <2>3. Touching(c)' => req'[c].row \in since'[c]
    BY <1>3 DEF Touching, Acts
  <2> QED
    BY <1>3, <1>5, <2>1, <2>2, <2>3 DEF CallInv, Acting, Capturing, Prefixes
<1>9. Apart(c)
  BY <1>1, <1>4, <1>5, CallTypes DEF Apart, CallTypeOK, UiTypeOK
<1> QED
  BY <1>7, <1>8, <1>9 DEF Kept
--------------------------------------------------------------------------------
(* The types after a step that leaves all but its stage and answer alone.      *)
LEMMA StageTyped ==
  ASSUME TypeOK, SameCall, Elsewhere,
         pc' \in [Calls -> Stages], since' \in [Calls -> SUBSET Rows],
         reply' \in [Calls -> Replies]
  PROVE  TypeOK'
<1>1. UiTypeOK'
  BY CallTypes DEF CallTypeOK, UiTypeOK, SameCall
<1> QED
  BY <1>1, CallTypes, ElsewhereTypes, ComposedAssumption
     DEF TypeOK, CaptureTypeOK, StoreTypeOK

(* Such a step answers something other than a pass or a handle, or goes on to  *)
(* a stage that it may go on to.                                               *)
LEMMA StageKept ==
  ASSUME TypeOK, NEW c \in Calls, CallInv(c), pc[c] # "release", pc[c] # "idle",
         SameCall, Elsewhere,
         \/ \E text \in {"ok", "error", "failed"} : Answer(c, text)
         \/ \E stage \in Stages \ {"idle", "insert"} :
                /\ Goto(c, stage)
                /\ stage \in Acting => req[c].tool \in Acts
                /\ stage \in {"require", "again", "look"} => req[c].tool \notin Acts
                /\ stage \in {"verify", "compare"}
                        \/ (stage \in Capturing /\ req[c].tool \in Acts)
                    => failed[c] \/ sent[c] = req[c].chars
                /\ stage \in {"look", "input"}
                        \/ (stage \in {"ask", "count", "grab"}
                            /\ req[c].row # NoRow /\ req[c].tool \notin Acts)
                    => req[c].row \in since[c]
  PROVE  Kept(c)
<1>0. /\ UNCHANGED <<windowVars, captureVars, req>> /\ file' = file /\ entry' = entry
      /\ sent' = sent /\ failed' = failed /\ checked' = checked
  BY ElsewhereTypes DEF SameCall
<1>1. CASE \E text \in {"ok", "error", "failed"} : Answer(c, text)
  BY <1>0, <1>1, Errors, StageTyped DEF Kept
<1>2. ASSUME NEW stage \in Stages \ {"idle", "insert"}, Goto(c, stage),
             stage \in Acting => req[c].tool \in Acts,
             stage \in {"require", "again", "look"} => req[c].tool \notin Acts,
             stage \in {"verify", "compare"}
                    \/ (stage \in Capturing /\ req[c].tool \in Acts)
                => failed[c] \/ sent[c] = req[c].chars,
             stage \in {"look", "input"}
                    \/ (stage \in {"ask", "count", "grab"}
                        /\ req[c].row # NoRow /\ req[c].tool \notin Acts)
                => req[c].row \in since[c]
      PROVE  Kept(c)
  BY <1>0, <1>2, Moves, StageTyped DEF Kept
<1> QED
  BY <1>1, <1>2

(* The tools that look: a row that is found is one the call knows to be valid. *)
LEMMA LookKept ==
  ASSUME TypeOK, NEW c \in Calls, CallInv(c), Require(c) \/ Again(c) \/ Look(c)
  PROVE  Kept(c)
<1>0. /\ pc[c] \in {"require", "again", "look"} /\ SameCall /\ Elsewhere
  BY DEF Require, Again, Look
<1>1. CASE Require(c)
  <2>1. Goto(c, "again") \/ Answer(c, "error")
    BY <1>1 DEF Require
  <2>2. req[c].tool \notin Acts
    BY <1>1 DEF Require, CallInv
  <2> QED
    BY <1>0, <2>1, <2>2, StageKept DEF Stages, Acting, Capturing
<1>2. CASE Again(c)
  <2>1. CASE Lookup(req[c].row)
    <3>1. PICK stage \in {"look", "grab", "ask"} :
            Goto(c, stage)
      BY <1>2, <2>1 DEF Again
    <3>2. req[c].row \in since[c]
      BY <1>0, <2>1, LookupValid DEF CallInv
    <3>3. req[c].tool \notin Acts
      BY <1>2 DEF Again, CallInv
    <3> QED
      BY <1>0, <3>1, <3>2, <3>3, StageKept DEF Stages, Acting, Capturing
  <2>2. CASE ~Lookup(req[c].row)
    <3>1. Answer(c, "error")
      BY <1>2, <2>2 DEF Again
    <3> QED
      BY <1>0, <3>1, StageKept
  <2> QED
    BY <2>1, <2>2
<1>3. CASE Look(c)
  <2>1. Goto(c, "store") \/ \E text \in {"ok", "error"} : Answer(c, text)
    BY <1>3 DEF Look
  <2>2. req[c].tool \notin Acts
    BY <1>3 DEF Look, CallInv
  <2> QED
    BY <1>0, <2>1, <2>2, StageKept DEF Stages, Acting, Capturing
<1> QED
  BY <1>1, <1>2, <1>3
--------------------------------------------------------------------------------
(* The same when the step also counts an event or a predicate, or fails.       *)
LEMMA CountedKept ==
  ASSUME TypeOK, NEW c \in Calls, CallInv(c), pc[c] \in Acting,
         NEW stage \in {"input", "verify"}, Goto(c, stage),
         stage = "input" => req[c].row \in since[c],
         stage = "verify" => failed'[c] \/ sent'[c] = req[c].chars,
         UNCHANGED <<req, stamp>>, Elsewhere,
         \E n \in Nat : sent' = [sent EXCEPT ![c] = n],
         \E n \in Nat : checked' = [checked EXCEPT ![c] = n],
         \E b \in BOOLEAN : failed' = [failed EXCEPT ![c] = b]
  PROVE  Kept(c)
<1>0. /\ UNCHANGED <<windowVars, captureVars, req>> /\ file' = file /\ entry' = entry
  BY ElsewhereTypes
<1>1. /\ sent' \in [Calls -> Nat] /\ checked' \in [Calls -> Nat]
      /\ failed' \in [Calls -> BOOLEAN]
      /\ \A d \in Calls \ {c} :
            sent'[d] = sent[d] /\ failed'[d] = failed[d] /\ checked'[d] = checked[d]
  BY CallTypes DEF CallTypeOK, UiTypeOK
<1>2. stage \in Stages /\ stage \notin {"idle", "insert", "require", "again", "look"}
  BY DEF Stages
<1>3. req[c].tool \in Acts /\ pc[c] # "idle" /\ pc[c] # "release"
  BY DEF CallInv, Acting
<1>4. /\ CallInv(c)' /\ Apart(c)
      /\ pc' \in [Calls -> Stages] /\ since' \in [Calls -> SUBSET Rows]
      /\ reply' \in [Calls -> Replies]
  <2>1. stage \in {"verify", "compare"} \/ (stage \in Capturing /\ req[c].tool \in Acts)
            => failed'[c] \/ sent'[c] = req[c].chars
    BY DEF Capturing
  <2>2. stage \in {"look", "input"} \/ (stage \in {"ask", "count", "grab"}
            /\ req[c].row # NoRow /\ req[c].tool \notin Acts) => req[c].row \in since[c]
    OBVIOUS
  <2> QED
    BY <1>0, <1>1, <1>2, <1>3, <2>1, <2>2, Moves
<1>5. TypeOK'
  <2>1. UiTypeOK'
    BY <1>1, <1>4, CallTypes DEF CallTypeOK, UiTypeOK
  <2> QED
    BY <2>1, CallTypes, ElsewhereTypes, ComposedAssumption
       DEF TypeOK, CaptureTypeOK, StoreTypeOK
<1> QED
  BY <1>4, <1>5 DEF Kept

(* An action that fails is verified all the same.                              *)
LEMMA FailsKept ==
  ASSUME TypeOK, NEW c \in Calls, CallInv(c), pc[c] \in Acting, ActionFails(c), Elsewhere
  PROVE  Kept(c)
<1>1. /\ Goto(c, "verify") /\ failed' = [failed EXCEPT ![c] = TRUE]
      /\ UNCHANGED <<req, sent, checked, stamp>>
  BY DEF ActionFails
<1>2. /\ sent \in [Calls -> Nat] /\ checked \in [Calls -> Nat] /\ failed \in [Calls -> BOOLEAN]
  BY CallTypes DEF CallTypeOK, UiTypeOK
<1>3. /\ sent' = [sent EXCEPT ![c] = sent[c]] /\ sent[c] \in Nat
      /\ checked' = [checked EXCEPT ![c] = checked[c]] /\ checked[c] \in Nat
      /\ failed'[c] = TRUE
  BY <1>1, <1>2
<1> QED
  BY <1>1, <1>3, CountedKept

(* From the profile to the verdict: nothing is driven without a row that is    *)
(* valid after the approval, and what is verified was sent or has failed.      *)
LEMMA ActKept ==
  ASSUME TypeOK, NEW c \in Calls, CallInv(c),
         Admit(c) \/ Approve(c) \/ Begin(c) \/ Act(c) \/ Input(c)
  PROVE  Kept(c)
<1>0. /\ Elsewhere /\ pc[c] \in {"admit", "approve", "begin", "act", "input"}
      /\ pc[c] \in Acting /\ pc[c] # "release" /\ pc[c] # "idle"
      /\ req[c].tool \in Acts
  BY DEF Admit, Approve, Begin, Act, Input, Acting, CallInv
<1>T. /\ sent \in [Calls -> Nat] /\ checked \in [Calls -> Nat]
      /\ failed \in [Calls -> BOOLEAN] /\ pc \in [Calls -> Stages]
      /\ since \in [Calls -> SUBSET Rows] /\ reply \in [Calls -> Replies]
  BY CallTypes DEF CallTypeOK, UiTypeOK
<1>1. CASE Admit(c)
  <2>1. Goto(c, "approve") \/ Answer(c, "error")
    BY <1>1 DEF Admit
  <2> QED
    BY <1>0, <1>1, <2>1, StageKept DEF Admit, Stages, Acting, Capturing
<1>2. CASE Approve(c)
  <2>0. SameCall
    BY <1>2 DEF Approve
  <2>1. CASE Answer(c, "error")
    BY <1>0, <2>0, <2>1, StageKept
  <2>2. CASE pc' = [pc EXCEPT ![c] = "begin"] /\ since' = [since EXCEPT ![c] = Valid]
             /\ UNCHANGED reply
    <3>1. Valid \in SUBSET Rows /\ Valid' = Valid /\ windowVars' = windowVars
      BY <1>0, ElsewhereTypes DEF Valid, windowVars
    <3>2. /\ pc' \in [Calls -> Stages] /\ since' \in [Calls -> SUBSET Rows]
          /\ pc'[c] = "begin" /\ since'[c] = Valid
          /\ \A d \in Calls \ {c} : pc'[d] = pc[d] /\ since'[d] = since[d]
      BY <1>T, <2>2, <3>1 DEF Stages
    <3>3. TypeOK'
      BY <1>0, <1>T, <2>0, <2>2, <3>2, StageTyped
    <3>4. /\ UNCHANGED <<req, sent, failed, checked, gdi, file, entry>>
      BY <1>0, <2>0, ElsewhereTypes DEF SameCall, captureVars
    <3>5. CallInv(c)'
      <4>1. ~Touching(c)'
        BY <3>2 DEF Touching
      <4>2. gdi[c] = {}
        BY <1>0 DEF CallInv
      <4> QED
        BY <1>0, <3>1, <3>2, <3>4, <4>1, <4>2 DEF CallInv, Acting, Capturing, Prefixes
    <3>6. Apart(c)
      BY <2>2, <3>1, <3>2, <3>4 DEF Apart
    <3> QED
      BY <3>3, <3>5, <3>6 DEF Kept
  <2> QED
    BY <1>2, <2>1, <2>2 DEF Approve
<1>3. CASE Begin(c)
  <2>1. Goto(c, "act") \/ Answer(c, "failed")
    BY <1>3 DEF Begin
  <2> QED
    BY <1>0, <1>3, <2>1, StageKept DEF Begin, Stages, Acting, Capturing
<1>4. CASE Act(c)
  <2>1. CASE Lookup(req[c].row)
    <3>1. Goto(c, "input") /\ SameCall
      BY <1>4, <2>1 DEF Act
    <3>2. req[c].row \in since[c]
      BY <1>0, <2>1, LookupValid DEF CallInv
    <3> QED
      BY <1>0, <3>1, <3>2, StageKept DEF Stages, Acting, Capturing
  <2>2. CASE ActionFails(c)
    BY <1>0, <2>2, FailsKept
  <2> QED
    BY <1>4, <2>1, <2>2 DEF Act
<1>5. CASE Input(c)
  <2>1. CASE ActionFails(c)
    BY <1>0, <2>1, FailsKept
  <2>2. CASE /\ sent' = [sent EXCEPT ![c] = sent[c] + 1]
             /\ Goto(c, IF sent[c] + 1 = req[c].chars THEN "verify" ELSE "input")
             /\ UNCHANGED <<req, failed, checked, stamp>>
    <3>1. req[c].row \in since[c]
      BY <1>5 DEF Input, CallInv, Touching
    <3>2. /\ checked' = [checked EXCEPT ![c] = checked[c]] /\ checked[c] \in Nat
          /\ failed' = [failed EXCEPT ![c] = failed[c]] /\ failed[c] \in BOOLEAN
          /\ sent'[c] = sent[c] + 1 /\ sent[c] + 1 \in Nat
      BY <1>T, <2>2
    <3>3. CASE sent[c] + 1 = req[c].chars
      <4>1. Goto(c, "verify")
        BY <2>2, <3>3
      <4> QED
        BY <1>0, <2>2, <3>2, <3>3, <4>1, CountedKept
    <3>4. CASE sent[c] + 1 # req[c].chars
      <4>1. Goto(c, "input")
        BY <2>2, <3>4
      <4> QED
        BY <1>0, <2>2, <3>1, <3>2, <4>1, CountedKept
    <3> QED
      BY <3>3, <3>4
  <2> QED
    BY <1>5, <2>1, <2>2 DEF Input
<1> QED
  BY <1>1, <1>2, <1>3, <1>4, <1>5
--------------------------------------------------------------------------------
(* A predicate that passes is counted, and the next one is looked at.          *)
LEMMA PassesKept ==
  ASSUME TypeOK, NEW c \in Calls, CallInv(c), pc[c] \in {"verify", "compare"},
         Passes(c), Elsewhere
  PROVE  Kept(c)
<1>1. /\ Goto(c, "verify") /\ checked' = [checked EXCEPT ![c] = checked[c] + 1]
      /\ UNCHANGED <<req, sent, failed, stamp>>
  BY DEF Passes
<1>2. /\ sent \in [Calls -> Nat] /\ checked \in [Calls -> Nat] /\ failed \in [Calls -> BOOLEAN]
  BY CallTypes DEF CallTypeOK, UiTypeOK
<1>3. /\ sent' = [sent EXCEPT ![c] = sent[c]] /\ sent[c] \in Nat /\ checked[c] + 1 \in Nat
      /\ failed' = [failed EXCEPT ![c] = failed[c]] /\ failed[c] \in BOOLEAN
  BY <1>1, <1>2
<1>4. failed'[c] \/ sent'[c] = req[c].chars
  BY <1>1 DEF CallInv
<1> QED
  BY <1>1, <1>3, <1>4, CountedKept DEF Acting

(* A pass is answered when nothing has failed and all predicates have passed.  *)
LEMMA VerdictKept ==
  ASSUME TypeOK, NEW c \in Calls, CallInv(c), pc[c] = "verify", SameCall, Elsewhere,
         Answer(c, Verdict(c))
  PROVE  Kept(c)
<1>1. Verdict(c) \in {"passed", "failed"} /\ Verdict(c) \in Replies
  BY DEF Verdict, Replies
<1>2. /\ pc' \in [Calls -> Stages] /\ since' \in [Calls -> SUBSET Rows]
      /\ reply' \in [Calls -> Replies]
      /\ pc'[c] = "idle" /\ reply'[c] = Verdict(c)
      /\ \A d \in Calls \ {c} : pc'[d] = pc[d] /\ since'[d] = since[d] /\ reply'[d] = reply[d]
  BY <1>1, CallTypes, Answered
<1>3. /\ UNCHANGED <<req, sent, failed, checked, gdi, file, entry, windowVars>>
  BY ElsewhereTypes DEF SameCall, captureVars
<1>4. Verdict(c) = "passed" => sent[c] = req[c].chars /\ checked[c] = Len(req[c].preds)
  BY DEF Verdict, AllPassed, CallInv
<1>5. CallInv(c)'
  <2>1. gdi[c] = {}
    BY DEF CallInv
  <2> QED
    BY <1>1, <1>2, <1>3, <1>4, <2>1 DEF CallInv, Touching, Acting, Capturing, Prefixes
<1>6. Apart(c)
  BY <1>2, <1>3 DEF Apart
<1> QED
  BY <1>2, <1>5, <1>6, StageTyped DEF Kept

(* The verification, with the screenshots its predicates take.                 *)
LEMMA VerifyKept ==
  ASSUME TypeOK, NEW c \in Calls, CallInv(c), Verify(c) \/ Compare(c)
  PROVE  Kept(c)
<1>0. /\ Elsewhere /\ pc[c] \in {"verify", "compare"} /\ req[c].tool \in Acts
      /\ (failed[c] \/ sent[c] = req[c].chars)
  BY DEF Verify, Compare, CallInv, Acting
<1>1. CASE Verify(c)
  <2>1. CASE Answer(c, Verdict(c)) /\ SameCall
    BY <1>0, <1>1, <2>1, VerdictKept DEF Verify
  <2>2. CASE Goto(c, "ask") /\ SameCall
    BY <1>0, <2>2, StageKept DEF Stages, Acting
  <2>3. CASE Passes(c)
    BY <1>0, <2>3, PassesKept
  <2> QED
    BY <1>1, <2>1, <2>2, <2>3 DEF Verify
<1>2. CASE Compare(c)
  <2>1. CASE Passes(c)
    BY <1>0, <2>1, PassesKept
  <2>2. CASE Answer(c, "failed") /\ SameCall
    BY <1>0, <2>2, StageKept
  <2> QED
    BY <1>2, <2>1, <2>2 DEF Compare
<1> QED
  BY <1>1, <1>2
--------------------------------------------------------------------------------
(* A capture that is given up is answered with an error.                       *)
LEMMA RefusedAnswers ==
  ASSUME NEW c \in Calls, Refused(c)
  PROVE  \E text \in {"ok", "error", "failed"} : Answer(c, text)
BY DEF Refused

(* The types of a call in a step of a capture.                                 *)
LEMMA CaptureTyped ==
  ASSUME TypeOK, pc' \in [Calls -> Stages], since' \in [Calls -> SUBSET Rows],
         reply' \in [Calls -> Replies], stamp' \in [Calls -> Nat],
         UNCHANGED <<windowVars, req, sent, failed, checked>>,
         gdi' \in [Calls -> SUBSET Objects],
         file' \in [Calls -> {"none", "open", "stripped", "private"}],
         entry' \in [Calls -> BOOLEAN], LimitTypeOK'
  PROVE  TypeOK'
<1>1. UiTypeOK'
  BY CallTypes DEF CallTypeOK, UiTypeOK
<1>2. WindowsTypeOK'
  BY CallTypes DEF WindowsTypeOK, windowVars
<1> QED
  BY <1>1, <1>2, ComposedAssumption DEF TypeOK, CaptureTypeOK, StoreTypeOK

(* The clock is read, then the limit is asked, under a key it knows.           *)
LEMMA AskKept ==
  ASSUME TypeOK, NEW c \in Calls, CallInv(c), Ask(c)
  PROVE  Kept(c)
<1>1. /\ pc[c] = "ask" /\ Goto(c, "count") /\ stamp' = [stamp EXCEPT ![c] = now]
      /\ UNCHANGED <<req, sent, failed, checked>> /\ Elsewhere
  BY DEF Ask
<1>2. stamp' \in [Calls -> Nat]
  BY <1>1, CallTypes DEF CallTypeOK, UiTypeOK, WindowsTypeOK
<1>3. /\ CallInv(c)' /\ Apart(c)
      /\ pc' \in [Calls -> Stages] /\ since' \in [Calls -> SUBSET Rows]
      /\ reply' \in [Calls -> Replies]
  BY <1>1, ElsewhereTypes, Moves DEF Stages, Acting, Capturing, CallInv, Touching
<1>4. TypeOK'
  BY <1>1, <1>2, <1>3, ElsewhereTypes, CaptureTyped
<1> QED
  BY <1>3, <1>4 DEF Kept

(* A screenshot is counted, or refused.                                        *)
LEMMA CountKept ==
  ASSUME TypeOK, NEW c \in Calls, CallInv(c), Count(c)
  PROVE  Kept(c)
<1>1. /\ pc[c] = "count" /\ CheckLimit(LimitKey(c), stamp[c], now)
      /\ stamp' = [stamp EXCEPT ![c] = 0] /\ UNCHANGED <<req, sent, failed, checked>>
      /\ UNCHANGED <<windowVars, captureVars, storeVars>>
      /\ Goto(c, "grab") \/ Refused(c)
  BY DEF Count
<1>2. stamp' \in [Calls -> Nat] /\ stamp[c] \in Nat /\ now \in Nat
  BY <1>1, CallTypes DEF CallTypeOK, UiTypeOK, WindowsTypeOK
<1>3. LimitTypeOK'
  <2>1. CASE LimitKey(c) \in Keys
    BY <1>1, <1>2, <2>1, CallTypes, CheckLimitType
  <2>2. CASE LimitKey(c) \notin Keys
    <3>1. buckets' = buckets /\ taken' = taken
      BY <1>1, <2>2, CallTypes DEF CheckLimit, LimitTypeOK
    <3> QED
      BY <3>1, CallTypes DEF LimitTypeOK
  <2> QED
    BY <2>1, <2>2
<1>4. UNCHANGED <<gdi, file, entry>>
  BY <1>1 DEF captureVars, storeVars
<1>5. /\ CallInv(c)' /\ Apart(c)
      /\ pc' \in [Calls -> Stages] /\ since' \in [Calls -> SUBSET Rows]
      /\ reply' \in [Calls -> Replies]
  <2>1. CASE Goto(c, "grab")
    BY <1>1, <1>4, <2>1, Moves DEF Stages, Acting, Capturing, CallInv, Touching
  <2>2. CASE Refused(c)
    BY <1>1, <1>4, <2>2, RefusedAnswers, Errors
  <2> QED
    BY <1>1, <2>1, <2>2
<1>6. TypeOK'
  BY <1>1, <1>2, <1>3, <1>4, <1>5, CallTypes, CaptureTyped DEF CallTypeOK
<1> QED
  BY <1>5, <1>6 DEF Kept

(* A capture holds one of the sets of objects the finally clause gives back.   *)
LEMMA GrabKept ==
  ASSUME TypeOK, NEW c \in Calls, CallInv(c), Grab(c)
  PROVE  Kept(c)
<1>1. /\ pc[c] = "grab" /\ Goto(c, "release") /\ SameCall
      /\ UNCHANGED <<windowVars, limitVars, storeVars>>
      /\ Acquire(c) \/ UNCHANGED gdi
  BY DEF Grab
<1>2. /\ UNCHANGED <<req, sent, failed, checked, stamp, file, entry>>
      /\ LimitTypeOK' /\ Valid' = Valid
  BY <1>1, CallTypes DEF SameCall, storeVars, limitVars, LimitTypeOK, windowVars, Valid
<1>3. /\ gdi' \in [Calls -> SUBSET Objects] /\ gdi'[c] \in Prefixes
      /\ \A d \in Calls \ {c} : gdi'[d] = gdi[d]
  <2>1. CASE UNCHANGED gdi
    BY <2>1, CallTypes DEF CallTypeOK, CallInv
  <2>2. CASE Acquire(c)
    <3>1. PICK held \in Prefixes : gdi' = [gdi EXCEPT ![c] = held]
      BY <2>2 DEF Acquire
    <3>2. held \in SUBSET Objects
      BY DEF Prefixes, Objects
    <3> QED
      BY <3>1, <3>2, CallTypes DEF CallTypeOK
  <2> QED
    BY <1>1, <2>1, <2>2
<1>4. /\ pc' \in [Calls -> Stages] /\ since' = since /\ reply' = reply
      /\ pc'[c] = "release" /\ \A d \in Calls \ {c} : pc'[d] = pc[d]
  BY <1>1, CallTypes, Gone DEF Stages
<1>5. CallInv(c)'
  BY <1>1, <1>2, <1>3, <1>4 DEF CallInv, Touching, Acting, Capturing
<1>6. Apart(c)
  BY <1>1, <1>2, <1>3, <1>4 DEF Apart
<1>7. TypeOK'
  BY <1>1, <1>2, <1>3, <1>4, CallTypes, CaptureTyped DEF CallTypeOK, UiTypeOK
<1> QED
  BY <1>5, <1>6, <1>7 DEF Kept

(* Nothing of GDI is left, however the capture ends.                           *)
LEMMA ReleaseKept ==
  ASSUME TypeOK, NEW c \in Calls, CallInv(c), ReleaseAll(c)
  PROVE  Kept(c)
<1>1. /\ pc[c] = "release" /\ Release(c) /\ SameCall
      /\ UNCHANGED <<windowVars, limitVars, storeVars>>
      /\ (\E text \in {"ok", "error", "failed"} : Answer(c, text)) \/ Goto(c, "store")
  BY RefusedAnswers DEF ReleaseAll
<1>2. /\ UNCHANGED <<req, sent, failed, checked, stamp, file, entry>>
      /\ LimitTypeOK' /\ Valid' = Valid
  BY <1>1, CallTypes DEF SameCall, storeVars, limitVars, LimitTypeOK, windowVars, Valid
<1>3. /\ gdi' \in [Calls -> SUBSET Objects] /\ gdi'[c] = {}
      /\ \A d \in Calls \ {c} : gdi'[d] = gdi[d]
  <2>1. GivenBack(gdi[c]) = {}
    BY AllGivenBack DEF CallInv
  <2> QED
    BY <1>1, <2>1, CallTypes DEF CallTypeOK, Release
<1>4. ASSUME Goto(c, "store") PROVE Kept(c)
  <2>1. /\ pc' \in [Calls -> Stages] /\ since' = since /\ reply' = reply
        /\ pc'[c] = "store" /\ \A d \in Calls \ {c} : pc'[d] = pc[d]
    BY <1>4, CallTypes, Gone DEF Stages
  <2>2. CallInv(c)'
    BY <1>1, <1>2, <1>3, <2>1 DEF CallInv, Touching, Acting, Capturing, Prefixes
  <2>3. Apart(c)
    BY <1>1, <1>2, <1>3, <2>1 DEF Apart
  <2>4. TypeOK'
    BY <1>1, <1>2, <1>3, <2>1, CallTypes, CaptureTyped DEF CallTypeOK, UiTypeOK
  <2> QED
    BY <2>2, <2>3, <2>4 DEF Kept
<1>5. ASSUME NEW text \in {"ok", "error", "failed"}, Answer(c, text) PROVE Kept(c)
  <2>1. text \in Replies
    BY DEF Replies
  <2>2. /\ pc' \in [Calls -> Stages] /\ since' \in [Calls -> SUBSET Rows]
        /\ reply' \in [Calls -> Replies] /\ pc'[c] = "idle" /\ reply'[c] = text
        /\ \A d \in Calls \ {c} : pc'[d] = pc[d] /\ since'[d] = since[d] /\ reply'[d] = reply[d]
    BY <1>5, <2>1, CallTypes, Answered
  <2>3. CallInv(c)'
    BY <1>2, <1>3, <2>2 DEF CallInv, Touching, Acting, Capturing, Prefixes
  <2>4. Apart(c)
    BY <1>1, <1>2, <1>3, <2>2 DEF Apart
  <2>5. TypeOK'
    BY <1>1, <1>2, <1>3, <2>2, CallTypes, CaptureTyped DEF CallTypeOK, UiTypeOK
  <2> QED
    BY <2>3, <2>4, <2>5 DEF Kept
<1> QED
  BY <1>1, <1>4, <1>5
--------------------------------------------------------------------------------
(* The write of an artifact: its row is only made when its file is private.    *)
LEMMA StoreKept ==
  ASSUME TypeOK, NEW c \in Calls, CallInv(c), Store(c) \/ RestrictAcl(c) \/ Insert(c)
  PROVE  Kept(c)
<1>0. /\ pc[c] \in {"store", "protect", "insert"} /\ SameCall /\ KeepsRest
  BY DEF Store, RestrictAcl, Insert
<1>1. /\ UNCHANGED <<windowVars, captureVars, gdi, req, sent, failed, checked, stamp>>
      /\ LimitTypeOK' /\ Valid' = Valid
  BY <1>0, CallTypes
     DEF SameCall, KeepsRest, captureVars, limitVars, LimitTypeOK, windowVars, Valid
<1>2. /\ file' \in [Calls -> {"none", "open", "stripped", "private"}]
      /\ entry' \in [Calls -> BOOLEAN]
      /\ \A d \in Calls \ {c} : file'[d] = file[d] /\ entry'[d] = entry[d]
  <2>1. CASE UNCHANGED storeVars
    BY <2>1, CallTypes DEF CallTypeOK, storeVars
  <2>2. CASE PutFile(c) \/ Protect(c) \/ PutRow(c)
    BY <2>2, CallTypes DEF CallTypeOK, PutFile, Protect, PutRow
  <2>3. ASSUME ProtectFails(c) \/ ProtectMissing(c)
        PROVE  /\ entry' = entry
               /\ \E left \in {"none", "open", "stripped", "private"} :
                    file' = [file EXCEPT ![c] = left]
    BY <2>3 DEF ProtectFails, ProtectMissing
  <2>4. CASE ProtectFails(c) \/ ProtectMissing(c)
    BY <2>3, <2>4, CallTypes DEF CallTypeOK
  <2> QED
    BY <2>1, <2>2, <2>4 DEF Store, RestrictAcl, Insert
<1>3. CASE Refused(c)
  BY <1>0, <1>1, <1>2, <1>3, RefusedAnswers, Errors, CallTypes, CaptureTyped
     DEF Kept, CallTypeOK, UiTypeOK
<1>4. ASSUME NEW stage \in {"protect", "compare"}, Goto(c, stage),
             stage = "compare" => req[c].tool \in Acts
      PROVE  Kept(c)
  <2>1. /\ CallInv(c)' /\ Apart(c)
        /\ pc' \in [Calls -> Stages] /\ since' \in [Calls -> SUBSET Rows]
        /\ reply' \in [Calls -> Replies]
    BY <1>0, <1>1, <1>2, <1>4, Moves DEF Stages, Acting, Capturing, CallInv
  <2> QED
    BY <1>1, <1>2, <2>1, CallTypes, CaptureTyped DEF Kept, CallTypeOK, UiTypeOK
<1>5. CASE pc[c] = "protect" /\ Protect(c) /\ Goto(c, "insert")
  <2>1. /\ pc' \in [Calls -> Stages] /\ since' = since /\ reply' = reply
        /\ pc'[c] = "insert" /\ \A d \in Calls \ {c} : pc'[d] = pc[d]
    BY <1>5, CallTypes, Gone DEF Stages
  <2>2. file'[c] = "private"
    BY <1>5, CallTypes DEF CallTypeOK, Protect
  <2>3. gdi[c] = {}
    BY <1>0 DEF CallInv
  <2>4. CallInv(c)'
    BY <1>0, <1>1, <2>1, <2>2, <2>3 DEF CallInv, Touching, Acting, Capturing, Prefixes
  <2>5. Apart(c)
    BY <1>1, <1>2, <2>1 DEF Apart
  <2>6. TypeOK'
    BY <1>1, <1>2, <2>1, CallTypes, CaptureTyped DEF CallTypeOK, UiTypeOK
  <2> QED
    BY <2>4, <2>5, <2>6 DEF Kept
<1>6. CASE pc[c] = "insert" /\ PutRow(c) /\ Answer(c, "handle")
  <2>1. /\ pc' \in [Calls -> Stages] /\ since' \in [Calls -> SUBSET Rows]
        /\ reply' \in [Calls -> Replies] /\ pc'[c] = "idle" /\ reply'[c] = "handle"
        /\ \A d \in Calls \ {c} : pc'[d] = pc[d] /\ since'[d] = since[d] /\ reply'[d] = reply[d]
    BY <1>6, CallTypes, Answered DEF Replies
  <2>2. entry'[c] = TRUE /\ file' = file /\ file[c] = "private"
    BY <1>6, CallTypes DEF CallTypeOK, PutRow, CallInv
  <2>3. gdi[c] = {}
    BY <1>0 DEF CallInv
  <2>4. CallInv(c)'
    BY <1>1, <2>1, <2>2, <2>3 DEF CallInv, Touching, Acting, Capturing, Prefixes
  <2>5. Apart(c)
    BY <1>1, <1>2, <2>1 DEF Apart
  <2>6. TypeOK'
    BY <1>1, <1>2, <2>1, CallTypes, CaptureTyped DEF CallTypeOK, UiTypeOK
  <2> QED
    BY <2>4, <2>5, <2>6 DEF Kept
<1>7. CASE Store(c)
  BY <1>3, <1>4, <1>7 DEF Store
<1>8. CASE RestrictAcl(c)
  BY <1>3, <1>5, <1>8 DEF RestrictAcl
<1>9. CASE Insert(c)
  <2>1. CASE PutRow(c) /\ req[c].tool \in Acts
    BY <1>4, <1>9, <2>1, <1>3 DEF Insert
  <2>2. CASE PutRow(c) /\ req[c].tool \notin Acts
    BY <1>6, <1>9, <2>2, <1>3 DEF Insert
  <2> QED
    BY <1>3, <1>9, <2>1, <2>2 DEF Insert
<1> QED
  BY <1>7, <1>8, <1>9
--------------------------------------------------------------------------------
(* The rows and the clock: a row that becomes valid is known to every call.    *)
LEMMA EnvironmentStep ==
  ASSUME TypeOK, \A c \in Calls : CallInv(c), Environment
  PROVE  TypeOK' /\ \A c \in Calls : CallInv(c)'
<1>0. UNCHANGED <<gdi, file, entry, pc, req, sent, failed, checked, stamp, reply>>
  BY DEF Environment, captureVars, storeVars
<1>T. /\ now \in Nat /\ rows \in [Rows -> Row \union {NoRow}]
      /\ since \in [Calls -> SUBSET Rows] /\ LimitTypeOK
  BY CallTypes DEF CallTypeOK, UiTypeOK, WindowsTypeOK
<1>1. ASSUME WindowsTypeOK', LimitTypeOK', since' \in [Calls -> SUBSET Rows],
             \A c \in Calls : since[c] \subseteq since'[c],
             \A c \in Calls : Valid' \subseteq since'[c] \union Valid
      PROVE  TypeOK' /\ \A c \in Calls : CallInv(c)'
  <2>1. TypeOK'
    BY <1>0, <1>1 DEF TypeOK, UiTypeOK, CaptureTypeOK, StoreTypeOK
  <2>2. ASSUME NEW c \in Calls PROVE CallInv(c)'
    <3>1. CallInv(c) /\ since[c] \subseteq since'[c] /\ Valid' \subseteq since'[c] \union Valid
      BY <1>1
    <3> QED
      BY <1>0, <3>1 DEF CallInv, Touching
  <2> QED
    BY <2>1, <2>2
<1>2. ASSUME NEW r \in Rows, Authorize(r), UNCHANGED limitVars,
             since' = [c \in Calls |-> since[c] \union {r}]
      PROVE  TypeOK' /\ \A c \in Calls : CallInv(c)'
  <2>1. PICK h \in Handles, ttl \in Lifetimes :
           rows' = [rows EXCEPT ![r] = [hwnd |-> h, expires |-> now + ttl, revoked |-> FALSE]]
    BY <1>2 DEF Authorize
  <2>2. [hwnd |-> h, expires |-> now + ttl, revoked |-> FALSE] \in Row /\ now' = now
    BY <1>2, <1>T, WindowsAssumption DEF Row, Authorize
  <2>3. WindowsTypeOK'
    BY <1>T, <2>1, <2>2 DEF WindowsTypeOK
  <2>4. LimitTypeOK'
    BY <1>2, <1>T DEF LimitTypeOK, limitVars
  <2>5. Valid' \subseteq Valid \union {r}
    BY <1>T, <2>1, <2>2 DEF Valid
  <2>6. /\ since' \in [Calls -> SUBSET Rows]
        /\ \A c \in Calls : since[c] \subseteq since'[c] /\ r \in since'[c]
    BY <1>2, <1>T
  <2> QED
    BY <1>1, <2>3, <2>4, <2>5, <2>6
<1>3. ASSUME NEW r \in Rows, Revoke(r), UNCHANGED <<since, limitVars>>
      PROVE  TypeOK' /\ \A c \in Calls : CallInv(c)'
  <2>1. /\ rows[r] \in Row /\ now' = now
        /\ rows' = [rows EXCEPT ![r] = [hwnd |-> rows[r].hwnd, expires |-> rows[r].expires,
                                       revoked |-> TRUE]]
    BY <1>3, <1>T DEF Revoke
  <2>2. [hwnd |-> rows[r].hwnd, expires |-> rows[r].expires, revoked |-> TRUE] \in Row
    BY <2>1 DEF Row
  <2>3. WindowsTypeOK'
    BY <1>T, <2>1, <2>2 DEF WindowsTypeOK
  <2>4. LimitTypeOK'
    BY <1>3, <1>T DEF LimitTypeOK, limitVars
  <2>5. Valid' \subseteq Valid
    BY <1>T, <2>1, <2>2 DEF Valid
  <2> QED
    BY <1>1, <1>3, <1>T, <2>3, <2>4, <2>5
<1>4. ASSUME Tick, Forget(now + 1), UNCHANGED since
      PROVE  TypeOK' /\ \A c \in Calls : CallInv(c)'
  <2>1. now' = now + 1 /\ rows' = rows
    BY <1>4 DEF Tick
  <2>2. WindowsTypeOK'
    BY <1>T, <2>1 DEF WindowsTypeOK
  <2>3. LimitTypeOK'
    BY <1>4, <1>T, ForgetType
  <2>4. Valid' \subseteq Valid
    BY <1>T, <2>1, WindowsAssumption DEF Valid, Row
  <2> QED
    BY <1>1, <1>4, <1>T, <2>2, <2>3, <2>4
<1> QED
  BY <1>2, <1>3, <1>4 DEF Environment

(* All of it together is inductive.                                            *)
THEOREM UiInductive == Spec => []IInv
<1>1. Init => IInv
  <2> SUFFICES ASSUME Init PROVE IInv
    OBVIOUS
  <2>1. WindowsTypeOK /\ CaptureTypeOK /\ StoreTypeOK /\ LimitTypeOK
    <3>1. WindowsTypeOK /\ CaptureTypeOK /\ StoreTypeOK
      BY DEF Init, WindowsInit, WindowsTypeOK, CaptureInit, CaptureTypeOK, StoreInit, StoreTypeOK
    <3>2. LimitTypeOK
      BY LimitAssumption, FS_EmptySet DEF Init, LimitInit, LimitTypeOK
    <3> QED
      BY <3>1, <3>2
  <2>2. UiTypeOK
    <3>1. req \in [Calls -> Request]
      BY RequestsAssumption DEF Init
    <3> QED
      BY <3>1 DEF Init, UiTypeOK, Stages, Replies
  <2>3. ASSUME NEW c \in Calls PROVE CallInv(c)
    BY ComposedAssumption DEF Init, CaptureInit, CallInv, Touching, Acting, Capturing, Prefixes
  <2> QED
    BY <2>1, <2>2, <2>3 DEF IInv, TypeOK
<1>2. IInv /\ [Next]_vars => IInv'
  <2> SUFFICES ASSUME IInv, [Next]_vars PROVE IInv'
    OBVIOUS
  <2>1. CASE Environment
    BY <2>1, EnvironmentStep DEF IInv
  <2>2. ASSUME NEW c \in Calls, Step(c) PROVE IInv'
    <3>1. CallInv(c) /\ TypeOK
      BY DEF IInv
    <3>2. Kept(c)
      BY <2>2, <3>1, CallKept, LookKept, ActKept, VerifyKept, AskKept, CountKept, GrabKept,
         ReleaseKept, StoreKept DEF Step
    <3>3. \A d \in Calls \ {c} : CallInv(d)'
      BY <3>2, OthersKept DEF IInv, Kept
    <3> QED
      BY <3>2, <3>3 DEF IInv, Kept
  <2>3. CASE UNCHANGED vars
    <3>1. TypeOK'
      BY <2>3 DEF IInv, vars, windowVars, limitVars, captureVars, storeVars, callVars, TypeOK,
         WindowsTypeOK, LimitTypeOK, CaptureTypeOK, StoreTypeOK, UiTypeOK
    <3>2. \A c \in Calls : CallInv(c)'
      BY <2>3 DEF IInv, vars, windowVars, captureVars, storeVars, callVars, CallInv, Touching, Valid
    <3> QED
      BY <3>1, <3>2 DEF IInv
  <2> QED
    BY <2>1, <2>2, <2>3 DEF Next
<1> QED
  BY <1>1, <1>2, PTL DEF Spec

(* TypeOK: among the rest, no deque of the limiter is longer than its cap.     *)
THEOREM UiTypeCorrect == Spec => []TypeOK
<1>1. IInv => TypeOK
  BY DEF IInv
<1> QED
  BY <1>1, UiInductive, PTL

(* UseAuthorized: a window is looked at or driven only under a row that was    *)
(* valid after the call began or, to drive it, after its approval was consumed.*)
THEOREM UsesAuthorized == Spec => []UseAuthorized
<1>1. IInv => UseAuthorized
  BY DEF IInv, CallInv, UseAuthorized
<1> QED
  BY <1>1, UiInductive, PTL

(* PassedIsEarned: a pass means that all events were sent and all predicates   *)
(* passed.                                                                     *)
THEOREM PassIsEarned == Spec => []PassedIsEarned
<1>1. IInv => PassedIsEarned
  BY DEF IInv, CallInv, PassedIsEarned
<1> QED
  BY <1>1, UiInductive, PTL

(* HandleLeadsToImage: the handle of a screenshot has its row and its private  *)
(* file.                                                                       *)
THEOREM HandleLeads == Spec => []HandleLeadsToImage
<1>1. IInv => HandleLeadsToImage
  BY DEF IInv, CallInv, HandleLeadsToImage
<1> QED
  BY <1>1, UiInductive, PTL

(* GdiReturned: no capture keeps GDI objects, however it ends.                 *)
THEOREM GdiIsReturned == Spec => []GdiReturned
<1>1. IInv => GdiReturned
  BY DEF IInv, CallInv, GdiReturned
<1> QED
  BY <1>1, UiInductive, PTL
--------------------------------------------------------------------------------
(* Every grant that is recent has a place of its own in the deque, where its   *)
(* stamp lies: that is why there are no more of them than the cap.             *)
Placed(k, f) ==
    /\ f \in [taken[k] -> 1..Len(buckets[k])]
    /\ \A t \in taken[k] : buckets[k][f[t]] = t[1]
    /\ \A t, u \in taken[k] : f[t] = f[u] => t = u

RateInv ==
    /\ \A k \in Keys : \A t \in taken[k] : Recent(t[1], now)
    /\ \A k \in Keys : \E f : Placed(k, f)
    /\ \A c \in Calls : stamp[c] <= now

(* Places of its own for each grant: the cap is held.                          *)
LEMMA PlacedHeld ==
  ASSUME LimitTypeOK, NEW k \in Keys, NEW f, Placed(k, f)
  PROVE  Cardinality(taken[k]) <= RATE
<1>1. buckets[k] \in Seq(Nat) /\ Len(buckets[k]) \in Nat /\ Len(buckets[k]) <= RATE /\ RATE \in Nat
  BY LimitAssumption DEF LimitTypeOK
<1>2. IsFiniteSet(1..Len(buckets[k])) /\ Cardinality(1..Len(buckets[k])) = Len(buckets[k])
  BY <1>1, UpTo
<1>3. f \in Injection(taken[k], 1..Len(buckets[k]))
  BY DEF Placed, Injection, IsInjective
<1>4. /\ IsFiniteSet(taken[k]) /\ Cardinality(taken[k]) <= Cardinality(1..Len(buckets[k]))
  BY <1>2, <1>3, FS_Injection
<1>5. Cardinality(taken[k]) \in Nat
  BY <1>4, FS_CardinalityType
<1> QED
  BY <1>1, <1>2, <1>4, <1>5

(* A stamp that is recent is not among those that are evicted.                 *)
LEMMA RecentStays ==
  ASSUME NEW bucket \in Seq(Nat), NEW s \in Nat, NEW time \in Nat, s <= time,
         NEW i \in 1..Len(bucket), Recent(bucket[i], time)
  PROVE  Cardinality(Old(bucket, s)) \in Nat /\ Cardinality(Old(bucket, s)) < i
<1>1. i \in Nat /\ i - 1 \in Nat /\ bucket[i] \in Nat /\ WINDOW \in Nat
  BY LimitAssumption
<1>2. ~(bucket[i] + WINDOW <= s)
  BY <1>1 DEF Recent
<1>3. Old(bucket, s) \subseteq 1..(i - 1)
  <2> SUFFICES ASSUME NEW j \in Old(bucket, s) PROVE j \in 1..(i - 1)
    OBVIOUS
  <2>1. j \in 1..Len(bucket) /\ \A m \in 1..j : bucket[m] + WINDOW <= s
    BY DEF Old
  <2>2. ~(i \in 1..j)
    BY <1>2, <2>1
  <2> QED
    BY <1>1, <2>1, <2>2
<1>4. IsFiniteSet(1..(i - 1)) /\ Cardinality(1..(i - 1)) = i - 1
  BY <1>1, UpTo
<1>5. IsFiniteSet(Old(bucket, s)) /\ Cardinality(Old(bucket, s)) <= i - 1
  BY <1>3, <1>4, FS_Subset
<1>6. Cardinality(Old(bucket, s)) \in Nat
  BY <1>5, FS_CardinalityType
<1> QED
  BY <1>1, <1>5, <1>6

(* A sequence without its first n elements.                                    *)
LEMMA WithoutHead ==
  ASSUME NEW b \in Seq(Nat), NEW n \in Nat, n <= Len(b)
  PROVE  /\ SubSeq(b, n + 1, Len(b)) \in Seq(Nat)
         /\ Len(SubSeq(b, n + 1, Len(b))) = Len(b) - n
         /\ \A m \in 1..(Len(b) - n) : SubSeq(b, n + 1, Len(b))[m] = b[m + n]
<1>1. Len(b) \in Nat
  OBVIOUS
<1>2. SubSeq(b, n + 1, Len(b)) \in Seq(Nat)
  BY <1>1
<1>3. Len(SubSeq(b, n + 1, Len(b))) = Len(b) - n
  BY <1>1
<1>4. ASSUME NEW m \in 1..(Len(b) - n)
      PROVE  SubSeq(b, n + 1, Len(b))[m] = b[m + n]
  <2>1. m \in Nat /\ m >= 1 /\ m <= Len(b) - n
    BY <1>1
  <2>2. SubSeq(b, n + 1, Len(b))[m] = b[(n + 1) + m - 1]
    BY <1>1, <2>1
  <2> QED
    BY <2>1, <2>2
<1> QED
  BY <1>2, <1>3, <1>4

(* The next check() keeps a place for each grant, its own among them.          *)
LEMMA CheckLimitPlaced ==
  ASSUME LimitTypeOK, NEW key \in Keys, NEW s \in Nat, NEW time \in Nat, s <= time,
         \A k \in Keys : \A t \in taken[k] : Recent(t[1], time),
         \A k \in Keys : \E f : Placed(k, f),
         CheckLimit(key, s, time)
  PROVE  /\ \A k \in Keys : \A t \in taken'[k] : Recent(t[1], time)
         /\ \A k \in Keys : \E f : Placed(k, f)'
<1> DEFINE bucket == buckets[key]
           n == Cardinality(Old(bucket, s))
           kept == SubSeq(bucket, n + 1, Len(bucket))
           added == Len(kept) < RATE /\ Recent(s, time)
           grant == Granted(key, s)
<1>1. /\ bucket \in Seq(Nat) /\ Len(bucket) \in Nat /\ RATE \in Nat
      /\ taken \in [Keys -> SUBSET (Nat \X Nat)] /\ buckets \in [Keys -> Seq(Nat)]
  BY LimitAssumption DEF LimitTypeOK
<1>2. n \in Nat /\ n <= Len(bucket)
  <2>1. Old(bucket, s) \subseteq 1..Len(bucket)
    BY DEF Old
  <2>2. IsFiniteSet(1..Len(bucket)) /\ Cardinality(1..Len(bucket)) = Len(bucket)
    BY <1>1, UpTo
  <2> QED
    BY <2>1, <2>2, FS_Subset, FS_CardinalityType
<1>3. /\ buckets' = [buckets EXCEPT ![key] = IF Len(kept) < RATE THEN Append(kept, s) ELSE kept]
      /\ taken' = [taken EXCEPT ![key] = IF added THEN taken[key] \union {grant} ELSE taken[key]]
  BY DEF CheckLimit, Allowed, Evicted
<1>4. grant[1] = s
  BY DEF Granted
<1>5. \A i \in 1..Len(bucket) : Recent(bucket[i], time) => n < i
  BY <1>1, RecentStays
<1> HIDE DEF n, grant
<1>6. /\ kept \in Seq(Nat) /\ Len(kept) = Len(bucket) - n
      /\ \A m \in 1..(Len(bucket) - n) : kept[m] = bucket[m + n]
  BY <1>1, <1>2, WithoutHead
<1> HIDE DEF kept, bucket
<1>7. /\ buckets'[key] \in Seq(Nat)
      /\ Len(kept) <= Len(buckets'[key])
      /\ \A m \in 1..Len(kept) : buckets'[key][m] = kept[m]
      /\ added => Len(kept) + 1 \in 1..Len(buckets'[key]) /\ buckets'[key][Len(kept) + 1] = s
  BY <1>1, <1>3, <1>6
<1>8. taken'[key] = IF added THEN taken[key] \union {grant} ELSE taken[key]
  BY <1>1, <1>3
<1>9. \A k \in Keys \ {key} : taken'[k] = taken[k] /\ buckets'[k] = buckets[k]
  BY <1>1, <1>3
<1>10. \A k \in Keys : \A t \in taken'[k] : Recent(t[1], time)
  BY <1>4, <1>8, <1>9
<1>11. \E f : Placed(key, f)'
  <2>1. PICK f : Placed(key, f)
    OBVIOUS
  <2>2. /\ f \in [taken[key] -> 1..Len(bucket)] /\ \A t \in taken[key] : bucket[f[t]] = t[1]
        /\ \A t, u \in taken[key] : f[t] = f[u] => t = u
    BY <2>1 DEF Placed, bucket
  <2> DEFINE g == [t \in taken'[key] |-> IF t \in taken[key] THEN f[t] - n ELSE Len(kept) + 1]
  <2>3. ASSUME NEW t \in taken[key]
        PROVE  /\ f[t] - n \in 1..Len(kept) /\ f[t] \in Nat
               /\ buckets'[key][f[t] - n] = t[1]
    <3>1. f[t] \in 1..Len(bucket) /\ bucket[f[t]] = t[1] /\ Recent(t[1], time)
      BY <2>2
    <3>2. n < f[t]
      BY <1>5, <3>1
    <3>3. f[t] - n \in 1..(Len(bucket) - n) /\ (f[t] - n) + n = f[t] /\ f[t] \in Nat
      BY <1>1, <1>2, <3>1, <3>2
    <3>4. kept[f[t] - n] = bucket[f[t]]
      BY <1>6, <3>3
    <3>5. f[t] - n \in 1..Len(kept)
      BY <1>6, <3>3
    <3> QED
      BY <1>7, <3>1, <3>3, <3>4, <3>5
  <2>4. Len(kept) \in Nat /\ Len(buckets'[key]) \in Nat
    BY <1>6, <1>7
  <2>5. ASSUME NEW t \in taken'[key]
        PROVE  g[t] \in 1..Len(buckets'[key]) /\ buckets'[key][g[t]] = t[1]
    <3>1. CASE t \in taken[key]
      BY <1>7, <2>3, <2>4, <3>1
    <3>2. CASE t \notin taken[key]
      <4>1. added /\ t = grant
        BY <1>8, <3>2
      <4> QED
        BY <1>4, <1>7, <3>2, <4>1
    <3> QED
      BY <3>1, <3>2
  <2>6. ASSUME NEW t \in taken'[key], NEW u \in taken'[key], g[t] = g[u] PROVE t = u
    <3>1. CASE t \in taken[key] /\ u \in taken[key]
      <4>1. f[t] - n = f[u] - n
        BY <2>6, <3>1
      <4>2. f[t] = f[u]
        BY <1>2, <2>3, <3>1, <4>1
      <4> QED
        BY <2>2, <3>1, <4>2
    <3>2. CASE t \notin taken[key] /\ u \notin taken[key]
      BY <1>8, <3>2
    <3>3. CASE t \in taken[key] /\ u \notin taken[key]
      BY <2>3, <2>4, <2>6, <3>3
    <3>4. CASE t \notin taken[key] /\ u \in taken[key]
      BY <2>3, <2>4, <2>6, <3>4
    <3> QED
      BY <3>1, <3>2, <3>3, <3>4
  <2>7. g \in [taken'[key] -> 1..Len(buckets'[key])]
    BY <2>5
  <2> HIDE DEF g
  <2> QED
    BY <2>5, <2>6, <2>7 DEF Placed
<1>12. ASSUME NEW k \in Keys \ {key} PROVE \E f : Placed(k, f)'
  BY <1>9 DEF Placed
<1> QED
  BY <1>10, <1>11, <1>12

(* Whatever is forgotten leaves the places of the others.                      *)
LEMMA ForgetPlaced ==
  ASSUME NEW time, \A k \in Keys : \E f : Placed(k, f), Forget(time)
  PROVE  /\ \A k \in Keys : \A t \in taken'[k] : Recent(t[1], time)
         /\ \A k \in Keys : \E f : Placed(k, f)'
<1>1. taken' = [k \in Keys |-> {t \in taken[k] : Recent(t[1], time)}] /\ buckets' = buckets
  BY DEF Forget
<1>2. ASSUME NEW k \in Keys PROVE \E f : Placed(k, f)'
  <2>1. PICK f : Placed(k, f)
    OBVIOUS
  <2> DEFINE g == [t \in taken'[k] |-> f[t]]
  <2>2. taken'[k] \subseteq taken[k]
    BY <1>1
  <2>3. g \in [taken'[k] -> 1..Len(buckets[k])] /\ \A t \in taken'[k] : g[t] = f[t]
    BY <2>1, <2>2 DEF Placed
  <2> HIDE DEF g
  <2>4. /\ \A t \in taken'[k] : buckets'[k][g[t]] = t[1]
        /\ \A t, u \in taken'[k] : g[t] = g[u] => t = u
    BY <1>1, <2>1, <2>2, <2>3 DEF Placed
  <2>5. g \in [taken'[k] -> 1..Len(buckets'[k])]
    BY <1>1, <2>3
  <2> QED
    BY <2>4, <2>5 DEF Placed
<1>3. \A k \in Keys : \A t \in taken'[k] : Recent(t[1], time)
  BY <1>1
<1> QED
  BY <1>2, <1>3

(* Only check() counts, and the clock that a call has read stays behind.       *)
LEMMA RateStep == TypeOK /\ RateInv /\ [Next]_vars => RateInv'
<1> SUFFICES ASSUME TypeOK, RateInv, [Next]_vars PROVE RateInv'
  OBVIOUS
<1>T. /\ stamp \in [Calls -> Nat] /\ now \in Nat /\ LimitTypeOK
  BY CallTypes DEF CallTypeOK, UiTypeOK, WindowsTypeOK
<1>1. ASSUME buckets' = buckets, taken' = taken, now' = now,
             \A c \in Calls : stamp'[c] <= now
      PROVE  RateInv'
  BY <1>1 DEF RateInv, Placed
<1>2. ASSUME Environment PROVE RateInv'
  <2>1. stamp' = stamp
    BY <1>2 DEF Environment
  <2>2. CASE UNCHANGED <<limitVars, now>>
    BY <1>1, <2>1, <2>2 DEF limitVars, RateInv
  <2>3. CASE Tick /\ Forget(now + 1)
    <3>1. now' = now + 1
      BY <2>3 DEF Tick
    <3>2. /\ \A k \in Keys : \A t \in taken'[k] : Recent(t[1], now')
          /\ \A k \in Keys : \E f : Placed(k, f)'
      BY <2>3, <3>1, ForgetPlaced DEF RateInv
    <3>3. \A c \in Calls : stamp'[c] <= now'
      BY <1>T, <2>1, <3>1 DEF RateInv
    <3> QED
      BY <3>2, <3>3 DEF RateInv
  <2> QED
    BY <1>2, <2>2, <2>3 DEF Environment, Authorize, Revoke
<1>3. ASSUME NEW c \in Calls, Count(c) PROVE RateInv'
  <2>1. /\ CheckLimit(LimitKey(c), stamp[c], now) /\ stamp' = [stamp EXCEPT ![c] = 0]
        /\ now' = now
    BY <1>3 DEF Count, windowVars
  <2>2. \A d \in Calls : stamp'[d] <= now
    BY <1>T, <2>1 DEF RateInv
  <2>3. CASE LimitKey(c) \in Keys
    <3>1. /\ \A k \in Keys : \A t \in taken'[k] : Recent(t[1], now)
          /\ \A k \in Keys : \E f : Placed(k, f)'
      BY <1>T, <2>1, <2>3, CheckLimitPlaced DEF RateInv
    <3> QED
      BY <2>1, <2>2, <3>1 DEF RateInv
  <2>4. CASE LimitKey(c) \notin Keys
    <3>1. buckets' = buckets /\ taken' = taken
      BY <1>T, <2>1, <2>4 DEF CheckLimit, LimitTypeOK
    <3> QED
      BY <1>1, <2>1, <2>2, <3>1
  <2> QED
    BY <2>3, <2>4
<1>4. ASSUME NEW c \in Calls, Step(c), ~Count(c) PROVE RateInv'
  <2>1. /\ UNCHANGED <<limitVars, windowVars>>
        /\ \/ UNCHANGED stamp
           \/ stamp' = [stamp EXCEPT ![c] = 0]
           \/ stamp' = [stamp EXCEPT ![c] = now]
    <3>1. CASE Call(c)
      BY <3>1 DEF Call
    <3>2. CASE Require(c) \/ Again(c) \/ Look(c) \/ Admit(c) \/ Approve(c) \/ Begin(c)
      BY <3>2 DEF Require, Again, Look, Admit, Approve, Begin, SameCall, Elsewhere
    <3>3. CASE Act(c) \/ Input(c)
      BY <3>3 DEF Act, Input, ActionFails, SameCall, Elsewhere
    <3>4. CASE Verify(c) \/ Compare(c)
      BY <3>4 DEF Verify, Compare, Passes, SameCall, Elsewhere
    <3>5. CASE Ask(c)
      BY <3>5 DEF Ask, Elsewhere
    <3>6. CASE Grab(c) \/ ReleaseAll(c)
      BY <3>6 DEF Grab, ReleaseAll, SameCall
    <3>7. CASE Store(c) \/ RestrictAcl(c) \/ Insert(c)
      BY <3>7 DEF Store, RestrictAcl, Insert, SameCall, KeepsRest
    <3> QED
      BY <1>4, <3>1, <3>2, <3>3, <3>4, <3>5, <3>6, <3>7 DEF Step
  <2>2. \A d \in Calls : stamp'[d] <= now
    BY <1>T, <2>1 DEF RateInv
  <2> QED
    BY <1>1, <2>1, <2>2 DEF limitVars, windowVars
<1>5. CASE UNCHANGED vars
  BY <1>1, <1>5 DEF vars, limitVars, windowVars, callVars, RateInv
<1> QED
  BY <1>2, <1>3, <1>4, <1>5 DEF Next

(* RateHeld: whoever overtakes whom between the clock and the lock, the        *)
(* screenshots of a key that were asked for within the last WINDOW and granted *)
(* are no more than RATE.                                                      *)
THEOREM RateIsHeld == Spec => []RateHeld
<1>1. Init => RateInv
  <2> SUFFICES ASSUME Init PROVE RateInv
    OBVIOUS
  <2>1. ASSUME NEW k \in Keys PROVE Placed(k, [t \in {} |-> 1]) /\ taken[k] = {}
    BY DEF Init, LimitInit, Placed
  <2> QED
    BY <2>1 DEF Init, WindowsInit, RateInv
<1>2. TypeOK /\ RateInv => RateHeld
  BY PlacedHeld, CallTypes DEF RateInv, RateHeld
<1> QED
  BY <1>1, <1>2, RateStep, UiTypeCorrect, PTL DEF Spec
================================================================================
