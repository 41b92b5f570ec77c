----------------------------- MODULE ArtifactStore -----------------------------
(* write() of persistence/artifacts.py: a file that appears whole by           *)
(* os.replace(), is restricted to the user by three runs of icacls, and only   *)
(* then gets its row and so its handle. Each of these steps may fail.          *)
EXTENDS Naturals

CONSTANTS
    Writers,    \* who writes; each write has a file and a handle of its own
    Pinned      \* whether other programs may hold the file open

ASSUME StoreAssumption == Pinned \in BOOLEAN

VARIABLES
    file,       \* per writer, its file: open to all, without any access, private
    entry       \* per writer, whether the artifacts table has its row

storeVars == <<file, entry>>

StoreTypeOK ==
    /\ file \in [Writers -> {"none", "open", "stripped", "private"}]
    /\ entry \in [Writers -> BOOLEAN]

StoreInit ==
    /\ file = [c \in Writers |-> "none"]
    /\ entry = [c \in Writers |-> FALSE]

NewArtifact(c) ==
    /\ file' = [file EXCEPT ![c] = "none"]
    /\ entry' = [entry EXCEPT ![c] = FALSE]

(* The payload is written to a .tmp, flushed, and renamed; if that fails the   *)
(* .tmp is removed and RedactionFailed raised, before there is a target.       *)
PutFile(c) == file' = [file EXCEPT ![c] = "open"] /\ UNCHANGED entry

(* icacls /inheritance:r, /grant:r and /remove:g, whose result is ignored.     *)
Protect(c) == file' = [file EXCEPT ![c] = "private"] /\ UNCHANGED entry

(* Any of them may exit with an error or time out. CalledProcessError and      *)
(* TimeoutExpired are no OSError: the file stays as it is.                     *)
ProtectFails(c) ==
    /\ file' \in {[file EXCEPT ![c] = left] : left \in {"open", "stripped", "private"}}
    /\ UNCHANGED entry

(* icacls cannot be started: the file is removed, unless somebody has it open. *)
ProtectMissing(c) ==
    /\ file' \in {[file EXCEPT ![c] = left] :
                    left \in {"none"} \union (IF Pinned THEN {"open"} ELSE {})}
    /\ UNCHANGED entry

(* INSERT OR REPLACE of the row, after which the handle is returned.           *)
PutRow(c) == entry' = [entry EXCEPT ![c] = TRUE] /\ UNCHANGED file
================================================================================
