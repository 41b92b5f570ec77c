---------------------------- MODULE StreamArtifacts ----------------------------
(***************************************************************************)
(* persistence/artifacts.py: streaming artifacts, create_stream(),         *)
(* append() and seal().  An artifact is a file, measured here in appended  *)
(* chunks, and a row of the artifacts table with its size and its sealed   *)
(* flag.  Neither append() nor seal() holds a lock or a transaction: the   *)
(* statements below are the steps that other threads come between.         *)
(***************************************************************************)
EXTENDS Integers

CONSTANT Procs   \* every start of a managed process has a log of its own

VARIABLES file,    \* the chunks in the file
          total,   \* bytes_total and line_count of the row
          log      \* the row: absent, open (sealed = 0) or sealed

logVars == <<file, total, log>>

LogTypeOK ==
    /\ file \in [Procs -> Nat]
    /\ total \in [Procs -> Nat]
    /\ log \in [Procs -> {"absent", "open", "sealed"}]

LogInit ==
    /\ file = [p \in Procs |-> 0]
    /\ total = [p \in Procs |-> 0]
    /\ log = [p \in Procs |-> "absent"]

CreateStream(p) ==
    /\ log' = [log EXCEPT ![p] = "open"]
    /\ UNCHANGED <<file, total>>

(* append() looks the row up, and raises when it is sealed, ... *)
Appendable(p) == log[p] = "open"

(* ... then writes the file ... *)
AppendWrite(p) ==
    /\ file' = [file EXCEPT ![p] = @ + 1]
    /\ UNCHANGED <<total, log>>

(* ... and counts the chunk: UPDATE ... WHERE handle = ? AND sealed = 0. *)
AppendCount(p) ==
    /\ total' = IF log[p] = "open" THEN [total EXCEPT ![p] = @ + 1] ELSE total
    /\ UNCHANGED <<file, log>>

(* seal() with the size of the file that it has read before. *)
Seal(p, size) ==
    /\ log' = [log EXCEPT ![p] = "sealed"]
    /\ total' = [total EXCEPT ![p] = size]
    /\ UNCHANGED file
================================================================================
