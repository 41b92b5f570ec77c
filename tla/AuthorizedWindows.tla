--------------------------- MODULE AuthorizedWindows ---------------------------
(* ui/windows.py: the rows of authorized_windows, by which the ui.* and ocr.*  *)
(* tools may look at and drive a window until it expires or is revoked. Any    *)
(* agent, or the operator in the control plane, authorizes and revokes at any  *)
(* time.                                                                       *)
EXTENDS Naturals

CONSTANTS
    Rows,       \* the window ids that are ever given out
    Handles,    \* native window handles
    NoRow,      \* there is no such row
    MaxTime,    \* bound: the clock stops here
    Lifetimes   \* the ttl_ms callers ask for

ASSUME WindowsAssumption ==
    /\ NoRow \notin Rows
    /\ MaxTime \in Nat
    /\ Lifetimes \subseteq Nat

VARIABLES
    now,        \* the time
    rows        \* the table, by window id

windowVars == <<now, rows>>

Row == [hwnd : Handles, expires : Nat, revoked : BOOLEAN]

WindowsTypeOK ==
    /\ now \in Nat
    /\ rows \in [Rows -> Row \union {NoRow}]

WindowsInit ==
    /\ now = 0
    /\ rows = [r \in Rows |-> NoRow]

(* authorize(): a new row, with an id of its own.                              *)
Authorize(r) ==
    /\ rows[r] = NoRow
    /\ \E h \in Handles, ttl \in Lifetimes :
        rows' = [rows EXCEPT ![r] =
                    [hwnd |-> h, expires |-> now + ttl, revoked |-> FALSE]]
    /\ UNCHANGED now

(* revoke(): no condition on the state of the row, and never undone.           *)
Revoke(r) ==
    /\ rows[r] # NoRow
    /\ rows' = [rows EXCEPT ![r] =
                    [hwnd |-> rows[r].hwnd, expires |-> rows[r].expires,
                     revoked |-> TRUE]]
    /\ UNCHANGED now

Tick ==
    /\ now < MaxTime
    /\ now' = now + 1
    /\ UNCHANGED rows

(* lookup() and is_authorized(). The row is read before the clock; that is one *)
(* step here: what happens in between could as well happen after it, or makes  *)
(* the row expire.                                                             *)
MutLookup(r) == r \in Rows /\ rows[r] # NoRow /\ rows[r].expires > now
Lookup(r) ==
    /\ r \in Rows
    /\ rows[r] # NoRow
    /\ ~rows[r].revoked
    /\ rows[r].expires > now
================================================================================
