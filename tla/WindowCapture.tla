----------------------------- MODULE WindowCapture -----------------------------
(* capture_window_bytes() of ui/screens.py: the GDI objects a capture acquires *)
(* one after the other, any of which may be refused, and gives back in its     *)
(* finally clause. A process has ten thousand of them.                         *)
EXTENDS Naturals

CONSTANT Calls

VARIABLE gdi    \* per call, the objects it holds

captureVars == <<gdi>>

Objects == {"window_dc", "memory_dc", "bitmap", "selected"}

CaptureTypeOK == gdi \in [Calls -> SUBSET Objects]
CaptureInit == gdi = [c \in Calls |-> {}]

(* The window has no bounds or gives no DC; no memory DC; no bitmap; or the    *)
(* bitmap is selected, which may fail too without being looked at.             *)
Prefixes == {{}, {"window_dc"}, {"window_dc", "memory_dc"}, Objects \ {"selected"}, Objects}

(* PrintWindow and GetDIBits need the bitmap.                                  *)
Acquire(c) == gdi' \in {[gdi EXCEPT ![c] = held] : held \in Prefixes}
Printable(c) == "bitmap" \in gdi[c]

(* The finally clause, in its order. DeleteObject() refuses a bitmap that is   *)
(* selected into a DC, and DeleteDC() takes the selection with the DC.         *)
MutGivenBack(held) ==
    LET deleted == IF "selected" \in held THEN held ELSE held \ {"bitmap"}
    IN  deleted \ {"selected", "memory_dc", "window_dc"}
GivenBack(held) ==
    LET deselected == IF "memory_dc" \in held THEN held \ {"selected"} ELSE held
        deleted == IF "selected" \in deselected THEN deselected
                   ELSE deselected \ {"bitmap"}
    IN  deleted \ {"selected", "memory_dc", "window_dc"}
Release(c) == gdi' = [gdi EXCEPT ![c] = GivenBack(@)]
================================================================================
