--------------------------------- MODULE MCUi ---------------------------------
(* UiTools for TLC: calls of two kinds at a time, each call slot used again    *)
(* and again, one window, a clock of four values and a limit of one screenshot *)
(* in two of them.                                                             *)
EXTENDS UiTools

CONSTANTS r, h

OnRow == [row |-> r, hwnd |-> h]
OnHandle == [row |-> NoRow, hwnd |-> h]
Ask1(tool, row, verify, preds, chars) ==
    [tool |-> tool, row |-> row, verify |-> verify, preds |-> preds, chars |-> chars]
Actions == {Ask1("click", r, FALSE, <<>>, 1), Ask1("click", r, TRUE, <<>>, 1),
            Ask1("type", r, TRUE, <<OnRow, OnHandle>>, 1),
            Ask1("act", r, FALSE, <<>>, 2), Ask1("odd", r, FALSE, <<>>, 1)}
Captures == {Ask1("tree", r, FALSE, <<>>, 1), Ask1("ocr", r, FALSE, <<>>, 1),
             Ask1("window", r, FALSE, <<>>, 1), Ask1("file", NoRow, FALSE, <<>>, 1)}
ByCall == [c \in Calls |-> IF c = 1 THEN Captures ELSE
            Actions \union {Ask1("window", r, FALSE, <<>>, 1)}]
================================================================================
