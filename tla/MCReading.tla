------------------------------- MODULE MCReading -------------------------------
(* LogReading for TLC: lines with and without text, with a carriage return at  *)
(* their end or inside, and a last line without an end.                        *)
EXTENDS LogReading

Lines == {<<LF>>, <<"a", LF>>, <<"b", CR, LF>>, <<"b", CR, "a", LF>>, <<"a", "b">>}
Pages == {<<0, 1>>, <<1, 3>>, <<2, 2>>}
================================================================================
