------------------------------ MODULE LogReading ------------------------------
(* The readers of a log that is still written: tail(), read_range() and        *)
(* search() of persistence/artifacts.py behind the output.* tools. A log is    *)
(* the sequence of its characters: line feeds, carriage returns (the progress  *)
(* bars of development servers) and text. The monitor of a managed process     *)
(* appends line after line and counts the line feeds of the row afterwards.    *)
EXTENDS SequencesExt

CONSTANTS
    Payloads,       \* what readline() of the monitor may return
    MaxLength,      \* a bound: the characters of the log
    CHUNK,          \* tail() reads backwards in pieces of this size (32 KB)
    STREAM_ABOVE,   \* read_range() streams logs with more lines (100,000)
    Tails,          \* the n of output.tail
    Ranges          \* the <<start_line, end_line>> of output.read_range

LF == "\n"
CR == "\r"
Wanted == "a"       \* what the pattern of output.search matches
Chars == {LF, CR, "a", "b"}

ASSUME ReadingAssumption ==
    /\ Payloads \subseteq Seq(Chars) \ {<<>>}
    /\ CHUNK \in Nat \ {0} /\ STREAM_ABOVE \in Nat /\ MaxLength \in Nat
    /\ Tails \subseteq Int /\ Ranges \subseteq Nat \X Nat

VARIABLES
    text,       \* the file
    counted,    \* line_count of the row
    writing,    \* the line feeds that append() has written and not yet counted
    tailing,    \* the call of tail() in progress or just over
    found,      \* a match that some earlier search() has returned
    page        \* a range that some earlier read_range() has returned

readVars == <<text, counted, writing, tailing, found, page>>

LineEnds(s) == {i \in DOMAIN s : s[i] = LF}
LineFeeds(s) == Cardinality(LineEnds(s))
EndsLine(s) == s # <<>> /\ Last(s) = LF

(* rstrip("\r"). *)
Bare(s) ==
    SubSeq(s, 1, Max({0} \union {i \in DOMAIN s : s[i] # CR}))

(* s cut at the positions cuts, without the characters there: line k lies      *)
(* between the cut before it, or the start, and the k-th, or the end.          *)
Nth(cuts, k) == CHOOSE p \in cuts : Cardinality({q \in cuts : q <= p}) = k

Border(s, cuts, k) ==
    IF k = 0 THEN 0 ELSE IF k > Cardinality(cuts) THEN Len(s) + 1 ELSE Nth(cuts, k)

Cut(s, cuts) ==
    [k \in 1 .. Cardinality(cuts) + 1 |->
        Bare(SubSeq(s, Border(s, cuts, k - 1) + 1, Border(s, cuts, k) - 1))]

(* _read_text(): one line feed at the end does not count, split at the others. *)
Whole(s) == IF EndsLine(s) THEN Front(s) ELSE s
Split(s) == Cut(Whole(s), LineEnds(Whole(s)))

(* The lines of a file that Python opens as text: a carriage return alone ends *)
(* a line too, and nothing follows the last end of a line.                     *)
TextEnds(s) ==
    {i \in DOMAIN s : s[i] = LF \/ (s[i] = CR /\ (i < Len(s) => s[i + 1] # LF))}

TextLines(s) ==
    LET cut == Cut(s, TextEnds(s))
    IN  IF Len(s) \in TextEnds(s) \union {0} THEN Front(cut) ELSE cut

LastLines(n, lines) == SubSeq(lines, Max({1, Len(lines) - n + 1}), Len(lines))

(* lines[start:end], for start < end. *)
Slice(lines, start, end) == SubSeq(lines, start + 1, Min({end, Len(lines)}))

MutStreamed(s, start, end) ==
    SelectSeq([i \in 1 .. Len(TextLines(s)) |->
                IF start < i - 1 /\ i - 1 <= end THEN TextLines(s)[i] ELSE <<LF>>],
              LAMBDA line : line # <<LF>>)
Streamed(s, start, end) == Slice(TextLines(s), start, end)

(* read_range() of a log whose row counts c lines. *)
ReadRange(c, s, start, end) ==
    IF end <= start THEN <<>>
    ELSE IF c <= STREAM_ABOVE THEN Slice(Split(s), start, end)
    ELSE Streamed(s, start, end)

Idle == [at |-> "idle", n |-> 1, size |-> 0, pos |-> 0, buf |-> <<>>, lines |-> <<>>]
Nothing == [line |-> 0, text |-> <<>>, seen |-> FALSE]
NoPage == [start |-> 0, end |-> 0, lines |-> <<>>]

ReadTypeOK ==
    /\ text \in Seq(Chars) /\ Len(text) <= MaxLength
    /\ counted \in 0 .. MaxLength /\ writing \in 0 .. MaxLength
    /\ counted + writing = LineFeeds(text)
    /\ tailing.at \in {"idle", "reading", "done"}
    /\ tailing.pos \in 0 .. tailing.size /\ tailing.size <= Len(text)
    /\ found.line \in 0 .. MaxLength

ReadInit ==
    /\ text = <<>> /\ counted = 0 /\ writing = 0
    /\ tailing = Idle /\ found = Nothing /\ page = NoPage

(* append(): one write of the whole payload, ... *)
AppendText(payload) ==
    /\ writing = 0 /\ (text = <<>> \/ EndsLine(text))
    /\ Len(text) + Len(payload) <= MaxLength
    /\ text' = text \o payload
    /\ writing' = LineFeeds(payload)
    /\ UNCHANGED <<counted, tailing, found, page>>

(* ... and later the row. *)
MutAppendLineCount ==
    /\ writing > 0
    /\ counted' = counted + LineFeeds(text)
    /\ writing' = 0
    /\ UNCHANGED <<text, tailing, found, page>>
AppendLineCount ==
    /\ writing > 0
    /\ counted' = counted + writing
    /\ writing' = 0
    /\ UNCHANGED <<text, tailing, found, page>>

(* output.tail raises n to 1; tail() looks up the row, and the size once.      *)
OutputTail(n) ==
    /\ tailing.at # "reading"
    /\ tailing' = [at |-> IF text = <<>> THEN "done" ELSE "reading", n |-> Max({n, 1}),
                   size |-> Len(text), pos |-> Len(text), buf |-> <<>>, lines |-> <<>>]
    /\ UNCHANGED <<text, counted, writing, found, page>>

(* The loop goes on until the buffer has more than n line feeds. *)
MutEnough == tailing.pos = 0 \/ LineFeeds(tailing.buf) >= tailing.n
Enough == tailing.pos = 0 \/ LineFeeds(tailing.buf) > tailing.n

TailChunk ==
    /\ tailing.at = "reading" /\ ~ Enough
    /\ LET from == Max({0, tailing.pos - CHUNK})
       IN  tailing' = [tailing EXCEPT !.pos = from,
                            !.buf = SubSeq(text, from + 1, tailing.pos) \o @]
    /\ UNCHANGED <<text, counted, writing, found, page>>

TailReturns ==
    /\ tailing.at = "reading" /\ Enough
    /\ tailing' = [tailing EXCEPT !.at = "done",
                                  !.lines = LastLines(tailing.n, Split(tailing.buf))]
    /\ UNCHANGED <<text, counted, writing, found, page>>

(* output.search: the number, from 0, and the text of a line with a match.     *)
MutOutputSearch ==
    /\ \E i \in DOMAIN TextLines(text) :
          /\ Contains(TextLines(text)[i], Wanted)
          /\ found' = [line |-> i, text |-> TextLines(text)[i], seen |-> TRUE]
    /\ UNCHANGED <<text, counted, writing, tailing, page>>
OutputSearch ==
    /\ \E i \in DOMAIN TextLines(text) :
          /\ Contains(TextLines(text)[i], Wanted)
          /\ found' = [line |-> i - 1, text |-> TextLines(text)[i], seen |-> TRUE]
    /\ UNCHANGED <<text, counted, writing, tailing, page>>

OutputReadRange(start, end) ==
    /\ page' = [start |-> start, end |-> end,
                lines |-> ReadRange(counted, text, start, end)]
    /\ UNCHANGED <<text, counted, writing, tailing, found>>

ReadNext ==
    \/ \E payload \in Payloads : AppendText(payload)
    \/ AppendLineCount
    \/ \E n \in Tails : OutputTail(n)
    \/ TailChunk \/ TailReturns
    \/ OutputSearch
    \/ \E range \in Ranges : OutputReadRange(range[1], range[2])

ReadSpec == ReadInit /\ [][ReadNext]_readVars
-------------------------------------------------------------------------------
(* What tail() returns, read backwards in pieces while the log grows, is the   *)
(* last n lines of the log as it was when the call looked at its size.         *)
TailIsLast ==
    tailing.at = "done" =>
        tailing.lines = IF tailing.size = 0 THEN <<>>
                        ELSE LastLines(tailing.n, Split(SubSeq(text, 1, tailing.size)))

(* No carriage return is followed by anything but a line feed. *)
NoBare(s) == \A i \in DOMAIN s : s[i] = CR /\ i < Len(s) => s[i + 1] = LF

(* Unless the log has a carriage return that ends no line: a line that search()*)
(* has found is read under its number, as it was, by every later read_range(), *)
(* also when the log has grown or has passed the size to be streamed meanwhile.*)
FoundStaysReadable ==
    found.seen /\ NoBare(text) =>
        \A c \in 0 .. counted :
            ReadRange(c, text, found.line, found.line + 1) = <<found.text>>

(* Likewise a range that was read once: a later read of it, whichever way it   *)
(* is done, returns the same lines, and new ones behind them. Only the empty   *)
(* log, which reads as one empty line, may begin with another line later.      *)
PagesOnlyGrow ==
    NoBare(text) =>
        \A c \in 0 .. counted :
            LET now == ReadRange(c, text, page.start, page.end)
            IN  \/ IsPrefix(page.lines, now)
                \/ page.lines = << <<>> >> /\ now # <<>>

(* Not so with a carriage return inside a line, which ends a line for search() *)
(* and for read_range() of a large log, and none for read_range() of a small.  *)
NumbersAgree ==
    found.seen => \A c \in 0 .. counted :
        ReadRange(c, text, found.line, found.line + 1) = <<found.text>>
===============================================================================
