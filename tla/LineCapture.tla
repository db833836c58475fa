----------------------------- MODULE LineCapture -----------------------------
(***************************************************************************)
(* The in-memory line buffer between the loggers and the push loop          *)
(* (push.go, type LineCapture).  Write, Flush and Rebuffer each hold lc.mu  *)
(* for their whole body, so each is one operator on the buffered sequence;  *)
(* Flush returns the sequence and leaves << >>.  A line is represented by   *)
(* its position in the order of capture, never by its JSON text.            *)
(***************************************************************************)
EXTENDS Integers, Sequences

CONSTANT MaxBufferSize          \* maxBufferSize, push.go:22 (10 000)

ASSUME BufferAssumption == MaxBufferSize \in Nat \ {0}

\* The newest n elements of s: Go's s[len(s)-n:].
Newest(s, n) == SubSeq(s, Len(s) - n + 1, Len(s))

\* LineCapture.Write: drop the oldest lines of a full buffer, append the new one.
Write(buf, line) ==
    Append(IF Len(buf) >= MaxBufferSize THEN Newest(buf, MaxBufferSize - 1) ELSE buf,
           line)

\* Variant for the mutation runs: new lines go in front of the ones put back.
RebufferBehind(unsent, buf) ==
    LET lines == buf \o unsent
    IN  IF Len(lines) > MaxBufferSize THEN Newest(lines, MaxBufferSize) ELSE lines

\* Variant for the mutation runs: an overflowing Rebuffer keeps the oldest lines.
RebufferOldest(unsent, buf) ==
    LET lines == unsent \o buf
    IN  IF Len(lines) > MaxBufferSize THEN SubSeq(lines, 1, MaxBufferSize) ELSE lines

\* LineCapture.Rebuffer: undelivered lines go back in front; the newest are kept.
Rebuffer(unsent, buf) ==
    LET lines == unsent \o buf
    IN  IF Len(lines) > MaxBufferSize THEN Newest(lines, MaxBufferSize) ELSE lines
=============================================================================
