----------------------------- MODULE LineWriter -----------------------------
(***************************************************************************)
(* lineWriter of the worker (worker/internal/worker/worker.go): it copies  *)
(* the workload's output to the archive and publishes it line by line,     *)
(* cutting what does not fit its buffer, but never inside a UTF-8 rune.    *)
(* The loop of Write is followed step by step; one writer is used by one   *)
(* goroutine at a time.                                                    *)
(*                                                                         *)
(* Bytes are told apart as the code does: newline, start of a rune of      *)
(* three bytes, continuation byte, and any other.                          *)
(***************************************************************************)
EXTENDS Integers, Sequences

CONSTANTS
  MaxChunk,   \* size of the buffer
  MaxInput    \* bound: bytes written

Bytes  == {"newline", "start", "continuation", "plain"}
UTFMax == 4

ASSUME ChunkAssumption == MaxChunk \in Nat /\ MaxChunk >= UTFMax /\ MaxInput \in Nat

VARIABLES
  data,      \* what the current Write has still to take up
  buffer,    \* lineWriter.buffer
  pc,        \* where Write is: idle, fill, scan, cut
  err,       \* lineWriter.err
  sent,      \* history: published log messages
  accepted,  \* history: bytes of the writes that were archived
  flushed    \* flush() has run

vars == <<data, buffer, pc, err, sent, accepted, flushed>>

TypeOK ==
  /\ data \in Seq(Bytes) /\ buffer \in Seq(Bytes)
  /\ pc \in {"idle", "fill", "scan", "cut"}
  /\ err \in BOOLEAN /\ flushed \in BOOLEAN
  /\ sent \in Seq(Seq(Bytes))
  /\ accepted \in Seq(Bytes)

Init ==
  /\ data = <<>> /\ buffer = <<>> /\ pc = "idle" /\ err = FALSE
  /\ sent = <<>> /\ accepted = <<>> /\ flushed = FALSE

From(s, k) == SubSeq(s, k, Len(s))

-----------------------------------------------------------------------------
\* Write: the archive takes all of it ...
Write(d) ==
  /\ pc = "idle" /\ ~err /\ ~flushed
  /\ data' = d
  /\ accepted' = accepted \o d
  /\ pc' = "fill"
  /\ UNCHANGED <<buffer, err, sent, flushed>>

\* ... or fails, and then nothing of it, nor of any later write, is published.
WriteFails ==
  /\ pc = "idle" /\ ~err /\ ~flushed
  /\ err' = TRUE
  /\ UNCHANGED <<data, buffer, pc, sent, accepted, flushed>>

\* Fault: one byte of the buffer is never used.
FillOffByOne ==
  LET room  == MaxChunk - 1 - Len(buffer)
      count == IF Len(data) < room THEN Len(data) ELSE room
  IN  /\ pc = "fill" /\ data # <<>>
      /\ buffer' = buffer \o SubSeq(data, 1, count)
      /\ data' = From(data, count + 1)
      /\ pc' = "scan"
      /\ UNCHANGED <<err, sent, accepted, flushed>>

\* Move as much as fits into the buffer.
Fill ==
  LET room  == MaxChunk - Len(buffer)
      count == IF Len(data) < room THEN Len(data) ELSE room
  IN  /\ pc = "fill" /\ data # <<>>
      /\ buffer' = buffer \o SubSeq(data, 1, count)
      /\ data' = From(data, count + 1)
      /\ pc' = "scan"
      /\ UNCHANGED <<err, sent, accepted, flushed>>

WriteReturns ==
  /\ pc = "fill" /\ data = <<>>
  /\ pc' = "idle"
  /\ UNCHANGED <<data, buffer, err, sent, accepted, flushed>>

\* Where a line may end, and where it does.
Newlines(s) == {k \in DOMAIN s : s[k] = "newline"}
First(k, K) == k \in K /\ \A m \in K : k <= m

\* Fault: the rest of the buffer goes with the line.
SendLineDropsRest ==
  \E newline \in Newlines(buffer) :
    /\ pc = "scan" /\ First(newline, Newlines(buffer))
    /\ sent' = Append(sent, SubSeq(buffer, 1, newline - 1))
    /\ buffer' = <<>>
    /\ UNCHANGED <<data, pc, err, accepted, flushed>>

SendLine ==
  \E newline \in Newlines(buffer) :
    /\ pc = "scan" /\ First(newline, Newlines(buffer))
    /\ sent' = Append(sent, SubSeq(buffer, 1, newline - 1))
    /\ buffer' = From(buffer, newline + 1)
    /\ UNCHANGED <<data, pc, err, accepted, flushed>>

ScanEnds ==
  /\ pc = "scan" /\ Newlines(buffer) = {}
  /\ pc' = IF Len(buffer) = MaxChunk THEN "cut" ELSE "fill"
  /\ UNCHANGED <<data, buffer, err, sent, accepted, flushed>>

\* utf8.RuneStart, and utf8.FullRune of what begins with a rune start: bytes that
\* cannot be continued to a rune count as full.
RuneStart(b) == b # "continuation"
FullRune(s)  ==
  s[1] = "start" /\ Len(s) < 3 => \E k \in 2..Len(s) : s[k] # "continuation"

\* Fault: nothing is kept back.
CutNothing(s) == Len(s)

\* How much of a full buffer to send: all but an incomplete rune at its end.
Cut(s) ==
  LET open == {k \in (Len(s) - UTFMax + 1)..Len(s) : RuneStart(s[k]) /\ ~FullRune(From(s, k))}
  IN  IF open = {} THEN Len(s) ELSE (CHOOSE k \in open : First(k, open)) - 1

SendChunk ==
  /\ pc = "cut"
  /\ sent' = Append(sent, SubSeq(buffer, 1, Cut(buffer)))
  /\ buffer' = From(buffer, Cut(buffer) + 1)
  /\ pc' = "fill"
  /\ UNCHANGED <<data, err, accepted, flushed>>

\* flush(): an unterminated last line.
Flush ==
  /\ pc = "idle" /\ ~flushed
  /\ sent' = IF buffer = <<>> THEN sent ELSE Append(sent, buffer)
  /\ buffer' = <<>>
  /\ flushed' = TRUE
  /\ UNCHANGED <<data, pc, err, accepted>>

Loop == Fill \/ WriteReturns \/ SendLine \/ ScanEnds \/ SendChunk

Next ==
  \/ \E n \in 1..(MaxInput - Len(accepted)) : \E d \in [1..n -> Bytes] : Write(d)
  \/ WriteFails \/ Loop \/ Flush

Spec == Init /\ [][Next]_vars

\* A running loop runs on.
FairSpec == Spec /\ WF_vars(Loop)

-----------------------------------------------------------------------------
(* Properties. *)

\* Whatever is written, no more than MaxChunk bytes are buffered and none of the
\* messages is longer, and between two writes there is room in the buffer: Write
\* always has somewhere to put the next byte.
Bounded ==
  /\ Len(buffer) <= MaxChunk
  /\ pc \in {"idle", "fill"} => Len(buffer) < MaxChunk
  /\ \A k \in DOMAIN sent : Len(sent[k]) <= MaxChunk

\* A cut falls between two runes: a message that ends inside what could be a rune
\* is followed by a byte that does not continue it, and that byte is known.
NoRuneSplit ==
  [][pc = "cut" =>
       LET m == sent'[Len(sent')]
       IN  \A k \in DOMAIN m : RuneStart(m[k]) /\ ~FullRune(From(m, k))
             => buffer' # <<>> /\ buffer'[1] # "continuation"]_vars

\* The code's result one byte at a time.
Put(acc, b) ==
  LET all == Append(acc.buffer, b)
  IN  IF b = "newline" THEN [sent |-> Append(acc.sent, acc.buffer), buffer |-> <<>>]
      ELSE IF Len(all) < MaxChunk THEN [sent |-> acc.sent, buffer |-> all]
      ELSE [sent |-> Append(acc.sent, SubSeq(all, 1, Cut(all))), buffer |-> From(all, Cut(all) + 1)]

Nothing == [sent |-> <<>>, buffer |-> <<>>]

Bytewise(s) ==
  LET after[k \in 0..Len(s)] == IF k = 0 THEN Nothing ELSE Put(after[k - 1], s[k])
  IN  after[Len(s)]

\* The messages depend on the bytes written only, not on how the pipe happens to
\* divide them into writes: they are those of writing byte by byte, an unfinished
\* last line included once flush() has run.
SplitIndependent ==
  LET bytewise == Bytewise(accepted)
      rest     == IF bytewise.buffer = <<>> THEN <<>> ELSE <<bytewise.buffer>>
  IN  pc = "idle" => IF flushed THEN sent = bytewise.sent \o rest /\ buffer = <<>>
                     ELSE sent = bytewise.sent /\ buffer = bytewise.buffer

\* Every Write returns: each round of its loop takes up a byte or ends it.
WriteTerminates == pc # "idle" ~> pc = "idle"

\* What WriteTerminates rests on: a step of the loop takes up bytes of the write, or
\* comes nearer to the point where it does or returns.
Remaining == IF pc = "scan" THEN 3 + Len(buffer) ELSE [idle |-> 0, fill |-> 1, cut |-> 2][pc]

LoopAdvances ==
  [][Loop => \/ Len(data') < Len(data)
             \/ data' = data /\ Remaining' < Remaining]_vars

-----------------------------------------------------------------------------
(* Why they hold. *)

\* The inductive form of Bounded: the buffer is full only where Write looks for it.
WriterInv ==
  /\ TypeOK
  /\ Bounded
  /\ pc = "idle" => data = <<>>
  /\ pc = "cut" => Len(buffer) = MaxChunk

\* Writing the first bytes s one by one gives the messages sent so far, and its rest
\* with the next bytes t is the buffer; between two rounds all bytes but those of
\* data are among the first.
SplitInv ==
  IF flushed THEN pc = "idle" /\ SplitIndependent
  ELSE \E s, t \in Seq(Bytes) :
         /\ accepted = (s \o t) \o data
         /\ sent = Bytewise(s).sent /\ buffer = Bytewise(s).buffer \o t
         /\ Bytewise(s).buffer \in Seq(Bytes)
         /\ Len(Bytewise(s).buffer) < MaxChunk /\ Newlines(Bytewise(s).buffer) = {}
         /\ pc \in {"idle", "fill"} => t = <<>>
         /\ pc = "cut" => Newlines(buffer) = {}
=============================================================================
