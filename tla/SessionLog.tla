----------------------------- MODULE SessionLog -----------------------------
(***************************************************************************)
(* The log of a managed session: the host's spool cuts what the device     *)
(* sends into numbered records under three limits, and a follower on       *)
(* another process polls the file with a cursor and a tail.                *)
(*                                                                         *)
(* Bytes: "x" a character, "n" a newline, "r" a carriage return, "h" and   *)
(* "k" the two halves of one character; the stream decoder holds an "h"    *)
(* back until its "k".  No byte is outside a character, and none is a byte *)
(* order mark: the decoder replaces the ones and drops the other.          *)
(***************************************************************************)
EXTENDS Naturals, Sequences, SequencesExt

CONSTANTS
  Chunks,       \* what one data event of the transport may carry
  RawLimit, RecordLimit, SpoolLimit,
  TailLimit     \* records one poll of the follower returns at most

Byte == {"x", "n", "r", "h", "k"}

ASSUME ChunksAssumption == Chunks \subseteq Seq(Byte) \ {<<>>}
ASSUME LimitsAssumption == {RawLimit, RecordLimit, SpoolLimit, TailLimit} \subseteq Nat

VARIABLES
  spool,     \* the host's spool, and the files it writes
  follower   \* SerialSessionLauncher.follow() or the console's print()

logVars == <<spool, follower>>

Mode == {"line", "text", "binary"}   \* utf8 lines, utf8 raw framing, binary

LogInit ==
  /\ spool \in {[mode |-> m, raw |-> <<>>, held |-> <<>>, pending |-> <<>>, due |-> FALSE,
                 file |-> <<>>, bytes |-> 0, torn |-> FALSE, state |-> "open"] : m \in Mode}
  /\ follower = [cursor |-> 0, got |-> <<>>, skipped |-> FALSE, state |-> "follows"]

HasLine(text) == \E i \in DOMAIN text : text[i] = "n"
LineEnd(text) == CHOOSE i \in DOMAIN text : text[i] = "n" /\ \A j \in 1 .. i - 1 : text[j] # "n"

\* A record is waiting to be written.
Due == IF spool.mode = "line" THEN HasLine(spool.pending) ELSE spool.due

\* Mutant: each chunk is decoded by itself.
DecodedAlone(s) == SelectSeq(s, LAMBDA b : b \notin {"h", "k"})

\* TextDecoder, { stream: true }: all but a first half at the end.
Halved(s) == s # <<>> /\ Last(s) = "h"
Decoded(s) == IF Halved(s) THEN Front(s) ELSE s

\* appendChunk() up to its first record; the chain starts it when the chunk before is
\* done.  The raw limit counts a chunk before it is captured.
AppendChunk == \E c \in Chunks :
  /\ spool.state = "open" /\ ~Due /\ ~spool.torn
  /\ (spool.raw # <<>> /\ Last(spool.raw) = "h") <=> c[1] = "k"   \* devices send characters
  /\ IF Len(spool.raw) + Len(c) > RawLimit
       THEN spool' = [spool EXCEPT !.state = "failed"]
       ELSE LET bytes == spool.held \o c
                text == IF spool.mode = "binary" THEN c ELSE Decoded(bytes)
            IN spool' = [spool EXCEPT !.raw = spool.raw \o c, !.due = spool.mode # "line",
                           !.held = IF spool.mode # "binary" /\ Halved(bytes) THEN <<"h">> ELSE <<>>,
                           !.pending = IF spool.mode = "line" THEN spool.pending \o text ELSE text]
  /\ UNCHANGED follower

\* writeRecord(): two limits, then the write, which a reader may see half done.
Size(text) == Len(text) + 1
Fits(text) == Len(spool.file) < RecordLimit /\ spool.bytes + Size(text) <= SpoolLimit

\* A line goes without its newline, and without one carriage return before it.
FirstLine(text) == SubSeq(text, 1, LineEnd(text) - 1)
Returned(line) == line # <<>> /\ Last(line) = "r"

\* Mutant: every carriage return of the line goes.
Unreturned(line) == SelectSeq(line, LAMBDA b : b # "r")
TextOf(line) == IF Returned(line) THEN Front(line) ELSE line

\* History: how the device ended the line, which its record does not hold.
Ending == {<<>>, <<"n">>, <<"r", "n">>}
EndOf(line) == IF Returned(line) THEN <<"r", "n">> ELSE <<"n">>

NextText == IF spool.mode = "line" THEN TextOf(FirstLine(spool.pending)) ELSE spool.pending
NextEnd == IF spool.mode = "line" THEN EndOf(FirstLine(spool.pending)) ELSE <<>>

RestOf(text) == SubSeq(text, LineEnd(text) + 1, Len(text))

WriteRecord ==
  /\ spool.state = "open" /\ Due /\ ~spool.torn
  /\ spool' = IF Fits(NextText) THEN [spool EXCEPT !.torn = TRUE] ELSE [spool EXCEPT !.state = "failed"]
  /\ UNCHANGED follower

RecordWritten ==
  /\ spool.state = "open" /\ spool.torn
  /\ spool' = [spool EXCEPT !.torn = FALSE, !.due = FALSE,
                 !.bytes = spool.bytes + Size(NextText),
                 !.file = Append(spool.file, [text |-> NextText, end |-> NextEnd]),
                 !.pending = IF spool.mode = "line" THEN RestOf(spool.pending) ELSE <<>>]
  /\ UNCHANGED follower

\* close() awaits the chain; only the last line of utf8 lines is flushed, with its
\* carriage return and a replacement for half a character.
CloseSpool ==
  /\ spool.state = "open" /\ ~Due /\ ~spool.torn
  /\ LET tail == spool.pending \o spool.held
     IN spool' = IF spool.mode = "line" /\ tail # <<>>
          THEN IF Fits(tail)
                 THEN [spool EXCEPT !.file = Append(spool.file, [text |-> tail, end |-> <<>>]),
                                    !.bytes = spool.bytes + Size(tail), !.pending = <<>>, !.held = <<>>,
                                    !.state = "closed"]
                 ELSE [spool EXCEPT !.state = "failed"]
          ELSE [spool EXCEPT !.state = "closed"]
  /\ UNCHANGED follower

HostKilled ==
  /\ spool.state = "open"
  /\ spool' = [spool EXCEPT !.state = "killed"]
  /\ UNCHANGED follower

\* readManagedSessionLog(): the last records after the cursor, unless it meets a
\* line that is not whole.
Poll ==
  /\ follower.state = "follows"
  /\ LET from == IF Len(spool.file) > follower.cursor + TailLimit
                   THEN Len(spool.file) - TailLimit ELSE follower.cursor
     IN \/ /\ ~spool.torn \/ spool.state = "open"
           /\ follower' = [follower EXCEPT !.cursor = Len(spool.file),
                             !.skipped = follower.skipped \/ from > follower.cursor,
                             !.got = follower.got \o [i \in 1 .. Len(spool.file) - from |-> from + i]]
        \/ spool.torn /\ follower' = [follower EXCEPT !.state = "corrupt"]
  /\ UNCHANGED spool

LogNext == AppendChunk \/ WriteRecord \/ RecordWritten \/ CloseSpool \/ HostKilled \/ Poll

LogSpec == LogInit /\ [][LogNext]_logVars

Spooling ==
  [mode : Mode, raw : Seq(Byte), held : {<<>>, <<"h">>}, pending : Seq(Byte), due : BOOLEAN,
   file : Seq([text : Seq(Byte), end : Ending]), bytes : Nat, torn : BOOLEAN,
   state : {"open", "failed", "closed", "killed"}]
Following == [cursor : Nat, got : Seq(Nat), skipped : BOOLEAN, state : {"follows", "corrupt"}]

LogTypeOK == spool \in Spooling /\ follower \in Following

-----------------------------------------------------------------------------
Recorded == FlattenSeq([i \in DOMAIN spool.file |-> spool.file[i].text \o spool.file[i].end])

(* The records repeat the raw capture byte for byte but for the line ends, *)
(* however the device cuts its lines and characters into chunks: nothing   *)
(* is lost, doubled or reordered while the spool is healthy, and what a    *)
(* record leaves out of its line is the newline and one carriage return    *)
(* before it, if there was one.  After a limit or a kill the records are a *)
(* prefix of the capture; no limit is exceeded (session-log-spool.ts).     *)
SpoolExact ==
  /\ IsPrefix(Recorded, spool.raw)
  /\ spool.state \in {"open", "killed"} \/ (spool.state = "closed" /\ spool.mode = "line") =>
       Recorded \o spool.pending \o spool.held = spool.raw
  /\ spool.state = "closed" => Recorded \o spool.held = spool.raw
  /\ \A i \in DOMAIN spool.file : spool.file[i].end = <<"n">> => ~Returned(spool.file[i].text)
  /\ Len(spool.raw) <= RawLimit /\ Len(spool.file) <= RecordLimit /\ spool.bytes <= SpoolLimit

(* A follower sees every record once and in order; it misses records only  *)
(* when a poll found more new ones than its tail (session-log-reader.ts).  *)
FollowInOrder ==
  /\ \A i, j \in DOMAIN follower.got : i < j => follower.got[i] < follower.got[j]
  /\ ~follower.skipped => follower.got = [i \in 1 .. follower.cursor |-> i]

(* The log of a session (session-log-spool.ts, session-log-reader.ts): it  *)
(* has what the device sent but its line ends, and is read in order.       *)
LogExact == SpoolExact /\ FollowInOrder
=============================================================================
