---------------------------- MODULE ProcessOutput ----------------------------
(***************************************************************************)
(* What becomes of the output of a tool: the bounded capture that its      *)
(* parser reads, and the lines that its progress rules and its log see     *)
(* while it runs.  The operating system cuts the stream as it likes.       *)
(*                                                                         *)
(* Bytes: "x" and "y" text, "r" a carriage return, "n" a newline.          *)
(***************************************************************************)
EXTENDS Naturals, Sequences, SequencesExt

CONSTANTS
  Pieces,      \* what one data event may carry
  Limit,       \* maxCaptureBytes, at least 4
  HeadLimit,   \* one MiB in the code
  LineLimit,   \* maxLineChars
  MaxOutput    \* bound: length of the stream

OutputByte == {"x", "y", "r", "n"}

ASSUME PiecesAssumption == Pieces \subseteq Seq(OutputByte)
ASSUME LimitAssumption == Limit \in Nat /\ Limit >= 4 /\ HeadLimit \in Nat /\ LineLimit \in Nat

VARIABLES
  stream,    \* history: all that the tool wrote
  capture,   \* BoundedCapture
  lines      \* the tail of a line, the lines published, the lines logged

outputVars == <<stream, capture, lines>>

OutputInit ==
  /\ stream = <<>>
  /\ capture = [head |-> <<>>, tail |-> <<>>, truncated |-> FALSE]
  /\ lines = [tail |-> <<>>, published |-> <<>>, logged |-> <<>>, finished |-> FALSE]

LastOf(s, n) == SubSeq(s, Len(s) - (IF n < Len(s) THEN n ELSE Len(s)) + 1, Len(s))
FirstOf(s, n) == SubSeq(s, 1, IF n < Len(s) THEN n ELSE Len(s))

HeadRoom == IF Limit \div 4 < HeadLimit THEN Limit \div 4 ELSE HeadLimit
TailRoom == Limit - HeadRoom

\* Mutant: a chunk that crosses the end of the head goes to the tail whole.
CaptureWhole(c) ==
  LET fits == Len(capture.head) + Len(c) <= HeadRoom
      all == IF fits THEN capture.tail ELSE capture.tail \o c
  IN [head |-> IF fits THEN capture.head \o c ELSE capture.head,
      tail |-> LastOf(all, TailRoom), truncated |-> capture.truncated \/ Len(all) > TailRoom]

\* BoundedCapture.append(): the head first, the rest into a tail that forgets.
Capture(c) ==
  LET taken == FirstOf(c, HeadRoom - Len(capture.head))
      all == capture.tail \o SubSeq(c, Len(taken) + 1, Len(c))
  IN [head |-> capture.head \o taken,
      tail |-> LastOf(all, TailRoom), truncated |-> capture.truncated \/ Len(all) > TailRoom]

\* split(/\r?\n/): the last element is what follows the last newline.
Chomp(s) == IF s # <<>> /\ Last(s) = "r" THEN Front(s) ELSE s
WithByte(parts, b) ==
  IF b = "n" THEN Append(Append(Front(parts), Chomp(Last(parts))), <<>>)
  ELSE Append(Front(parts), Append(Last(parts), b))
Split(s) ==
  LET upTo[n \in 0 .. Len(s)] == IF n = 0 THEN <<(<<>>)>> ELSE WithByte(upTo[n - 1], s[n])
  IN upTo[Len(s)]

\* consume() and write(): whole lines go out, the tail waits, bounded. What a process
\* that was aborted still prints after finish() is left out.
Feed == \E c \in Pieces :
  /\ ~lines.finished /\ Len(stream) + Len(c) <= MaxOutput
  /\ stream' = stream \o c
  /\ capture' = Capture(c)
  /\ LET parts == Split(lines.tail \o c)
     IN lines' = [lines EXCEPT !.published = lines.published \o Front(parts),
                               !.logged = lines.logged \o Front(parts),
                               !.tail = LastOf(Last(parts), LineLimit)]

\* finish(), once, on every path out of the process: the progress rules get what is
\* left even if it is empty, the log does not.
Finish ==
  /\ ~lines.finished
  /\ lines' = [lines EXCEPT !.finished = TRUE, !.tail = <<>>,
       !.published = Append(lines.published, lines.tail),
       !.logged = IF lines.tail = <<>> THEN lines.logged ELSE Append(lines.logged, lines.tail)]
  /\ UNCHANGED <<stream, capture>>

OutputNext == Feed \/ Finish

OutputSpec == OutputInit /\ [][OutputNext]_outputVars

-----------------------------------------------------------------------------
(* However the stream is cut into chunks, the parser reads the same text:  *)
(* all of it up to the limit, else its first and last bytes, and says      *)
(* which.  And every line is seen once, whole unless it is longer than the *)
(* limit of a line, then at least its end (process-runner.ts:170-214,      *)
(* process-executor.ts:67-78).                                             *)
CutsDoNotMatter ==
  /\ capture.truncated <=> Len(stream) > Limit
  /\ capture.head = FirstOf(stream, HeadRoom)
  /\ capture.head \o capture.tail = IF capture.truncated
       THEN FirstOf(stream, HeadRoom) \o LastOf(stream, TailRoom) ELSE stream
  /\ LET whole == Split(stream)
         seen == IF lines.finished THEN whole ELSE Front(whole)
     IN /\ Len(lines.published) = Len(seen)
        /\ \A k \in DOMAIN seen : IF Len(seen[k]) < LineLimit THEN lines.published[k] = seen[k]
                                  ELSE IsSuffix(LastOf(seen[k], LineLimit - 1), lines.published[k])
        /\ \A k \in DOMAIN lines.logged : lines.logged[k] = lines.published[k]
=============================================================================
