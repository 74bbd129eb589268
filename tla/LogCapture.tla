------------------------------ MODULE LogCapture -----------------------------
(***************************************************************************)
(* The way of a log line (LogCaptureLT.cpp, the front of SysLog.cpp):      *)
(* every line printed is captured; until a client watches, lines wait in   *)
(* the boot buffer; the file gets them through a queue.  A line is its     *)
(* number since the boot.                                                  *)
(*                                                                         *)
(* Lines are captured one at a time, between the steps of the other tasks: *)
(* the flush to the callback sleeps 100 ms after every line, and the       *)
(* writer of the file has the lowest priority.  What two tasks do to the   *)
(* one line buffer when they print at the same moment is not modelled.     *)
(***************************************************************************)
EXTENDS Integers, Sequences, SequencesExt

CONSTANTS PreinitMax,   \* PREINIT_MAX, the slots of the boot buffer
          QueueSize,    \* SysLog::QUEUE_SIZE
          MaxLines      \* bound: lines printed between two boots

ASSUME CaptureAssumption ==
  /\ PreinitMax \in Nat \ {0} /\ MaxLines \in Nat
  /\ QueueSize \in Nat /\ QueueSize >= PreinitMax

VARIABLES line,        \* lines captured since the boot
          buffer,      \* s_buffer[0 .. s_bufferCount - 1]
          fileFlushed, callbackFlushed,
          flushing,    \* the flush loop's next slot, 0: not in the loop
          leaving,     \* the flush after its loop: "no", loop "left", count "emptied"
          queue,       \* SysLog::_queue
          fileOn,      \* SysLog::_fileEnabled
          seen,        \* history: lines given to the callback, but for stranded ones
          missed,      \* history: lines that came to a full boot buffer
          stranded,    \* history: lines that came to the buffer as the flush ended
          gone         \* history: lines no file has, nor ever will

flushVars   == <<flushing, leaving>>
seenVars    == <<seen, missed, stranded>>
bufferVars  == <<buffer, fileFlushed, callbackFlushed, flushVars>>
captureVars == <<line, bufferVars, queue, fileOn, seenVars, gone>>

Lines == 1..MaxLines

-----------------------------------------------------------------------------

\* SysLog::writeFile: a full queue or a disabled file drops the line.
Accepted == fileOn /\ Len(queue) < QueueSize
WriteFile(l) ==
  /\ queue' = IF Accepted THEN Append(queue, l) ELSE queue
  /\ gone' = IF Accepted THEN gone ELSE gone \cup {l}

\* The slot is taken until the whole buffer is given up.  A flush that has left
\* its loop no longer looks at the slot.
Buffer(l) ==
  IF Len(buffer) < PreinitMax
  THEN /\ buffer' = Append(buffer, l) /\ UNCHANGED missed
       /\ stranded' = IF leaving = "no" THEN stranded ELSE stranded \cup {l}
  ELSE missed' = missed \cup {l} /\ UNCHANGED <<buffer, stranded>>

\* flushLine
Capture ==
  LET l == line + 1
  IN /\ line < MaxLines /\ line' = l
     /\ \/ /\ callbackFlushed
           /\ seen' = Append(seen, l)
           /\ UNCHANGED <<buffer, missed, stranded>>
        \/ /\ ~callbackFlushed
           /\ Buffer(l)
           /\ UNCHANGED seen
     /\ IF fileFlushed THEN WriteFile(l) ELSE UNCHANGED <<queue, gone>>
     /\ UNCHANGED <<fileFlushed, callbackFlushed, flushVars, fileOn>>

\* setup(): the setting, then the boot buffer to the file.
FlushFile(on) ==
  /\ ~fileFlushed /\ fileFlushed' = TRUE
  /\ fileOn' = on
  /\ queue' = IF on THEN buffer ELSE <<>>
  /\ gone' = IF on THEN missed ELSE 1..line
  /\ UNCHANGED <<line, buffer, callbackFlushed, flushVars, seenVars>>

\* setConfig
SetFileEnabled(on) ==
  /\ fileFlushed
  /\ fileOn' = on
  /\ UNCHANGED <<line, bufferVars, queue, seenVars, gone>>

\* A flush that lets new lines through while it is still giving out old ones.
FlushCallbackLive ==
  /\ fileFlushed /\ flushing = 0 /\ leaving = "no"
  /\ flushing' = 1
  /\ callbackFlushed' = TRUE
  /\ UNCHANGED <<line, buffer, fileFlushed, leaving, queue, fileOn, seenVars, gone>>

\* logCaptureFlushCallback, for the first client and for every setLogMqtt.  A
\* later flush gives out the stranded lines of the first one; without any it
\* changes nothing and is left out.
FlushCallback ==
  /\ fileFlushed /\ flushing = 0 /\ leaving = "no"
  /\ callbackFlushed => buffer # <<>>
  /\ flushing' = 1
  /\ UNCHANGED <<line, buffer, fileFlushed, callbackFlushed, leaving, queue, fileOn,
                 seenVars, gone>>

\* One turn of the loop, which ends in a sleep.
InLoop == leaving = "no" /\ flushing \in 1..Len(buffer)
GiveOut(l) ==
  /\ seen' = IF l \in stranded THEN seen ELSE Append(seen, l)
  /\ flushing' = flushing + 1
  /\ UNCHANGED <<line, buffer, fileFlushed, callbackFlushed, leaving, fileOn,
                 missed, stranded>>

\* A flush that ingests the line and so writes it to the file again.
FlushStepIngesting ==
  InLoop /\ GiveOut(buffer[flushing]) /\ WriteFile(buffer[flushing])

FlushStep ==
  InLoop /\ GiveOut(buffer[flushing]) /\ UNCHANGED <<queue, gone>>

\* The end of the flush in its three statements, between which others print:
\* the loop's test fails, the buffer is given up, the callback gets the lines.
FlushLeave ==
  /\ flushing > Len(buffer) /\ leaving = "no"
  /\ leaving' = "left"
  /\ UNCHANGED <<line, buffer, fileFlushed, callbackFlushed, flushing, queue, fileOn,
                 seenVars, gone>>

FlushEmpty ==
  /\ leaving = "left" /\ leaving' = "emptied"
  /\ buffer' = <<>> /\ flushing' = 0
  /\ UNCHANGED <<line, fileFlushed, callbackFlushed, queue, fileOn, seenVars, gone>>

FlushDone ==
  /\ leaving = "emptied" /\ leaving' = "no"
  /\ callbackFlushed' = TRUE
  /\ UNCHANGED <<line, buffer, fileFlushed, flushing, queue, fileOn, seenVars, gone>>

CaptureInit ==
  /\ line = 0 /\ buffer = <<>> /\ flushing = 0 /\ queue = <<>>
  /\ fileFlushed = FALSE /\ callbackFlushed = FALSE /\ fileOn = TRUE
  /\ leaving = "no" /\ seen = <<>> /\ missed = {} /\ stranded = {} /\ gone = {}

CaptureReset ==
  /\ line' = 0 /\ buffer' = <<>> /\ flushing' = 0 /\ queue' = <<>>
  /\ fileFlushed' = FALSE /\ callbackFlushed' = FALSE /\ fileOn' = TRUE
  /\ leaving' = "no" /\ seen' = <<>> /\ missed' = {} /\ stranded' = {} /\ gone' = {}

CaptureNext ==
  \/ Capture
  \/ \E on \in BOOLEAN : FlushFile(on) \/ SetFileEnabled(on)
  \/ FlushCallback \/ FlushStep \/ FlushLeave \/ FlushEmpty \/ FlushDone

-----------------------------------------------------------------------------

CaptureTypeOK ==
  /\ line \in 0..MaxLines
  /\ fileFlushed \in BOOLEAN /\ callbackFlushed \in BOOLEAN /\ fileOn \in BOOLEAN
  /\ buffer \in Seq(Lines) /\ queue \in Seq(Lines) /\ seen \in Seq(Lines)
  /\ Len(buffer) <= PreinitMax /\ Len(queue) <= QueueSize
  /\ flushing \in 0..PreinitMax + 1 /\ leaving \in {"no", "left", "emptied"}
  /\ missed \subseteq Lines /\ stranded \subseteq Lines /\ gone \subseteq Lines

Increasing(s) == \A i, j \in 1..Len(s) : i < j => s[i] < s[j]

\* A client sees the log from the first line of the boot on, in the order it
\* was printed: no line is lost, doubled or overtaken where the boot buffer is
\* given out while lines keep coming.  Missing are the lines that came to a full
\* buffer and those printed between the end of the flush's loop and its last
\* statement (LogCaptureLT.cpp:75, 84, 85): these are lost, or come late with
\* the next setLogMqtt.
CallbackKeepsOrder ==
  LET rest    == IF flushing = 0 THEN buffer ELSE SubSeq(buffer, flushing, Len(buffer))
      waiting == IF ToSet(rest) \subseteq stranded THEN <<>> ELSE rest
      given   == seen \o waiting
  IN Increasing(given) /\ ToSet(given) = (1..line) \ (missed \cup stranded)
=============================================================================
