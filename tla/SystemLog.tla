------------------------------ MODULE SystemLog ------------------------------
(***************************************************************************)
(* The system log on flash (SysLog.cpp, LogBase.cpp, TimeManager.cpp): the *)
(* writer task appends the lines of the queue to a file per day, or to     *)
(* nosync.log while the time is unknown, and removes the oldest days; the  *)
(* first NTP answer moves nosync.log to the present day.  The writer has   *)
(* the lowest priority: days pass, NTP answers and lines come between any  *)
(* two of its steps.  Power may fail at any step.                          *)
(***************************************************************************)
EXTENDS LogCapture, FiniteSets, Functions

CONSTANTS MaxFiles,      \* SysLog::MAX_FILES
          MaxFileLines,  \* SysLog::MAX_FILE_SIZE, in lines
          MaxDay         \* bound: days that pass

ASSUME FilesAssumption ==
  /\ MaxFiles \in Nat \ {0} /\ MaxFileLines \in Nat \ {0} /\ MaxDay \in Nat \ {0}

VARIABLES day, synced,   \* the time, and TimeManager::_timeSynced
          files,         \* the lines of each file, 0 for one of an earlier boot
          writer,        \* where the writer task is, with which line and file
          migrating      \* nosync.log is copied and not yet removed

logVars == <<captureVars, day, synced, files, writer, migrating>>
fileVars == <<day, synced, files, migrating>>

Nosync == 0
Paths  == 0..MaxDay
Dated  == DOMAIN files \ {Nosync}
Resting == [at |-> "wait", line |-> 0, path |-> Nosync]

Remaining(fs, paths) == Restrict(fs, paths)
WithFile(fs, p, content) ==
  [q \in DOMAIN fs \cup {p} |-> IF q = p THEN content ELSE fs[q]]
Content(p) == IF p \in DOMAIN files THEN files[p] ELSE <<>>
Stored(fs) == (UNION {ToSet(fs[p]) : p \in DOMAIN fs}) \ {0}

-----------------------------------------------------------------------------
(* The writer task: _writerTask, _writeLine, _rotate *)

\* The name of the file is made before the rotation.
Receive ==
  /\ writer.at = "wait" /\ queue # <<>>
  /\ writer' = [at |-> "rotate", line |-> Head(queue),
                path |-> IF synced THEN day ELSE Nosync]
  /\ queue' = Tail(queue)
  /\ UNCHANGED <<line, bufferVars, fileOn, seenVars, gone, fileVars>>

Rotation(limit) ==
  \E kept \in SUBSET Dated :
    /\ writer.at = "rotate" /\ writer' = [writer EXCEPT !.at = "append"]
    /\ IF Cardinality(Dated) <= limit
       THEN kept = Dated
       ELSE /\ Cardinality(kept) = limit
            /\ \A new \in kept, old \in Dated \ kept : old < new
    /\ files' = Remaining(files, kept \cup (DOMAIN files \cap {Nosync}))
    /\ gone' = gone \cup (Stored(files) \ Stored(files'))
    /\ UNCHANGED <<line, bufferVars, queue, fileOn, seenVars, day, synced, migrating>>

\* A rotation that lets one file more pass.
RotateLate == Rotation(MaxFiles + 1)

\* While there are more than MAX_FILES, the oldest is removed; nosync.log does
\* not count, nor does the file that may be created next.
Rotate == Rotation(MaxFiles)

\* A full file takes no line, and a file that does not open none either.
AppendLine ==
  \E ok \in BOOLEAN :
    /\ writer.at = "append" /\ writer' = Resting
    /\ IF ok /\ Len(Content(writer.path)) < MaxFileLines
       THEN /\ files' = WithFile(files, writer.path,
                                 Append(Content(writer.path), writer.line))
            /\ UNCHANGED gone
       ELSE gone' = gone \cup {writer.line} /\ UNCHANGED files
    /\ UNCHANGED <<line, bufferVars, queue, fileOn, seenVars, day, synced, migrating>>

-----------------------------------------------------------------------------
(* Time, commands and power *)

\* A move that copies and forgets to remove.
Copied == WithFile(files, day, files[Nosync])

\* _migrateNosync: by renaming if there is no file of the day yet,
Moved == WithFile(Remaining(files, Dated), day, files[Nosync])

\* by appending up to the size of a file otherwise.
Merged ==
  LET all == files[day] \o files[Nosync]
      fit == IF Len(all) > MaxFileLines THEN SubSeq(all, 1, MaxFileLines) ELSE all
  IN [files EXCEPT ![day] = fit]

\* LogManager::setTime, the first time since the boot.  The task is above the
\* writer: the time and the move are one step unless power fails.
Sync ==
  /\ fileFlushed /\ ~synced /\ synced' = TRUE
  /\ \/ /\ Nosync \notin DOMAIN files
        /\ UNCHANGED <<files, migrating>>
     \/ /\ Nosync \in DOMAIN files /\ day \notin DOMAIN files
        /\ files' = Moved
        /\ UNCHANGED migrating
     \/ /\ {Nosync, day} \subseteq DOMAIN files
        /\ files' = Merged
        /\ migrating' = TRUE
  /\ UNCHANGED <<line, bufferVars, queue, fileOn, seenVars, gone, day, writer>>

\* The copied file is removed, with what did not fit.
Migrated ==
  /\ migrating /\ migrating' = FALSE
  /\ files' = Remaining(files, Dated)
  /\ gone' = gone \cup (Stored(files) \ Stored(files'))
  /\ UNCHANGED <<line, bufferVars, queue, fileOn, seenVars, day, synced, writer>>

\* clearSysLog
Clear ==
  /\ fileFlushed
  /\ files' = Remaining(files, {})
  /\ gone' = gone \cup Stored(files)
  /\ UNCHANGED <<line, bufferVars, queue, fileOn, seenVars, day, synced, writer, migrating>>

Midnight ==
  /\ day < MaxDay /\ day' = day + 1
  /\ UNCHANGED <<captureVars, synced, files, writer, migrating>>

\* Everything but the files is lost; their lines become lines of an earlier boot.
PowerCut ==
  /\ CaptureReset
  /\ synced' = FALSE /\ writer' = Resting /\ migrating' = FALSE
  /\ files' = [p \in DOMAIN files |-> [i \in DOMAIN files[p] |-> 0]]
  /\ UNCHANGED day

LogInit ==
  /\ CaptureInit
  /\ day = 1 /\ synced = FALSE /\ files = [p \in {} |-> <<>>]
  /\ writer = Resting /\ migrating = FALSE

\* Nothing runs between the two halves of the move.
LogNext ==
  \/ PowerCut
  \/ Migrated
  \/ /\ ~migrating
     /\ \/ CaptureNext /\ UNCHANGED <<fileVars, writer>>
        \/ Receive \/ Rotate \/ AppendLine
        \/ Sync \/ Clear \/ Midnight

LogSafety == LogInit /\ [][LogNext]_logVars

-----------------------------------------------------------------------------
(* Properties *)

\* The types of the files, the time and the writer task.
FilesTypeOK ==
  /\ day \in 1..MaxDay /\ synced \in BOOLEAN /\ migrating \in BOOLEAN
  /\ DOMAIN files \subseteq Paths
  /\ \A p \in DOMAIN files : files[p] \in Seq(0..MaxLines)
  /\ writer \in [at : {"wait", "rotate", "append"}, line : 0..MaxLines, path : Paths]
  /\ writer.at # "wait" => writer.line \in Lines

\* The line in the writer's hands.
Held == IF writer.at = "wait" THEN {} ELSE {writer.line}

\* The lines of earlier boots, then those of this one as they were printed.
Chronological(s) ==
  \A i, j \in 1..Len(s) : i < j => s[i] < s[j] \/ (s[i] = 0 /\ s[j] = 0)

\* As long as it is kept, a line of this boot is in one place only (a file, the
\* writer's hands or the queue), and in every place lines stand in the order
\* they were printed and before those still on their way, also after the move of
\* nosync.log and with a line in the writer's hands while files are moved or removed.
LinesAreKeptOnce ==
  fileFlushed /\ ~migrating =>
    /\ Increasing(queue)
    /\ \A l \in Held, m \in ToSet(queue) : l < m
    /\ \A p \in DOMAIN files :
         /\ Chronological(files[p])
         /\ \A l \in ToSet(files[p]), m \in Held \cup ToSet(queue) : l < m
    /\ \A p, q \in DOMAIN files : p # q => ToSet(files[p]) \cap ToSet(files[q]) \subseteq {0}
    /\ Stored(files) \cup Held \cup ToSet(queue) = (1..line) \ gone

\* The rotation keeps MAX_FILES days and counts before it writes: one file more
\* stays, and a second one when a line in the writer's hands recreated
\* nosync.log after the time was set and the next boot moves that.
FilesBounded == Cardinality(Dated) <= MaxFiles + 2

\* LogInv is inductive: nosync.log is written after a rotation, and between the
\* two at most one file was added, by the one move of this boot.
RotatedFirst ==
  /\ Nosync \in DOMAIN files => Cardinality(Dated) <= MaxFiles + 1
  /\ writer.at # "wait" /\ writer.path # Nosync => synced
  /\ writer.at = "append" =>
       Cardinality(Dated) <= IF synced /\ writer.path = Nosync THEN MaxFiles + 1 ELSE MaxFiles

\* Types of the whole log, and what bounds its files.
LogInv == CaptureTypeOK /\ FilesTypeOK /\ FilesBounded /\ RotatedFirst
=============================================================================
