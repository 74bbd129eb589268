--------------------------- MODULE SystemLog_proofs --------------------------
(***************************************************************************)
(* LogInv is inductive, for every number of files, days and lines, and so  *)
(* are OrderInv, from which a client sees the lines of a boot in order,    *)
(* and KeptInv, from which every line is kept in one place, in order.      *)
(***************************************************************************)
EXTENDS SystemLog, FiniteSetTheorems, SequenceTheorems, TLAPS

USE DEF flushVars, bufferVars, seenVars

\* The dated files are finitely many, whatever days have passed.
LEMMA DatedFinite ==
  ASSUME NEW D, D \subseteq Paths
  PROVE  IsFiniteSet(D) /\ Cardinality(D) \in Nat
<1>1. IsFiniteSet(Paths)
  BY FS_Interval, FilesAssumption DEF Paths
<1> QED  BY <1>1, FS_Subset, FS_CardinalityType

\* A file that is added counts at most once.
LEMMA OneMore ==
  ASSUME NEW D, D \subseteq Paths, NEW p \in Paths
  PROVE  /\ Cardinality(D \cup {p}) <= Cardinality(D) + 1
         /\ p \in D => Cardinality(D \cup {p}) = Cardinality(D)
BY DatedFinite, FS_AddElement

\* What is left of the files is no more than there was.
LEMMA NoMore ==
  ASSUME NEW D, D \subseteq Paths, NEW E, E \subseteq D
  PROVE  E \subseteq Paths /\ Cardinality(E) <= Cardinality(D)
BY DatedFinite, FS_Subset

LEMMA InitLog == LogInit => LogInv
<1> SUFFICES ASSUME LogInit PROVE LogInv
  OBVIOUS
<1>1. CaptureTypeOK
  <2> USE DEF LogInit, CaptureInit
  <2>1. line \in 0..MaxLines /\ flushing \in 0..PreinitMax + 1
    BY CaptureAssumption
  <2>2. /\ fileFlushed \in BOOLEAN /\ callbackFlushed \in BOOLEAN /\ fileOn \in BOOLEAN
        /\ leaving \in {"no", "left", "emptied"}
    OBVIOUS
  <2>3. buffer \in Seq(Lines) /\ queue \in Seq(Lines) /\ seen \in Seq(Lines)
    OBVIOUS
  <2>4. Len(buffer) <= PreinitMax /\ Len(queue) <= QueueSize
    BY CaptureAssumption
  <2>5. missed \subseteq Lines /\ stranded \subseteq Lines /\ gone \subseteq Lines
    OBVIOUS
  <2> QED  BY <2>1, <2>2, <2>3, <2>4, <2>5 DEF CaptureTypeOK
<1>2. FilesTypeOK /\ Dated = {}
  <2>1. DOMAIN files = {}
    BY DEF LogInit
  <2>2. writer \in [at : {"wait", "rotate", "append"}, line : 0..MaxLines, path : Paths]
    BY FilesAssumption, CaptureAssumption DEF LogInit, Resting, Nosync, Paths
  <2>3. day \in 1..MaxDay
    BY FilesAssumption DEF LogInit
  <2>4. synced \in BOOLEAN /\ migrating \in BOOLEAN
    BY DEF LogInit
  <2>5. writer.at = "wait"
    BY DEF LogInit, Resting
  <2> QED  BY <2>1, <2>2, <2>3, <2>4, <2>5 DEF FilesTypeOK, Dated
<1>3. FilesBounded /\ RotatedFirst
  BY <1>2, FS_EmptySet, FilesAssumption
     DEF LogInit, FilesBounded, RotatedFirst, Resting, Dated, Nosync
<1> QED  BY <1>1, <1>2, <1>3 DEF LogInv

\* Writing a line to the file keeps the queue within its size.
LEMMA WriteFileTyped ==
  ASSUME CaptureTypeOK, NEW l \in Lines, WriteFile(l)
  PROVE  /\ queue' \in Seq(Lines) /\ Len(queue') <= QueueSize
         /\ gone' \subseteq Lines
<1>1. CASE Accepted
  <2>1. queue' = Append(queue, l) /\ gone' = gone /\ Len(queue) < QueueSize
    BY <1>1 DEF WriteFile, Accepted
  <2>2. Len(queue') = Len(queue) + 1 /\ queue' \in Seq(Lines)
    BY <2>1 DEF CaptureTypeOK
  <2> QED  BY <2>1, <2>2, CaptureAssumption DEF CaptureTypeOK
<1>2. CASE ~Accepted
  BY <1>2 DEF WriteFile, CaptureTypeOK
<1> QED  BY <1>1, <1>2

\* The boot buffer keeps within its slots.
LEMMA BufferTyped ==
  ASSUME CaptureTypeOK, NEW l \in Lines, Buffer(l)
  PROVE  /\ buffer' \in Seq(Lines) /\ Len(buffer') <= PreinitMax
         /\ missed' \subseteq Lines /\ stranded' \subseteq Lines
<1>1. CASE Len(buffer) < PreinitMax
  <2>1. buffer' = Append(buffer, l) /\ missed' = missed /\ stranded' \subseteq stranded \cup {l}
    BY <1>1 DEF Buffer
  <2>2. Len(buffer') = Len(buffer) + 1 /\ buffer' \in Seq(Lines)
    BY <2>1 DEF CaptureTypeOK
  <2> QED  BY <1>1, <2>1, <2>2, CaptureAssumption DEF CaptureTypeOK
<1>2. CASE ~(Len(buffer) < PreinitMax)
  BY <1>2 DEF Buffer, CaptureTypeOK
<1> QED  BY <1>1, <1>2

\* The capture keeps its types.
LEMMA CaptureKeepsTypes ==
  ASSUME CaptureTypeOK, CaptureNext
  PROVE  CaptureTypeOK'
<1>1. CASE Capture
  <2> DEFINE l == line + 1
  <2>1. l \in Lines /\ line' = l
    BY <1>1, CaptureAssumption DEF Capture, CaptureTypeOK, Lines
  <2>2. /\ buffer' \in Seq(Lines) /\ Len(buffer') <= PreinitMax
        /\ missed' \subseteq Lines /\ stranded' \subseteq Lines /\ seen' \in Seq(Lines)
    <3>1. CASE callbackFlushed
      <4>1. seen' = Append(seen, l) /\ UNCHANGED <<buffer, missed, stranded>>
        BY <1>1, <3>1 DEF Capture
      <4> QED  BY <2>1, <4>1 DEF CaptureTypeOK
    <3>2. CASE ~callbackFlushed
      <4>1. Buffer(l) /\ seen' = seen
        BY <1>1, <3>2 DEF Capture
      <4> QED  BY <2>1, <4>1, BufferTyped DEF CaptureTypeOK
    <3> QED  BY <3>1, <3>2
  <2>3. queue' \in Seq(Lines) /\ Len(queue') <= QueueSize /\ gone' \subseteq Lines
    <3>1. CASE fileFlushed
      <4>1. WriteFile(l)
        BY <1>1, <3>1 DEF Capture
      <4> QED  BY <2>1, <4>1, WriteFileTyped
    <3>2. CASE ~fileFlushed
      BY <1>1, <3>2 DEF Capture, CaptureTypeOK
    <3> QED  BY <3>1, <3>2
  <2>4. UNCHANGED <<fileFlushed, callbackFlushed, flushVars, fileOn>>
    BY <1>1 DEF Capture
  <2> QED  BY <2>1, <2>2, <2>3, <2>4, CaptureAssumption DEF CaptureTypeOK, Lines
<1>2. ASSUME NEW on \in BOOLEAN, FlushFile(on) PROVE CaptureTypeOK'
  <2>1. queue' \in Seq(Lines) /\ Len(queue') <= QueueSize
    <3>1. CASE on
      BY <1>2, <3>1, CaptureAssumption DEF FlushFile, CaptureTypeOK
    <3>2. CASE ~on
      <4>1. queue' = <<>>
        BY <1>2, <3>2 DEF FlushFile
      <4> QED  BY <4>1, CaptureAssumption
    <3> QED  BY <3>1, <3>2
  <2>2. gone' \subseteq Lines
    BY <1>2, CaptureAssumption DEF FlushFile, CaptureTypeOK, Lines
  <2> QED  BY <1>2, <2>1, <2>2 DEF FlushFile, CaptureTypeOK
<1>3. ASSUME NEW on \in BOOLEAN, SetFileEnabled(on) PROVE CaptureTypeOK'
  BY <1>3 DEF SetFileEnabled, CaptureTypeOK
<1>4. CASE FlushCallback
  BY <1>4, CaptureAssumption DEF FlushCallback, CaptureTypeOK
<1>5. CASE FlushStep
  <2>1. buffer[flushing] \in Lines /\ flushing \in 1..PreinitMax
    BY <1>5, CaptureAssumption DEF FlushStep, InLoop, CaptureTypeOK
  <2>2. seen' \in Seq(Lines)
    BY <1>5, <2>1 DEF FlushStep, GiveOut, CaptureTypeOK
  <2>3. flushing' \in 0..PreinitMax + 1
    BY <1>5, <2>1, CaptureAssumption DEF FlushStep, GiveOut
  <2> QED  BY <1>5, <2>2, <2>3 DEF FlushStep, GiveOut, CaptureTypeOK
<1>6. CASE FlushLeave
  BY <1>6 DEF FlushLeave, CaptureTypeOK
<1>7. CASE FlushEmpty
  <2>1. buffer' \in Seq(Lines) /\ Len(buffer') <= PreinitMax /\ flushing' \in 0..PreinitMax + 1
    BY <1>7, CaptureAssumption DEF FlushEmpty
  <2> QED  BY <1>7, <2>1 DEF FlushEmpty, CaptureTypeOK
<1>8. CASE FlushDone
  BY <1>8 DEF FlushDone, CaptureTypeOK
<1> QED  BY <1>1, <1>2, <1>3, <1>4, <1>5, <1>6, <1>7, <1>8 DEF CaptureNext

\* The part of LogInv about the files and the writer.
FilesInv == FilesTypeOK /\ FilesBounded /\ RotatedFirst

Contents == Seq(0..MaxLines)

LEMMA EntryTyped ==
  ASSUME NEW S, NEW s \in Seq(S), NEW i \in DOMAIN s
  PROVE  s[i] \in S
OBVIOUS

\* Only lines are stored.
LEMMA StoredAreLines ==
  ASSUME NEW fs, \A p \in DOMAIN fs : fs[p] \in Contents
  PROVE  Stored(fs) \subseteq Lines
<1>1. ASSUME NEW p \in DOMAIN fs, NEW i \in DOMAIN fs[p] PROVE fs[p][i] \in 0..MaxLines
  <2>1. fs[p] \in Seq(0..MaxLines)
    BY DEF Contents
  <2> QED  BY <2>1, EntryTyped
<1>2. ASSUME NEW l \in Stored(fs) PROVE l \in Lines
  <2>1. PICK p \in DOMAIN fs : l \in ToSet(fs[p])
    BY <1>2 DEF Stored
  <2>2. PICK i \in DOMAIN fs[p] : l = fs[p][i]
    BY <2>1 DEF ToSet
  <2>3. l \in 0..MaxLines
    BY <1>1, <2>2
  <2>4. l # 0
    BY <1>2 DEF Stored
  <2> QED  BY <2>3, <2>4, CaptureAssumption DEF Lines
<1> QED  BY <1>2

\* Removing files and adding one keep the contents typed.
LEMMA FilesTyped ==
  ASSUME NEW fs, DOMAIN fs \subseteq Paths, \A p \in DOMAIN fs : fs[p] \in Contents
  PROVE  /\ \A S \in SUBSET DOMAIN fs :
              /\ DOMAIN Remaining(fs, S) = S
              /\ \A p \in S : Remaining(fs, S)[p] \in Contents
         /\ \A q \in Paths, c \in Contents :
              /\ DOMAIN WithFile(fs, q, c) = DOMAIN fs \cup {q}
              /\ \A p \in DOMAIN fs \cup {q} : WithFile(fs, q, c)[p] \in Contents
BY DEF Remaining, Restrict, WithFile

\* A step that leaves the capture alone but for lines given up.
LEMMA SameCapture ==
  ASSUME CaptureTypeOK, gone' \subseteq Lines,
         UNCHANGED <<line, bufferVars, queue, fileOn, seenVars>>
  PROVE  CaptureTypeOK'
BY DEF CaptureTypeOK

\* Steps that leave files, time and writer alone keep that part.
LEMMA SameFiles ==
  ASSUME FilesInv, UNCHANGED <<day, synced, files, writer, migrating>>
  PROVE  FilesInv'
BY DEF FilesInv, FilesTypeOK, FilesBounded, RotatedFirst, Dated

LEMMA ReceiveKeeps ==
  ASSUME LogInv, Receive
  PROVE  LogInv'
<1>1. Head(queue) \in Lines /\ queue' \in Seq(Lines) /\ Len(queue') <= QueueSize
  BY CaptureAssumption DEF LogInv, CaptureTypeOK, Receive
<1>2. CaptureTypeOK'
  BY <1>1 DEF LogInv, CaptureTypeOK, Receive
<1>3. UNCHANGED fileVars /\ Dated' = Dated
  BY DEF Receive, fileVars, Dated
<1>4. writer' = [at |-> "rotate", line |-> Head(queue), path |-> IF synced THEN day ELSE Nosync]
  BY DEF Receive
<1>5. FilesTypeOK'
  BY <1>1, <1>3, <1>4, FilesAssumption
     DEF LogInv, FilesTypeOK, fileVars, Lines, Paths, Nosync
<1>6. FilesBounded' /\ RotatedFirst'
  BY <1>3, <1>4 DEF LogInv, FilesBounded, RotatedFirst, fileVars
<1> QED  BY <1>2, <1>5, <1>6 DEF LogInv

LEMMA RotateKeeps ==
  ASSUME LogInv, Rotate
  PROVE  LogInv'
<1>1. PICK kept \in SUBSET Dated :
        /\ writer.at = "rotate" /\ writer' = [writer EXCEPT !.at = "append"]
        /\ IF Cardinality(Dated) <= MaxFiles
           THEN kept = Dated
           ELSE /\ Cardinality(kept) = MaxFiles
                /\ \A new \in kept, old \in Dated \ kept : old < new
        /\ files' = Remaining(files, kept \cup (DOMAIN files \cap {Nosync}))
        /\ gone' = gone \cup (Stored(files) \ Stored(files'))
        /\ UNCHANGED <<line, bufferVars, queue, fileOn, seenVars, day, synced, migrating>>
  BY DEF Rotate, Rotation
<1> DEFINE all == kept \cup (DOMAIN files \cap {Nosync})
<1>2. all \subseteq DOMAIN files
  BY DEF Dated
<1>3. DOMAIN files' = all /\ \A p \in DOMAIN files' : files'[p] \in Contents
  BY <1>1, <1>2, FilesTyped DEF LogInv, FilesTypeOK, Contents
<1>4. Dated' = kept
  BY <1>3 DEF Dated
<1>5. Cardinality(kept) <= MaxFiles
  <2>1. CASE Cardinality(Dated) <= MaxFiles
    BY <1>1, <2>1
  <2>2. CASE ~(Cardinality(Dated) <= MaxFiles)
    <3>1. Cardinality(kept) = MaxFiles
      BY <1>1, <2>2
    <3> QED  BY <3>1, FilesAssumption
  <2> QED  BY <2>1, <2>2
<1>6. CaptureTypeOK'
  <2>1. Stored(files) \subseteq Lines
    BY StoredAreLines DEF LogInv, FilesTypeOK, Contents
  <2>2. gone' \subseteq Lines
    BY <1>1, <2>1 DEF LogInv, CaptureTypeOK
  <2> QED  BY <1>1, <2>2, SameCapture DEF LogInv
<1>7. FilesTypeOK'
  <2>1. DOMAIN files' \subseteq Paths
    BY <1>2, <1>3 DEF LogInv, FilesTypeOK
  <2>2. /\ writer' \in [at : {"wait", "rotate", "append"}, line : 0..MaxLines, path : Paths]
        /\ writer'.line = writer.line /\ writer'.path = writer.path /\ writer'.at = "append"
    BY <1>1 DEF LogInv, FilesTypeOK
  <2> QED  BY <1>1, <1>3, <2>1, <2>2 DEF LogInv, FilesTypeOK, Contents
<1>8. Cardinality(kept) \in Nat
  BY DatedFinite DEF LogInv, FilesTypeOK, Dated
<1>9. /\ writer'.at = "append" /\ writer'.path = writer.path /\ writer.at = "rotate"
      /\ synced' = synced
  BY <1>1 DEF LogInv, FilesTypeOK
<1>10. FilesBounded' /\ RotatedFirst'
  BY <1>4, <1>5, <1>8, <1>9, FilesAssumption DEF LogInv, FilesBounded, RotatedFirst
<1> QED  BY <1>6, <1>7, <1>10 DEF LogInv

LEMMA AppendKeeps ==
  ASSUME LogInv, AppendLine
  PROVE  LogInv'
<1> DEFINE p == writer.path
<1>1. PICK ok \in BOOLEAN :
        /\ writer.at = "append" /\ writer' = Resting
        /\ IF ok /\ Len(Content(writer.path)) < MaxFileLines
           THEN /\ files' = WithFile(files, writer.path,
                                     Append(Content(writer.path), writer.line))
                /\ UNCHANGED gone
           ELSE gone' = gone \cup {writer.line} /\ UNCHANGED files
        /\ UNCHANGED <<line, bufferVars, queue, fileOn, seenVars, day, synced, migrating>>
  BY DEF AppendLine
<1>2. p \in Paths /\ writer.line \in Lines /\ writer.line \in 0..MaxLines
  BY <1>1 DEF LogInv, FilesTypeOK
<1>3. gone' \subseteq Lines
  BY <1>1, <1>2 DEF LogInv, CaptureTypeOK
<1>4. CaptureTypeOK'
  BY <1>1, <1>3, SameCapture DEF LogInv
<1>5. /\ writer' \in [at : {"wait", "rotate", "append"}, line : 0..MaxLines, path : Paths]
      /\ writer'.at = "wait"
  BY <1>1, CaptureAssumption, FilesAssumption DEF Resting, Paths, Nosync
<1>6. CASE UNCHANGED files
  <2>1. FilesTypeOK'
    BY <1>1, <1>5, <1>6 DEF LogInv, FilesTypeOK
  <2>2. FilesBounded' /\ RotatedFirst'
    BY <1>1, <1>5, <1>6 DEF LogInv, FilesBounded, RotatedFirst, Dated
  <2> QED  BY <1>4, <2>1, <2>2 DEF LogInv
<1>7. CASE ~UNCHANGED files
  <2>1. files' = WithFile(files, p, Append(Content(p), writer.line))
    BY <1>1, <1>7
  <2>2. Content(p) \in Contents
    <3>1. CASE p \in DOMAIN files
      BY <3>1 DEF Content, Contents, LogInv, FilesTypeOK
    <3>2. CASE p \notin DOMAIN files
      <4>1. <<>> \in Seq(0..MaxLines)
        OBVIOUS
      <4> QED  BY <3>2, <4>1 DEF Content, Contents
    <3> QED  BY <3>1, <3>2
  <2>3. Append(Content(p), writer.line) \in Contents
    BY <1>2, <2>2 DEF Contents
  <2>4. /\ DOMAIN files' = DOMAIN files \cup {p}
        /\ \A q \in DOMAIN files' : files'[q] \in Contents
    BY <1>2, <2>1, <2>3, FilesTyped DEF LogInv, FilesTypeOK, Contents
  <2>5. FilesTypeOK'
    BY <1>1, <1>2, <1>5, <2>4 DEF LogInv, FilesTypeOK, Contents
  <2>6. Dated \subseteq Paths /\ Cardinality(Dated) \in Nat
    BY DatedFinite DEF LogInv, FilesTypeOK, Dated
  <2>7. CASE p = Nosync
    <3>1. Dated' = Dated
      BY <2>4, <2>7 DEF Dated
    <3>2. Cardinality(Dated) <= MaxFiles + 1
      BY <1>1, <2>6, <2>7, FilesAssumption DEF LogInv, RotatedFirst
    <3>3. FilesBounded' /\ RotatedFirst'
      BY <1>5, <2>6, <3>1, <3>2, FilesAssumption DEF FilesBounded, RotatedFirst
    <3> QED  BY <1>4, <2>5, <3>3 DEF LogInv
  <2>8. CASE p # Nosync
    <3>1. Dated' = Dated \cup {p}
      BY <2>4, <2>8 DEF Dated
    <3>2. Cardinality(Dated) <= MaxFiles
      BY <1>1, <2>8 DEF LogInv, RotatedFirst
    <3>3. Cardinality(Dated') <= Cardinality(Dated) + 1
      BY <1>2, <2>6, <3>1, OneMore
    <3>4. Cardinality(Dated') \in Nat
      BY <2>5, DatedFinite DEF FilesTypeOK, Dated
    <3>5. Cardinality(Dated') <= MaxFiles + 1
      BY <2>6, <3>2, <3>3, <3>4, FilesAssumption
    <3>6. FilesBounded' /\ RotatedFirst'
      BY <1>5, <3>4, <3>5, FilesAssumption DEF FilesBounded, RotatedFirst
    <3> QED  BY <1>4, <2>5, <3>6 DEF LogInv
  <2> QED  BY <2>7, <2>8
<1> QED  BY <1>6, <1>7

\* What is merged is no longer than a file and holds only lines.
LEMMA MergedTyped ==
  ASSUME FilesTypeOK, day \in DOMAIN files, Nosync \in DOMAIN files
  PROVE  /\ DOMAIN Merged = DOMAIN files
         /\ \A p \in DOMAIN files : Merged[p] \in Contents
<1> DEFINE all == files[day] \o files[Nosync]
           fit == IF Len(all) > MaxFileLines THEN SubSeq(all, 1, MaxFileLines) ELSE all
<1>1. files[day] \in Contents /\ files[Nosync] \in Contents
  BY DEF FilesTypeOK, Contents
<1>2. all \in Contents
  BY <1>1 DEF Contents
<1>3. fit \in Contents
  <2>1. CASE Len(all) > MaxFileLines
    <3> HIDE DEF all
    <3>1. ASSUME NEW i \in 1..MaxFileLines PROVE all[i] \in 0..MaxLines
      <4>1. all \in Seq(0..MaxLines)
        BY <1>2 DEF Contents
      <4>2. i \in DOMAIN all
        BY <2>1, <4>1, FilesAssumption
      <4> QED  BY <4>1, <4>2, EntryTyped
    <3>2. SubSeq(all, 1, MaxFileLines) \in Seq(0..MaxLines)
      BY <3>1, SubSeqProperties, FilesAssumption
    <3> QED  BY <2>1, <3>2 DEF Contents
  <2>2. CASE ~(Len(all) > MaxFileLines)
    BY <1>2, <2>2
  <2> QED  BY <2>1, <2>2
<1>4. Merged = [files EXCEPT ![day] = fit]
  BY DEF Merged
<1> HIDE DEF fit
<1> QED  BY <1>3, <1>4 DEF FilesTypeOK, Contents

\* A step of the files that the capture and the writer do not see.
LEMMA OnlyFiles ==
  ASSUME FilesTypeOK, NEW fs, files' = fs, DOMAIN fs \subseteq Paths,
         \A p \in DOMAIN fs : fs[p] \in Contents,
         synced' \in BOOLEAN, migrating' \in BOOLEAN, UNCHANGED <<day, writer>>
  PROVE  FilesTypeOK'
BY DEF FilesTypeOK, Contents

\* The one step that adds a file without a rotation before it: it needs
\* nosync.log, and takes it away.
LEMMA SyncKeeps ==
  ASSUME LogInv, Sync
  PROVE  LogInv'
<1>1. CaptureTypeOK'
  BY DEF LogInv, CaptureTypeOK, Sync
<1>2. ~synced /\ synced' = TRUE /\ UNCHANGED <<day, writer>>
  BY DEF Sync
<1>3. writer.at = "append" => writer.path = Nosync /\ Cardinality(Dated) <= MaxFiles
  BY <1>2 DEF LogInv, RotatedFirst
<1>4. Dated \subseteq Paths /\ Cardinality(Dated) \in Nat
  BY DatedFinite DEF LogInv, FilesTypeOK, Dated
<1>5. day \in Paths /\ day # Nosync
  BY FilesAssumption DEF LogInv, FilesTypeOK, Paths, Nosync
<1>6. CASE UNCHANGED <<files, migrating>>
  <2>1. FilesTypeOK' /\ Dated' = Dated
    BY <1>2, <1>6 DEF LogInv, FilesTypeOK, Dated
  <2>2. FilesBounded' /\ RotatedFirst'
    BY <1>2, <1>3, <1>4, <1>6, <2>1, FilesAssumption DEF LogInv, FilesBounded, RotatedFirst
  <2> QED  BY <1>1, <2>1, <2>2 DEF LogInv
<1>7. CASE Nosync \in DOMAIN files /\ files' = Moved /\ UNCHANGED migrating
  <2> DEFINE rest == Remaining(files, Dated)
  <2>1. Dated \subseteq DOMAIN files
    BY DEF Dated
  <2>2. /\ DOMAIN rest = Dated
        /\ \A p \in DOMAIN rest : rest[p] \in Contents
    BY <2>1, FilesTyped DEF LogInv, FilesTypeOK, Contents
  <2>3. files[Nosync] \in Contents
    BY <1>7 DEF LogInv, FilesTypeOK, Contents
  <2>4. files' = WithFile(rest, day, files[Nosync])
    BY <1>7 DEF Moved
  <2> HIDE DEF rest
  <2>5. /\ DOMAIN files' = Dated \cup {day}
        /\ \A p \in DOMAIN files' : files'[p] \in Contents
    BY <1>4, <1>5, <2>2, <2>3, <2>4, FilesTyped
  <2>6. Dated' = Dated \cup {day}
    BY <1>5, <2>5 DEF Dated
  <2>7. Nosync \notin DOMAIN files'
    BY <1>5, <2>5 DEF Dated
  <2>8. Cardinality(Dated') <= Cardinality(Dated) + 1 /\ Cardinality(Dated') \in Nat
    BY <1>4, <1>5, <2>6, OneMore, DatedFinite
  <2>9. FilesTypeOK'
    <3>1. DOMAIN files' \subseteq Paths
      BY <1>4, <1>5, <2>5
    <3>2. migrating' \in BOOLEAN
      BY <1>7 DEF LogInv, FilesTypeOK
    <3> QED  BY <1>2, <2>5, <3>1, <3>2, OnlyFiles DEF LogInv
  <2>10. Cardinality(Dated) <= MaxFiles + 1
    BY <1>7 DEF LogInv, RotatedFirst
  <2>11. FilesBounded'
    BY <1>4, <2>8, <2>10, FilesAssumption DEF FilesBounded
  <2>12. RotatedFirst'
    BY <1>2, <1>3, <1>4, <2>7, <2>8, FilesAssumption DEF RotatedFirst
  <2> QED  BY <1>1, <2>9, <2>11, <2>12 DEF LogInv
<1>8. CASE {Nosync, day} \subseteq DOMAIN files /\ files' = Merged /\ migrating' = TRUE
  <2>1. DOMAIN files' = DOMAIN files /\ \A p \in DOMAIN files' : files'[p] \in Contents
    BY <1>8, MergedTyped DEF LogInv
  <2>2. FilesTypeOK'
    <3>1. DOMAIN files' \subseteq Paths
      BY <2>1 DEF LogInv, FilesTypeOK
    <3> QED  BY <1>2, <1>8, <2>1, <3>1, OnlyFiles DEF LogInv
  <2>3. Dated' = Dated
    BY <2>1 DEF Dated
  <2>4. FilesBounded' /\ RotatedFirst'
    BY <1>2, <1>3, <1>4, <2>1, <2>3, FilesAssumption DEF LogInv, FilesBounded, RotatedFirst
  <2> QED  BY <1>1, <2>2, <2>4 DEF LogInv
<1> QED  BY <1>6, <1>7, <1>8 DEF Sync

\* Files that are removed leave the rest as it was.
LEMMA RemovalKeeps ==
  ASSUME LogInv, NEW S \in SUBSET DOMAIN files, Nosync \notin S,
         files' = Remaining(files, S), migrating' \in BOOLEAN,
         gone' \subseteq gone \cup Stored(files),
         UNCHANGED <<line, bufferVars, queue, fileOn, seenVars, day, synced, writer>>
  PROVE  LogInv'
<1>1. Stored(files) \subseteq Lines
  BY StoredAreLines DEF LogInv, FilesTypeOK, Contents
<1>2. CaptureTypeOK'
  <2>1. gone' \subseteq Lines
    BY <1>1 DEF LogInv, CaptureTypeOK
  <2> QED  BY <2>1, SameCapture DEF LogInv
<1>3. DOMAIN files' = S /\ \A p \in DOMAIN files' : files'[p] \in Contents
  BY FilesTyped DEF LogInv, FilesTypeOK, Contents
<1>4. FilesTypeOK'
  <2>1. DOMAIN files' \subseteq Paths /\ synced' \in BOOLEAN
    BY <1>3 DEF LogInv, FilesTypeOK
  <2> QED  BY <1>3, <2>1, OnlyFiles DEF LogInv
<1>5. Dated' \subseteq Dated /\ Nosync \notin DOMAIN files'
  BY <1>3 DEF Dated
<1>6. Dated \subseteq Paths
  BY DEF LogInv, FilesTypeOK, Dated
<1>7. Cardinality(Dated') <= Cardinality(Dated)
  BY <1>5, <1>6, NoMore
<1>8. Cardinality(Dated) \in Nat /\ Cardinality(Dated') \in Nat
  BY <1>5, <1>6, DatedFinite
<1>9. FilesBounded' /\ RotatedFirst'
  BY <1>5, <1>7, <1>8, FilesAssumption DEF LogInv, FilesBounded, RotatedFirst
<1> QED  BY <1>2, <1>4, <1>9 DEF LogInv

LEMMA PowerCutKeeps ==
  ASSUME LogInv, PowerCut
  PROVE  LogInv'
<1>1. CaptureTypeOK'
  <2>1. line' \in 0..MaxLines /\ flushing' \in 0..PreinitMax + 1
    BY CaptureAssumption DEF PowerCut, CaptureReset
  <2>2. /\ fileFlushed' \in BOOLEAN /\ callbackFlushed' \in BOOLEAN /\ fileOn' \in BOOLEAN
        /\ leaving' \in {"no", "left", "emptied"}
    BY DEF PowerCut, CaptureReset
  <2>3. buffer' \in Seq(Lines) /\ queue' \in Seq(Lines) /\ seen' \in Seq(Lines)
    BY DEF PowerCut, CaptureReset
  <2>4. Len(buffer') <= PreinitMax /\ Len(queue') <= QueueSize
    BY CaptureAssumption DEF PowerCut, CaptureReset
  <2>5. missed' \subseteq Lines /\ stranded' \subseteq Lines /\ gone' \subseteq Lines
    BY DEF PowerCut, CaptureReset
  <2> QED  BY <2>1, <2>2, <2>3, <2>4, <2>5 DEF CaptureTypeOK
<1>2. DOMAIN files' = DOMAIN files /\ Dated' = Dated
  BY DEF PowerCut, Dated
<1>3. ASSUME NEW p \in DOMAIN files PROVE files'[p] \in Seq(0..MaxLines)
  <2>1. files'[p] = [i \in DOMAIN files[p] |-> 0]
    BY DEF PowerCut
  <2>2. files[p] \in Seq(0..MaxLines)
    BY DEF LogInv, FilesTypeOK
  <2>3. DOMAIN files[p] = 1..Len(files[p]) /\ Len(files[p]) \in Nat
    BY <2>2
  <2>4. 0 \in 0..MaxLines
    BY CaptureAssumption
  <2>5. [i \in 1..Len(files[p]) |-> 0] \in Seq(0..MaxLines)
    BY <2>3, <2>4, IsASeq
  <2> QED  BY <2>1, <2>3, <2>5
<1>4. writer' = Resting /\ writer'.at = "wait"
  BY DEF PowerCut, Resting
<1>5. FilesTypeOK'
  <2>1. writer' \in [at : {"wait", "rotate", "append"}, line : 0..MaxLines, path : Paths]
    BY <1>4, CaptureAssumption, FilesAssumption DEF Resting, Paths, Nosync
  <2>2. synced' \in BOOLEAN /\ migrating' \in BOOLEAN /\ day' \in 1..MaxDay
    BY DEF PowerCut, LogInv, FilesTypeOK
  <2>3. DOMAIN files' \subseteq Paths
    BY <1>2 DEF LogInv, FilesTypeOK
  <2>4. \A p \in DOMAIN files' : files'[p] \in Seq(0..MaxLines)
    BY <1>2, <1>3
  <2> QED  BY <1>4, <2>1, <2>2, <2>3, <2>4 DEF FilesTypeOK
<1>6. FilesBounded' /\ RotatedFirst'
  BY <1>2, <1>4 DEF LogInv, FilesBounded, RotatedFirst
<1> QED  BY <1>1, <1>5, <1>6 DEF LogInv

LEMMA StepKeeps ==
  ASSUME LogInv, LogNext
  PROVE  LogInv'
<1>1. CASE Migrated
  <2>1. Dated \in SUBSET DOMAIN files /\ Nosync \notin Dated
    BY DEF Dated
  <2> QED  BY <1>1, <2>1, RemovalKeeps DEF Migrated
<1>2. CASE Clear
  <2>1. {} \in SUBSET DOMAIN files /\ migrating' \in BOOLEAN
    BY <1>2 DEF Clear, LogInv, FilesTypeOK
  <2> QED  BY <1>2, <2>1, RemovalKeeps DEF Clear
<1>3. CASE CaptureNext /\ UNCHANGED <<fileVars, writer>>
  <2>1. CaptureTypeOK'
    BY <1>3, CaptureKeepsTypes DEF LogInv
  <2>2. FilesInv'
    BY <1>3, SameFiles DEF LogInv, FilesInv, fileVars
  <2> QED  BY <2>1, <2>2 DEF LogInv, FilesInv
<1>4. CASE Midnight
  <2>1. CaptureTypeOK'
    BY <1>4 DEF Midnight, LogInv, CaptureTypeOK, captureVars
  <2>2. day' \in 1..MaxDay
    BY <1>4, FilesAssumption DEF Midnight, LogInv, FilesTypeOK
  <2>3. FilesTypeOK' /\ FilesBounded' /\ RotatedFirst'
    BY <1>4, <2>2 DEF Midnight, LogInv, FilesTypeOK, FilesBounded, RotatedFirst, Dated
  <2> QED  BY <2>1, <2>3 DEF LogInv
<1> QED  BY <1>1, <1>2, <1>3, <1>4, ReceiveKeeps, RotateKeeps, AppendKeeps, SyncKeeps,
            PowerCutKeeps DEF LogNext

LEMMA StutterKeeps ==
  ASSUME LogInv, UNCHANGED logVars
  PROVE  LogInv'
<1>1. CaptureTypeOK'
  BY DEF LogInv, CaptureTypeOK, logVars, captureVars
<1>2. FilesInv'
  BY SameFiles DEF LogInv, FilesInv, logVars
<1> QED  BY <1>1, <1>2 DEF LogInv, FilesInv

\* Types, the number of the files and what it rests on (_rotate before every
\* write, one move of nosync.log a boot), whatever the sizes are.
THEOREM LogInvariant == LogSafety => []LogInv
<1>1. LogInv /\ [LogNext]_logVars => LogInv'
  BY StepKeeps, StutterKeeps
<1> QED  BY InitLog, <1>1, PTL DEF LogSafety

\* The log never takes more than MAX_FILES + 2 files for days, across power
\* cuts, late answers of the time server and rotations.
THEOREM FilesAreBounded == LogSafety => []FilesBounded
<1>1. LogInv => FilesBounded
  BY DEF LogInv
<1> QED  BY LogInvariant, <1>1, PTL

-----------------------------------------------------------------------------
(* The order of the lines a client sees *)

\* What the flush has still to give the callback, with and without stranded lines.
Rest == IF flushing = 0 THEN buffer ELSE SubSeq(buffer, flushing, Len(buffer))
Waiting == IF ToSet(Rest) \subseteq stranded THEN <<>> ELSE Rest
Given == seen \o Waiting

\* From the end of its loop on the buffer has nothing the flush still gives out.
Closing == callbackFlushed \/ leaving # "no"

\* Once the flush has left its loop only stranded lines are in the buffer, and none
\* before; lines are missed and stranded only after they were printed.
OrderInv ==
  /\ CaptureTypeOK
  /\ flushing # 0 => flushing \in 1..Len(buffer) + 1
  /\ leaving = "emptied" => flushing = 0
  /\ Closing => ToSet(Rest) \subseteq stranded
  /\ ~Closing => stranded = {}
  /\ missed \cup stranded \subseteq 1..line
  /\ CallbackKeepsOrder

LEMMA OrderIsOfGiven ==
  CallbackKeepsOrder <=> Increasing(Given) /\ ToSet(Given) = (1..line) \ (missed \cup stranded)
BY DEF CallbackKeepsOrder, Given, Waiting, Rest

LEMMA RestTyped ==
  ASSUME CaptureTypeOK
  PROVE  Rest \in Seq(Lines)
<1>1. buffer \in Seq(Lines) /\ flushing \in Nat
  BY CaptureAssumption DEF CaptureTypeOK
<1>2. CASE flushing = 0
  BY <1>1, <1>2 DEF Rest
<1>3. CASE flushing # 0
  <2>1. \A i \in flushing..Len(buffer) : buffer[i] \in Lines
    BY <1>1, <1>3
  <2> QED  BY <1>1, <1>3, <2>1, SubSeqProperties DEF Rest
<1> QED  BY <1>2, <1>3

LEMMA WaitingTyped ==
  ASSUME CaptureTypeOK
  PROVE  Waiting \in Seq(Lines) /\ Given \in Seq(Lines)
<1>1. Waiting \in Seq(Lines)
  BY RestTyped DEF Waiting
<1> QED  BY <1>1 DEF CaptureTypeOK, Given

\* Before the end all of the buffer waits, from the end on nothing does.
LEMMA WhatWaits ==
  ASSUME CaptureTypeOK
  PROVE  /\ stranded = {} => Waiting = Rest
         /\ ToSet(Rest) \subseteq stranded => Waiting = <<>>
<1>1. Rest \in Seq(Lines)
  BY RestTyped
<1>2. ToSet(Rest) = {} => Rest = <<>>
  <2>1. Rest # <<>> => Rest[1] \in ToSet(Rest)
    BY <1>1 DEF ToSet
  <2> QED  BY <2>1
<1> QED  BY <1>2 DEF Waiting

\* A line later than all others comes last.
LEMMA LastComesLast ==
  ASSUME NEW s \in Seq(Lines), NEW l \in Lines, Increasing(s), \A m \in ToSet(s) : m < l
  PROVE  /\ Increasing(Append(s, l))
         /\ ToSet(Append(s, l)) = ToSet(s) \cup {l}
<1> DEFINE t == Append(s, l)
<1>1. /\ t \in Seq(Lines) /\ Len(t) = Len(s) + 1 /\ Len(s) \in Nat
      /\ \A i \in 1..Len(s) : t[i] = s[i]
      /\ t[Len(s) + 1] = l
  OBVIOUS
<1>2. \A i \in 1..Len(s) : s[i] \in ToSet(s)
  BY DEF ToSet
<1>3. ASSUME NEW i \in 1..Len(t), NEW j \in 1..Len(t), i < j PROVE t[i] < t[j]
  <2>1. CASE j = Len(s) + 1
    BY <1>1, <1>2, <1>3, <2>1
  <2>2. CASE j # Len(s) + 1
    <3>1. i \in 1..Len(s) /\ j \in 1..Len(s)
      BY <1>1, <1>3, <2>2
    <3> QED  BY <1>1, <1>3, <3>1 DEF Increasing
  <2> QED  BY <2>1, <2>2
<1>4. ToSet(t) = ToSet(s) \cup {l}
  <2>1. DOMAIN t = 1..Len(s) + 1 /\ DOMAIN s = 1..Len(s)
    BY <1>1
  <2>2. ToSet(t) \subseteq ToSet(s) \cup {l}
    BY <1>1, <2>1 DEF ToSet
  <2>3. ToSet(s) \cup {l} \subseteq ToSet(t)
    <3>1. \A i \in DOMAIN s : i \in DOMAIN t /\ t[i] = s[i]
      BY <1>1, <2>1
    <3>2. Len(s) + 1 \in DOMAIN t
      BY <1>1, <2>1
    <3> QED  BY <1>1, <3>1, <3>2 DEF ToSet
  <2> QED  BY <2>2, <2>3
<1> QED  BY <1>3, <1>4 DEF Increasing

\* What a sequence with one element more is.
LEMMA AppendIs ==
  ASSUME NEW s \in Seq(Lines), NEW t \in Seq(Lines), NEW l,
         Len(t) = Len(s) + 1, t[Len(s) + 1] = l, \A i \in 1..Len(s) : t[i] = s[i]
  PROVE  t = Append(s, l)
<1>1. l \in Lines /\ Len(s) \in Nat
  <2>1. Len(s) + 1 \in DOMAIN t
    OBVIOUS
  <2> QED  BY <2>1
<1>2. Append(s, l) \in Seq(Lines) /\ Len(Append(s, l)) = Len(t)
  BY <1>1
<1>3. ASSUME NEW i \in 1..Len(t) PROVE t[i] = Append(s, l)[i]
  BY <1>1, <1>3
<1> QED  BY <1>2, <1>3, SeqEqual

\* A line that is put into the buffer comes behind those that wait there.
LEMMA WaitsLast ==
  ASSUME OrderInv, NEW l \in Lines, buffer' = Append(buffer, l), UNCHANGED flushing
  PROVE  Rest' = Append(Rest, l)
<1> USE CaptureAssumption DEF OrderInv
<1>1. buffer \in Seq(Lines) /\ flushing \in Nat
  BY DEF CaptureTypeOK
<1>2. Rest' = Append(Rest, l)
  <2>1. CASE flushing = 0
    BY <2>1 DEF Rest
  <2>2. CASE flushing # 0
    <3>1. flushing \in 1..Len(buffer) + 1 /\ Len(buffer) \in Nat
      BY <1>1, <2>2
    <3>2. buffer' \in Seq(Lines) /\ Len(buffer') = Len(buffer) + 1 /\ buffer'[Len(buffer) + 1] = l
      BY <1>1
    <3>3. \A i \in 1..Len(buffer) : buffer'[i] = buffer[i]
      BY <1>1
    <3>4. Rest' = SubSeq(buffer', flushing, Len(buffer) + 1)
      BY <2>2, <3>2 DEF Rest
    <3>5. /\ \A i \in flushing..Len(buffer) + 1 : buffer'[i] \in Lines
          /\ \A i \in flushing..Len(buffer) : buffer[i] \in Lines
      BY <1>1, <3>1, <3>2
    <3>6. /\ Rest' \in Seq(Lines) /\ Len(Rest') = Len(buffer) + 2 - flushing
          /\ \A i \in 1..Len(buffer) + 2 - flushing : Rest'[i] = buffer'[flushing + i - 1]
      BY <3>1, <3>4, <3>5, SubSeqProperties
    <3>7. /\ Rest \in Seq(Lines) /\ Len(Rest) = Len(buffer) + 1 - flushing
          /\ \A i \in 1..Len(buffer) + 1 - flushing : Rest[i] = buffer[flushing + i - 1]
      BY <2>2, <3>1, <3>5, SubSeqProperties DEF Rest
    <3>8. Len(Rest') = Len(Rest) + 1 /\ Rest'[Len(Rest) + 1] = l
      <4>1. Len(Rest) + 1 = Len(buffer) + 2 - flushing /\ Len(Rest) + 1 \in 1..Len(buffer) + 2 - flushing
        BY <3>1, <3>7
      <4>2. flushing + (Len(Rest) + 1) - 1 = Len(buffer) + 1
        BY <3>1, <3>7
      <4> QED  BY <3>2, <3>6, <4>1, <4>2
    <3>9. ASSUME NEW i \in 1..Len(Rest) PROVE Rest'[i] = Rest[i]
      <4>1. i \in 1..Len(buffer) + 1 - flushing /\ flushing + i - 1 \in 1..Len(buffer)
        BY <3>1, <3>7, <3>9
      <4>2. i \in 1..Len(buffer) + 2 - flushing
        BY <3>1, <4>1
      <4> QED  BY <3>3, <3>6, <3>7, <4>1, <4>2
    <3> QED  BY <3>6, <3>7, <3>8, <3>9, AppendIs
  <2> QED  BY <2>1, <2>2
<1> QED  BY <1>2

\* A sequence with a line more has its lines and that one.
LEMMA AppendAdds ==
  ASSUME NEW s \in Seq(Lines), NEW l \in Lines
  PROVE  ToSet(Append(s, l)) = ToSet(s) \cup {l}
<1> DEFINE t == Append(s, l)
<1>1. /\ DOMAIN t = 1..Len(s) + 1 /\ DOMAIN s = 1..Len(s) /\ Len(s) \in Nat
      /\ \A i \in 1..Len(s) : t[i] = s[i]
      /\ t[Len(s) + 1] = l
  OBVIOUS
<1> HIDE DEF t
<1>2. ToSet(t) \subseteq ToSet(s) \cup {l}
  BY <1>1 DEF ToSet
<1>3. ToSet(s) \cup {l} \subseteq ToSet(t)
  <2>1. \A i \in DOMAIN s : i \in DOMAIN t /\ t[i] = s[i]
    BY <1>1
  <2>2. Len(s) + 1 \in DOMAIN t
    BY <1>1
  <2> QED  BY <1>1, <2>1, <2>2 DEF ToSet
<1> QED  BY <1>2, <1>3 DEF t

LEMMA ConsAdds ==
  ASSUME NEW s \in Seq(Lines), NEW l \in Lines
  PROVE  ToSet(<<l>> \o s) = {l} \cup ToSet(s)
<1> DEFINE t == <<l>> \o s
<1>1. /\ DOMAIN t = 1..Len(s) + 1 /\ DOMAIN s = 1..Len(s) /\ Len(s) \in Nat
      /\ \A i \in 1..Len(s) : t[i + 1] = s[i]
      /\ t[1] = l
  OBVIOUS
<1> HIDE DEF t
<1>2. ToSet(t) \subseteq ToSet(s) \cup {l}
  <2>1. ASSUME NEW j \in DOMAIN t, j # 1 PROVE j - 1 \in DOMAIN s /\ t[j] = s[j - 1]
    BY <1>1, <2>1
  <2> QED  BY <1>1, <2>1 DEF ToSet
<1>3. ToSet(s) \cup {l} \subseteq ToSet(t)
  <2>1. \A i \in DOMAIN s : i + 1 \in DOMAIN t /\ t[i + 1] = s[i]
    BY <1>1
  <2>2. 1 \in DOMAIN t
    BY <1>1
  <2> QED  BY <1>1, <2>1, <2>2 DEF ToSet
<1> QED  BY <1>2, <1>3 DEF t

\* A line printed comes behind all that are given, to a full buffer, or to the
\* end of the flush.
LEMMA CaptureKeepsOrder ==
  ASSUME OrderInv, CaptureTypeOK', Capture
  PROVE  OrderInv'
<1> DEFINE l == line + 1
           lost == missed \cup stranded
<1>1. /\ l \in Lines /\ line' = l /\ line \in Nat
      /\ flushing' = flushing /\ callbackFlushed' = callbackFlushed /\ leaving' = leaving
      /\ Closing' = Closing
  BY CaptureAssumption DEF Capture, OrderInv, CaptureTypeOK, Lines, Closing
<1>2. Given \in Seq(Lines) /\ Increasing(Given) /\ ToSet(Given) = (1..line) \ lost
  BY WaitingTyped, OrderIsOfGiven DEF OrderInv
<1>3. lost \subseteq 1..line /\ (1..line') = (1..line) \cup {l} /\ l \notin 1..line
  BY <1>1 DEF OrderInv
<1>4. \A m \in ToSet(Given) : m < l
  BY <1>1, <1>2
<1>5. ASSUME Given' = Append(Given, l), UNCHANGED <<missed, stranded>>
      PROVE  CallbackKeepsOrder' /\ (missed' \cup stranded' \subseteq 1..line')
  <2>1. Increasing(Given') /\ ToSet(Given') = ToSet(Given) \cup {l}
    BY <1>1, <1>2, <1>4, <1>5, LastComesLast
  <2>2. ToSet(Given') = (1..line') \ lost'
    BY <1>2, <1>3, <1>5, <2>1
  <2> QED  BY <1>3, <1>5, <2>1, <2>2 DEF CallbackKeepsOrder, Given, Waiting, Rest
<1>6. ASSUME Given' = Given, missed' \cup stranded' = lost \cup {l}
      PROVE  CallbackKeepsOrder' /\ (missed' \cup stranded' \subseteq 1..line')
  <2>1. Increasing(Given') /\ ToSet(Given') = (1..line') \ (missed' \cup stranded')
    BY <1>2, <1>3, <1>6
  <2> QED  BY <1>3, <1>6, <2>1 DEF CallbackKeepsOrder, Given, Waiting, Rest
<1>7. CASE callbackFlushed
  <2>1. seen' = Append(seen, l) /\ UNCHANGED <<buffer, missed, stranded>>
    BY <1>7 DEF Capture
  <2>2. Rest' = Rest /\ Waiting' = Waiting
    BY <1>1, <2>1 DEF Rest, Waiting
  <2>3. Waiting = <<>>
    BY <1>7, WhatWaits DEF OrderInv, Closing
  <2>4. Given' = Append(Given, l)
    BY <2>1, <2>2, <2>3 DEF Given, OrderInv, CaptureTypeOK
  <2>5. CallbackKeepsOrder' /\ (missed' \cup stranded' \subseteq 1..line')
    BY <1>5, <2>1, <2>4
  <2> QED  BY <1>1, <2>1, <2>2, <2>5 DEF OrderInv
<1>8. CASE ~callbackFlushed
  <2>1. Buffer(l) /\ seen' = seen
    BY <1>8 DEF Capture
  <2>2. CASE ~(Len(buffer) < PreinitMax)
    <3>1. missed' = missed \cup {l} /\ UNCHANGED <<buffer, stranded>>
      BY <2>1, <2>2 DEF Buffer
    <3>2. Rest' = Rest /\ Given' = Given
      BY <1>1, <2>1, <3>1 DEF Rest, Waiting, Given
    <3>3. CallbackKeepsOrder' /\ (missed' \cup stranded' \subseteq 1..line')
      BY <1>6, <3>1, <3>2
    <3> QED  BY <1>1, <3>1, <3>2, <3>3 DEF OrderInv
  <2>3. ASSUME Len(buffer) < PreinitMax
        PROVE  /\ buffer' = Append(buffer, l) /\ missed' = missed
               /\ Rest \in Seq(Lines) /\ Rest' = Append(Rest, l)
               /\ ToSet(Rest') = ToSet(Rest) \cup {l}
               /\ flushing' # 0 => flushing' \in 1..Len(buffer') + 1
    <3>1. buffer' = Append(buffer, l) /\ missed' = missed
      BY <2>1, <2>3 DEF Buffer
    <3>2. Rest \in Seq(Lines) /\ Rest' = Append(Rest, l)
      BY <1>1, <3>1, WaitsLast, RestTyped DEF OrderInv
    <3>3. Len(buffer') = Len(buffer) + 1 /\ Len(buffer) \in Nat
      BY <3>1 DEF OrderInv, CaptureTypeOK
    <3>4. flushing' # 0 => flushing' \in 1..Len(buffer') + 1
      BY <1>1, <3>3 DEF OrderInv, CaptureTypeOK
    <3> QED  BY <1>1, <3>1, <3>2, <3>4, AppendAdds
  <2>4. CASE Len(buffer) < PreinitMax /\ leaving = "no"
    <3>1. stranded' = stranded /\ stranded = {} /\ ~Closing
      BY <1>8, <2>1, <2>4 DEF Buffer, OrderInv, Closing
    <3>2. Waiting = Rest
      BY <3>1, WhatWaits DEF OrderInv
    <3>3. Waiting' = Rest'
      <4>1. l \in ToSet(Rest') /\ l \notin stranded'
        BY <2>3, <2>4, <3>1
      <4> QED  BY <4>1 DEF Waiting
    <3>4. Given' = Append(Given, l)
      <4>1. seen \in Seq(Lines) /\ Rest \in Seq(Lines) /\ Rest' = Append(Rest, l)
        BY <2>3, <2>4 DEF OrderInv, CaptureTypeOK
      <4>2. seen \o Append(Rest, l) = Append(seen \o Rest, l)
        BY <1>1, <4>1
      <4> QED  BY <2>1, <3>2, <3>3, <4>1, <4>2 DEF Given
    <3>5. CallbackKeepsOrder' /\ (missed' \cup stranded' \subseteq 1..line')
      BY <1>5, <2>3, <2>4, <3>1, <3>4
    <3> QED  BY <1>1, <2>3, <2>4, <3>1, <3>5 DEF OrderInv
  <2>5. CASE Len(buffer) < PreinitMax /\ leaving # "no"
    <3>1. stranded' = stranded \cup {l} /\ Closing
      BY <2>1, <2>5 DEF Buffer, Closing
    <3>2. ToSet(Rest) \subseteq stranded /\ ToSet(Rest') \subseteq stranded'
      BY <2>3, <2>5, <3>1 DEF OrderInv
    <3>3. Waiting = <<>> /\ Waiting' = <<>>
      BY <3>2 DEF Waiting
    <3>4. Given' = Given
      BY <2>1, <3>3 DEF Given
    <3>5. CallbackKeepsOrder' /\ (missed' \cup stranded' \subseteq 1..line')
      BY <1>6, <2>3, <2>5, <3>1, <3>4
    <3> QED  BY <1>1, <2>3, <2>5, <3>1, <3>2, <3>5 DEF OrderInv
  <2> QED  BY <2>2, <2>4, <2>5
<1> QED  BY <1>7, <1>8

\* Steps that leave the lines given where they are.
LEMMA SameOrder ==
  ASSUME OrderInv, CaptureTypeOK', Given' = Given, UNCHANGED <<line, missed, stranded>>,
         flushing' # 0 => flushing' \in 1..Len(buffer') + 1,
         leaving' = "emptied" => flushing' = 0,
         Closing => Closing', Closing' => ToSet(Rest') \subseteq stranded
  PROVE  OrderInv'
BY DEF OrderInv, CallbackKeepsOrder, Given, Waiting, Rest

\* The flush takes the first of what waits to the end of what was given; a later
\* flush has stranded lines only.
LEMMA FlushStepKeepsOrder ==
  ASSUME OrderInv, CaptureTypeOK', FlushStep
  PROVE  OrderInv'
<1>1. /\ buffer \in Seq(Lines) /\ seen \in Seq(Lines) /\ Len(buffer) \in Nat
      /\ flushing \in 1..Len(buffer) /\ flushing' = flushing + 1 /\ buffer' = buffer
      /\ seen' = IF buffer[flushing] \in stranded THEN seen ELSE Append(seen, buffer[flushing])
      /\ buffer[flushing] \in Lines
      /\ leaving = "no" /\ UNCHANGED <<line, missed, stranded, callbackFlushed, leaving>>
  BY DEF FlushStep, InLoop, GiveOut, OrderInv, CaptureTypeOK
<1>2. Rest = <<buffer[flushing]>> \o Rest'
  <2>1. Rest = SubSeq(buffer, flushing, Len(buffer)) /\ Rest' = SubSeq(buffer, flushing + 1, Len(buffer))
    BY <1>1 DEF Rest
  <2> QED  BY <1>1, <2>1, SubSeqRecursiveFirst
<1>3. Rest' \in Seq(Lines)
  <2>1. \A i \in flushing + 1..Len(buffer) : buffer[i] \in Lines
    BY <1>1
  <2>2. Rest' = SubSeq(buffer, flushing + 1, Len(buffer))
    BY <1>1 DEF Rest
  <2> QED  BY <1>1, <2>1, <2>2, SubSeqProperties
<1>4. ToSet(Rest) = {buffer[flushing]} \cup ToSet(Rest')
  BY <1>1, <1>2, <1>3, ConsAdds
<1>5. CASE callbackFlushed
  <2>1. ToSet(Rest) \subseteq stranded /\ ToSet(Rest') \subseteq stranded /\ buffer[flushing] \in stranded
    BY <1>4, <1>5 DEF OrderInv, Closing
  <2>2. Given' = Given
    BY <1>1, <2>1 DEF Given, Waiting
  <2> QED  BY <1>1, <1>5, <2>1, <2>2, SameOrder DEF Closing
<1>6. CASE ~callbackFlushed
  <2>1. stranded = {} /\ ~Closing /\ ~Closing'
    BY <1>1, <1>6 DEF OrderInv, Closing
  <2>2. Waiting = Rest
    BY <2>1, WhatWaits DEF OrderInv
  <2>3. Waiting' = Rest'
    <3>1. ToSet(Rest') = {} => Rest' = <<>>
      <4>1. Rest' # <<>> => Rest'[1] \in ToSet(Rest')
        BY <1>3 DEF ToSet
      <4> QED  BY <4>1
    <3> QED  BY <1>1, <2>1, <3>1 DEF Waiting
  <2>4. Given' = Given
    <3>1. seen' = seen \o <<buffer[flushing]>>
      BY <1>1, <2>1
    <3>2. Given' = (seen \o <<buffer[flushing]>>) \o Rest'
      BY <2>3, <3>1 DEF Given
    <3>3. <<buffer[flushing]>> \in Seq(Lines)
      BY <1>1
    <3>4. (seen \o <<buffer[flushing]>>) \o Rest' = seen \o (<<buffer[flushing]>> \o Rest')
      BY <1>1, <1>3, <3>3, ConcatAssociative
    <3> QED  BY <1>2, <2>2, <3>2, <3>4 DEF Given
  <2> QED  BY <1>1, <2>1, <2>4, SameOrder
<1> QED  BY <1>5, <1>6

\* The end of the flush gives up nothing but stranded lines.
LEMMA FlushEndKeepsOrder ==
  ASSUME OrderInv, CaptureTypeOK', FlushLeave \/ FlushEmpty \/ FlushDone
  PROVE  OrderInv'
<1>1. buffer \in Seq(Lines) /\ Len(buffer) \in Nat /\ flushing \in Nat /\ ToSet(<<>>) = {}
  BY CaptureAssumption DEF OrderInv, CaptureTypeOK, ToSet
<1>2. CASE FlushLeave
  <2>1. /\ flushing > Len(buffer) /\ flushing # 0 /\ leaving' = "left"
        /\ UNCHANGED <<line, buffer, flushing, seen, missed, stranded, callbackFlushed>>
    BY <1>1, <1>2 DEF FlushLeave
  <2>2. Rest = <<>> /\ Rest' = <<>>
    BY <1>1, <2>1, SubSeqEmpty DEF Rest
  <2>3. Given' = Given
    BY <2>1, <2>2 DEF Given, Waiting
  <2>4. flushing' # 0 => flushing' \in 1..Len(buffer') + 1
    BY <2>1 DEF OrderInv
  <2> QED  BY <1>1, <2>1, <2>2, <2>3, <2>4, SameOrder DEF Closing
<1>3. CASE FlushEmpty
  <2>1. /\ leaving = "left" /\ leaving' = "emptied" /\ buffer' = <<>> /\ flushing' = 0
        /\ UNCHANGED <<line, seen, missed, stranded, callbackFlushed>>
    BY <1>3 DEF FlushEmpty
  <2>2. ToSet(Rest) \subseteq stranded /\ Rest' = <<>>
    BY <2>1 DEF OrderInv, Closing, Rest
  <2>3. Given' = Given
    BY <1>1, <2>1, <2>2 DEF Given, Waiting
  <2> QED  BY <1>1, <2>1, <2>2, <2>3, SameOrder DEF Closing
<1>4. CASE FlushDone
  <2>1. /\ leaving = "emptied" /\ leaving' = "no" /\ callbackFlushed' = TRUE
        /\ UNCHANGED <<line, buffer, flushing, seen, missed, stranded>>
    BY <1>4 DEF FlushDone
  <2>2. Rest' = Rest /\ ToSet(Rest) \subseteq stranded /\ Given' = Given
    BY <2>1 DEF OrderInv, Closing, Rest, Given, Waiting
  <2> QED  BY <2>1, <2>2, SameOrder DEF Closing, OrderInv
<1> QED  BY <1>2, <1>3, <1>4

LEMMA FlushCallbackKeepsOrder ==
  ASSUME OrderInv, CaptureTypeOK', FlushCallback
  PROVE  OrderInv'
<1>1. /\ buffer \in Seq(Lines) /\ Len(buffer) \in Nat /\ flushing = 0 /\ flushing' = 1
      /\ leaving = "no"
      /\ UNCHANGED <<line, missed, stranded, seen, buffer, callbackFlushed, leaving>>
  BY DEF FlushCallback, OrderInv, CaptureTypeOK
<1>2. SubSeq(buffer, 1, Len(buffer)) = buffer
  BY <1>1, SubSeqFull
<1>3. Rest' = Rest
  BY <1>1, <1>2 DEF Rest
<1>4. Given' = Given /\ Closing' = Closing
  BY <1>1, <1>3 DEF Given, Waiting, Closing
<1> QED  BY <1>1, <1>3, <1>4, SameOrder DEF OrderInv

\* After a boot nothing was printed.
LEMMA EmptyOrder ==
  /\ CaptureTypeOK /\ CaptureInit => OrderInv
  /\ CaptureTypeOK' /\ CaptureReset => OrderInv'
<1>1. 1..0 = {} /\ Increasing(<<>>) /\ ToSet(<<>>) = {} /\ <<>> \o <<>> = <<>>
  BY DEF Increasing, ToSet
<1>2. ASSUME CaptureTypeOK, CaptureInit PROVE OrderInv
  BY <1>1, <1>2 DEF CaptureInit, OrderInv, CallbackKeepsOrder, Closing
<1>3. ASSUME CaptureTypeOK', CaptureReset PROVE OrderInv'
  BY <1>1, <1>3 DEF CaptureReset, OrderInv, CallbackKeepsOrder, Closing
<1> QED  BY <1>2, <1>3

\* What else happens leaves the lines where they are.
LEMMA OthersKeepOrder ==
  ASSUME OrderInv, CaptureTypeOK',
         UNCHANGED <<line, buffer, callbackFlushed, flushVars, seenVars>>
  PROVE  OrderInv'
<1>1. Given' = Given /\ Rest' = Rest /\ Closing' = Closing
  BY DEF Given, Waiting, Rest, Closing
<1> QED  BY <1>1, SameOrder DEF OrderInv

LEMMA OrderKept ==
  ASSUME LogInv, LogInv', OrderInv, [LogNext]_logVars
  PROVE  OrderInv'
<1>1. CaptureTypeOK'
  BY DEF LogInv
<1>2. CASE CaptureNext
  <2>1. ASSUME NEW on \in BOOLEAN, FlushFile(on) \/ SetFileEnabled(on) PROVE OrderInv'
    BY <1>1, <2>1, OthersKeepOrder DEF FlushFile, SetFileEnabled
  <2> QED  BY <1>1, <1>2, <2>1, CaptureKeepsOrder, FlushCallbackKeepsOrder,
              FlushStepKeepsOrder, FlushEndKeepsOrder DEF CaptureNext
<1>3. CASE PowerCut
  BY <1>1, <1>3, EmptyOrder DEF PowerCut
<1>4. CASE Receive \/ Rotate \/ AppendLine \/ Sync \/ Clear \/ Midnight \/ Migrated \/ UNCHANGED logVars
  BY <1>1, <1>4, OthersKeepOrder
     DEF Receive, Rotate, Rotation, AppendLine, Sync, Clear, Midnight, Migrated, logVars, captureVars
<1> QED  BY <1>2, <1>3, <1>4 DEF LogNext

\* A client sees every line of the boot once and in order, but for those that came to
\* a full boot buffer or to the last three statements of the flush: the flush gives out
\* the buffer while lines come, for every size of the buffer and any number of lines.
THEOREM ClientSeesOrder == LogSafety => []CallbackKeepsOrder
<1>1. LogInit => OrderInv
  <2>1. LogInit => LogInv /\ CaptureInit
    BY InitLog DEF LogInit
  <2> QED  BY <2>1, EmptyOrder DEF LogInv
<1>2. LogInv /\ LogInv' /\ OrderInv /\ [LogNext]_logVars => OrderInv'
  BY OrderKept
<1>3. OrderInv => CallbackKeepsOrder
  BY DEF OrderInv
<1> QED  BY LogInvariant, <1>1, <1>2, <1>3, PTL DEF LogSafety

-----------------------------------------------------------------------------
(* The lines are kept once *)

\* The files that hold a line once: while nosync.log is copied and not yet removed its
\* lines are in the file of the day too.
Single == IF migrating THEN Dated ELSE DOMAIN files

\* LinesAreKeptOnce, for these files.
Kept ==
  /\ Increasing(queue)
  /\ \A l \in Held, m \in ToSet(queue) : l < m
  /\ \A p \in DOMAIN files :
       /\ Chronological(files[p])
       /\ \A l \in ToSet(files[p]), m \in Held \cup ToSet(queue) : l < m
  /\ \A p, q \in Single : p # q => ToSet(files[p]) \cap ToSet(files[q]) \subseteq {0}
  /\ Stored(files) \cup Held \cup ToSet(queue) = (1..line) \ gone

\* Before the settings are read the boot buffer has all lines, and the files none.
Unflushed ==
  /\ queue = <<>> /\ writer.at = "wait" /\ gone = {}
  /\ flushing = 0 /\ leaving = "no" /\ ~callbackFlushed
  /\ Increasing(buffer) /\ ToSet(buffer) = (1..line) \ missed /\ missed \subseteq 1..line
  /\ \A p \in DOMAIN files : ToSet(files[p]) \subseteq {0}

\* Until the time is known no file of a day has a line of this boot.
KeptInv ==
  /\ IF fileFlushed THEN Kept ELSE Unflushed /\ ~migrating
  /\ gone \subseteq 1..line
  /\ ~synced => ~migrating /\ \A p \in Dated : ToSet(files[p]) \subseteq {0}

LEMMA StoredIs ==
  ASSUME NEW fs, NEW l
  PROVE  l \in Stored(fs) <=> l # 0 /\ \E p \in DOMAIN fs : l \in ToSet(fs[p])
BY DEF Stored

LEMMA RemainingIs ==
  ASSUME NEW fs, NEW S
  PROVE  DOMAIN Remaining(fs, S) = S /\ \A p \in S : Remaining(fs, S)[p] = fs[p]
BY DEF Remaining, Restrict

LEMMA WithFileIs ==
  ASSUME NEW fs, NEW p, NEW c
  PROVE  /\ DOMAIN WithFile(fs, p, c) = DOMAIN fs \cup {p} /\ WithFile(fs, p, c)[p] = c
         /\ \A q \in DOMAIN fs \ {p} : WithFile(fs, p, c)[q] = fs[q]
BY DEF WithFile

\* What is in a file is 0 or a line.
LEMMA EntriesTyped ==
  ASSUME NEW s \in Contents
  PROVE  ToSet(s) \subseteq 0..MaxLines
<1>1. \A i \in DOMAIN s : s[i] \in 0..MaxLines
  BY EntryTyped DEF Contents
<1> QED  BY <1>1 DEF ToSet

\* Lines of an earlier boot are in order.
LEMMA ZerosInOrder ==
  ASSUME NEW s \in Contents, ToSet(s) \subseteq {0}
  PROVE  Chronological(s)
<1>1. \A i \in 1..Len(s) : s[i] \in ToSet(s)
  BY DEF Contents, ToSet
<1> QED  BY <1>1 DEF Chronological

\* A line later than all others comes last in a file too.
LEMMA LastInFile ==
  ASSUME NEW s \in Contents, NEW l \in Lines, Chronological(s), \A m \in ToSet(s) : m < l
  PROVE  /\ Append(s, l) \in Contents
         /\ Chronological(Append(s, l))
         /\ ToSet(Append(s, l)) = ToSet(s) \cup {l}
<1> DEFINE t == Append(s, l)
<1>1. s \in Seq(0..MaxLines) /\ l \in 0..MaxLines
  BY CaptureAssumption DEF Contents, Lines
<1>2. /\ t \in Seq(0..MaxLines) /\ Len(t) = Len(s) + 1 /\ Len(s) \in Nat
      /\ \A i \in 1..Len(s) : t[i] = s[i]
      /\ t[Len(s) + 1] = l
  BY <1>1
<1>3. \A i \in 1..Len(s) : s[i] \in ToSet(s)
  BY <1>1 DEF ToSet
<1>4. ASSUME NEW i \in 1..Len(t), NEW j \in 1..Len(t), i < j
      PROVE  t[i] < t[j] \/ (t[i] = 0 /\ t[j] = 0)
  <2>1. CASE j = Len(s) + 1
    BY <1>2, <1>3, <1>4, <2>1
  <2>2. CASE j # Len(s) + 1
    <3>1. i \in 1..Len(s) /\ j \in 1..Len(s)
      BY <1>2, <1>4, <2>2
    <3> QED  BY <1>2, <1>4, <3>1 DEF Chronological
  <2> QED  BY <2>1, <2>2
<1>5. ToSet(t) = ToSet(s) \cup {l}
  <2>1. DOMAIN t = 1..Len(s) + 1 /\ DOMAIN s = 1..Len(s)
    BY <1>1, <1>2
  <2>2. ToSet(t) \subseteq ToSet(s) \cup {l}
    BY <1>2, <2>1 DEF ToSet
  <2>3. ToSet(s) \cup {l} \subseteq ToSet(t)
    <3>1. \A i \in DOMAIN s : i \in DOMAIN t /\ t[i] = s[i]
      BY <1>2, <2>1
    <3>2. Len(s) + 1 \in DOMAIN t
      BY <1>2, <2>1
    <3> QED  BY <1>2, <3>1, <3>2 DEF ToSet
  <2> QED  BY <2>2, <2>3
<1> HIDE DEF t
<1>6. Chronological(t)
  BY <1>4 DEF Chronological
<1> QED  BY <1>2, <1>5, <1>6 DEF t, Contents

\* The head of an increasing queue is before the rest.
LEMMA HeadIsFirst ==
  ASSUME NEW s \in Seq(Lines), s # <<>>, Increasing(s)
  PROVE  /\ Head(s) \in Lines /\ Tail(s) \in Seq(Lines)
         /\ Increasing(Tail(s))
         /\ ToSet(s) = {Head(s)} \cup ToSet(Tail(s))
         /\ \A m \in ToSet(Tail(s)) : Head(s) < m
<1> DEFINE t == Tail(s)
<1>1. /\ Len(s) \in Nat /\ Len(s) > 0 /\ Head(s) = s[1] /\ Head(s) \in Lines
      /\ t \in Seq(Lines) /\ Len(t) = Len(s) - 1
      /\ \A i \in 1..Len(s) - 1 : t[i] = s[i + 1]
      /\ DOMAIN s = 1..Len(s) /\ DOMAIN t = 1..Len(s) - 1
  OBVIOUS
<1> HIDE DEF t
<1>2. ASSUME NEW i \in 1..Len(t), NEW j \in 1..Len(t), i < j PROVE t[i] < t[j]
  <2>1. i + 1 \in 1..Len(s) /\ j + 1 \in 1..Len(s) /\ i + 1 < j + 1
    BY <1>1, <1>2
  <2>2. s[i + 1] < s[j + 1]
    BY <2>1 DEF Increasing
  <2> QED  BY <1>1, <1>2, <2>2
<1>3. ASSUME NEW m \in ToSet(t) PROVE s[1] < m /\ m \in ToSet(s)
  <2>1. PICK i \in 1..Len(s) - 1 : m = t[i]
    BY <1>1, <1>3 DEF ToSet
  <2>2. i + 1 \in 1..Len(s) /\ 1 \in 1..Len(s) /\ 1 < i + 1 /\ m = s[i + 1]
    BY <1>1, <2>1
  <2> QED  BY <1>1, <2>2 DEF Increasing, ToSet
<1>4. ASSUME NEW m \in ToSet(s), m # s[1] PROVE m \in ToSet(t)
  <2>1. PICK i \in 1..Len(s) : m = s[i]
    BY <1>1, <1>4 DEF ToSet
  <2>2. i - 1 \in 1..Len(s) - 1
    BY <1>1, <1>4, <2>1
  <2>3. t[i - 1] = s[(i - 1) + 1] /\ (i - 1) + 1 = i
    BY <1>1, <2>2
  <2> QED  BY <1>1, <2>1, <2>2, <2>3 DEF ToSet
<1>5. s[1] \in ToSet(s)
  BY <1>1 DEF ToSet
<1>6. Increasing(t)
  BY <1>2 DEF Increasing
<1>7. ToSet(s) = {Head(s)} \cup ToSet(t)
  BY <1>1, <1>3, <1>4, <1>5
<1>8. \A m \in ToSet(t) : Head(s) < m
  BY <1>1, <1>3
<1> QED  BY <1>1, <1>6, <1>7, <1>8 DEF t

\* The beginning of a file that is earlier boots' lines, then nosync.log.
LEMMA BehindZeros ==
  ASSUME NEW a \in Contents, NEW b \in Contents, ToSet(a) \subseteq {0}, Chronological(b),
         NEW c \in Contents, Len(c) <= Len(a) + Len(b),
         \A i \in 1..Len(c) : c[i] = (a \o b)[i]
  PROVE  Chronological(c) /\ ToSet(c) \subseteq {0} \cup ToSet(b)
<1>1. /\ a \in Seq(0..MaxLines) /\ b \in Seq(0..MaxLines) /\ c \in Seq(0..MaxLines)
      /\ Len(a) \in Nat /\ Len(b) \in Nat /\ Len(c) \in Nat
      /\ Len(c) <= Len(a) + Len(b)
      /\ \A i \in 1..Len(b) : b[i] \in 0..MaxLines
  <2>1. a \in Seq(0..MaxLines) /\ b \in Seq(0..MaxLines) /\ c \in Seq(0..MaxLines)
    BY DEF Contents
  <2>2. \A i \in DOMAIN b : b[i] \in 0..MaxLines
    BY <2>1, EntryTyped
  <2> QED  BY <2>1, <2>2
<1>2. ASSUME NEW i \in 1..Len(c)
      PROVE  \/ i <= Len(a) /\ c[i] = 0
             \/ i > Len(a) /\ i - Len(a) \in 1..Len(b) /\ c[i] = b[i - Len(a)]
  <2>1. c[i] = IF i <= Len(a) THEN a[i] ELSE b[i - Len(a)]
    BY <1>1
  <2>2. i <= Len(a) => a[i] \in ToSet(a)
    BY <1>1 DEF ToSet
  <2> QED  BY <1>1, <2>1, <2>2
<1>3. ASSUME NEW i \in 1..Len(c), NEW j \in 1..Len(c), i < j
      PROVE  c[i] < c[j] \/ (c[i] = 0 /\ c[j] = 0)
  <2>1. CASE i <= Len(a) /\ j <= Len(a)
    BY <1>1, <1>2, <2>1
  <2>2. CASE i <= Len(a) /\ j > Len(a)
    <3>1. c[i] = 0 /\ c[j] = b[j - Len(a)] /\ j - Len(a) \in 1..Len(b)
      BY <1>1, <1>2, <2>2
    <3>2. c[j] \in 0..MaxLines
      BY <1>1, <3>1
    <3> QED  BY <3>1, <3>2
  <2>3. CASE i > Len(a)
    <3>1. /\ c[i] = b[i - Len(a)] /\ i - Len(a) \in 1..Len(b)
          /\ c[j] = b[j - Len(a)] /\ j - Len(a) \in 1..Len(b) /\ i - Len(a) < j - Len(a)
      BY <1>1, <1>2, <1>3, <2>3
    <3> QED  BY <3>1 DEF Chronological
  <2> QED  BY <1>1, <2>1, <2>2, <2>3
<1>4. ToSet(c) \subseteq {0} \cup ToSet(b)
  <2>1. ASSUME NEW x \in ToSet(c) PROVE x \in {0} \cup ToSet(b)
    <3>1. PICK i \in 1..Len(c) : x = c[i]
      BY <1>1, <2>1 DEF ToSet
    <3>2. \A k \in 1..Len(b) : b[k] \in ToSet(b)
      BY <1>1 DEF ToSet
    <3> QED  BY <1>2, <3>1, <3>2
  <2> QED  BY <2>1
<1> QED  BY <1>3, <1>4 DEF Chronological

\* What is not yet in a file.
Pending == Held \cup ToSet(queue)

\* Lines that wait are in no file, and the lines of the files were printed.
LEMMA PendingTyped ==
  ASSUME LogInv
  PROVE  /\ Pending \subseteq Lines /\ Stored(files) \subseteq Lines
         /\ \A p \in DOMAIN files : files[p] \in Contents /\ ToSet(files[p]) \subseteq 0..MaxLines
         /\ fileFlushed /\ KeptInv => Stored(files) \cap Pending = {}
<1>1. Stored(files) \subseteq Lines
  BY StoredAreLines DEF LogInv, FilesTypeOK, Contents
<1>2. ToSet(queue) \subseteq Lines
  <2>1. \A i \in DOMAIN queue : queue[i] \in Lines
    BY EntryTyped DEF LogInv, CaptureTypeOK
  <2> QED  BY <2>1 DEF ToSet
<1>3. Held \subseteq Lines
  BY DEF Held, LogInv, FilesTypeOK
<1>4. \A p \in DOMAIN files : files[p] \in Contents /\ ToSet(files[p]) \subseteq 0..MaxLines
  BY EntriesTyped DEF LogInv, FilesTypeOK, Contents
<1>5. ASSUME fileFlushed, KeptInv, NEW l \in Stored(files), l \in Pending PROVE FALSE
  <2>1. PICK p \in DOMAIN files : l \in ToSet(files[p])
    BY <1>5, StoredIs
  <2>2. l < l
    BY <1>5, <2>1 DEF KeptInv, Kept, Pending
  <2>3. l \in Nat
    BY <1>1, <1>5 DEF Lines
  <2> QED  BY <2>2, <2>3
<1> QED  BY <1>1, <1>2, <1>3, <1>4, <1>5 DEF Pending

\* Steps that leave the lines where they are.
LEMMA SameKept ==
  ASSUME KeptInv,
         UNCHANGED <<line, fileFlushed, queue, gone, files, writer, migrating, synced>>,
         ~fileFlushed => UNCHANGED <<buffer, missed, flushVars, callbackFlushed>>
  PROVE  KeptInv'
<1>1. CASE fileFlushed
  BY <1>1 DEF KeptInv, Kept, Single, Held, Dated
<1>2. CASE ~fileFlushed
  BY <1>2 DEF KeptInv, Unflushed, Dated
<1> QED  BY <1>1, <1>2

\* Files that are removed take their lines with them, and no other.
LEMMA RemovedKept ==
  ASSUME LogInv, KeptInv, fileFlushed, NEW S \in SUBSET DOMAIN files, S \subseteq Single,
         files' = Remaining(files, S), gone' = gone \cup (Stored(files) \ Stored(files')),
         ~migrating', Held' = Held, UNCHANGED <<line, fileFlushed, queue, synced>>
  PROVE  KeptInv'
<1>1. DOMAIN files' = S /\ \A p \in S : files'[p] = files[p]
  BY RemainingIs
<1>2. Stored(files') \subseteq Stored(files)
  <2>1. ASSUME NEW l \in Stored(files') PROVE l \in Stored(files)
    BY <1>1, <2>1, StoredIs
  <2> QED  BY <2>1
<1>3. Kept
  BY DEF KeptInv
<1>4. Stored(files) \cap Pending = {} /\ Stored(files) \cup Pending = (1..line) \ gone
  BY <1>3, PendingTyped DEF Kept, Pending
<1>5. Stored(files') \cup Pending = (1..line) \ gone' /\ gone' \subseteq 1..line
  BY <1>2, <1>4 DEF KeptInv
<1>6. Single' = S
  BY <1>1 DEF Single
<1>7. Kept'
  <2>1. Increasing(queue') /\ \A l \in Held', m \in ToSet(queue') : l < m
    BY <1>3 DEF Kept
  <2>2. \A p \in DOMAIN files' :
           /\ Chronological(files'[p])
           /\ \A l \in ToSet(files'[p]), m \in Held' \cup ToSet(queue') : l < m
    BY <1>1, <1>3 DEF Kept
  <2>3. \A p, q \in Single' : p # q => ToSet(files'[p]) \cap ToSet(files'[q]) \subseteq {0}
    BY <1>1, <1>3, <1>6 DEF Kept
  <2>4. Stored(files') \cup Held' \cup ToSet(queue') = (1..line') \ gone'
    BY <1>5 DEF Pending
  <2> QED  BY <2>1, <2>2, <2>3, <2>4 DEF Kept
<1>8. ~synced' => \A p \in Dated' : ToSet(files'[p]) \subseteq {0}
  BY <1>1 DEF KeptInv, Dated
<1> QED  BY <1>5, <1>7, <1>8 DEF KeptInv

LEMMA ReceiveKept ==
  ASSUME LogInv, KeptInv, ~migrating, Receive
  PROVE  KeptInv'
<1>1. /\ writer.at = "wait" /\ queue # <<>> /\ queue' = Tail(queue)
      /\ writer'.at = "rotate" /\ writer'.line = Head(queue)
      /\ UNCHANGED <<line, fileFlushed, gone, synced, files, migrating>>
  BY DEF Receive, fileVars
<1>2. fileFlushed /\ Kept
  BY <1>1 DEF KeptInv, Unflushed
<1>3. /\ Increasing(queue') /\ ToSet(queue) = {Head(queue)} \cup ToSet(queue')
      /\ \A m \in ToSet(queue') : Head(queue) < m
  BY <1>1, <1>2, HeadIsFirst DEF Kept, LogInv, CaptureTypeOK
<1>4. Held = {} /\ Held' = {Head(queue)}
  BY <1>1 DEF Held
<1>5. Held' \cup ToSet(queue') = Held \cup ToSet(queue)
  BY <1>3, <1>4
<1>6. Kept'
  BY <1>1, <1>2, <1>3, <1>4, <1>5 DEF Kept, Single, Dated
<1> QED  BY <1>1, <1>2, <1>6 DEF KeptInv, Dated

LEMMA RotateKept ==
  ASSUME LogInv, KeptInv, ~migrating, Rotate
  PROVE  KeptInv'
<1>1. PICK kept \in SUBSET Dated :
        /\ writer.at = "rotate" /\ writer' = [writer EXCEPT !.at = "append"]
        /\ files' = Remaining(files, kept \cup (DOMAIN files \cap {Nosync}))
        /\ gone' = gone \cup (Stored(files) \ Stored(files'))
        /\ UNCHANGED <<line, fileFlushed, queue, synced, migrating>>
  BY DEF Rotate, Rotation
<1>2. Held' = Held
  BY <1>1 DEF Held, LogInv, FilesTypeOK
<1>3. fileFlushed
  BY <1>1 DEF KeptInv, Unflushed
<1>4. kept \cup (DOMAIN files \cap {Nosync}) \in SUBSET DOMAIN files /\ Single = DOMAIN files
  BY DEF Dated, Single
<1> QED  BY <1>1, <1>2, <1>3, <1>4, RemovedKept

LEMMA ClearKept ==
  ASSUME LogInv, KeptInv, ~migrating, Clear
  PROVE  KeptInv'
<1>1. /\ fileFlushed /\ files' = Remaining(files, {}) /\ gone' = gone \cup Stored(files)
      /\ UNCHANGED <<line, fileFlushed, queue, synced, migrating, writer>>
  BY DEF Clear
<1>2. Stored(files') = {}
  <2>1. DOMAIN files' = {}
    BY <1>1, RemainingIs
  <2> QED  BY <2>1, StoredIs
<1>3. Held' = Held
  BY <1>1 DEF Held
<1> QED  BY <1>1, <1>2, <1>3, RemovedKept

LEMMA MigratedKept ==
  ASSUME LogInv, KeptInv, Migrated
  PROVE  KeptInv'
<1>1. /\ migrating /\ ~migrating' /\ files' = Remaining(files, Dated)
      /\ gone' = gone \cup (Stored(files) \ Stored(files'))
      /\ UNCHANGED <<line, fileFlushed, queue, synced, writer>>
  BY DEF Migrated
<1>2. fileFlushed /\ Single = Dated /\ Dated \subseteq DOMAIN files /\ Held' = Held
  BY <1>1 DEF KeptInv, Single, Dated, Held
<1> QED  BY <1>1, <1>2, RemovedKept

\* The line in the writer's hands comes behind those of its file, or is given up.
LEMMA AppendKept ==
  ASSUME LogInv, KeptInv, ~migrating, AppendLine
  PROVE  KeptInv'
<1> DEFINE p == writer.path
           l == writer.line
           c == Append(Content(p), l)
<1>1. PICK ok \in BOOLEAN :
        /\ writer.at = "append" /\ writer' = Resting
        /\ IF ok /\ Len(Content(p)) < MaxFileLines
           THEN files' = WithFile(files, p, c) /\ gone' = gone
           ELSE gone' = gone \cup {l} /\ files' = files
        /\ UNCHANGED <<line, fileFlushed, queue, synced, migrating>>
  BY DEF AppendLine
<1>2. fileFlushed /\ Kept /\ Single = DOMAIN files
  BY <1>1 DEF KeptInv, Unflushed, Single
<1>3. Held = {l} /\ Held' = {} /\ l \in Lines /\ l \in Nat
  BY <1>1 DEF Held, Resting, LogInv, FilesTypeOK, Lines
<1>4. /\ Stored(files) \cap Pending = {} /\ Stored(files) \cup Pending = (1..line) \ gone
      /\ ToSet(queue) \subseteq Nat /\ Pending = {l} \cup ToSet(queue)
  BY <1>2, <1>3, PendingTyped DEF Kept, Pending, Lines
<1>5. l \in 1..line /\ l \notin Stored(files) /\ l \notin ToSet(queue)
  <2>1. l \notin ToSet(queue)
    BY <1>2, <1>3 DEF Kept
  <2> QED  BY <1>4, <2>1
<1>6. CASE gone' = gone \cup {l} /\ files' = files
  <2>1. Stored(files') \cup Held' \cup ToSet(queue') = (1..line') \ gone'
    BY <1>1, <1>3, <1>4, <1>5, <1>6
  <2>2. Kept' /\ gone' \subseteq 1..line
    BY <1>1, <1>2, <1>3, <1>5, <1>6, <2>1 DEF Kept, Single, Dated, KeptInv
  <2> QED  BY <1>1, <1>2, <1>6, <2>2 DEF KeptInv, Dated
<1>7. CASE files' = WithFile(files, p, c) /\ gone' = gone
  <2>1. Content(p) \in Contents /\ Chronological(Content(p)) /\ \A m \in ToSet(Content(p)) : m < l
    <3>1. CASE p \in DOMAIN files
      BY <1>2, <1>3, <3>1, PendingTyped DEF Content, Kept
    <3>2. CASE p \notin DOMAIN files
      <4>1. <<>> \in Seq(0..MaxLines) /\ ToSet(<<>>) = {} /\ Len(<<>>) = 0
        BY DEF ToSet
      <4> QED  BY <3>2, <4>1 DEF Content, Contents, Chronological
    <3> QED  BY <3>1, <3>2
  <2>2. Chronological(c) /\ ToSet(c) = ToSet(Content(p)) \cup {l}
    BY <1>3, <2>1, LastInFile
  <2> HIDE DEF c
  <2>3. /\ DOMAIN files' = DOMAIN files \cup {p} /\ files'[p] = c
        /\ \A q \in DOMAIN files \ {p} : files'[q] = files[q]
    BY <1>7, WithFileIs
  <2>4. ToSet(Content(p)) \subseteq {0} \cup Stored(files)
    <3>1. CASE p \in DOMAIN files
      BY <3>1, StoredIs DEF Content
    <3>2. CASE p \notin DOMAIN files
      BY <3>2 DEF Content, ToSet
    <3> QED  BY <3>1, <3>2
  <2>5. Stored(files') = Stored(files) \cup {l}
    <3>1. ASSUME NEW m \in Stored(files') PROVE m \in Stored(files) \cup {l}
      <4>1. PICK q \in DOMAIN files' : m # 0 /\ m \in ToSet(files'[q])
        BY <3>1, StoredIs
      <4> QED  BY <2>2, <2>3, <2>4, <4>1, StoredIs
    <3>2. ASSUME NEW m \in Stored(files) \cup {l} PROVE m \in Stored(files')
      <4>1. CASE m = l
        <5>1. l # 0 /\ l \in ToSet(files'[p]) /\ p \in DOMAIN files'
          BY <1>3, <2>2, <2>3 DEF Lines
        <5> QED  BY <4>1, <5>1, StoredIs
      <4>2. CASE m \in Stored(files)
        <5>1. m # 0 /\ \E q \in DOMAIN files : m \in ToSet(files[q])
          BY <4>2, StoredIs
        <5>2. PICK q \in DOMAIN files : m \in ToSet(files[q])
          BY <5>1
        <5>3. m \in ToSet(files'[q]) /\ q \in DOMAIN files'
          BY <2>2, <2>3, <5>2 DEF Content
        <5> QED  BY <5>1, <5>3, StoredIs
      <4> QED  BY <3>2, <4>1, <4>2
    <3> QED  BY <3>1, <3>2
  <2>6. Kept'
    <3>1. Increasing(queue') /\ \A i \in Held', m \in ToSet(queue') : i < m
      BY <1>1, <1>2, <1>3 DEF Kept
    <3>2. ASSUME NEW q \in DOMAIN files'
          PROVE  /\ Chronological(files'[q])
                 /\ \A i \in ToSet(files'[q]), m \in Held' \cup ToSet(queue') : i < m
      <4>1. CASE q = p
        <5>1. ASSUME NEW i \in ToSet(Content(p)), NEW m \in ToSet(queue) PROVE i < m
          <6>1. p \in DOMAIN files /\ Content(p) = files[p]
            BY <5>1 DEF Content, ToSet
          <6> QED  BY <1>2, <5>1, <6>1 DEF Kept
        <5>2. \A m \in ToSet(queue) : l < m
          BY <1>2, <1>3 DEF Kept
        <5> QED  BY <1>1, <1>3, <2>2, <2>3, <4>1, <5>1, <5>2
      <4>2. CASE q # p
        <5>1. q \in DOMAIN files /\ files'[q] = files[q]
          BY <2>3, <4>2
        <5> QED  BY <1>1, <1>2, <1>3, <5>1 DEF Kept
      <4> QED  BY <4>1, <4>2
    <3>3. ASSUME NEW q \in DOMAIN files', NEW r \in DOMAIN files', q # r
          PROVE  ToSet(files'[q]) \cap ToSet(files'[r]) \subseteq {0}
      <4>1. \A s \in DOMAIN files : l \notin ToSet(files[s])
        BY <1>3, <1>5, StoredIs DEF Lines
      <4>2. \A s \in DOMAIN files \ {p} : ToSet(Content(p)) \cap ToSet(files[s]) \subseteq {0}
        <5>1. CASE p \in DOMAIN files
          BY <1>2, <5>1 DEF Kept, Content
        <5>2. CASE p \notin DOMAIN files
          BY <5>2 DEF Content, ToSet
        <5> QED  BY <5>1, <5>2
      <4>3. CASE q = p
        BY <2>2, <2>3, <3>3, <4>1, <4>2, <4>3
      <4>4. CASE r = p
        BY <2>2, <2>3, <3>3, <4>1, <4>2, <4>4
      <4>5. CASE q # p /\ r # p
        BY <1>2, <2>3, <3>3, <4>5 DEF Kept
      <4> QED  BY <4>3, <4>4, <4>5
    <3>4. Single' = DOMAIN files'
      BY <1>1 DEF Single
    <3>5. Stored(files') \cup Held' \cup ToSet(queue') = (1..line') \ gone'
      BY <1>1, <1>3, <1>4, <1>7, <2>5
    <3> QED  BY <3>1, <3>2, <3>3, <3>4, <3>5 DEF Kept
  <2>7. ~synced => \A q \in Dated' : q \in Dated /\ files'[q] = files[q]
    <3>1. ~synced => p = Nosync
      BY <1>1 DEF LogInv, RotatedFirst
    <3> QED  BY <2>3, <3>1 DEF Dated
  <2> QED  BY <1>1, <1>2, <1>7, <2>6, <2>7 DEF KeptInv
<1> QED  BY <1>1, <1>6, <1>7

\* What the merge keeps of the two files: their beginning, lines of an earlier boot first.
LEMMA MergedIs ==
  ASSUME FilesTypeOK, day \in DOMAIN files, Nosync \in DOMAIN files, day # Nosync,
         ToSet(files[day]) \subseteq {0}, Chronological(files[Nosync])
  PROVE  /\ DOMAIN Merged = DOMAIN files
         /\ \A p \in DOMAIN files \ {day} : Merged[p] = files[p]
         /\ Chronological(Merged[day])
         /\ ToSet(Merged[day]) \subseteq {0} \cup ToSet(files[Nosync])
<1> DEFINE a == files[day]
           b == files[Nosync]
           all == a \o b
           fit == IF Len(all) > MaxFileLines THEN SubSeq(all, 1, MaxFileLines) ELSE all
<1>1. a \in Contents /\ b \in Contents
  BY DEF FilesTypeOK, Contents
<1>2. Merged = [files EXCEPT ![day] = fit]
  BY DEF Merged
<1>3. DOMAIN Merged = DOMAIN files /\ Merged[day] = fit
      /\ \A p \in DOMAIN files \ {day} : Merged[p] = files[p]
  <2> HIDE DEF fit
  <2> QED  BY <1>2
<1>4. Merged[day] \in Contents
  BY MergedTyped
<1>5. /\ all \in Seq(0..MaxLines) /\ Len(all) = Len(a) + Len(b)
      /\ Len(a) \in Nat /\ Len(b) \in Nat
  BY <1>1 DEF Contents
<1>6. Len(fit) <= Len(a) + Len(b) /\ \A i \in 1..Len(fit) : fit[i] = all[i]
  <2> HIDE DEF all
  <2>1. CASE Len(all) > MaxFileLines
    <3>1. \A i \in 1..MaxFileLines : all[i] \in 0..MaxLines
      <4>1. \A i \in 1..MaxFileLines : i \in DOMAIN all
        BY <1>5, <2>1, FilesAssumption
      <4> QED  BY <1>5, <4>1, EntryTyped
    <3>2. /\ Len(SubSeq(all, 1, MaxFileLines)) = MaxFileLines
          /\ \A i \in 1..MaxFileLines : SubSeq(all, 1, MaxFileLines)[i] = all[i]
      BY <3>1, SubSeqProperties, FilesAssumption
    <3>3. fit = SubSeq(all, 1, MaxFileLines)
      BY <2>1
    <3> HIDE DEF fit
    <3> QED  BY <1>5, <2>1, <3>2, <3>3, FilesAssumption
  <2>2. CASE ~(Len(all) > MaxFileLines)
    BY <1>5, <2>2
  <2> QED  BY <2>1, <2>2
<1> HIDE DEF fit
<1> QED  BY <1>1, <1>3, <1>4, <1>6, BehindZeros

\* The move of nosync.log: until then the files of days have no line of this boot.
LEMMA SyncKept ==
  ASSUME LogInv, KeptInv, ~migrating, Sync
  PROVE  KeptInv'
<1> DEFINE b == files[Nosync]
<1>1. /\ fileFlushed /\ ~synced /\ synced'
      /\ UNCHANGED <<line, fileFlushed, queue, gone, day, writer>>
  BY DEF Sync
<1>2. Kept /\ Single = DOMAIN files /\ Held' = Held /\ gone' \subseteq 1..line
      /\ \A p \in Dated : ToSet(files[p]) \subseteq {0}
  BY <1>1 DEF KeptInv, Single, Held
<1>3. day # Nosync /\ \A p \in Dated : p \in DOMAIN files /\ p # Nosync
  BY FilesAssumption DEF LogInv, FilesTypeOK, Nosync, Dated
<1>4. ASSUME UNCHANGED <<files, migrating>> PROVE KeptInv'
  BY <1>1, <1>2, <1>4 DEF KeptInv, Kept, Single, Dated
<1>5. ASSUME Nosync \in DOMAIN files,
             \A p \in DOMAIN files' :
               /\ Chronological(files'[p])
               /\ ToSet(files'[p]) \subseteq {0} \cup ToSet(b),
             \A p, q \in Single' : p # q => ToSet(files'[p]) \cap ToSet(files'[q]) \subseteq {0},
             \E p \in DOMAIN files' : files'[p] = b
      PROVE  KeptInv'
  <2>1. \A l \in ToSet(b) \cup {0}, m \in Held \cup ToSet(queue) : l < m
    <3>1. Held \cup ToSet(queue) \subseteq Lines
      BY PendingTyped DEF Pending
    <3> QED  BY <1>2, <1>5, <3>1 DEF Kept, Lines
  <2>2. Stored(files') = Stored(files)
    <3>1. ASSUME NEW l \in Stored(files) PROVE l \in Stored(files')
      <4>1. l # 0 /\ \E p \in DOMAIN files : l \in ToSet(files[p])
        BY <3>1, StoredIs
      <4>2. l \in ToSet(b)
        BY <1>2, <4>1 DEF Dated
      <4> QED  BY <1>5, <4>1, <4>2, StoredIs
    <3>2. ASSUME NEW l \in Stored(files') PROVE l \in Stored(files)
      <4>1. l # 0 /\ \E p \in DOMAIN files' : l \in ToSet(files'[p])
        BY <3>2, StoredIs
      <4>2. l \in ToSet(b)
        BY <1>5, <4>1
      <4> QED  BY <1>5, <4>1, <4>2, StoredIs
    <3> QED  BY <3>1, <3>2
  <2>3. \A p \in DOMAIN files' :
          /\ Chronological(files'[p])
          /\ \A l \in ToSet(files'[p]), m \in Held' \cup ToSet(queue') : l < m
    BY <1>1, <1>2, <1>5, <2>1
  <2>4. Kept'
    BY <1>1, <1>2, <1>5, <2>2, <2>3 DEF Kept
  <2> QED  BY <1>1, <1>2, <2>4 DEF KeptInv
<1>6. CASE Nosync \in DOMAIN files /\ day \notin DOMAIN files /\ files' = Moved /\ UNCHANGED migrating
  <2> DEFINE rest == Remaining(files, Dated)
  <2>1. DOMAIN rest = Dated /\ \A p \in Dated : rest[p] = files[p]
    BY RemainingIs
  <2>2. files' = WithFile(rest, day, b)
    BY <1>6 DEF Moved
  <2> HIDE DEF rest
  <2> HIDE DEF b
  <2>3. \A p \in Dated : p # day
    BY <1>3, <1>6
  <2>4. /\ DOMAIN files' = DOMAIN rest \cup {day} /\ files'[day] = b
        /\ \A p \in DOMAIN rest \ {day} : files'[p] = rest[p]
    BY <2>2 DEF WithFile
  <2>5. /\ DOMAIN files' = Dated \cup {day} /\ files'[day] = b
        /\ \A p \in Dated : p # day /\ files'[p] = files[p]
    BY <2>1, <2>3, <2>4
  <2> USE DEF b
  <2> QED  BY <1>2, <1>3, <1>5, <1>6, <2>5 DEF Kept, Single
<1>7. CASE {Nosync, day} \subseteq DOMAIN files /\ files' = Merged /\ migrating' = TRUE
  <2>1. day \in Dated /\ Chronological(b)
    BY <1>2, <1>3, <1>7 DEF Dated, Kept
  <2>2. /\ DOMAIN files' = DOMAIN files
        /\ \A p \in DOMAIN files \ {day} : files'[p] = files[p]
        /\ Chronological(files'[day])
        /\ ToSet(files'[day]) \subseteq {0} \cup ToSet(b)
    BY <1>2, <1>3, <1>7, <2>1, MergedIs DEF LogInv
  <2>3. \A p \in DOMAIN files' :
          /\ Chronological(files'[p])
          /\ ToSet(files'[p]) \subseteq {0} \cup ToSet(b)
    <3>1. ASSUME NEW p \in DOMAIN files PROVE Chronological(files[p]) /\ ToSet(files[p]) \subseteq {0} \cup ToSet(b)
      BY <1>2, <3>1 DEF Kept, Dated
    <3> QED  BY <2>2, <3>1
  <2>4. Single' = Dated /\ Nosync \in DOMAIN files' /\ files'[Nosync] = b
    BY <1>3, <1>7, <2>2 DEF Single, Dated
  <2>5. ASSUME NEW p \in Dated, NEW q \in Dated, p # q
        PROVE  ToSet(files'[p]) \cap ToSet(files'[q]) \subseteq {0}
    BY <1>2, <2>2, <2>5 DEF Dated
  <2> QED  BY <1>5, <1>7, <2>3, <2>4, <2>5
<1> QED  BY <1>4, <1>6, <1>7 DEF Sync

\* A boot without a line: what the files have is of earlier boots.
LEMMA EmptyKept ==
  /\ LogInit => KeptInv
  /\ PowerCut => KeptInv'
<1>1. 1..0 = {} /\ Increasing(<<>>) /\ ToSet(<<>>) = {}
  BY DEF Increasing, ToSet
<1>2. ASSUME LogInit PROVE KeptInv
  <2>1. DOMAIN files = {} /\ writer.at = "wait" /\ ~migrating
    BY <1>2 DEF LogInit, Resting
  <2>2. /\ line = 0 /\ queue = <<>> /\ gone = {} /\ missed = {} /\ buffer = <<>>
        /\ flushing = 0 /\ leaving = "no" /\ ~callbackFlushed /\ ~fileFlushed
    BY <1>2 DEF LogInit, CaptureInit
  <2>3. Unflushed
    BY <1>1, <2>1, <2>2 DEF Unflushed
  <2> QED  BY <2>1, <2>2, <2>3 DEF KeptInv, Dated
<1>3. ASSUME PowerCut PROVE KeptInv'
  <2>1. writer'.at = "wait" /\ ~migrating'
    BY <1>3 DEF PowerCut, Resting
  <2>2. \A p \in DOMAIN files' : ToSet(files'[p]) \subseteq {0}
    BY <1>3 DEF PowerCut, ToSet
  <2>3. /\ line' = 0 /\ queue' = <<>> /\ gone' = {} /\ missed' = {} /\ buffer' = <<>>
        /\ flushing' = 0 /\ leaving' = "no" /\ ~callbackFlushed' /\ ~fileFlushed'
    BY <1>3 DEF PowerCut, CaptureReset
  <2>4. Unflushed'
    BY <1>1, <2>1, <2>2, <2>3 DEF Unflushed
  <2> QED  BY <2>1, <2>2, <2>3, <2>4 DEF KeptInv, Dated
<1> QED  BY <1>2, <1>3

\* A line printed comes behind those that wait, or is given up.
LEMMA CaptureKept ==
  ASSUME LogInv, KeptInv, ~migrating, Capture, UNCHANGED <<fileVars, writer>>
  PROVE  KeptInv'
<1> DEFINE l == line + 1
<1>1. /\ l \in Lines /\ line' = l /\ line \in Nat /\ (1..line') = (1..line) \cup {l}
      /\ UNCHANGED <<fileFlushed, callbackFlushed, flushVars, synced, files, writer, migrating>>
  <2>1. l \in Lines /\ line \in Nat
    BY CaptureAssumption DEF Capture, LogInv, CaptureTypeOK, Lines
  <2> QED  BY <2>1 DEF Capture, fileVars
<1>2. l \notin 1..line /\ gone \subseteq 1..line
  BY <1>1 DEF KeptInv
<1>3. ~synced' => ~migrating' /\ \A p \in Dated' : ToSet(files'[p]) \subseteq {0}
  BY <1>1 DEF KeptInv, Dated
<1>4. Held' = Held /\ Single' = Single
  BY <1>1 DEF Held, Single, Dated
<1>5. CASE fileFlushed
  <2>1. WriteFile(l)
    BY <1>5 DEF Capture
  <2>2. Kept
    BY <1>5 DEF KeptInv
  <2>3. \A m \in Stored(files) \cup Held \cup ToSet(queue) : m < l
    BY <1>1, <2>2 DEF Kept
  <2>4. CASE Accepted
    <3>1. queue' = Append(queue, l) /\ gone' = gone /\ queue \in Seq(Lines)
      BY <2>1, <2>4 DEF WriteFile, LogInv, CaptureTypeOK
    <3>2. Increasing(queue') /\ ToSet(queue') = ToSet(queue) \cup {l}
      BY <1>1, <2>2, <2>3, <3>1, LastComesLast DEF Kept
    <3>3. \A p \in DOMAIN files : \A m \in ToSet(files[p]) : m < l
      <4>1. ASSUME NEW p \in DOMAIN files, NEW m \in ToSet(files[p]) PROVE m < l
        BY <1>1, <2>3, <4>1, StoredIs
      <4> QED  BY <4>1
    <3>4. Stored(files') \cup Held' \cup ToSet(queue') = (1..line') \ gone'
      BY <1>1, <1>2, <1>4, <2>2, <3>1, <3>2 DEF Kept
    <3>5. Increasing(queue') /\ \A i \in Held', m \in ToSet(queue') : i < m
      BY <1>4, <2>2, <2>3, <3>2 DEF Kept
    <3>6. \A p \in DOMAIN files' :
            /\ Chronological(files'[p])
            /\ \A i \in ToSet(files'[p]), m \in Held' \cup ToSet(queue') : i < m
      BY <1>1, <1>4, <2>2, <3>2, <3>3 DEF Kept
    <3>7. Kept'
      BY <1>1, <1>4, <2>2, <3>4, <3>5, <3>6 DEF Kept
    <3> QED  BY <1>1, <1>2, <1>3, <1>5, <3>1, <3>7 DEF KeptInv
  <2>5. CASE ~Accepted
    <3>1. queue' = queue /\ gone' = gone \cup {l}
      BY <2>1, <2>5 DEF WriteFile
    <3>2. Stored(files') \cup Held' \cup ToSet(queue') = (1..line') \ gone'
      BY <1>1, <1>2, <1>4, <2>2, <3>1 DEF Kept
    <3>3. Kept'
      BY <1>1, <1>4, <2>2, <3>1, <3>2 DEF Kept
    <3> QED  BY <1>1, <1>2, <1>3, <1>5, <3>1, <3>3 DEF KeptInv
  <2> QED  BY <2>4, <2>5
<1>6. CASE ~fileFlushed
  <2>1. Unflushed /\ ~migrating'
    BY <1>1, <1>6 DEF KeptInv
  <2>2. Buffer(l) /\ UNCHANGED <<queue, gone>>
    BY <1>6, <2>1 DEF Capture, Unflushed
  <2>3. Increasing(buffer') /\ ToSet(buffer') = (1..line') \ missed' /\ missed' \subseteq 1..line'
    <3>1. CASE Len(buffer) < PreinitMax
      <4>1. buffer' = Append(buffer, l) /\ missed' = missed /\ buffer \in Seq(Lines)
        BY <2>2, <3>1 DEF Buffer, LogInv, CaptureTypeOK
      <4>2. \A m \in ToSet(buffer) : m < l
        BY <1>1, <2>1 DEF Unflushed
      <4>3. Increasing(buffer') /\ ToSet(buffer') = ToSet(buffer) \cup {l}
        BY <1>1, <2>1, <4>1, <4>2, LastComesLast DEF Unflushed
      <4> QED  BY <1>1, <1>2, <2>1, <4>1, <4>3 DEF Unflushed
    <3>2. CASE ~(Len(buffer) < PreinitMax)
      <4>1. buffer' = buffer /\ missed' = missed \cup {l}
        BY <2>2, <3>2 DEF Buffer
      <4> QED  BY <1>1, <1>2, <2>1, <4>1 DEF Unflushed
    <3> QED  BY <3>1, <3>2
  <2>4. Unflushed'
    BY <1>1, <2>1, <2>2, <2>3 DEF Unflushed
  <2> QED  BY <1>1, <1>2, <1>3, <1>6, <2>1, <2>2, <2>4 DEF KeptInv
<1> QED  BY <1>5, <1>6

\* The boot buffer becomes the queue, or is given up.
LEMMA FlushFileKept ==
  ASSUME LogInv, KeptInv, ~migrating, NEW on \in BOOLEAN, FlushFile(on),
         UNCHANGED <<fileVars, writer>>
  PROVE  KeptInv'
<1>1. /\ ~fileFlushed /\ fileFlushed' /\ Unflushed
      /\ queue' = (IF on THEN buffer ELSE <<>>) /\ gone' = (IF on THEN missed ELSE 1..line)
      /\ UNCHANGED <<line, synced, files, writer, migrating>>
  BY DEF FlushFile, KeptInv, fileVars
<1>2. Held' = {} /\ Stored(files) = {}
  <2>1. Stored(files) = {}
    BY <1>1, StoredIs DEF Unflushed
  <2> QED  BY <1>1, <2>1 DEF Held, Unflushed
<1>3. Increasing(queue') /\ ToSet(queue') = (1..line) \ gone' /\ gone' \subseteq 1..line
  <2>1. Increasing(<<>>) /\ ToSet(<<>>) = {}
    BY DEF Increasing, ToSet
  <2> QED  BY <1>1, <2>1 DEF Unflushed
<1>4. \A p \in DOMAIN files : Chronological(files[p]) /\ ToSet(files[p]) \subseteq {0}
  BY <1>1, PendingTyped, ZerosInOrder DEF Unflushed
<1>5. \A m \in ToSet(queue') : 0 < m
  BY <1>3
<1>6. Kept'
  BY <1>1, <1>2, <1>3, <1>4, <1>5 DEF Kept, Single, Dated
<1> QED  BY <1>1, <1>3, <1>6 DEF KeptInv, Dated

LEMMA KeptStep ==
  ASSUME LogInv, KeptInv, [LogNext]_logVars
  PROVE  KeptInv'
<1>1. CASE CaptureNext /\ UNCHANGED <<fileVars, writer>> /\ ~migrating
  <2>1. ASSUME NEW on \in BOOLEAN, SetFileEnabled(on) PROVE KeptInv'
    BY <1>1, <2>1, SameKept DEF SetFileEnabled, fileVars
  <2>2. CASE FlushCallback
    BY <1>1, <2>2, SameKept DEF FlushCallback, fileVars
  <2>3. ASSUME FlushStep \/ FlushLeave \/ FlushEmpty \/ FlushDone PROVE fileFlushed
    <3>1. CASE ~fileFlushed
      <4>1. flushing = 0 /\ leaving = "no" /\ Len(buffer) \in Nat
        BY <3>1 DEF KeptInv, Unflushed, LogInv, CaptureTypeOK
      <4> QED  BY <2>3, <4>1 DEF FlushStep, InLoop, FlushLeave, FlushEmpty, FlushDone
    <3> QED  BY <3>1
  <2>4. CASE FlushStep \/ FlushLeave \/ FlushEmpty \/ FlushDone
    BY <1>1, <2>3, <2>4, SameKept
       DEF FlushStep, GiveOut, FlushLeave, FlushEmpty, FlushDone, fileVars
  <2> QED  BY <1>1, <2>1, <2>2, <2>4, CaptureKept, FlushFileKept DEF CaptureNext
<1>2. CASE Midnight
  BY <1>2, SameKept DEF Midnight, captureVars
<1>3. CASE UNCHANGED logVars
  BY <1>3, SameKept DEF logVars, captureVars
<1> QED  BY <1>1, <1>2, <1>3, EmptyKept, MigratedKept, ReceiveKept, RotateKept, AppendKept,
            SyncKept, ClearKept DEF LogNext

\* A line of the boot is in one place only, a file, the writer's hands or the queue, and
\* everywhere in the order of printing, for every number of files, lines and days: through
\* rotations, the move of nosync.log, clears and power cuts, with a line in the
\* writer's hands while days pass and the time is set.
THEOREM LinesKept == LogSafety => []LinesAreKeptOnce
<1>1. LogInv /\ KeptInv /\ [LogNext]_logVars => KeptInv'
  BY KeptStep
<1>2. KeptInv => LinesAreKeptOnce
  BY DEF KeptInv, Kept, Single, LinesAreKeptOnce
<1> QED  BY LogInvariant, EmptyKept, <1>1, <1>2, PTL DEF LogSafety
=============================================================================
