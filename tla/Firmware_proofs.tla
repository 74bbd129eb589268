---------------------------- MODULE Firmware_proofs ---------------------------
(***************************************************************************)
(* The two ways new firmware gets into the device.                         *)
(*                                                                         *)
(* The upload through the app: only whole files are activated, for every   *)
(* size of the file, of the milestones and any number of uploads, messages *)
(* lost, writes failed and power cuts, until a late answer or the end of a *)
(* stopped upload crosses a newer one.                                     *)
(* The device does not look at the numbers of the chunks and the library   *)
(* takes a short image; what the proof rests on is the order of the two    *)
(* queues and what the page waits for: the end is sent only when 100       *)
(* percent were reported, and nothing but the chunks of this upload can be *)
(* on its way to the device then.  AheadInv adds how the percents go on:   *)
(* each progress is a milestone beyond the one before, so the bridge,      *)
(* which waits for one progress more after every batch, is never far ahead *)
(* of what it heard.                                                       *)
(*                                                                         *)
(* The boot guard, at the end: the emergency update is entered on purpose  *)
(* only, for all window sizes.                                             *)
(***************************************************************************)
EXTENDS FirmwareUpload, OtaBootGuard, TLAPS

Kinds == {"start", "chunk", "end", "ready", "refused", "progress", "result"}
Messages == [kind : Kinds, upload : Nat, n : Nat]

UploadTypeOK ==
  /\ page \in {"idle", "starting", "watching", "pausing", "ending"}
  /\ thread \in {"none", "send", "milestone", "final"}
  /\ upload \in Nat /\ strays \subseteq Nat /\ offset \in Nat /\ written \in Nat
  /\ toDevice \in Seq(Messages) /\ toPage \in Seq(Messages)
  /\ update \in {"open", "closed", "failed"}

Whole == source # 0 /\ written = Total

\* An end finds a whole image or is refused.
EndIsSafe == Whole \/ ~running \/ update # "open"

\* No upload is known before its start, and the latest is stopped when a flow of it
\* goes on.
Numbered ==
  /\ \A i \in 1..Len(toDevice) : toDevice[i].upload <= upload
  /\ \A i \in 1..Len(toPage) : toPage[i].upload <= upload
  /\ page # "idle" => upload > 0
  /\ \A u \in strays : u < upload \/ (u = upload /\ page = "idle")

\* Whoever may still send a chunk is watched.
SendsWatched ==
  thread \in {"send", "milestone"} /\ uploading /\ offset < Total => page = "watching"

\* The page waits for the answer to its start: nothing is behind the start, and
\* nothing behind the answer.
Starting ==
  page = "starting" =>
    /\ \A i \in 1..Len(toDevice) :
         toDevice[i].kind = "start" /\ toDevice[i].upload = upload => i = Len(toDevice)
    /\ \A i \in 1..Len(toPage) :
         toPage[i].kind = "ready" /\ toPage[i].upload = upload =>
           i = Len(toPage) /\ toDevice = <<>> /\ source = upload /\ written = 0

\* The page watches: only chunks of this upload are on their way, each beyond what
\* is written, with a gap if one was lost.
Watching ==
  page = "watching" =>
    /\ offset <= Total /\ written <= offset
    /\ source \in {0, upload} /\ (source = 0 => written < offset)
    /\ \A i \in 1..Len(toDevice) :
         /\ toDevice[i].kind = "chunk" /\ toDevice[i].upload = upload
         /\ toDevice[i].n <= offset
         /\ written < toDevice[i].n /\ (source = 0 => written + 1 < toDevice[i].n)
    /\ \A i, j \in 1..Len(toDevice) : i < j => toDevice[i].n < toDevice[j].n
    /\ \A i \in 1..Len(toPage) :
         toPage[i].kind = "progress" /\ toPage[i].n >= Full => EndIsSafe /\ offset >= Total

\* Before the end of this upload is sent, no start is on its way and all was written.
Pausing ==
  page = "pausing" \/ upload \in strays =>
    /\ EndIsSafe /\ offset >= Total
    /\ \A i \in 1..Len(toDevice) : toDevice[i].kind # "start"

\* Behind a start there are starts only, and an end on its way is safe.
Ordered ==
  /\ \A i, j \in 1..Len(toDevice) :
       i < j /\ toDevice[i].kind = "start" => toDevice[j].kind = "start"
  /\ \A i \in 1..Len(toDevice) : toDevice[i].kind = "end" => EndIsSafe

InOrder ==
  Numbered /\ SendsWatched /\ Starting /\ Watching /\ Pausing /\ Ordered /\ image # "broken"

UploadInv == UploadTypeOK /\ (~late => InOrder)

-----------------------------------------------------------------------------
(* Queues and percents *)

LEMMA OneLess ==
  ASSUME NEW i \in Nat, NEW k, NEW l \in Nat, k = l - 1
  PROVE  i + 1 = l => i = k
OBVIOUS

LEMMA Popped ==
  ASSUME NEW S, NEW s \in Seq(S), s # <<>>
  PROVE  /\ Head(s) = s[1] /\ Head(s) \in S /\ 1 \in 1..Len(s)
         /\ Tail(s) \in Seq(S) /\ Len(Tail(s)) = Len(s) - 1 /\ Len(s) \in Nat
         /\ \A i \in 1..Len(Tail(s)) : i + 1 \in 1..Len(s) /\ Tail(s)[i] = s[i + 1]
OBVIOUS

LEMMA Pushed ==
  ASSUME NEW S, NEW s \in Seq(S), NEW m \in S
  PROVE  /\ Append(s, m) \in Seq(S) /\ Len(Append(s, m)) = Len(s) + 1 /\ Len(s) \in Nat
         /\ \A i \in 1..Len(s) : Append(s, m)[i] = s[i]
         /\ Append(s, m)[Len(s) + 1] = m
OBVIOUS

\* 100 percent are the whole file.
LEMMA FullIsTotal ==
  ASSUME NEW n \in Nat, Pct(n) >= Full
  PROVE  n >= Total
<1> SUFFICES ASSUME n < Total PROVE FALSE
  BY UploadAssumption
<1>1. n * Full < Full * Total
  <2>1. Total - n \in Nat /\ Total - n >= 1
    BY UploadAssumption
  <2>2. (Total - n) * Full >= Full
    BY <2>1, UploadAssumption
  <2>3. (Total - n) * Full = Total * Full - n * Full
    BY UploadAssumption
  <2> QED  BY <2>2, <2>3, UploadAssumption
<1>2. n * Full \in Nat /\ Total \in Nat \ {0} /\ Full \in Nat
  BY UploadAssumption
<1>3. (n * Full) \div Total < Full
  BY <1>1, <1>2
<1> QED  BY <1>2, <1>3 DEF Pct

LEMMA PctTyped ==
  ASSUME NEW n \in Nat
  PROVE  Pct(n) \in Nat
<1>1. n * Full \in Nat /\ Total \in Nat \ {0}
  BY UploadAssumption
<1> QED  BY <1>1 DEF Pct

LEMMA MessageTyped ==
  ASSUME NEW s \in Seq(Messages), NEW i \in 1..Len(s)
  PROVE  s[i] \in Messages /\ s[i].upload \in Nat /\ s[i].n \in Nat /\ s[i].kind \in Kinds
<1>1. s[i] \in Messages
  OBVIOUS
<1> QED  BY <1>1 DEF Messages

-----------------------------------------------------------------------------

LEMMA UploadInitInv == UploadInit => UploadInv
BY UploadAssumption
   DEF UploadInit, UploadInv, UploadTypeOK, InOrder, Numbered, SendsWatched, Starting, Watching,
       Pausing, Ordered

\* The bridge waits or gives up, and the page leaves its upload: no message moves.
LEMMA LeavingKeeps ==
  ASSUME UploadInv, page' \in {page, "idle"}, late' = late,
         thread' \in {"none", "send", "milestone", "final"},
         \/ strays' = strays
         \/ page = "pausing" /\ page' = "idle" /\ strays' = strays \cup {upload},
         UNCHANGED <<upload, offset, toDevice, toPage, deviceVars>>,
         InOrder => SendsWatched'
  PROVE  UploadInv'
<1> USE DEF deviceVars
<1>1. UploadTypeOK'
  BY DEF UploadInv, UploadTypeOK
<1>2. ASSUME InOrder PROVE InOrder'
  <2>1. Numbered'
    BY <1>2 DEF InOrder, Numbered, UploadInv, UploadTypeOK
  <2>2. Starting'
    BY <1>2 DEF InOrder, Starting
  <2>3. Watching'
    BY <1>2 DEF InOrder, Watching, EndIsSafe, Whole
  <2>5. Pausing'
    BY <1>2 DEF InOrder, Pausing, EndIsSafe, Whole
  <2>4. Ordered' /\ image' # "broken"
    BY <1>2 DEF InOrder, Ordered, EndIsSafe, Whole
  <2> QED  BY <1>2, <2>1, <2>2, <2>3, <2>4, <2>5 DEF InOrder
<1> QED  BY <1>1, <1>2 DEF UploadInv

\* The page's timeouts and cancels, and the waits of the bridge's threads.
LEMMA WaitsKeep ==
  ASSUME UploadInv,
         PageTimeout \/ Cancel \/ Await \/ Acked \/ Stopped \/ MilestoneTimeout \/
         FinalTimeout \/ OrphanTimeout
  PROVE  UploadInv'
<1>1. CASE PageTimeout
  BY <1>1, LeavingKeeps DEF PageTimeout, UploadInv, UploadTypeOK, InOrder, SendsWatched, bridgeVars
<1>2. CASE Cancel
  BY <1>2, LeavingKeeps DEF Cancel, UploadInv, UploadTypeOK, SendsWatched
<1>3. CASE Await \/ Acked \/ Stopped \/ FinalTimeout
  BY <1>3, LeavingKeeps
     DEF Await, Acked, Stopped, FinalTimeout, ThreadEnds, UploadInv, UploadTypeOK, InOrder,
         SendsWatched, pageVars
<1>4. CASE MilestoneTimeout \/ OrphanTimeout
  BY <1>4, LeavingKeeps
     DEF MilestoneTimeout, OrphanTimeout, ThreadEnds, Tells, UploadInv, UploadTypeOK, SendsWatched
<1> QED  BY <1>1, <1>2, <1>3, <1>4

\* A start is the last message to the device, and nobody sends meanwhile.
LEMMA PageStartKeeps ==
  ASSUME UploadInv, PageStart
  PROVE  UploadInv'
<1> DEFINE m == [kind |-> "start", upload |-> upload + 1, n |-> 0]
<1>1. /\ page = "idle" /\ page' = "starting" /\ upload' = upload + 1 /\ upload \in Nat
      /\ toDevice' = Append(toDevice, m) /\ late' = late
      /\ UNCHANGED <<strays, bridgeVars, toPage, deviceVars>>
  BY DEF PageStart, UploadInv, UploadTypeOK
<1>2. m \in Messages
  BY <1>1 DEF Messages, Kinds
<1>3. /\ toDevice \in Seq(Messages) /\ toDevice' \in Seq(Messages)
      /\ Len(toDevice) \in Nat /\ Len(toDevice') = Len(toDevice) + 1
      /\ \A i \in 1..Len(toDevice) : toDevice'[i] = toDevice[i]
      /\ toDevice'[Len(toDevice) + 1] = m
  BY <1>1, <1>2, Pushed DEF UploadInv, UploadTypeOK
<1>4. \A i \in 1..Len(toDevice') : i \in 1..Len(toDevice) \/ i = Len(toDevice) + 1
  BY <1>3
<1>5. UploadTypeOK'
  BY <1>1, <1>3 DEF UploadInv, UploadTypeOK, bridgeVars, deviceVars
<1>6. ASSUME InOrder PROVE InOrder'
  <2>0. toPage' = toPage /\ \A i \in 1..Len(toPage) : toPage[i].upload \in Nat
    BY <1>1, MessageTyped DEF UploadInv, UploadTypeOK
  <2>1. \A i \in 1..Len(toDevice) : toDevice[i].upload \in Nat /\ toDevice[i].upload <= upload
    BY <1>3, <1>6, MessageTyped DEF InOrder, Numbered
  <2>2. \A i \in 1..Len(toPage) : toPage[i].upload <= upload
    BY <1>6 DEF InOrder, Numbered
  <2>3. Numbered'
    <3>1. \A i \in 1..Len(toDevice') : toDevice'[i].upload <= upload'
      BY <1>1, <1>3, <1>4, <2>1
    <3>2. \A i \in 1..Len(toPage') : toPage'[i].upload <= upload'
      BY <1>1, <2>0, <2>2
    <3>3. upload' > 0
      BY <1>1
    <3>4. \A u \in strays' : u < upload'
      BY <1>1, <1>6 DEF InOrder, Numbered, UploadInv, UploadTypeOK
    <3> QED  BY <3>1, <3>2, <3>3, <3>4 DEF Numbered
  <2>4. SendsWatched'
    BY <1>1, <1>6 DEF InOrder, SendsWatched, bridgeVars
  <2>5. Starting'
    <3>1. \A i \in 1..Len(toDevice') : toDevice'[i].upload = upload' => i = Len(toDevice')
      BY <1>1, <1>3, <1>4, <2>1
    <3>2. \A i \in 1..Len(toPage') : toPage'[i].upload # upload'
      BY <1>1, <2>0, <2>2
    <3> QED  BY <3>1, <3>2 DEF Starting
  <2>6. Watching'
    BY <1>1 DEF Watching
  <2>8. Pausing'
    <3>1. upload' \notin strays'
      BY <1>1, <1>6 DEF InOrder, Numbered, UploadInv, UploadTypeOK
    <3> QED  BY <1>1, <3>1 DEF Pausing
  <2>7. Ordered'
    <3>1. EndIsSafe' = EndIsSafe
      BY <1>1 DEF EndIsSafe, Whole, deviceVars
    <3>2. \A i \in 1..Len(toDevice') : toDevice'[i].kind = "end" => EndIsSafe'
      BY <1>3, <1>4, <1>6, <3>1 DEF InOrder, Ordered
    <3>3. ASSUME NEW i \in 1..Len(toDevice'), NEW j \in 1..Len(toDevice'), i < j,
                 toDevice'[i].kind = "start"
          PROVE  toDevice'[j].kind = "start"
      <4>1. CASE j = Len(toDevice) + 1
        BY <1>3, <4>1
      <4>2. CASE j # Len(toDevice) + 1
        <5>1. i \in 1..Len(toDevice) /\ j \in 1..Len(toDevice)
          BY <1>3, <3>3, <4>2
        <5> QED  BY <1>3, <1>6, <3>3, <5>1 DEF InOrder, Ordered
      <4> QED  BY <4>1, <4>2
    <3> QED  BY <3>2, <3>3 DEF Ordered
  <2> QED  BY <1>1, <1>6, <2>3, <2>4, <2>5, <2>6, <2>7, <2>8 DEF InOrder, deviceVars
<1> QED  BY <1>1, <1>5, <1>6 DEF UploadInv

\* The end of the latest upload is sent, by the page or by a flow stopped in its pause.
LEMMA EndSentKeeps ==
  ASSUME UploadInv, page = "pausing" \/ upload \in strays,
         NEW e \in Messages, e.kind = "end", e.upload = upload,
         toDevice' = Append(toDevice, e), page' \in {page, "ending"},
         page = "pausing" => page' = "ending", page' = "ending" => page = "pausing",
         strays' \subseteq strays, upload \notin strays', ~late,
         UNCHANGED <<upload, bridgeVars, toPage, deviceVars>>
  PROVE  UploadInv'
<1> USE DEF bridgeVars, deviceVars
<1>1. /\ toDevice' \in Seq(Messages) /\ Len(toDevice) \in Nat
      /\ Len(toDevice') = Len(toDevice) + 1 /\ toDevice'[Len(toDevice) + 1] = e
      /\ \A i \in 1..Len(toDevice) : toDevice'[i] = toDevice[i]
  BY Pushed DEF UploadInv, UploadTypeOK
<1>2. \A i \in 1..Len(toDevice') : i \in 1..Len(toDevice) \/ i = Len(toDevice) + 1
  BY <1>1
<1>3. UploadTypeOK'
  BY <1>1 DEF UploadInv, UploadTypeOK
<1>4. ASSUME InOrder PROVE InOrder'
  <2>1. EndIsSafe /\ offset >= Total
    BY <1>4 DEF InOrder, Pausing
  <2>2. EndIsSafe'
    BY <2>1 DEF EndIsSafe, Whole
  <2>3. \A i \in 1..Len(toDevice') : toDevice'[i].kind # "start"
    BY <1>1, <1>2, <1>4 DEF InOrder, Pausing
  <2>4. page' \notin {"starting", "watching", "pausing"}
    BY <1>4 DEF InOrder, Numbered, UploadInv, UploadTypeOK
  <2>5. Numbered'
    <3>1. \A i \in 1..Len(toDevice') : toDevice'[i].upload <= upload'
      BY <1>1, <1>2, <1>4 DEF InOrder, Numbered, UploadInv, UploadTypeOK
    <3>2. \A u \in strays' : u < upload'
      BY <1>4 DEF InOrder, Numbered, UploadInv, UploadTypeOK
    <3> QED  BY <1>4, <3>1, <3>2 DEF InOrder, Numbered
  <2>6. SendsWatched'
    BY <2>1, UploadAssumption DEF SendsWatched, UploadInv, UploadTypeOK
  <2> QED  BY <1>4, <2>2, <2>3, <2>4, <2>5, <2>6
           DEF InOrder, Starting, Watching, Pausing, Ordered
<1> QED  BY <1>3, <1>4 DEF UploadInv

LEMMA EndsKeep ==
  ASSUME UploadInv, PageEnd \/ StrayEnd
  PROVE  UploadInv'
<1>0. upload \in Nat /\ strays \subseteq Nat /\ "end" \in Kinds
  BY DEF Kinds, UploadInv, UploadTypeOK
<1>1. ASSUME PageEnd, ~late PROVE UploadInv'
  <2>1. /\ Message("end", 0) \in Messages /\ Message("end", 0).kind = "end"
        /\ Message("end", 0).upload = upload
    BY <1>0 DEF Message, Messages
  <2>2. upload \notin strays /\ page = "pausing"
    BY <1>0, <1>1 DEF PageEnd, UploadInv, InOrder, Numbered
  <2> QED  BY <1>1, <2>1, <2>2, EndSentKeeps DEF PageEnd
<1>2. ASSUME StrayEnd, ~late' PROVE UploadInv'
  <2>1. PICK u \in strays :
          /\ strays' = strays \ {u}
          /\ toDevice' = Append(toDevice, [kind |-> "end", upload |-> u, n |-> 0])
          /\ late' = (late \/ u # upload)
          /\ UNCHANGED <<page, upload, bridgeVars, toPage, deviceVars>>
    BY <1>2 DEF StrayEnd
  <2>2. u = upload /\ ~late
    BY <1>2, <2>1, Zenon
  <2>3. page = "idle"
    BY <1>0, <2>1, <2>2 DEF UploadInv, InOrder, Numbered
  <2> DEFINE e == [kind |-> "end", upload |-> u, n |-> 0]
  <2>4. e \in Messages /\ e.kind = "end" /\ e.upload = upload
    BY <1>0, <2>2 DEF Messages
  <2>5. toDevice' = Append(toDevice, e)
    BY <2>1
  <2> HIDE DEF e
  <2> QED  BY <2>1, <2>2, <2>3, <2>4, <2>5, EndSentKeeps
\* After a late message the invariant is about types only.
<1>3. ASSUME late' PROVE UploadInv'
  <2>1. PICK u \in Nat :
          /\ toDevice' = Append(toDevice, [kind |-> "end", upload |-> u, n |-> 0])
          /\ strays' \subseteq Nat /\ page' \in {page, "ending"}
          /\ UNCHANGED <<upload, bridgeVars, toPage, deviceVars>>
    BY <1>0 DEF PageEnd, StrayEnd, Message
  <2>2. [kind |-> "end", upload |-> u, n |-> 0] \in Messages
    BY <1>0 DEF Messages
  <2>3. toDevice' \in Seq(Messages)
    BY <2>1, <2>2, Pushed DEF UploadInv, UploadTypeOK
  <2> QED  BY <1>3, <2>1, <2>3 DEF UploadInv, UploadTypeOK, bridgeVars, deviceVars
<1>4. late => late'
  BY DEF PageEnd, StrayEnd
<1> QED  BY <1>1, <1>2, <1>3, <1>4

\* A message to the device is gone, and the device is as it was.
LEMMA DeviceTailKeeps ==
  ASSUME UploadTypeOK, InOrder, toDevice # <<>>, toDevice' = Tail(toDevice),
         UNCHANGED <<pageVars, bridgeVars, toPage, deviceVars>>
  PROVE  InOrder'
<1> USE DEF pageVars, bridgeVars, deviceVars
<1>1. /\ Len(toDevice) \in Nat /\ Len(toDevice') = Len(toDevice) - 1
      /\ \A i \in 1..Len(toDevice') : i + 1 \in 1..Len(toDevice) /\ toDevice'[i] = toDevice[i + 1]
  BY Popped DEF UploadTypeOK
<1>2. EndIsSafe' = EndIsSafe
  BY DEF EndIsSafe, Whole
<1>3. Numbered'
  BY <1>1 DEF InOrder, Numbered
<1>4. SendsWatched'
  BY DEF InOrder, SendsWatched
<1>5. Starting'
  <2> SUFFICES ASSUME page = "starting" PROVE Starting'
    BY DEF Starting
  <2>1. \A i \in 1..Len(toPage) : ~(toPage[i].kind = "ready" /\ toPage[i].upload = upload)
    BY DEF InOrder, Starting
  <2>2. ASSUME NEW i \in 1..Len(toDevice'), toDevice'[i].kind = "start", toDevice'[i].upload = upload
        PROVE  i = Len(toDevice')
    <3>1. i + 1 = Len(toDevice)
      BY <1>1, <2>2 DEF InOrder, Starting
    <3>2. i \in Nat
      BY <1>1, <2>2
    <3> QED  BY <1>1, <3>1, <3>2, OneLess, Zenon
  <2> QED  BY <2>1, <2>2 DEF Starting
<1>6. Watching'
  BY <1>1, <1>2 DEF InOrder, Watching
<1>7. Pausing' /\ Ordered'
  BY <1>1, <1>2 DEF InOrder, Pausing, Ordered
<1> QED  BY <1>3, <1>4, <1>5, <1>6, <1>7 DEF InOrder

\* A message to the page is gone, at most with the end of the page's upload.
LEMMA PageTailKeeps ==
  ASSUME UploadTypeOK, InOrder, toPage # <<>>, toPage' = Tail(toPage),
         page' \in {page, "idle"}, SendsWatched',
         UNCHANGED <<upload, strays, offset, toDevice, deviceVars>>
  PROVE  InOrder'
<1> USE DEF deviceVars
<1>1. /\ Len(toPage) \in Nat /\ Len(toPage') = Len(toPage) - 1
      /\ \A i \in 1..Len(toPage') : i + 1 \in 1..Len(toPage) /\ toPage'[i] = toPage[i + 1]
  BY Popped DEF UploadTypeOK
<1>2. EndIsSafe' = EndIsSafe
  BY DEF EndIsSafe, Whole
<1>3. Numbered'
  BY <1>1 DEF InOrder, Numbered
<1>4. Starting'
  <2> SUFFICES ASSUME page = "starting", page' = page PROVE Starting'
    BY DEF Starting
  <2>1. \A i \in 1..Len(toDevice) :
          toDevice[i].kind = "start" /\ toDevice[i].upload = upload => i = Len(toDevice)
    BY DEF InOrder, Starting
  <2>2. ASSUME NEW i \in 1..Len(toPage'), toPage'[i].kind = "ready", toPage'[i].upload = upload
        PROVE  i = Len(toPage') /\ toDevice = <<>> /\ source = upload /\ written = 0
    <3>1. i + 1 \in 1..Len(toPage) /\ toPage[i + 1] = toPage'[i]
      BY <1>1, <2>2
    <3>2. i + 1 = Len(toPage) /\ toDevice = <<>> /\ source = upload /\ written = 0
      BY <2>2, <3>1 DEF InOrder, Starting
    <3>3. i \in Nat
      BY <1>1, <2>2
    <3>4. i = Len(toPage')
      BY <1>1, <3>2, <3>3, OneLess, Zenon
    <3> QED  BY <3>2, <3>4
  <2> QED  BY <2>1, <2>2 DEF Starting
<1>5. Watching'
  BY <1>1, <1>2 DEF InOrder, Watching
<1>6. Pausing' /\ Ordered'
  BY <1>2 DEF InOrder, Pausing, Ordered
<1> QED  BY <1>3, <1>4, <1>5, <1>6 DEF InOrder

LEMMA LoseKeeps ==
  ASSUME UploadInv, Lose
  PROVE  UploadInv'
<1>1. UploadTypeOK'
  BY Popped DEF Lose, UploadInv, UploadTypeOK, pageVars, bridgeVars, deviceVars
<1>2. ASSUME InOrder PROVE InOrder'
  <2>1. CASE toDevice # <<>> /\ toDevice' = Tail(toDevice) /\ UNCHANGED toPage
    BY <1>2, <2>1, DeviceTailKeeps DEF Lose, UploadInv
  <2>2. CASE toPage # <<>> /\ toPage' = Tail(toPage) /\ UNCHANGED toDevice
    <3>1. SendsWatched'
      BY <1>2 DEF Lose, InOrder, SendsWatched, pageVars, bridgeVars
    <3> QED  BY <1>2, <2>2, <3>1, PageTailKeeps DEF Lose, UploadInv, pageVars, bridgeVars
  <2> QED  BY <2>1, <2>2 DEF Lose
<1> QED  BY <1>1, <1>2 DEF Lose, UploadInv, pageVars

\* Power takes what was written, never what is on its way.
LEMMA PowerCutKeeps ==
  ASSUME UploadInv, PowerCut
  PROVE  UploadInv'
<1>1. /\ running' = FALSE /\ written' = 0 /\ update' = "closed"
      /\ UNCHANGED <<pageVars, bridgeVars, toDevice, toPage, source, image>>
  BY DEF PowerCut
<1> USE DEF pageVars, bridgeVars
<1>2. UploadTypeOK'
  BY <1>1 DEF UploadInv, UploadTypeOK
<1>3. EndIsSafe'
  BY <1>1 DEF EndIsSafe
<1>4. ASSUME InOrder PROVE InOrder'
  <2>1. Numbered' /\ SendsWatched' /\ Starting'
    BY <1>1, <1>4 DEF InOrder, Numbered, SendsWatched, Starting
  <2>2. Watching'
    <3> SUFFICES ASSUME page = "watching" PROVE Watching'
      BY <1>1 DEF Watching
    <3>1. written \in Nat /\ offset \in Nat /\ \A i \in 1..Len(toDevice) : toDevice[i].n \in Nat
      BY MessageTyped DEF UploadInv, UploadTypeOK
    <3>2. /\ offset <= Total /\ 0 <= offset
          /\ source \in {0, upload} /\ (source = 0 => 0 < offset)
      BY <1>4, <3>1 DEF InOrder, Watching
    <3>3. \A i \in 1..Len(toDevice) :
            /\ toDevice[i].kind = "chunk" /\ toDevice[i].upload = upload
            /\ toDevice[i].n <= offset
            /\ 0 < toDevice[i].n /\ (source = 0 => 0 + 1 < toDevice[i].n)
      BY <1>4, <3>1 DEF InOrder, Watching
    <3>4. \A i, j \in 1..Len(toDevice) : i < j => toDevice[i].n < toDevice[j].n
      BY <1>4 DEF InOrder, Watching
    <3>5. \A i \in 1..Len(toPage) :
            toPage[i].kind = "progress" /\ toPage[i].n >= Full => offset >= Total
      BY <1>4 DEF InOrder, Watching
    <3>6. UNCHANGED <<page, upload, offset, toDevice, toPage, source>> /\ written' = 0
      BY <1>1
    <3> HIDE DEF pageVars, bridgeVars
    <3> QED  BY <1>3, <3>2, <3>3, <3>4, <3>5, <3>6 DEF Watching
  <2>3. Pausing' /\ Ordered'
    BY <1>1, <1>3, <1>4 DEF InOrder, Pausing, Ordered
  <2> QED  BY <1>1, <1>4, <2>1, <2>2, <2>3 DEF InOrder
<1> QED  BY <1>1, <1>2, <1>4 DEF UploadInv

-----------------------------------------------------------------------------
(* The page's handlers and the bridge's chunks *)

\* The answer to this start came alone, and the file goes to the bridge.
LEMMA ReadyKeeps ==
  ASSUME UploadInv, toPage # <<>>, toPage' = Tail(toPage), Head(toPage).kind = "ready",
         page = "starting", Ready(Head(toPage)), UNCHANGED deviceVars
  PROVE  UploadInv'
<1> DEFINE m == Head(toPage)
<1>1. /\ page' = "watching" /\ upload' = upload /\ offset' = 0 /\ thread' = "send"
      /\ toDevice' = toDevice /\ strays' = strays /\ late' = (late \/ m.upload # upload)
  BY DEF Ready
<1>2. /\ m = toPage[1] /\ 1 \in 1..Len(toPage) /\ Len(toPage) \in Nat
      /\ toPage' \in Seq(Messages) /\ Len(toPage') = Len(toPage) - 1
      /\ \A i \in 1..Len(toPage') : i + 1 \in 1..Len(toPage) /\ toPage'[i] = toPage[i + 1]
  BY Popped DEF UploadInv, UploadTypeOK
<1>3. UploadTypeOK'
  BY <1>1, <1>2 DEF UploadInv, UploadTypeOK, deviceVars
<1>4. ASSUME ~late' PROVE InOrder'
  <2>1. InOrder /\ m.upload = upload
    BY <1>1, <1>4 DEF UploadInv
  <2>2. Len(toPage) = 1 /\ toDevice = <<>> /\ source = upload /\ written = 0
    BY <1>2, <2>1 DEF InOrder, Starting
  <2>3. upload > 0 /\ upload \in Nat
    BY <2>1 DEF InOrder, Numbered, UploadInv, UploadTypeOK
  <2>4. 1..Len(toPage') = {} /\ 1..Len(toDevice') = {}
    BY <1>1, <1>2, <2>2
  <2>5. Numbered' /\ Pausing'
    <3>1. \A u \in strays' : u < upload'
      BY <1>1, <2>1 DEF InOrder, Numbered
    <3>2. upload' \notin strays'
      BY <1>1, <2>3, <3>1
    <3> QED  BY <1>1, <2>3, <2>4, <3>1, <3>2 DEF Numbered, Pausing
  <2>6. Watching'
    <3>1. source' = upload' /\ source' # 0 /\ written' = 0 /\ offset' = 0 /\ 0 <= Total
      BY <1>1, <2>2, <2>3, UploadAssumption DEF deviceVars
    <3>2. offset' <= Total /\ written' <= offset' /\ source' \in {0, upload'}
      BY <3>1
    <3> QED  BY <2>4, <3>1, <3>2, Zenon DEF Watching
  <2> QED  BY <1>1, <2>1, <2>4, <2>5, <2>6 DEF InOrder, SendsWatched, Starting, Ordered, deviceVars
<1> QED  BY <1>3, <1>4 DEF UploadInv

\* At 100 percent the page pauses: the file was sent, and it is whole.
LEMMA ProgressKeeps ==
  ASSUME UploadInv, toPage # <<>>, toPage' = Tail(toPage), Head(toPage).kind = "progress",
         Progress(Head(toPage)), UNCHANGED deviceVars
  PROVE  UploadInv'
<1> DEFINE m == Head(toPage)
<1>1. /\ m = toPage[1] /\ 1 \in 1..Len(toPage) /\ Len(toPage) \in Nat
      /\ toPage' \in Seq(Messages) /\ Len(toPage') = Len(toPage) - 1
      /\ \A i \in 1..Len(toPage') : i + 1 \in 1..Len(toPage) /\ toPage'[i] = toPage[i + 1]
  BY Popped DEF UploadInv, UploadTypeOK
<1>2. UNCHANGED <<upload, strays, late, thread, offset, uploading, toDevice>>
  BY DEF Progress
<1>3. UploadTypeOK'
  BY <1>1, <1>2 DEF Progress, UploadInv, UploadTypeOK, deviceVars
<1>4. CASE page = "watching" /\ m.n >= Full
  <2>1. page' = "pausing"
    BY <1>4 DEF Progress
  <2>2. ASSUME InOrder PROVE InOrder'
    <3>1. EndIsSafe /\ offset >= Total
      BY <1>1, <1>4, <2>2 DEF InOrder, Watching
    <3>2. EndIsSafe'
      BY <3>1 DEF EndIsSafe, Whole, deviceVars
    <3>3. \A i \in 1..Len(toDevice) : toDevice[i].kind = "chunk"
      BY <1>4, <2>2 DEF InOrder, Watching
    <3>4. Numbered'
      <4>1. \A i \in 1..Len(toPage') : toPage'[i].upload <= upload'
        BY <1>1, <1>2, <2>2 DEF InOrder, Numbered
      <4> QED  BY <1>2, <1>4, <2>2, <4>1 DEF InOrder, Numbered
    <3>5. SendsWatched'
      BY <1>2, <3>1, UploadAssumption DEF SendsWatched, UploadInv, UploadTypeOK
    <3> QED  BY <1>2, <2>1, <2>2, <3>1, <3>2, <3>3, <3>4, <3>5
             DEF InOrder, Starting, Watching, Pausing, Ordered, deviceVars
  <2> QED  BY <1>2, <1>3, <2>2 DEF UploadInv
<1>5. CASE ~(page = "watching" /\ m.n >= Full)
  <2>1. page' = page
    BY <1>5 DEF Progress
  <2>2. ASSUME InOrder PROVE InOrder'
    <3>1. SendsWatched'
      BY <1>2, <2>1, <2>2 DEF InOrder, SendsWatched
    <3> QED  BY <1>2, <2>1, <2>2, <3>1, PageTailKeeps DEF UploadInv
  <2> QED  BY <1>2, <1>3, <2>2 DEF UploadInv
<1> QED  BY <1>4, <1>5

LEMMA PageReceiveKeeps ==
  ASSUME UploadInv, PageReceive
  PROVE  UploadInv'
<1> DEFINE m == Head(toPage)
<1>1. /\ toPage # <<>> /\ toPage' = Tail(toPage) /\ UNCHANGED deviceVars
      /\ \/ m.kind = "ready" /\ page = "starting" /\ Ready(m)
         \/ m.kind = "ready" /\ page # "starting" /\ UNCHANGED <<pageVars, bridgeVars, toDevice, trouble>>
         \/ m.kind = "progress" /\ Progress(m)
         \/ m.kind \in {"refused", "result"} /\ Finished(m)
  BY DEF PageReceive
<1>2. toPage' \in Seq(Messages)
  BY <1>1, Popped DEF UploadInv, UploadTypeOK
<1>3. CASE m.kind = "ready" /\ page = "starting" /\ Ready(m)
  BY <1>1, <1>3, ReadyKeeps
<1>4. CASE m.kind = "progress" /\ Progress(m)
  BY <1>1, <1>4, ProgressKeeps
<1>5. CASE \/ page # "starting" /\ UNCHANGED <<pageVars, bridgeVars, toDevice>>
           \/ Finished(m)
  <2>1. /\ page' \in {page, "idle"} /\ UNCHANGED <<upload, strays, late, bridgeVars, toDevice>>
        /\ page' # page => page # "watching"
    BY <1>5 DEF Finished, pageVars
  <2>2. UploadTypeOK'
    BY <1>1, <1>2, <2>1 DEF UploadInv, UploadTypeOK, bridgeVars, deviceVars
  <2>3. ASSUME InOrder PROVE InOrder'
    <3>1. SendsWatched'
      BY <2>1, <2>3 DEF InOrder, SendsWatched, bridgeVars
    <3> QED  BY <1>1, <2>1, <2>3, <3>1, PageTailKeeps DEF UploadInv, bridgeVars
  <2> QED  BY <2>1, <2>2, <2>3 DEF UploadInv
<1> QED  BY <1>1, <1>3, <1>4, <1>5

\* A chunk is sent only to a page that watches, and is beyond all before it.
LEMMA SendChunkKeeps ==
  ASSUME UploadInv, SendChunk
  PROVE  UploadInv'
<1> DEFINE c == Message("chunk", offset + 1)
<1>1. /\ thread = "send" /\ uploading /\ ~BatchSent /\ offset \in Nat /\ offset' = offset + 1
      /\ toDevice' = Append(toDevice, c)
      /\ UNCHANGED <<pageVars, thread, uploading, toPage, deviceVars>>
  BY DEF SendChunk, UploadInv, UploadTypeOK
<1>2. offset < Total
  BY <1>1, UploadAssumption DEF BatchSent
<1>3. c \in Messages /\ c.kind = "chunk" /\ c.upload = upload /\ c.n = offset + 1
  BY <1>1 DEF Message, Messages, Kinds, UploadInv, UploadTypeOK
<1> HIDE DEF c
<1>4. /\ toDevice' \in Seq(Messages) /\ Len(toDevice) \in Nat
      /\ Len(toDevice') = Len(toDevice) + 1 /\ toDevice'[Len(toDevice) + 1] = c
      /\ \A i \in 1..Len(toDevice) : toDevice'[i] = toDevice[i]
  BY <1>1, <1>3, Pushed DEF UploadInv, UploadTypeOK
<1>5. \A i \in 1..Len(toDevice') : i \in 1..Len(toDevice) \/ i = Len(toDevice) + 1
  BY <1>4
<1>6. UploadTypeOK'
  BY <1>1, <1>4 DEF UploadInv, UploadTypeOK, pageVars, deviceVars
<1>7. ASSUME InOrder PROVE InOrder'
  <2>1. page = "watching"
    BY <1>1, <1>2, <1>7 DEF InOrder, SendsWatched
  <2>2. EndIsSafe' = EndIsSafe
    BY <1>1 DEF EndIsSafe, Whole, deviceVars
  <2>3. Numbered'
    <3>1. \A i \in 1..Len(toDevice') : toDevice'[i].upload <= upload'
      BY <1>1, <1>3, <1>4, <1>5, <1>7 DEF InOrder, Numbered, UploadInv, UploadTypeOK, pageVars
    <3> QED  BY <1>1, <1>7, <3>1 DEF InOrder, Numbered, pageVars
  <2>4. SendsWatched' /\ Starting'
    BY <1>1, <2>1 DEF SendsWatched, Starting, pageVars
  <2>5. Watching'
    <3>1. written \in Nat /\ \A i \in 1..Len(toDevice) : toDevice[i].n \in Nat
      BY MessageTyped DEF UploadInv, UploadTypeOK
    <3>2. /\ offset' <= Total /\ written' <= offset'
          /\ source' \in {0, upload'} /\ (source' = 0 => written' < offset')
      BY <1>1, <1>2, <1>7, <2>1, <3>1, UploadAssumption DEF InOrder, Watching, pageVars, deviceVars
    <3>3. ASSUME NEW i \in 1..Len(toDevice')
          PROVE  /\ toDevice'[i].kind = "chunk" /\ toDevice'[i].upload = upload'
                 /\ toDevice'[i].n <= offset'
                 /\ written' < toDevice'[i].n /\ (source' = 0 => written' + 1 < toDevice'[i].n)
      BY <1>1, <1>3, <1>4, <1>5, <1>7, <2>1, <3>1 DEF InOrder, Watching, pageVars, deviceVars
    <3>4. ASSUME NEW i \in 1..Len(toDevice'), NEW j \in 1..Len(toDevice'), i < j
          PROVE  toDevice'[i].n < toDevice'[j].n
      <4>1. i \in 1..Len(toDevice)
        BY <1>4, <3>4
      <4>2. CASE j = Len(toDevice) + 1
        BY <1>1, <1>3, <1>4, <1>7, <2>1, <3>1, <4>1, <4>2 DEF InOrder, Watching
      <4>3. CASE j \in 1..Len(toDevice)
        BY <1>4, <1>7, <2>1, <3>4, <4>1, <4>3 DEF InOrder, Watching
      <4> QED  BY <1>5, <4>2, <4>3
    <3>5. \A i \in 1..Len(toPage') :
            toPage'[i].kind = "progress" /\ toPage'[i].n >= Full => EndIsSafe' /\ offset' >= Total
      BY <1>1, <1>2, <1>7, <2>1, <2>2, UploadAssumption DEF InOrder, Watching
    <3> QED  BY <3>2, <3>3, <3>4, <3>5 DEF Watching
  <2>6. Ordered'
    <3>1. \A i \in 1..Len(toDevice') : toDevice'[i].kind = "chunk"
      BY <1>3, <1>4, <1>5, <1>7, <2>1 DEF InOrder, Watching
    <3> QED  BY <3>1 DEF Ordered
  <2>7. Pausing'
    <3>1. page' = "watching" /\ upload' \notin strays'
      BY <1>1, <1>7, <2>1 DEF InOrder, Numbered, UploadInv, UploadTypeOK, pageVars
    <3> QED  BY <3>1 DEF Pausing
  <2> QED  BY <1>1, <1>7, <2>3, <2>4, <2>5, <2>6, <2>7 DEF InOrder, deviceVars
<1> QED  BY <1>1, <1>6, <1>7 DEF UploadInv, pageVars

-----------------------------------------------------------------------------
(* The device's handlers *)

\* An answer keeps the number of its upload.
LEMMA AnswerTyped ==
  ASSUME NEW m \in Messages, NEW k \in Kinds, NEW pct \in Nat
  PROVE  /\ [m EXCEPT !.kind = k, !.n = pct] \in Messages
         /\ [m EXCEPT !.kind = k, !.n = pct].kind = k
         /\ [m EXCEPT !.kind = k, !.n = pct].upload = m.upload
         /\ [m EXCEPT !.kind = k, !.n = pct].n = pct
         /\ [m EXCEPT !.kind = k] \in Messages
         /\ [m EXCEPT !.kind = k].kind = k
         /\ [m EXCEPT !.kind = k].upload = m.upload
BY DEF Messages

LEMMA Answered ==
  ASSUME NEW s \in Seq(Messages), NEW a \in Messages, NEW t \in {s, Append(s, a)}
  PROVE  /\ t \in Seq(Messages)
         /\ \A i \in 1..Len(t) : (i \in 1..Len(s) /\ t[i] = s[i]) \/ (i = Len(t) /\ t[i] = a)
<1>1. CASE t = s
  BY <1>1
<1>2. CASE t = Append(s, a)
  <2>1. /\ t \in Seq(Messages) /\ Len(t) = Len(s) + 1 /\ Len(s) \in Nat
        /\ \A i \in 1..Len(s) : t[i] = s[i]
        /\ t[Len(s) + 1] = a
    BY <1>2, Pushed
  <2>2. \A i \in 1..Len(t) : i \in 1..Len(s) \/ i = Len(t)
    BY <2>1
  <2> QED  BY <2>1, <2>2
<1> QED  BY <1>1, <1>2

\* The device takes a message and answers behind all its answers, if at all.
LEMMA DeviceTyped ==
  ASSUME UploadTypeOK, toDevice # <<>>, toDevice' = Tail(toDevice),
         NEW a \in Messages, toPage' \in {toPage, Append(toPage, a)}
  PROVE  /\ Head(toDevice) = toDevice[1] /\ 1 \in 1..Len(toDevice)
         /\ toDevice' \in Seq(Messages) /\ toPage' \in Seq(Messages)
         /\ Len(toDevice) \in Nat /\ Len(toDevice') = Len(toDevice) - 1
         /\ \A i \in 1..Len(toDevice') :
              i + 1 \in 1..Len(toDevice) /\ toDevice'[i] = toDevice[i + 1]
         /\ \A i \in 1..Len(toPage') :
              (i \in 1..Len(toPage) /\ toPage'[i] = toPage[i]) \/ (i = Len(toPage') /\ toPage'[i] = a)
<1>1. toDevice \in Seq(Messages) /\ toPage \in Seq(Messages)
  BY DEF UploadTypeOK
<1>2. /\ Head(toDevice) = toDevice[1] /\ 1 \in 1..Len(toDevice)
      /\ toDevice' \in Seq(Messages)
      /\ Len(toDevice) \in Nat /\ Len(toDevice') = Len(toDevice) - 1
      /\ \A i \in 1..Len(toDevice') :
           i + 1 \in 1..Len(toDevice) /\ toDevice'[i] = toDevice[i + 1]
  BY <1>1, Popped
<1>3. /\ toPage' \in Seq(Messages)
      /\ \A i \in 1..Len(toPage') :
           (i \in 1..Len(toPage) /\ toPage'[i] = toPage[i]) \/ (i = Len(toPage') /\ toPage'[i] = a)
  BY <1>1, Answered, Zenon
<1> QED  BY <1>2, <1>3

\* What a message taken by the device leaves in order, whatever the device does with it.
LEMMA TakenKeeps ==
  ASSUME UploadTypeOK, InOrder, toDevice # <<>>, toDevice' = Tail(toDevice),
         NEW a \in Messages, a.kind # "ready", a.upload = Head(toDevice).upload,
         toPage' \in {toPage, Append(toPage, a)},
         UNCHANGED <<pageVars, bridgeVars>>
  PROVE  Numbered' /\ SendsWatched' /\ Starting'
<1> USE DEF pageVars
<1>0. /\ Head(toDevice) = toDevice[1] /\ 1 \in 1..Len(toDevice)
      /\ Len(toDevice) \in Nat /\ Len(toDevice') = Len(toDevice) - 1
      /\ \A i \in 1..Len(toDevice') :
           i + 1 \in 1..Len(toDevice) /\ toDevice'[i] = toDevice[i + 1]
      /\ \A i \in 1..Len(toPage') :
           (i \in 1..Len(toPage) /\ toPage'[i] = toPage[i]) \/ (i = Len(toPage') /\ toPage'[i] = a)
  BY DeviceTyped
<1>1. Numbered'
  <2>1. \A i \in 1..Len(toDevice') : toDevice'[i].upload <= upload'
    BY <1>0 DEF InOrder, Numbered
  <2>2. a.upload <= upload
    BY <1>0 DEF InOrder, Numbered
  <2>3. \A i \in 1..Len(toPage') : toPage'[i].upload <= upload'
    BY <1>0, <2>2 DEF InOrder, Numbered
  <2> QED  BY <2>1, <2>3 DEF InOrder, Numbered
<1>2. SendsWatched'
  BY DEF InOrder, SendsWatched, bridgeVars
<1>3. Starting'
  <2> SUFFICES ASSUME page = "starting" PROVE Starting'
    BY DEF Starting
  <2>1. \A i \in 1..Len(toPage) : ~(toPage[i].kind = "ready" /\ toPage[i].upload = upload)
    BY DEF InOrder, Starting
  <2>2. \A i \in 1..Len(toPage') : ~(toPage'[i].kind = "ready" /\ toPage'[i].upload = upload)
    BY <1>0, <2>1
  <2>3. ASSUME NEW i \in 1..Len(toDevice'), toDevice'[i].kind = "start", toDevice'[i].upload = upload
        PROVE  i = Len(toDevice')
    <3>1. i + 1 = Len(toDevice)
      BY <1>0, <2>3 DEF InOrder, Starting
    <3>2. i \in Nat
      BY <1>0, <2>3
    <3> QED  BY <1>0, <3>1, <3>2, OneLess, Zenon
  <2> QED  BY <2>2, <2>3 DEF Starting
<1> QED  BY <1>1, <1>2, <1>3

\* A start: the answer of the latest one comes when nothing else is on its way.
LEMMA StartKeeps ==
  ASSUME UploadInv, toDevice # <<>>, toDevice' = Tail(toDevice), Head(toDevice).kind = "start",
         Start(Head(toDevice)), UNCHANGED <<pageVars, bridgeVars>>
  PROVE  UploadInv'
<1> DEFINE m == Head(toDevice)
<1>1. PICK ok \in BOOLEAN :
        /\ written' = 0 /\ image' = image /\ source' = m.upload
        /\ update' = IF ok THEN "open" ELSE "closed"
        /\ running' = (ok \/ running)
        /\ toPage' = Append(toPage, [m EXCEPT !.kind = IF ok THEN "ready" ELSE "refused"])
  BY DEF Start
<1> DEFINE k == IF ok THEN "ready" ELSE "refused"
           a == [m EXCEPT !.kind = k]
<1>2. m \in Messages /\ k \in Kinds
  <2>1. m \in Messages
    BY Popped DEF UploadInv, UploadTypeOK
  <2> QED  BY <2>1 DEF Kinds
<1>3. a \in Messages /\ a.kind = k /\ a.upload = m.upload
  BY <1>2, AnswerTyped
<1> HIDE DEF a, k
<1>4. /\ m = toDevice[1] /\ 1 \in 1..Len(toDevice)
      /\ toDevice' \in Seq(Messages) /\ toPage' \in Seq(Messages)
      /\ Len(toDevice) \in Nat /\ Len(toDevice') = Len(toDevice) - 1
      /\ \A i \in 1..Len(toDevice') : i + 1 \in 1..Len(toDevice) /\ toDevice'[i] = toDevice[i + 1]
      /\ \A i \in 1..Len(toPage') :
           (i \in 1..Len(toPage) /\ toPage'[i] = toPage[i]) \/ (i = Len(toPage') /\ toPage'[i] = a)
  <2>1. toPage' = Append(toPage, a)
    BY <1>1 DEF a, k
  <2> QED  BY <1>3, <2>1, DeviceTyped DEF UploadInv
<1>5. UploadTypeOK'
  BY <1>1, <1>4 DEF UploadInv, UploadTypeOK, pageVars, bridgeVars
<1>6. ASSUME InOrder PROVE InOrder'
  <2>1. Numbered'
    <3>1. \A i \in 1..Len(toDevice') : toDevice'[i].upload <= upload'
      BY <1>4, <1>6 DEF InOrder, Numbered, pageVars
    <3>2. m.upload <= upload
      BY <1>4, <1>6 DEF InOrder, Numbered
    <3>3. \A i \in 1..Len(toPage') : toPage'[i].upload <= upload'
      BY <1>3, <1>4, <1>6, <3>2 DEF InOrder, Numbered, pageVars
    <3> QED  BY <1>6, <3>1, <3>3 DEF InOrder, Numbered, pageVars
  <2>2. SendsWatched'
    BY <1>6 DEF InOrder, SendsWatched, pageVars, bridgeVars
  <2>3. Starting'
    <3> SUFFICES ASSUME page = "starting" PROVE Starting'
      BY DEF Starting, pageVars
    <3>1. \A i \in 1..Len(toPage) : ~(toPage[i].kind = "ready" /\ toPage[i].upload = upload)
      BY <1>6 DEF InOrder, Starting
    <3>2. ASSUME NEW i \in 1..Len(toPage'), toPage'[i].kind = "ready", toPage'[i].upload = upload
          PROVE  i = Len(toPage') /\ toDevice' = <<>> /\ source' = upload /\ written' = 0
      <4>1. i = Len(toPage') /\ toPage'[i] = a
        BY <1>4, <3>1, <3>2
      <4>2. m.upload = upload
        BY <1>3, <3>2, <4>1
      <4>3. Len(toDevice) = 1
        BY <1>4, <1>6, <4>2 DEF InOrder, Starting
      <4>4. Len(toDevice') = 0
        BY <1>4, <4>3
      <4>5. toDevice' = <<>>
        BY <1>4, <4>4
      <4> QED  BY <1>1, <4>1, <4>2, <4>5
    <3>3. ASSUME NEW i \in 1..Len(toDevice'), toDevice'[i].kind = "start", toDevice'[i].upload = upload
          PROVE  i = Len(toDevice')
      <4>1. i + 1 = Len(toDevice)
        BY <1>4, <1>6, <3>3 DEF InOrder, Starting
      <4>2. i \in Nat
        BY <1>4, <3>3
      <4> QED  BY <1>4, <4>1, <4>2, OneLess, Zenon
    <3> QED  BY <3>2, <3>3 DEF Starting, pageVars
  <2>4. page # "watching"
    BY <1>4, <1>6 DEF InOrder, Watching
  <2>5. Ordered'
    <3>1. \A i \in 1..Len(toDevice') : toDevice'[i].kind = "start"
      BY <1>4, <1>6 DEF InOrder, Ordered
    <3> QED  BY <3>1 DEF Ordered
  <2>6. Pausing'
    BY <1>4, <1>6 DEF InOrder, Pausing, pageVars
  <2> QED  BY <1>1, <1>6, <2>1, <2>2, <2>3, <2>4, <2>5, <2>6 DEF InOrder, Watching, pageVars
<1> QED  BY <1>5, <1>6 DEF UploadInv, pageVars

\* A chunk: written if the device runs and the library takes it.
LEMMA ChunkKeeps ==
  ASSUME UploadInv, toDevice # <<>>, toDevice' = Tail(toDevice), Head(toDevice).kind = "chunk",
         running, Chunk(Head(toDevice)), UNCHANGED <<pageVars, bridgeVars>>
  PROVE  UploadInv'
<1> DEFINE m == Head(toDevice)
<1>1. PICK ok \in BOOLEAN :
        LET good == ok /\ update = "open" /\ written < Total
            n    == IF good THEN written + 1 ELSE written
            pct  == Pct(n)
        IN /\ written' = n
           /\ source' = IF good /\ <<m.upload, m.n>> # <<source, n>> THEN 0 ELSE source
           /\ update' = IF good THEN "open" ELSE "failed"
           /\ toPage' = IF Told(pct) THEN Append(toPage, [m EXCEPT !.kind = "progress", !.n = pct])
                                ELSE toPage
           /\ UNCHANGED <<running, image>>
  BY DEF Chunk
<1> DEFINE good == ok /\ update = "open" /\ written < Total
           pct  == Pct(written')
           a    == [m EXCEPT !.kind = "progress", !.n = pct]
<1>2. /\ written \in Nat /\ good \in BOOLEAN /\ written' = IF good THEN written + 1 ELSE written
      /\ written' \in Nat
      /\ update' = IF good THEN "open" ELSE "failed"
      /\ source' = IF good /\ (m.upload # source \/ m.n # written') THEN 0 ELSE source
      /\ toPage' \in {toPage, Append(toPage, a)}
      /\ UNCHANGED <<running, image>>
  BY <1>1 DEF UploadInv, UploadTypeOK
<1>3. pct \in Nat /\ m \in Messages /\ "progress" \in Kinds
  <2>1. m \in Messages
    BY Popped DEF UploadInv, UploadTypeOK
  <2> QED  BY <1>2, <2>1, PctTyped DEF Kinds
<1>4. pct >= Full => written' >= Total
  BY <1>2, FullIsTotal
<1> HIDE DEF pct
<1>5. a \in Messages /\ a.kind = "progress" /\ a.upload = m.upload /\ a.n = pct
  <2> HIDE DEF m
  <2> QED  BY <1>3 DEF a, Messages
<1> HIDE DEF a
<1>6. /\ m = toDevice[1] /\ 1 \in 1..Len(toDevice)
      /\ toDevice' \in Seq(Messages) /\ toPage' \in Seq(Messages)
      /\ Len(toDevice) \in Nat /\ Len(toDevice') = Len(toDevice) - 1
      /\ \A i \in 1..Len(toDevice') : i + 1 \in 1..Len(toDevice) /\ toDevice'[i] = toDevice[i + 1]
      /\ \A i \in 1..Len(toPage') :
           (i \in 1..Len(toPage) /\ toPage'[i] = toPage[i]) \/ (i = Len(toPage') /\ toPage'[i] = a)
  BY <1>2, <1>5, DeviceTyped DEF UploadInv
<1>7. UploadTypeOK'
  BY <1>2, <1>6 DEF UploadInv, UploadTypeOK, pageVars, bridgeVars
<1>8. ASSUME InOrder PROVE Numbered' /\ SendsWatched' /\ Starting'
  BY <1>2, <1>5, <1>8, TakenKeeps DEF UploadInv
\* An end on its way stays safe: a whole image takes no more, and a failure stays.
<1>9. EndIsSafe => EndIsSafe'
  BY <1>2, UploadAssumption DEF EndIsSafe, Whole, UploadInv, UploadTypeOK
<1>10. ASSUME InOrder PROVE Watching'
  <2> SUFFICES ASSUME page = "watching" PROVE Watching'
    BY DEF Watching, pageVars
  <2>1. /\ offset \in Nat /\ upload \in Nat /\ m.n \in Nat
        /\ \A i \in 1..Len(toDevice) : toDevice[i].n \in Nat
    BY <1>6, MessageTyped DEF UploadInv, UploadTypeOK
  <2>2. /\ offset <= Total /\ written <= offset
        /\ source \in {0, upload} /\ (source = 0 => written < offset)
    BY <1>10 DEF InOrder, Watching
  <2>3. /\ m.upload = upload /\ m.n <= offset
        /\ written < m.n /\ (source = 0 => written + 1 < m.n)
    BY <1>6, <1>10 DEF InOrder, Watching
  <2>4. source' \in {0, upload} /\ (source' = 0 => source = 0 \/ (good /\ m.n # written + 1))
    BY <1>2, <2>2, <2>3
  <2>5. source' = 0 => written' < m.n
    BY <1>2, <2>1, <2>3, <2>4
  <2>6. written' <= m.n
    BY <1>2, <2>1, <2>3
  <2>7. written' <= offset /\ (source' = 0 => written' < offset)
    BY <1>2, <2>1, <2>3, <2>5, <2>6
  <2>8. ASSUME NEW i \in 1..Len(toDevice')
        PROVE  /\ toDevice'[i].kind = "chunk" /\ toDevice'[i].upload = upload
               /\ toDevice'[i].n <= offset /\ m.n < toDevice'[i].n /\ toDevice'[i].n \in Nat
    <3>1. i + 1 \in 1..Len(toDevice) /\ toDevice'[i] = toDevice[i + 1] /\ 1 < i + 1
      BY <1>6
    <3> QED  BY <1>6, <1>10, <2>1, <3>1 DEF InOrder, Watching
  <2>9. \A i \in 1..Len(toDevice') :
          written' < toDevice'[i].n /\ (source' = 0 => written' + 1 < toDevice'[i].n)
    BY <1>2, <2>1, <2>5, <2>6, <2>8
  <2>10. ASSUME NEW i \in 1..Len(toDevice'), NEW j \in 1..Len(toDevice'), i < j
         PROVE  toDevice'[i].n < toDevice'[j].n
    <3>1. /\ i + 1 \in 1..Len(toDevice) /\ toDevice'[i] = toDevice[i + 1]
          /\ j + 1 \in 1..Len(toDevice) /\ toDevice'[j] = toDevice[j + 1] /\ i + 1 < j + 1
      BY <1>6, <2>10
    <3> QED  BY <1>10, <3>1 DEF InOrder, Watching
  <2>11. ASSUME NEW i \in 1..Len(toPage'), toPage'[i].kind = "progress", toPage'[i].n >= Full
         PROVE  EndIsSafe' /\ offset >= Total
    <3>1. CASE i \in 1..Len(toPage) /\ toPage'[i] = toPage[i]
      BY <1>9, <1>10, <2>11, <3>1 DEF InOrder, Watching
    <3>2. CASE toPage'[i] = a
      <4>1. written' >= Total
        BY <1>5, <1>4, <2>11, <3>2
      <4>2. written' = Total /\ offset = Total
        BY <1>2, <2>1, <2>2, <2>7, <4>1, UploadAssumption
      <4>3. source' # 0
        BY <2>1, <2>7, <4>2
      <4> QED  BY <2>1, <4>2, <4>3, UploadAssumption DEF EndIsSafe, Whole
    <3> QED  BY <1>6, <2>11, <3>1, <3>2
  <2> QED  BY <2>2, <2>4, <2>7, <2>8, <2>9, <2>10, <2>11 DEF Watching, pageVars, bridgeVars
<1>11. ASSUME InOrder PROVE Ordered'
  <2>1. ASSUME NEW i \in 1..Len(toDevice'), NEW j \in 1..Len(toDevice'), i < j,
               toDevice'[i].kind = "start"
        PROVE  toDevice'[j].kind = "start"
    <3>1. /\ i + 1 \in 1..Len(toDevice) /\ toDevice'[i] = toDevice[i + 1]
          /\ j + 1 \in 1..Len(toDevice) /\ toDevice'[j] = toDevice[j + 1] /\ i + 1 < j + 1
      BY <1>6, <2>1
    <3> QED  BY <1>11, <2>1, <3>1 DEF InOrder, Ordered
  <2>2. \A i \in 1..Len(toDevice') : toDevice'[i].kind = "end" => EndIsSafe'
    BY <1>6, <1>9, <1>11 DEF InOrder, Ordered
  <2> QED  BY <2>1, <2>2 DEF Ordered
<1>12. ASSUME InOrder PROVE Pausing'
  BY <1>6, <1>9, <1>12 DEF InOrder, Pausing, pageVars, bridgeVars
<1> QED  BY <1>2, <1>7, <1>8, <1>10, <1>11, <1>12 DEF UploadInv, InOrder, pageVars

\* An end: what the library activates is whole, and the device runs no more.
LEMMA EndKeeps ==
  ASSUME UploadInv, toDevice # <<>>, toDevice' = Tail(toDevice), Head(toDevice).kind = "end",
         running, End(Head(toDevice)), UNCHANGED <<pageVars, bridgeVars>>
  PROVE  UploadInv'
<1> DEFINE m == Head(toDevice)
           a == [m EXCEPT !.kind = "result"]
<1>1. PICK ok \in BOOLEAN :
        /\ running' = FALSE /\ update' = "closed"
        /\ image' = IF ok /\ update = "open"
                    THEN IF source # 0 /\ written = Total THEN "whole" ELSE "broken"
                    ELSE image
        /\ toPage' = Append(toPage, [m EXCEPT !.kind = "result"])
        /\ UNCHANGED <<written, source>>
  BY DEF End
<1>2. m \in Messages /\ "result" \in Kinds
  <2>1. m \in Messages
    BY Popped DEF UploadInv, UploadTypeOK
  <2> QED  BY <2>1 DEF Kinds
<1>3. a \in Messages /\ a.kind = "result" /\ a.upload = m.upload /\ toPage' = Append(toPage, a)
  BY <1>1, <1>2, AnswerTyped
<1> HIDE DEF a
<1>4. /\ m = toDevice[1] /\ 1 \in 1..Len(toDevice)
      /\ toDevice' \in Seq(Messages) /\ toPage' \in Seq(Messages)
      /\ Len(toDevice) \in Nat /\ Len(toDevice') = Len(toDevice) - 1
      /\ \A i \in 1..Len(toDevice') : i + 1 \in 1..Len(toDevice) /\ toDevice'[i] = toDevice[i + 1]
  BY <1>3, DeviceTyped DEF UploadInv
<1>5. UploadTypeOK'
  BY <1>1, <1>4 DEF UploadInv, UploadTypeOK, pageVars, bridgeVars
<1>6. ASSUME InOrder PROVE InOrder'
  <2>1. Numbered' /\ SendsWatched' /\ Starting'
    BY <1>3, <1>6, TakenKeeps DEF UploadInv
  <2>2. page # "watching"
    BY <1>4, <1>6 DEF InOrder, Watching
  <2>3. EndIsSafe /\ EndIsSafe'
    BY <1>1, <1>4, <1>6 DEF InOrder, Ordered, EndIsSafe
  <2>4. image' # "broken"
    BY <1>1, <1>6, <2>3 DEF InOrder, EndIsSafe, Whole
  <2>5. Ordered'
    <3>1. ASSUME NEW i \in 1..Len(toDevice'), NEW j \in 1..Len(toDevice'), i < j,
                 toDevice'[i].kind = "start"
          PROVE  toDevice'[j].kind = "start"
      <4>1. /\ i + 1 \in 1..Len(toDevice) /\ toDevice'[i] = toDevice[i + 1]
            /\ j + 1 \in 1..Len(toDevice) /\ toDevice'[j] = toDevice[j + 1] /\ i + 1 < j + 1
        BY <1>4, <3>1
      <4> QED  BY <1>6, <3>1, <4>1 DEF InOrder, Ordered
    <3> QED  BY <2>3, <3>1 DEF Ordered
  <2>6. Pausing'
    BY <1>4, <1>6, <2>3 DEF InOrder, Pausing, pageVars, bridgeVars
  <2> QED  BY <2>1, <2>2, <2>4, <2>5, <2>6 DEF InOrder, Watching, pageVars
<1> QED  BY <1>5, <1>6 DEF UploadInv, pageVars

LEMMA DeviceReceiveKeeps ==
  ASSUME UploadInv, DeviceReceive
  PROVE  UploadInv'
<1> DEFINE m == Head(toDevice)
<1>1. /\ toDevice # <<>> /\ toDevice' = Tail(toDevice) /\ UNCHANGED <<pageVars, bridgeVars>>
      /\ \/ m.kind = "start" /\ Start(m)
         \/ m.kind = "chunk" /\ Chunk(m)
         \/ m.kind = "end" /\ End(m)
  BY DEF DeviceReceive
<1>2. CASE m.kind = "start" /\ Start(m)
  BY <1>1, <1>2, StartKeeps
<1>3. CASE running /\ m.kind = "chunk" /\ Chunk(m)
  BY <1>1, <1>3, ChunkKeeps
<1>4. CASE running /\ m.kind = "end" /\ End(m)
  BY <1>1, <1>4, EndKeeps
<1>5. CASE ~running /\ (Chunk(m) \/ End(m))
  <2>1. UNCHANGED <<deviceVars, toPage>>
    BY <1>5 DEF Chunk, End
  <2>2. toDevice' \in Seq(Messages)
    BY <1>1, Popped DEF UploadInv, UploadTypeOK
  <2>3. UploadTypeOK'
    BY <1>1, <2>1, <2>2 DEF UploadInv, UploadTypeOK, pageVars, bridgeVars, deviceVars
  <2>4. InOrder => InOrder'
    BY <1>1, <2>1, DeviceTailKeeps DEF UploadInv
  <2> QED  BY <1>1, <2>3, <2>4 DEF UploadInv, pageVars
<1> QED  BY <1>1, <1>2, <1>3, <1>4, <1>5

-----------------------------------------------------------------------------

LEMMA UploadStepKeeps ==
  ASSUME UploadInv, [UploadNext]_uploadVars
  PROVE  UploadInv'
<1>1. CASE UNCHANGED uploadVars
  <2>1. UNCHANGED <<late, pageVars, bridgeVars, toDevice, toPage, deviceVars>>
    BY <1>1 DEF uploadVars, pageVars
  <2>2. InOrder => SendsWatched'
    BY <2>1 DEF InOrder, SendsWatched, pageVars, bridgeVars
  <2> QED  BY <2>1, <2>2, LeavingKeeps DEF pageVars, bridgeVars, UploadInv, UploadTypeOK
<1> QED  BY <1>1, PageStartKeeps, PageReceiveKeeps, EndsKeep, WaitsKeep, SendChunkKeeps,
            DeviceReceiveKeeps, PowerCutKeeps, LoseKeeps DEF UploadNext, Bridge

\* The order of the messages of page, bridge and device through every upload, lost
\* message, failed write and power cut, until a late message crosses a newer upload.
THEOREM UploadInvariant == UploadSafety => []UploadInv
<1>1. UploadInv /\ [UploadNext]_uploadVars => UploadInv'
  BY UploadStepKeeps
<1> QED  BY UploadInitInv, <1>1, PTL DEF UploadSafety

\* Only whole files are activated (OTAManager::end, uploader.js), for every size of the
\* file and of the milestones and any number of uploads.
THEOREM OnlyWholeFiles == UploadSafety => []ActivatedIsWhole
<1>1. UploadInv => ActivatedIsWhole
  BY DEF UploadInv, InOrder, ActivatedIsWhole
<1> QED  BY UploadInvariant, <1>1, PTL

-----------------------------------------------------------------------------
(* How far the bridge goes ahead *)

\* A progress told after another: a milestone more, or the end; the first may be 0.
Beyond(x, y) == x >= Full \/ x >= IF y = -1 THEN 0 ELSE y + Step

IsProgress(i) == toPage[i].kind = "progress"

Told100 == \E i \in 1..Len(toPage) : IsProgress(i) /\ toPage[i].n >= Full

\* The page watches: each progress on its way is beyond the one before and the one
\* heard, none is beyond what the device counts, and after the last nothing is sent.
Reported ==
  page = "watching" =>
    /\ \A i \in 1..Len(toPage) : IsProgress(i) => Beyond(toPage[i].n, heard)
    /\ \A i, j \in 1..Len(toPage) :
         i < j /\ IsProgress(i) /\ IsProgress(j) => Beyond(toPage[j].n, toPage[i].n)
    /\ running =>
         /\ heard <= lastPct /\ lastPct <= Pct(written)
         /\ \A i \in 1..Len(toPage) : IsProgress(i) => toPage[i].n <= lastPct
    /\ Told100 => toDevice = <<>>

Reached(k) == heard >= Full \/ heard >= k * Step

\* The thread is in its batch, and the milestone before the last was heard of; the one
\* it waits for sets the event only when the last was heard of.
Paced ==
  page = "watching" /\ thread # "none" =>
    /\ Pct(offset) <= batch * Step + 1
    /\ Reached(batch - 2)
    /\ thread = "milestone" /\ ack => Reached(batch - 1)

\* The page has left an upload whose thread still waits: it heard the end, and only the
\* end can come again.
Over ==
  page # "watching" /\ uploading /\ thread # "none" =>
    /\ heard >= Full
    /\ \A i \in 1..Len(toPage) : IsProgress(i) => toPage[i].n >= Full
    /\ \A i \in 1..Len(toDevice) : toDevice[i].kind # "chunk"

\* The answer to the start finds a device that counts anew.
Fresh ==
  page = "starting" =>
    \A i \in 1..Len(toPage) :
      toPage[i].kind = "ready" /\ toPage[i].upload = upload => lastPct = -1

CountsTyped ==
  /\ heard \in Int /\ heard >= -1 /\ lastPct \in Int /\ lastPct >= -1
  /\ batch \in Nat \ {0} /\ offset <= Total

AheadInv == CountsTyped /\ (~late => Reported /\ Paced /\ Over /\ Fresh)

LEMMA PctMonotone ==
  ASSUME NEW n \in Nat, NEW k \in Nat, n <= k
  PROVE  Pct(n) <= Pct(k)
<1>1. n * Full <= k * Full /\ n * Full \in Nat /\ k * Full \in Nat /\ Total \in Nat \ {0}
  <2>1. (k - n) * Full >= 0 /\ (k - n) * Full = k * Full - n * Full
    BY UploadAssumption
  <2> QED  BY <2>1, UploadAssumption
<1> QED  BY <1>1 DEF Pct

\* The file is 100 percent, and nothing is more.
LEMMA PctAtMost ==
  ASSUME NEW n \in Nat, n <= Total
  PROVE  Pct(n) \in Nat /\ Pct(n) <= Full
<1>1. Pct(Total) = Full
  <2>1. Total * Full = Full * Total /\ Total \in Nat \ {0} /\ Full \in Nat
    BY UploadAssumption
  <2>2. (Full * Total) \div Total = Full
    BY <2>1
  <2> QED  BY <2>1, <2>2 DEF Pct
<1> QED  BY <1>1, PctMonotone, PctTyped, UploadAssumption

\* What is sent up to the target is at most a percent more than the milestone.
LEMMA TargetIsNear ==
  ASSUME NEW n \in Nat, n <= Target, batch \in Nat
  PROVE  Pct(n) <= batch * Step + 1
<1> DEFINE t == TargetPct
<1>1. t \in Nat /\ t <= batch * Step + 1
  BY UploadAssumption DEF TargetPct
<1> HIDE DEF t
<1>2. n <= (t * Total + Full - 1) \div Full
  BY DEF Target, t
<1>3. n * Full <= t * Total + Full - 1
  <2>1. t * Total + Full - 1 \in Nat /\ Full \in Nat \ {0}
    BY <1>1, UploadAssumption
  <2>2. \A x \in Nat, y \in Nat \ {0} : (x \div y) * y <= x
    OBVIOUS
  <2>3. ((t * Total + Full - 1) \div Full) * Full <= t * Total + Full - 1
    BY <2>1, <2>2
  <2>4. n * Full <= ((t * Total + Full - 1) \div Full) * Full
    <3>1. \A x \in Nat, y \in Nat, z \in Nat : x <= y => x * z <= y * z
      OBVIOUS
    <3>2. (t * Total + Full - 1) \div Full \in Nat
      BY <2>1
    <3> QED  BY <1>2, <2>1, <3>1, <3>2
  <2> QED  BY <2>1, <2>3, <2>4, UploadAssumption
<1>4. n * Full < (t + 1) * Total
  <2>1. (t + 1) * Total = t * Total + Total
    BY <1>1, UploadAssumption
  <2> QED  BY <1>1, <1>3, <2>1, UploadAssumption
<1>5. (n * Full) \div Total < t + 1
  <2>1. n * Full \in Nat /\ Total \in Nat \ {0} /\ t + 1 \in Nat
    BY <1>1, UploadAssumption
  <2>2. \A x \in Nat, y \in Nat \ {0}, z \in Nat : x < z * y => x \div y < z
    OBVIOUS
  <2> QED  BY <1>4, <2>1, <2>2
<1>6. Pct(n) < t + 1 /\ Pct(n) \in Nat
  BY <1>5, PctTyped DEF Pct
<1> QED  BY <1>1, <1>6, UploadAssumption

\* Another progress is another milestone reached.
LEMMA OneMoreReached ==
  ASSUME NEW x \in Nat, NEW y \in Int, y >= -1, NEW k \in Nat \ {0}, Beyond(x, y),
         y >= Full \/ y >= (k - 2) * Step
  PROVE  x >= Full \/ x >= (k - 1) * Step
<1>1. (k - 1) * Step = (k - 2) * Step + Step /\ (k - 2) * Step \in Int
  BY UploadAssumption
<1>2. CASE y = -1
  <2>1. k = 1
    <3>1. k >= 2 => (k - 2) * Step >= 0
      BY UploadAssumption
    <3> QED  BY <1>2, <3>1, UploadAssumption
  <2>2. (k - 1) * Step = 0
    BY <2>1, UploadAssumption
  <2> QED  BY <2>2
<1>3. CASE y # -1
  BY <1>1, <1>3, UploadAssumption DEF Beyond
<1> QED  BY <1>2, <1>3

LEMMA CountsMessages ==
  ASSUME UploadInv
  PROVE  /\ \A i \in 1..Len(toPage) : toPage[i].n \in Nat /\ toPage[i].upload \in Nat
         /\ Len(toPage) \in Nat /\ Len(toDevice) \in Nat
         /\ offset \in Nat /\ written \in Nat /\ Pct(offset) \in Nat /\ Pct(written) \in Nat
<1>1. toPage \in Seq(Messages) /\ toDevice \in Seq(Messages) /\ offset \in Nat /\ written \in Nat
  BY DEF UploadInv, UploadTypeOK
<1>2. \A i \in 1..Len(toPage) : toPage[i].n \in Nat /\ toPage[i].upload \in Nat
  BY <1>1, MessageTyped
<1>3. Pct(offset) \in Nat /\ Pct(written) \in Nat
  BY <1>1, PctTyped
<1> QED  BY <1>1, <1>2, <1>3

LEMMA AheadInitInv == UploadInit => AheadInv
BY UploadAssumption
   DEF UploadInit, AheadInv, CountsTyped, Reported, Paced, Over, Fresh

\* Steps of the page and the bridge's threads that move no message.
LEMMA AheadLeaving ==
  ASSUME AheadInv, page' \in {page, "idle"},
         UNCHANGED <<upload, late, offset, heard, toDevice, toPage, deviceVars>>,
         batch' \in {batch, batch + 1}, ~late => Paced',
         page' # "watching" /\ uploading' /\ thread' # "none" =>
           page # "watching" /\ uploading /\ thread # "none"
  PROVE  AheadInv'
<1> USE DEF deviceVars
<1>1. ASSUME Reported PROVE Reported'
  BY <1>1 DEF Reported, IsProgress, Told100
<1>2. ASSUME Fresh PROVE Fresh'
  BY <1>2 DEF Fresh
<1>3. ASSUME Over PROVE Over'
  BY <1>3 DEF Over, IsProgress
<1>4. CountsTyped'
  BY DEF AheadInv, CountsTyped
<1> QED  BY <1>1, <1>2, <1>3, <1>4 DEF AheadInv

LEMMA AheadWaits ==
  ASSUME AheadInv, UploadInv,
         PageTimeout \/ Cancel \/ Await \/ Acked \/ Stopped \/ MilestoneTimeout \/
         FinalTimeout \/ OrphanTimeout \/ UNCHANGED uploadVars
  PROVE  AheadInv'
<1> USE DEF pageVars, bridgeVars
<1>0. ~late => Paced
  BY DEF AheadInv
\* The wait of a milestone is over: the next batch.
<1>1. CASE Acked /\ thread = "milestone" /\ uploading
  <2>1. /\ ack /\ thread' = "send" /\ batch' = batch + 1
        /\ UNCHANGED <<page, upload, late, offset, uploading, heard, toDevice, toPage, deviceVars>>
    BY <1>1 DEF Acked
  <2>2. /\ (batch + 1) * Step = batch * Step + Step /\ batch * Step \in Nat
        /\ (batch + 1) - 2 = batch - 1
    BY UploadAssumption DEF AheadInv, CountsTyped
  <2>3. ~late => Paced'
    <3>1. Pct(offset) \in Nat
      BY CountsMessages
    <3> QED  BY <1>0, <1>1, <2>1, <2>2, <3>1, UploadAssumption DEF Paced, Reached
  <2> QED  BY <1>1, <2>1, <2>3, AheadLeaving
<1>2. CASE \/ PageTimeout \/ Cancel \/ Await \/ Stopped \/ MilestoneTimeout
           \/ FinalTimeout \/ OrphanTimeout \/ UNCHANGED uploadVars
           \/ Acked /\ ~(thread = "milestone" /\ uploading)
  <2>1. /\ page' \in {page, "idle"}
        /\ UNCHANGED <<upload, late, offset, batch, heard, toDevice, toPage, deviceVars>>
        /\ thread' # "none" => thread # "none"
        /\ thread' = "milestone" /\ ack' => thread = "milestone" /\ ack
        /\ page' # "watching" /\ uploading' /\ thread' # "none" => page # "watching" /\ uploading
    BY <1>2
       DEF PageTimeout, Cancel, Await, Acked, Stopped, MilestoneTimeout, FinalTimeout, OrphanTimeout,
           ThreadEnds, Tells, uploadVars, deviceVars
  <2>2. ~late => Paced'
    BY <1>0, <2>1 DEF Paced, Reached
  <2> QED  BY <2>1, <2>2, AheadLeaving
<1> QED  BY <1>1, <1>2

\* No answer to the start can have come before it.
LEMMA AheadStart ==
  ASSUME AheadInv, UploadInv, PageStart
  PROVE  AheadInv'
<1> DEFINE m == [kind |-> "start", upload |-> upload + 1, n |-> 0]
<1>1. /\ page = "idle" /\ page' = "starting" /\ upload' = upload + 1 /\ upload \in Nat
      /\ toDevice' = Append(toDevice, m) /\ late' = late
      /\ UNCHANGED <<bridgeVars, toPage, deviceVars>>
  BY DEF PageStart, UploadInv, UploadTypeOK
<1>2. /\ Len(toDevice') = Len(toDevice) + 1 /\ Len(toDevice) \in Nat
      /\ \A i \in 1..Len(toDevice) : toDevice'[i] = toDevice[i]
      /\ toDevice'[Len(toDevice) + 1] = m
  BY <1>1 DEF UploadInv, UploadTypeOK
<1>3. CountsTyped'
  BY <1>1 DEF AheadInv, CountsTyped, bridgeVars, deviceVars
<1>4. ASSUME ~late PROVE Reported' /\ Paced' /\ Over' /\ Fresh'
  <2>1. Reported' /\ Paced'
    BY <1>1 DEF Reported, Paced
  <2>2. \A i \in 1..Len(toDevice') : toDevice'[i].kind = "chunk" => i \in 1..Len(toDevice) /\ toDevice[i].kind = "chunk"
    <3>1. \A i \in 1..Len(toDevice') : i \in 1..Len(toDevice) \/ i = Len(toDevice) + 1
      BY <1>2
    <3> QED  BY <1>2, <3>1
  <2>3. Over'
    BY <1>1, <1>4, <2>2 DEF AheadInv, Over, IsProgress, bridgeVars
  <2>4. \A i \in 1..Len(toPage) : toPage[i].upload <= upload /\ toPage[i].upload \in Nat
    BY <1>4, CountsMessages DEF UploadInv, InOrder, Numbered
  <2>5. Fresh'
    BY <1>1, <2>4 DEF Fresh
  <2> QED  BY <2>1, <2>3, <2>5
<1> QED  BY <1>1, <1>3, <1>4 DEF AheadInv

\* The file goes to the bridge: nothing is told of it yet.
LEMMA AheadReady ==
  ASSUME AheadInv, UploadInv, toPage # <<>>, toPage' = Tail(toPage), Head(toPage).kind = "ready",
         page = "starting", Ready(Head(toPage)), UNCHANGED deviceVars
  PROVE  AheadInv'
<1> DEFINE m == Head(toPage)
<1>1. /\ page' = "watching" /\ upload' = upload /\ offset' = 0 /\ batch' = 1 /\ heard' = -1
      /\ thread' = "send" /\ toDevice' = toDevice /\ late' = (late \/ m.upload # upload)
  BY DEF Ready
<1>2. /\ m = toPage[1] /\ 1 \in 1..Len(toPage) /\ Len(toPage) \in Nat
      /\ Len(toPage') = Len(toPage) - 1
  BY Popped DEF UploadInv, UploadTypeOK
<1>3. CountsTyped'
  BY <1>1, UploadAssumption DEF AheadInv, CountsTyped, deviceVars
<1>4. ASSUME ~late' PROVE Reported' /\ Paced' /\ Over' /\ Fresh'
  <2>1. ~late /\ InOrder /\ m.upload = upload
    BY <1>1, <1>4 DEF UploadInv
  <2>2. Len(toPage) = 1 /\ toDevice = <<>> /\ lastPct = -1
    BY <1>2, <2>1 DEF InOrder, Starting, AheadInv, Fresh
  <2>3. Len(toPage') = 0 /\ 1..0 = {}
    BY <1>2, <2>2
  <2>4. Pct(written') \in Nat /\ Pct(0) = 0
    <3>1. Pct(written) \in Nat /\ 0 * Full = 0 /\ Total \in Nat \ {0}
      BY CountsMessages, UploadAssumption
    <3>2. 0 \div Total = 0
      BY <3>1
    <3> QED  BY <3>1, <3>2 DEF Pct, deviceVars
  <2>5. Reported'
    <3>1. \A i \in 1..Len(toPage') : FALSE
      BY <2>3
    <3>2. heard' <= lastPct' /\ lastPct' <= Pct(written)'
      BY <1>1, <2>2, <2>4 DEF deviceVars
    <3> QED  BY <3>1, <3>2 DEF Reported, Told100
  <2>6. (batch' - 2) * Step = -Step /\ batch' * Step = Step
    BY <1>1, UploadAssumption
  <2>7. Paced'
    BY <1>1, <2>4, <2>6, UploadAssumption DEF Paced, Reached
  <2> QED  BY <1>1, <2>5, <2>7 DEF Over, Fresh
<1> QED  BY <1>3, <1>4 DEF AheadInv

\* A progress is heard: the next is beyond it.
LEMMA AheadProgress ==
  ASSUME AheadInv, UploadInv, toPage # <<>>, toPage' = Tail(toPage), Head(toPage).kind = "progress",
         Progress(Head(toPage)), UNCHANGED deviceVars
  PROVE  AheadInv'
<1> DEFINE m == Head(toPage)
<1>1. /\ m = toPage[1] /\ 1 \in 1..Len(toPage) /\ Len(toPage) \in Nat /\ IsProgress(1)
      /\ m.n \in Nat /\ Len(toPage') = Len(toPage) - 1
      /\ \A i \in 1..Len(toPage') : /\ i + 1 \in 1..Len(toPage) /\ 1 < i + 1
                                    /\ toPage'[i] = toPage[i + 1] /\ toPage'[i].n \in Nat
  <2>1. /\ m = toPage[1] /\ 1 \in 1..Len(toPage) /\ Len(toPage) \in Nat
        /\ Len(toPage') = Len(toPage) - 1
        /\ \A i \in 1..Len(toPage') : i + 1 \in 1..Len(toPage) /\ toPage'[i] = toPage[i + 1]
    BY Popped DEF UploadInv, UploadTypeOK
  <2> QED  BY <2>1, CountsMessages DEF IsProgress
<1>2. /\ heard' = m.n /\ ack' = TRUE
      /\ UNCHANGED <<upload, late, thread, offset, batch, uploading>>
      /\ UNCHANGED <<running, written, lastPct>>
  BY DEF Progress, deviceVars
<1>3. CountsTyped'
  BY <1>1, <1>2 DEF AheadInv, CountsTyped
<1> HIDE DEF m
<1>4. CASE ~late /\ page = "watching"
  <2>1. /\ Beyond(m.n, heard) /\ (running => heard <= lastPct /\ lastPct <= Pct(written) /\ m.n <= lastPct)
        /\ \A i \in 1..Len(toPage') : IsProgress(i)' => Beyond(toPage'[i].n, m.n)
        /\ \A i, j \in 1..Len(toPage') :
             i < j /\ IsProgress(i)' /\ IsProgress(j)' => Beyond(toPage'[j].n, toPage'[i].n)
        /\ running => \A i \in 1..Len(toPage') : IsProgress(i)' => toPage'[i].n <= lastPct
        /\ Told100' => Told100
    <3>0. Reported
      BY <1>4 DEF AheadInv
    <3>1. Beyond(m.n, heard) /\ (running => heard <= lastPct /\ lastPct <= Pct(written) /\ m.n <= lastPct)
      BY <1>1, <1>4, <3>0 DEF Reported
    <3>2. \A i \in 1..Len(toPage') : IsProgress(i)' => IsProgress(i + 1)
      BY <1>1 DEF IsProgress
    <3>3. \A i \in 1..Len(toPage') : IsProgress(i)' => Beyond(toPage'[i].n, m.n)
      BY <1>1, <1>4, <3>0, <3>2 DEF Reported
    <3>4. ASSUME NEW i \in 1..Len(toPage'), NEW j \in 1..Len(toPage'), i < j, IsProgress(i)', IsProgress(j)'
          PROVE  Beyond(toPage'[j].n, toPage'[i].n)
      <4>1. i + 1 < j + 1
        BY <3>4
      <4> QED  BY <1>1, <1>4, <3>0, <3>2, <3>4, <4>1 DEF Reported
    <3>5. running => \A i \in 1..Len(toPage') : IsProgress(i)' => toPage'[i].n <= lastPct
      BY <1>1, <1>4, <3>0, <3>2 DEF Reported
    <3>6. Told100' => Told100
      BY <1>1, <3>2 DEF Told100
    <3> QED  BY <3>1, <3>3, <3>4, <3>5, <3>6
  <2>2. thread # "none" => Reached(batch - 1)'
    <3>1. ASSUME thread # "none" PROVE heard >= Full \/ heard >= (batch - 2) * Step
      BY <1>4, <3>1 DEF AheadInv, Paced, Reached
    <3> QED  BY <1>1, <1>2, <2>1, <3>1, OneMoreReached DEF AheadInv, CountsTyped, Reached
  <2>3. CASE m.n >= Full
    <3>1. page' = "pausing"
      BY <1>4, <2>3 DEF Progress, m
    <3>2. toDevice = <<>> /\ toDevice' = toDevice
      BY <1>1, <1>4, <2>3 DEF AheadInv, Reported, Told100, Progress
    <3>3. \A i \in 1..Len(toDevice') : toDevice'[i].kind # "chunk"
      BY <3>2
    <3>4. \A i \in 1..Len(toPage') : IsProgress(i)' => toPage'[i].n >= Full
      BY <1>1, <2>1, <2>3, UploadAssumption DEF Beyond
    <3> QED  BY <1>2, <1>3, <2>3, <3>1, <3>3, <3>4 DEF AheadInv, Reported, Paced, Over, Fresh
  <2>4. CASE ~(m.n >= Full)
    <3>1. page' = page /\ toDevice' = toDevice
      BY <1>4, <2>4 DEF Progress, m
    <3>2. Reported'
      BY <1>2, <1>4, <2>1, <3>1 DEF AheadInv, Reported
    <3>3. Reached(batch - 1)' => Reached(batch - 2)'
      <4>1. (batch - 1) * Step = (batch - 2) * Step + Step /\ (batch - 2) * Step \in Int
        BY UploadAssumption DEF AheadInv, CountsTyped
      <4> QED  BY <1>1, <1>2, <4>1, UploadAssumption DEF Reached
    <3>4. Paced'
      BY <1>2, <1>4, <2>2, <3>1, <3>3 DEF AheadInv, Paced
    <3> QED  BY <1>2, <1>3, <1>4, <3>1, <3>2, <3>4 DEF AheadInv, Over, Fresh
  <2> QED  BY <2>3, <2>4
<1>5. CASE ~late /\ page # "watching"
  <2>1. page' = page /\ toDevice' = toDevice
    BY <1>5 DEF Progress
  <2>2. Reported' /\ Paced'
    BY <1>5, <2>1 DEF Reported, Paced
  <2>3. Over'
    BY <1>1, <1>2, <1>5, <2>1 DEF AheadInv, Over, IsProgress
  <2>4. Fresh'
    BY <1>1, <1>2, <1>5, <2>1 DEF AheadInv, Fresh
  <2> QED  BY <1>3, <2>2, <2>3, <2>4 DEF AheadInv
<1> QED  BY <1>2, <1>3, <1>4, <1>5 DEF AheadInv

\* A message to the page is gone, and nobody heard of it.
LEMMA AheadPageTail ==
  ASSUME AheadInv, UploadInv, toPage # <<>>, toPage' = Tail(toPage),
         page' \in {page, "idle"}, page' # page => page # "watching",
         UNCHANGED <<upload, late, bridgeVars, toDevice, deviceVars>>
  PROVE  AheadInv'
<1> USE DEF bridgeVars, deviceVars
<1>1. \A i \in 1..Len(toPage') : /\ i \in Nat /\ i + 1 \in 1..Len(toPage)
                                 /\ toPage'[i] = toPage[i + 1] /\ (IsProgress(i)' <=> IsProgress(i + 1))
  <2>1. \A i \in 1..Len(toPage') : i \in Nat /\ i + 1 \in 1..Len(toPage) /\ toPage'[i] = toPage[i + 1]
    BY Popped DEF UploadInv, UploadTypeOK
  <2> QED  BY <2>1 DEF IsProgress
<1>2. CountsTyped'
  BY DEF AheadInv, CountsTyped
<1>3. ASSUME Reported, page' = page PROVE Reported'
  <2>1. \A i, j \in 1..Len(toPage') : i < j => i + 1 < j + 1
    BY <1>1
  <2>2. Told100' => Told100
    BY <1>1 DEF Told100
  <2> QED  BY <1>1, <1>3, <2>1, <2>2 DEF Reported
<1>4. page' # page => page' # "watching" /\ page' # "starting"
  OBVIOUS
<1>5. ~late => Reported' /\ Paced' /\ Over' /\ Fresh'
  <2>1. ~late => Reported'
    BY <1>3, <1>4 DEF AheadInv, Reported
  <2>2. ~late => Paced'
    BY <1>4 DEF AheadInv, Paced, Reached
  <2>3. ~late => Over'
    BY <1>1, <1>4 DEF AheadInv, Over
  <2>4. ~late => Fresh'
    BY <1>1, <1>4 DEF AheadInv, Fresh
  <2> QED  BY <2>1, <2>2, <2>3, <2>4
<1> QED  BY <1>2, <1>5 DEF AheadInv

\* The end on its way to the device is no chunk.
LEMMA AheadEnds ==
  ASSUME AheadInv, UploadInv, PageEnd \/ StrayEnd
  PROVE  AheadInv'
<1>1. PICK e \in Messages : e.kind = "end" /\ toDevice' = Append(toDevice, e)
  <2>1. upload \in Nat /\ strays \subseteq Nat /\ "end" \in Kinds
    BY DEF Kinds, UploadInv, UploadTypeOK
  <2>2. \A u \in Nat : /\ [kind |-> "end", upload |-> u, n |-> 0] \in Messages
                       /\ [kind |-> "end", upload |-> u, n |-> 0].kind = "end"
    BY <2>1 DEF Messages
  <2> QED  BY <2>1, <2>2 DEF PageEnd, StrayEnd, Message
<1>2. /\ UNCHANGED <<upload, bridgeVars, toPage, deviceVars>>
      /\ page' \in {page, "ending"} /\ (page' # page => page = "pausing")
  BY DEF PageEnd, StrayEnd
<1>5. late => late'
  BY Zenon DEF PageEnd, StrayEnd
<1> USE DEF bridgeVars, deviceVars
<1>3. CountsTyped'
  BY <1>2 DEF AheadInv, CountsTyped
<1>4. ASSUME ~late' PROVE Reported' /\ Paced' /\ Over' /\ Fresh'
  <2>1. ~late /\ InOrder
    BY <1>4, <1>5 DEF UploadInv
  <2>2. page' # "watching" /\ page # "watching"
    <3>1. CASE PageEnd
      BY <3>1 DEF PageEnd
    <3>2. CASE StrayEnd
      <4>1. PICK u \in strays : late' = (late \/ u # upload) /\ page' = page
        BY <3>2 DEF StrayEnd
      <4>2. u = upload
        BY <1>4, <4>1, Zenon
      <4>3. upload \in Nat
        BY DEF UploadInv, UploadTypeOK
      <4> QED  BY <2>1, <4>1, <4>2, <4>3 DEF InOrder, Numbered
    <3> QED  BY <3>1, <3>2
  <2>3. /\ Len(toDevice') = Len(toDevice) + 1 /\ Len(toDevice) \in Nat
        /\ \A i \in 1..Len(toDevice) : toDevice'[i] = toDevice[i]
        /\ toDevice'[Len(toDevice) + 1] = e
    BY <1>1, Pushed DEF UploadInv, UploadTypeOK
  <2>4. \A i \in 1..Len(toDevice') : i \in 1..Len(toDevice) \/ i = Len(toDevice) + 1
    BY <2>3
  <2>5. Over'
    BY <1>1, <1>2, <2>1, <2>2, <2>3, <2>4 DEF AheadInv, Over, IsProgress
  <2>6. Fresh'
    BY <1>2, <2>1 DEF AheadInv, Fresh
  <2> QED  BY <2>2, <2>5, <2>6 DEF Reported, Paced
<1> QED  BY <1>3, <1>4 DEF AheadInv

LEMMA AheadPageReceive ==
  ASSUME AheadInv, UploadInv, PageReceive
  PROVE  AheadInv'
<1> DEFINE m == Head(toPage)
<1>1. /\ toPage # <<>> /\ toPage' = Tail(toPage) /\ UNCHANGED deviceVars
      /\ \/ m.kind = "ready" /\ page = "starting" /\ Ready(m)
         \/ m.kind = "ready" /\ page # "starting" /\ UNCHANGED <<pageVars, bridgeVars, toDevice, trouble>>
         \/ m.kind = "progress" /\ Progress(m)
         \/ m.kind \in {"refused", "result"} /\ Finished(m)
  BY DEF PageReceive
<1>2. CASE \/ page # "starting" /\ UNCHANGED <<pageVars, bridgeVars, toDevice>>
           \/ Finished(m)
  <2>1. /\ page' \in {page, "idle"} /\ UNCHANGED <<upload, late, bridgeVars, toDevice>>
        /\ page' # page => page # "watching"
    BY <1>2 DEF Finished, pageVars
  <2> QED  BY <1>1, <2>1, AheadPageTail
<1> QED  BY <1>1, <1>2, AheadReady, AheadProgress

\* A chunk more of the batch; after the end was told none is left to send.
LEMMA AheadSendChunk ==
  ASSUME AheadInv, UploadInv, SendChunk
  PROVE  AheadInv'
<1>1. /\ thread = "send" /\ uploading /\ ~BatchSent /\ offset \in Nat /\ offset' = offset + 1
      /\ toDevice' = Append(toDevice, Message("chunk", offset + 1))
      /\ UNCHANGED <<pageVars, thread, batch, ack, uploading, heard, toPage, deviceVars>>
  BY DEF SendChunk, UploadInv, UploadTypeOK
<1>2. offset < Total /\ offset' <= Total
  BY <1>1, UploadAssumption DEF BatchSent
<1>3. offset' \in Nat /\ offset' <= Target /\ batch \in Nat
  <2>1. TargetPct \in Nat /\ batch \in Nat
    BY UploadAssumption DEF TargetPct, AheadInv, CountsTyped
  <2>2. TargetPct * Total + Full - 1 \in Nat
    <3>1. TargetPct * Total \in Nat
      BY <2>1, UploadAssumption
    <3> QED  BY <3>1, UploadAssumption
  <2>3. Target \in Nat
    BY <2>2, UploadAssumption DEF Target
  <2>4. offset < Target
    BY <1>1, <2>3 DEF BatchSent
  <2> QED  BY <1>1, <2>1, <2>3, <2>4
<1>4. Pct(offset') <= batch * Step + 1
  BY <1>3, TargetIsNear
<1>5. CountsTyped'
  BY <1>1, <1>2 DEF AheadInv, CountsTyped, pageVars, deviceVars
<1>6. ASSUME ~late PROVE Reported' /\ Paced' /\ Over' /\ Fresh'
  <2>1. page = "watching" /\ InOrder
    BY <1>1, <1>2, <1>6 DEF UploadInv, InOrder, SendsWatched
  <2>2. ~Told100
    <3>1. ASSUME Told100 PROVE FALSE
      <4>1. offset >= Total
        BY <2>1, <3>1 DEF Told100, IsProgress, InOrder, Watching
      <4> QED  BY <1>1, <1>2, <4>1, UploadAssumption
    <3> QED  BY <3>1
  <2>3. Reported'
    <3>1. UNCHANGED <<page, toPage, heard, running, lastPct, written>>
      BY <1>1 DEF pageVars, deviceVars
    <3> QED  BY <1>6, <2>2, <3>1 DEF AheadInv, Reported, IsProgress, Told100
  <2>4. Paced'
    BY <1>1, <1>4, <1>6, <2>1 DEF AheadInv, Paced, Reached, pageVars
  <2> QED  BY <1>1, <2>1, <2>3, <2>4 DEF Over, Fresh, pageVars
<1> QED  BY <1>1, <1>5, <1>6 DEF AheadInv, pageVars

\* A message to the device is gone, and the device did not tell of it.
LEMMA AheadDeviceTail ==
  ASSUME AheadInv, UploadInv, toDevice # <<>>, toDevice' = Tail(toDevice),
         UNCHANGED <<pageVars, bridgeVars, toPage, deviceVars>>
  PROVE  AheadInv'
<1> USE DEF pageVars, bridgeVars, deviceVars
<1>1. \A i \in 1..Len(toDevice') : i + 1 \in 1..Len(toDevice) /\ toDevice'[i] = toDevice[i + 1]
  BY Popped DEF UploadInv, UploadTypeOK
<1>2. CountsTyped'
  BY DEF AheadInv, CountsTyped
<1>3. ASSUME ~late PROVE Reported' /\ Paced' /\ Over' /\ Fresh'
  <2>1. Reported'
    BY <1>3 DEF AheadInv, Reported, IsProgress, Told100
  <2>2. Paced' /\ Fresh'
    BY <1>3 DEF AheadInv, Paced, Fresh, Reached
  <2>3. Over'
    BY <1>1, <1>3 DEF AheadInv, Over, IsProgress
  <2> QED  BY <2>1, <2>2, <2>3
<1> QED  BY <1>2, <1>3 DEF AheadInv

LEMMA AheadLose ==
  ASSUME AheadInv, UploadInv, Lose
  PROVE  AheadInv'
<1>1. CASE toDevice # <<>> /\ toDevice' = Tail(toDevice) /\ UNCHANGED toPage
  BY <1>1, AheadDeviceTail DEF Lose
<1>2. CASE toPage # <<>> /\ toPage' = Tail(toPage) /\ UNCHANGED toDevice
  BY <1>2, AheadPageTail DEF Lose, pageVars
<1> QED  BY <1>1, <1>2 DEF Lose

\* Power takes the device's counts: it runs no more, and tells nothing.
LEMMA AheadPowerCut ==
  ASSUME AheadInv, UploadInv, PowerCut
  PROVE  AheadInv'
<1>1. /\ running' = FALSE /\ lastPct' = -1
      /\ UNCHANGED <<page, upload, late, bridgeVars, toDevice, toPage>>
  BY DEF PowerCut, pageVars
<1> USE DEF bridgeVars
<1>2. CountsTyped'
  BY <1>1 DEF AheadInv, CountsTyped
<1>3. ASSUME ~late PROVE Reported' /\ Paced' /\ Over' /\ Fresh'
  <2>1. Reported'
    BY <1>1, <1>3 DEF AheadInv, Reported, IsProgress, Told100
  <2>2. Paced' /\ Fresh'
    BY <1>1, <1>3 DEF AheadInv, Paced, Fresh, Reached
  <2>3. Over'
    BY <1>1, <1>3 DEF AheadInv, Over, IsProgress
  <2> QED  BY <2>1, <2>2, <2>3
<1> QED  BY <1>1, <1>2, <1>3 DEF AheadInv

\* The device answers with something that is no progress.
LEMMA AheadAnswer ==
  ASSUME AheadInv, UploadInv, toDevice # <<>>, toDevice' = Tail(toDevice),
         Head(toDevice).kind \in {"start", "end"},
         NEW a \in Messages, a.kind # "progress", toPage' = Append(toPage, a),
         lastPct' = -1 \/ (lastPct' = lastPct /\ a.kind # "ready"),
         UNCHANGED <<pageVars, bridgeVars>>
  PROVE  AheadInv'
<1> USE DEF pageVars, bridgeVars
<1>1. /\ Head(toDevice) = toDevice[1] /\ 1 \in 1..Len(toDevice)
      /\ \A i \in 1..Len(toDevice') :
           i + 1 \in 1..Len(toDevice) /\ toDevice'[i] = toDevice[i + 1]
      /\ \A i \in 1..Len(toPage') :
           (i \in 1..Len(toPage) /\ toPage'[i] = toPage[i]) \/ (i = Len(toPage') /\ toPage'[i] = a)
  BY DeviceTyped DEF UploadInv
<1>2. CountsTyped'
  BY DEF AheadInv, CountsTyped
<1>3. ASSUME ~late PROVE Reported' /\ Paced' /\ Over' /\ Fresh'
  <2>1. page # "watching"
    BY <1>1, <1>3 DEF UploadInv, InOrder, Watching
  <2>2. Reported' /\ Paced'
    BY <2>1 DEF Reported, Paced
  <2>3. Over'
    BY <1>1, <1>3 DEF AheadInv, Over, IsProgress
  <2>4. Fresh'
    BY <1>1, <1>3 DEF AheadInv, Fresh
  <2> QED  BY <2>2, <2>3, <2>4
<1> QED  BY <1>2, <1>3 DEF AheadInv

LEMMA NothingLeft ==
  ASSUME NEW S, NEW s \in Seq(S), \A k \in 1..Len(s) : FALSE
  PROVE  s = <<>>
<1>1. Len(s) \in Nat /\ 1 \notin 1..Len(s)
  OBVIOUS
<1>2. Len(s) = 0
  BY <1>1
<1> QED  BY <1>2

\* What the device tells is beyond all it told of this upload, and after the end no
\* chunk is on its way.
LEMMA AheadChunk ==
  ASSUME AheadInv, UploadInv, UploadInv', toDevice # <<>>, toDevice' = Tail(toDevice),
         Head(toDevice).kind = "chunk", running, Chunk(Head(toDevice)),
         UNCHANGED <<pageVars, bridgeVars>>
  PROVE  AheadInv'
<1> USE DEF pageVars, bridgeVars
<1> DEFINE m == Head(toDevice)
           pct == Pct(written')
           a == [m EXCEPT !.kind = "progress", !.n = pct]
<1>1. /\ written' \in {written, written + 1} /\ running' = running
      /\ lastPct' = IF Told(pct) THEN pct ELSE lastPct
      /\ toPage' = IF Told(pct) THEN Append(toPage, a) ELSE toPage
  BY DEF Chunk
<1>2. /\ written \in Nat /\ written' \in Nat /\ pct \in Nat /\ Pct(written) <= pct
      /\ Pct(written) \in Nat /\ m \in Messages
  <2>1. written \in Nat /\ written' \in Nat /\ written <= written'
    BY <1>1 DEF UploadInv, UploadTypeOK
  <2>2. m \in Messages
    BY Popped DEF UploadInv, UploadTypeOK
  <2> QED  BY <2>1, <2>2, PctTyped, PctMonotone
<1>3. pct >= Full => written' >= Total
  BY <1>2, FullIsTotal
<1> HIDE DEF pct
<1>4. a \in Messages /\ a.kind = "progress" /\ a.n = pct
  <2> HIDE DEF m
  <2>1. "progress" \in Kinds
    BY DEF Kinds
  <2> QED  BY <1>2, <2>1 DEF a, Messages
<1> HIDE DEF a
<1>5. /\ m = toDevice[1] /\ 1 \in 1..Len(toDevice)
      /\ \A i \in 1..Len(toPage') :
           (i \in 1..Len(toPage) /\ toPage'[i] = toPage[i])
             \/ (i = Len(toPage') /\ toPage'[i] = a /\ Told(pct))
  <2>1. toPage' \in {toPage, Append(toPage, a)}
    BY <1>1
  <2>2. /\ m = toDevice[1] /\ 1 \in 1..Len(toDevice)
        /\ \A i \in 1..Len(toPage') :
             (i \in 1..Len(toPage) /\ toPage'[i] = toPage[i]) \/ (i = Len(toPage') /\ toPage'[i] = a)
    BY <1>4, <2>1, DeviceTyped DEF UploadInv
  <2>3. CASE Told(pct)
    BY <2>2, <2>3
  <2>4. CASE ~Told(pct)
    BY <1>1, <2>2, <2>4
  <2> QED  BY <2>3, <2>4
<1>6. CountsTyped'
  BY <1>1, <1>2 DEF AheadInv, CountsTyped
<1>7. CASE ~late /\ page # "watching"
  <2>1. m.kind = "chunk" /\ m = toDevice[1] /\ toDevice # <<>>
    BY <1>5
  <2>2. ~(uploading /\ thread # "none")
    BY <1>5, <1>7 DEF AheadInv, Over
  <2>3. ASSUME page = "starting", NEW i \in 1..Len(toPage'), toPage'[i].kind = "ready",
               toPage'[i].upload = upload
        PROVE  FALSE
    <3>1. i \in 1..Len(toPage) /\ toPage[i] = toPage'[i]
      BY <1>4, <1>5, <2>3
    <3> QED  BY <1>7, <2>1, <2>3, <3>1 DEF UploadInv, InOrder, Starting
  <2> QED  BY <1>6, <1>7, <2>2, <2>3 DEF AheadInv, Reported, Paced, Over, Fresh
<1>8. CASE ~late /\ page = "watching"
  <2>1. Reported /\ Paced /\ heard \in Int /\ heard >= -1 /\ lastPct \in Int /\ lastPct >= -1
    BY <1>8 DEF AheadInv, CountsTyped
  <2>2. /\ heard <= lastPct /\ lastPct <= Pct(written)
        /\ \A i \in 1..Len(toPage) : IsProgress(i) => toPage[i].n <= lastPct /\ toPage[i].n \in Nat
        /\ ~Told100
    BY <1>8, <2>1, CountsMessages DEF Reported
  <2>3. ASSUME Told(pct), NEW y \in Int, y >= -1, y <= lastPct PROVE Beyond(pct, y)
    BY <1>2, <2>1, <2>2, <2>3, UploadAssumption DEF Told, Beyond
  <2>4. lastPct <= lastPct' /\ lastPct' <= pct /\ (Told(pct) => lastPct' = pct) /\ lastPct' \in Int
    BY <1>1, <1>2, <2>1, <2>2
  <2>5. ASSUME NEW i \in 1..Len(toPage'), IsProgress(i)'
        PROVE  /\ Beyond(toPage'[i].n, heard) /\ toPage'[i].n <= lastPct'
               /\ \/ i \in 1..Len(toPage) /\ toPage'[i] = toPage[i] /\ IsProgress(i)
                  \/ i = Len(toPage') /\ toPage'[i].n = pct /\ Told(pct)
    <3>1. CASE i \in 1..Len(toPage) /\ toPage'[i] = toPage[i]
      <4>1. IsProgress(i) /\ toPage[i].n \in Nat /\ toPage[i].n <= lastPct
        BY <2>2, <2>5, <3>1 DEF IsProgress
      <4>2. Beyond(toPage[i].n, heard)
        BY <1>8, <2>1, <3>1, <4>1 DEF Reported
      <4> QED  BY <2>1, <2>4, <3>1, <4>1, <4>2
    <3>2. CASE i = Len(toPage') /\ toPage'[i] = a /\ Told(pct)
      <4>1. Beyond(pct, heard)
        BY <2>1, <2>2, <2>3, <3>2
      <4> QED  BY <1>2, <1>4, <2>4, <3>2, <4>1
    <3> QED  BY <1>5, <3>1, <3>2
  <2>6. ASSUME NEW i \in 1..Len(toPage'), NEW j \in 1..Len(toPage'), i < j, IsProgress(i)', IsProgress(j)'
        PROVE  Beyond(toPage'[j].n, toPage'[i].n)
    <3>0. Len(toPage') \in Nat
      BY DEF UploadInv, UploadTypeOK
    <3>1. i \in 1..Len(toPage) /\ toPage'[i] = toPage[i] /\ IsProgress(i)
      BY <2>5, <2>6, <3>0
    <3>2. CASE j \in 1..Len(toPage) /\ toPage'[j] = toPage[j] /\ IsProgress(j)
      BY <1>8, <2>1, <2>6, <3>1, <3>2 DEF Reported
    <3>3. CASE toPage'[j].n = pct /\ Told(pct)
      BY <2>2, <2>3, <3>1, <3>3
    <3> QED  BY <2>5, <2>6, <3>2, <3>3
  <2>7. Told100' => toDevice' = <<>>
    <3> SUFFICES ASSUME Told100' PROVE toDevice' = <<>>
      OBVIOUS
    <3>1. PICK i \in 1..Len(toPage') : IsProgress(i)' /\ toPage'[i].n >= Full
      BY DEF Told100
    <3>2. pct >= Full
      BY <2>2, <2>5, <3>1 DEF Told100
    <3>3. /\ written' >= Total /\ offset <= Total /\ offset \in Nat /\ toDevice' \in Seq(Messages)
      BY <1>3, <1>6, <3>2 DEF CountsTyped, UploadInv, UploadTypeOK
    <3>4. \A k \in 1..Len(toDevice') : FALSE
      <4>1. Watching'
        BY <1>8 DEF UploadInv, InOrder
      <4>2. \A k \in 1..Len(toDevice') : toDevice'[k].n \in Nat /\ toDevice'[k].n <= offset /\ written' < toDevice'[k].n
        BY <1>8, <3>3, <4>1, MessageTyped DEF Watching
      <4> QED  BY <1>2, <3>3, <4>2, UploadAssumption
    <3> QED  BY <3>3, <3>4, NothingLeft
  <2>8. Reported'
    <3>1. heard' <= lastPct' /\ lastPct' <= Pct(written)'
      BY <2>1, <2>2, <2>4 DEF pct
    <3> QED  BY <2>5, <2>6, <2>7, <3>1 DEF Reported
  <2> QED  BY <1>6, <1>8, <2>1, <2>8 DEF AheadInv, Paced, Over, Fresh, Reached
<1> QED  BY <1>6, <1>7, <1>8 DEF AheadInv

LEMMA AheadDeviceReceive ==
  ASSUME AheadInv, UploadInv, UploadInv', DeviceReceive
  PROVE  AheadInv'
<1> DEFINE m == Head(toDevice)
<1>1. /\ toDevice # <<>> /\ toDevice' = Tail(toDevice) /\ UNCHANGED <<pageVars, bridgeVars>>
      /\ \/ m.kind = "start" /\ Start(m)
         \/ m.kind = "chunk" /\ Chunk(m)
         \/ m.kind = "end" /\ End(m)
  BY DEF DeviceReceive
<1>2. m \in Messages /\ {"ready", "refused", "result"} \subseteq Kinds
  BY <1>1, Popped DEF Kinds, UploadInv, UploadTypeOK
<1> HIDE DEF m
<1>3. CASE m.kind = "start" /\ Start(m)
  <2>1. PICK k \in {"ready", "refused"} : lastPct' = -1 /\ toPage' = Append(toPage, [m EXCEPT !.kind = k])
    BY <1>3 DEF Start
  <2>2. [m EXCEPT !.kind = k] \in Messages /\ [m EXCEPT !.kind = k].kind # "progress"
    BY <1>2, <2>1, AnswerTyped
  <2> QED  BY <1>1, <1>3, <2>1, <2>2, AheadAnswer DEF m
<1>4. CASE running /\ m.kind = "chunk" /\ Chunk(m)
  BY <1>1, <1>4, AheadChunk DEF m
<1>5. CASE running /\ m.kind = "end" /\ End(m)
  <2>1. lastPct' = lastPct /\ toPage' = Append(toPage, [m EXCEPT !.kind = "result"])
    BY <1>5 DEF End
  <2>2. [m EXCEPT !.kind = "result"] \in Messages /\ [m EXCEPT !.kind = "result"].kind = "result"
    BY <1>2, AnswerTyped
  <2> QED  BY <1>1, <1>5, <2>1, <2>2, AheadAnswer DEF m
<1>6. CASE ~running /\ (Chunk(m) \/ End(m))
  BY <1>1, <1>6, AheadDeviceTail DEF Chunk, End
<1> QED  BY <1>1, <1>3, <1>4, <1>5, <1>6

LEMMA AheadStep ==
  ASSUME AheadInv, UploadInv, UploadInv', [UploadNext]_uploadVars
  PROVE  AheadInv'
BY AheadStart, AheadPageReceive, AheadEnds, AheadWaits, AheadSendChunk, AheadDeviceReceive, AheadPowerCut,
   AheadLose DEF UploadNext, Bridge

\* The bridge is never more than two milestones ahead of the progress it heard, for every
\* size of the file and of the milestones: any progress answers for any milestone, but
\* for one only, as _ota_ack is cleared after every batch.
THEOREM AheadBounded == UploadSafety => []AheadIsBounded
<1>1. UploadInv /\ UploadInv' /\ AheadInv /\ [UploadNext]_uploadVars => AheadInv'
  BY AheadStep
<1>2. UploadInv /\ AheadInv => AheadIsBounded
  <2> SUFFICES ASSUME UploadInv, AheadInv, thread # "none", uploading, ~late
               PROVE  Pct(offset) <= heard + 2 * Step + 1
    BY DEF AheadIsBounded
  <2>1. Pct(offset) \in Nat /\ Pct(offset) <= Full /\ heard \in Int /\ batch \in Nat \ {0}
    BY PctAtMost, CountsMessages DEF AheadInv, CountsTyped
  <2>2. CASE heard >= Full
    BY <2>1, <2>2, UploadAssumption
  <2>3. CASE ~(heard >= Full)
    <3>1. Pct(offset) <= batch * Step + 1 /\ heard >= (batch - 2) * Step
      BY <2>3 DEF AheadInv, Over, Paced, Reached
    <3>2. batch * Step = (batch - 2) * Step + 2 * Step
      BY <2>1, UploadAssumption
    <3>3. (batch - 2) * Step \in Int /\ Step \in Nat
      BY <2>1, UploadAssumption
    <3> QED  BY <2>1, <3>1, <3>2, <3>3
  <2> QED  BY <2>2, <2>3
<1> QED  BY UploadInvariant, AheadInitInv, <1>1, <1>2, PTL DEF UploadSafety

-----------------------------------------------------------------------------
(* The boot guard *)

USE GuardAssumption

\* The firmware of a new device starts in the invariant.
LEMMA GuardInitInv == GuardInit => GuardInv
BY DEF GuardInit, GuardInv, GuardTypeOK, Phases, InOta

\* Power cuts, reboots and the button keep the invariant in every phase.
LEMMA WorldInv == GuardInv /\ World => GuardInv'
<1>1. SUFFICES ASSUME GuardInv, World PROVE GuardInv'
  OBVIOUS
<1> USE DEF GuardInv, GuardTypeOK, Phases, InOta, history
<1>2. CASE PowerOn
  BY <1>1, <1>2 DEF PowerOn
<1>3. CASE PowerOff
  BY <1>1, <1>3 DEF PowerOff
<1>4. CASE MoveButton
  BY <1>1, <1>4 DEF MoveButton
<1>5. CASE Reboot
  BY <1>1, <1>5 DEF Reboot
<1>6. QED
  BY <1>1, <1>2, <1>3, <1>4, <1>5 DEF World

\* The guard's decision at boot keeps it: the flash and the history change together.
LEMMA DecisionInv ==
  GuardInv /\ (GuardSkips \/ GuardDisarms \/ GuardArms \/ GuardAsks) => GuardInv'
<1>1. SUFFICES ASSUME GuardInv, GuardSkips \/ GuardDisarms \/ GuardArms \/ GuardAsks
               PROVE  GuardInv'
  OBVIOUS
<1> USE DEF GuardInv, GuardTypeOK, Phases, InOta, history, Skipped
<1>2. CASE GuardSkips
  BY <1>1, <1>2 DEF GuardSkips
<1>3. CASE GuardDisarms
  BY <1>1, <1>3 DEF GuardDisarms, otaStateRead, otaStateWrite, Stored
<1>4. CASE GuardArms
  BY <1>1, <1>4 DEF GuardArms, otaStateRead, otaStateWrite, Stored
<1>5. CASE GuardAsks
  BY <1>1, <1>5 DEF GuardAsks, otaStateRead, Stored
<1>6. QED
  BY <1>1, <1>2, <1>3, <1>4, <1>5

\* The two loops of the pattern keep it: the hold loop ends with every poll
\* having seen the button.
LEMMA PatternInv == GuardInv /\ Pattern => GuardInv'
<1>1. SUFFICES ASSUME GuardInv, Pattern PROVE GuardInv'
  OBVIOUS
<1> USE DEF GuardInv, GuardTypeOK, Phases, InOta, history
<1>2. CASE HoldPoll
  <2>0. phase = "hold" /\ (\/ clock' = clock + 1 /\ held' = held + 1
                           \/ phase' = "normal" /\ clock' = clock /\ held' = held)
    BY <1>2, Zenon DEF HoldPoll
  <2> clock \in Nat /\ held \in Nat /\ (phase = "hold" => held = clock)
    BY <1>1
  <2>1. clock' \in Nat /\ held' \in Nat /\ (phase' = "hold" => held' = clock')
    BY <2>0
  <2>2. phase' \in {"hold", "normal"} /\ UNCHANGED <<cause, kv, pressed, reason>>
    BY <1>1, <1>2 DEF HoldPoll
  <2>3. QED
    BY <1>1, <1>2, <2>1, <2>2 DEF HoldPoll
<1>3. CASE HoldDone
  BY <1>1, <1>3 DEF HoldDone
<1>4. CASE ReleasePoll
  <2>0. clock' = clock + 1 /\ UNCHANGED <<cause, kv, reason, held>>
    BY <1>4, Zenon DEF ReleasePoll
  <2> clock \in Nat
    BY <1>1
  <2>1. clock' \in Nat
    BY <2>0
  <2>2. phase' \in {"release", "wifi"} /\ pressed' \in BOOLEAN /\ phase = "release"
    BY <1>1, <1>4 DEF ReleasePoll
  <2>3. QED
    BY <1>1, <2>0, <2>1, <2>2
<1>5. CASE ReleaseMissed
  BY <1>1, <1>5 DEF ReleaseMissed
<1>6. QED
  BY <1>1, <1>2, <1>3, <1>4, <1>5 DEF Pattern

\* The one attempt keeps it.
LEMMA AttemptInv == GuardInv /\ Upload => GuardInv'
BY DEF GuardInv, GuardTypeOK, Phases, InOta, history, Restart,
       Upload, WifiFails, WifiConnects, DownloadEnds

\* Every step keeps it.
LEMMA GuardStepInv == GuardInv /\ [GuardNext]_guardVars => GuardInv'
<1>1. SUFFICES ASSUME GuardInv, [GuardNext]_guardVars PROVE GuardInv'
  OBVIOUS
<1>2. CASE UNCHANGED guardVars
  BY <1>1, <1>2 DEF guardVars, GuardInv, GuardTypeOK, Phases, InOta
<1>3. QED
  BY <1>1, <1>2, WorldInv, DecisionInv, PatternInv, AttemptInv DEF GuardNext, Guard

-----------------------------------------------------------------------------

\* The invariant of the boot guard, through any number of power cuts.
THEOREM GuardInvariant == GuardSafety => []GuardInv
<1>1. GuardInit => GuardInv
  BY GuardInitInv
<1>2. GuardInv /\ [GuardNext]_guardVars => GuardInv'
  BY GuardStepInv
<1>3. QED
  BY <1>1, <1>2, PTL DEF GuardSafety

\* The boot is taken over only after a full hold, and only after an arming boot
\* that still counts or a flash error in the boot that was to disarm (OtaBootGuard.cpp:288-321).
THEOREM TakeoverOnPurpose == GuardSafety => []TakeoverIsMeant
<1>1. GuardInv => TakeoverIsMeant
  BY DEF GuardInv, GuardTypeOK, TakeoverIsMeant, InOta
<1>2. QED
  BY <1>1, GuardInvariant, PTL

\* No reboot of the firmware itself takes the boot over (OtaBootGuard.cpp:291).
THEOREM AttemptsNeedPower == GuardSafety => []OneAttemptPerPowerOn
<1>1. GuardInv => OneAttemptPerPowerOn
  BY DEF GuardInv, OneAttemptPerPowerOn
<1>2. QED
  BY <1>1, GuardInvariant, PTL
=============================================================================
