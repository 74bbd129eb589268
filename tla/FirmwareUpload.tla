---------------------------- MODULE FirmwareUpload ---------------------------
(***************************************************************************)
(* A firmware upload over MQTT: the page (uploader.js), the bridge that    *)
(* cuts the file into chunks and waits for the device's progress           *)
(* (bridge_server.py), the broker, and the device (CommandHandler,         *)
(* OTAManager, the Update library).  Messages of a direction arrive in     *)
(* order or are lost (QoS 0); the device may lose power; writes may fail.  *)
(*                                                                         *)
(* A chunk is one unit of the file.  100 percent are Full, the 5 percent   *)
(* of a milestone are Step.                                                *)
(***************************************************************************)
EXTENDS Integers, Sequences

CONSTANTS Total,      \* chunks of the file
          Full, Step,
          MaxUploads  \* bound: uploads the page starts

ASSUME UploadAssumption ==
  /\ Total \in Nat /\ Full \in Nat \ {0} /\ Step \in Nat \ {0} /\ MaxUploads \in Nat
  /\ Total >= Full

VARIABLES page, upload,       \* where the page is, with which upload
          strays,             \* uploads stopped while their flow paused before the end
          thread,             \* where the bridge's latest upload thread is,
          offset, batch,      \*   its offset and batch_idx,
          ack,                \*   and its event _ota_ack
          uploading,          \* the flag all upload threads share
          orphans,            \* threads that wait on the event of an old upload, by where
          toDevice, toPage,   \* messages under way
          running, written,   \* OTAManager::_running, _written
          lastPct,            \* of the device's progress messages
          update,             \* the Update library: closed, open, failed
          source,             \* history: the upload whose beginning was written, 0: none
          image,              \* history: what was last activated
          heard,              \* history: the progress the bridge last received
          late,               \* history: the page took an answer to an earlier start,
                              \*   or an old flow sent its end into a newer upload
          trouble             \* history: what may keep this upload from its end

pageVars   == <<page, upload, strays, late>>
bridgeVars == <<thread, offset, batch, ack, uploading, orphans, heard>>
deviceVars == <<running, written, lastPct, update, source, image>>
uploadVars == <<pageVars, bridgeVars, toDevice, toPage, deviceVars, trouble>>

Pct(n) == (n * Full) \div Total
Message(kind, n) == [kind |-> kind, upload |-> upload, n |-> n]

-----------------------------------------------------------------------------
(* The page *)

PageStart ==
  /\ page = "idle" /\ upload < MaxUploads
  /\ page' = "starting" /\ upload' = upload + 1 /\ trouble' = FALSE
  /\ toDevice' = Append(toDevice, [kind |-> "start", upload |-> upload + 1, n |-> 0])
  /\ UNCHANGED <<strays, late, bridgeVars, toPage, deviceVars>>

Waits == {"milestone", "final"}

\* The device is ready: the file goes to the bridge, whose thread starts anew.
\* A thread that slept (100 ms) when its upload was cancelled has ended by now, and
\* so has one whose event was set; one that waits (60 s) goes on waiting, on an
\* event that nobody sets.
Ready(m) ==
  /\ page = "starting" /\ (thread \in Waits => ~ack) /\ thread # "send"
  /\ page' = "watching" /\ UNCHANGED <<upload, strays>>
  /\ uploading' = TRUE /\ thread' = "send" /\ offset' = 0 /\ batch' = 1
  /\ ack' = FALSE /\ heard' = -1
  /\ orphans' = IF thread \in Waits THEN [orphans EXCEPT ![thread] = @ + 1] ELSE orphans
  /\ late' = (late \/ m.upload # upload)
  /\ trouble' = (trouble \/ m.upload # upload)
  /\ UNCHANGED toDevice

\* on_message: the progress sets the event and is shown; at 100 percent the page
\* looks at _cancelled and pauses for 2 s before it ends the upload.
Progress(m) ==
  /\ ack' = TRUE /\ heard' = m.n
  /\ page' = IF page = "watching" /\ m.n >= Full THEN "pausing" ELSE page
  /\ UNCHANGED <<upload, strays, late, thread, offset, batch, uploading, orphans, toDevice,
                 trouble>>

\* beginUploadFirmwareFailed, otaResult
Finished(m) ==
  /\ page' = IF \/ m.kind = "refused" /\ page = "starting"
                \/ m.kind = "result" /\ page = "ending"
             THEN "idle" ELSE page
  /\ UNCHANGED <<upload, strays, late, bridgeVars, toDevice, trouble>>

PageReceive ==
  LET m == Head(toPage)
  IN /\ toPage # <<>> /\ toPage' = Tail(toPage)
     /\ \/ m.kind = "ready" /\ page = "starting" /\ Ready(m)
        \/ m.kind = "ready" /\ page # "starting"
           /\ UNCHANGED <<pageVars, bridgeVars, toDevice, trouble>>
        \/ m.kind = "progress" /\ Progress(m)
        \/ m.kind \in {"refused", "result"} /\ Finished(m)
     /\ UNCHANGED deviceVars

\* After the pause.
PageEnd ==
  /\ page = "pausing" /\ page' = "ending"
  /\ toDevice' = Append(toDevice, Message("end", 0))
  /\ UNCHANGED <<upload, strays, late, bridgeVars, toPage, deviceVars, trouble>>

\* _waitForResponse gives up after 10 s.
PageTimeout ==
  /\ page \in {"starting", "ending"} /\ page' = "idle"
  /\ UNCHANGED <<upload, strays, late, bridgeVars, toDevice, toPage, deviceVars, trouble>>

\* stopUpload; the device is not told, and a flow that pauses goes on.
Cancel ==
  /\ page \in {"watching", "pausing", "ending"} /\ page' = "idle"
  /\ strays' = IF page = "pausing" THEN strays \cup {upload} ELSE strays
  /\ uploading' = FALSE /\ trouble' = TRUE
  /\ UNCHANGED <<upload, late, thread, offset, batch, ack, orphans, heard, toDevice,
                 toPage, deviceVars>>

\* A stopped flow sends its end after the pause, to whatever upload there is by then.
StrayEnd ==
  \E u \in strays :
    /\ strays' = strays \ {u}
    /\ toDevice' = Append(toDevice, [kind |-> "end", upload |-> u, n |-> 0])
    /\ late' = (late \/ u # upload) /\ trouble' = (trouble \/ u # upload)
    /\ UNCHANGED <<page, upload, bridgeVars, toPage, deviceVars>>

-----------------------------------------------------------------------------
(* The bridge's upload thread: _mqtt_upload *)

\* One percent more than the milestone, so that the device passes it.
TargetPct == IF batch * Step + 1 > Full THEN Full ELSE batch * Step + 1
Target == (TargetPct * Total + Full - 1) \div Full
BatchSent == offset >= Target \/ offset >= Total

SendChunk ==
  /\ thread = "send" /\ uploading /\ ~BatchSent
  /\ offset' = offset + 1
  /\ toDevice' = Append(toDevice, Message("chunk", offset + 1))
  /\ UNCHANGED <<pageVars, thread, batch, ack, uploading, orphans, heard, toPage,
                 deviceVars, trouble>>

\* A wait that does not clear the event first.
AwaitUncleared ==
  /\ thread = "send" /\ uploading /\ BatchSent
  /\ thread' = IF offset >= Total \/ TargetPct >= Full THEN "final" ELSE "milestone"
  /\ UNCHANGED <<pageVars, offset, batch, ack, uploading, orphans, heard, toDevice,
                 toPage, deviceVars, trouble>>

\* The event is cleared after the batch was sent: a progress that came earlier is
\* forgotten, and none comes again if the device has passed the milestone.
Await ==
  /\ thread = "send" /\ uploading /\ BatchSent
  /\ thread' = IF offset >= Total \/ TargetPct >= Full THEN "final" ELSE "milestone"
  /\ ack' = FALSE
  /\ trouble' = (trouble \/ (ack /\ Pct(offset) < heard + Step))
  /\ UNCHANGED <<pageVars, offset, batch, uploading, orphans, heard, toDevice, toPage,
                 deviceVars>>

\* A thread that ends clears the flag of all threads.
ThreadEnds == thread' = "none" /\ uploading' = FALSE

Acked ==
  /\ thread \in Waits /\ ack
  /\ IF thread = "milestone" /\ uploading
     THEN thread' = "send" /\ batch' = batch + 1 /\ UNCHANGED uploading
     ELSE ThreadEnds /\ UNCHANGED batch
  /\ UNCHANGED <<pageVars, offset, ack, orphans, heard, toDevice, toPage, deviceVars, trouble>>

Stopped ==
  /\ thread = "send" /\ ~uploading /\ ThreadEnds
  /\ UNCHANGED <<pageVars, offset, batch, ack, orphans, heard, toDevice, toPage, deviceVars,
                 trouble>>

\* 60 s without an event: of a milestone, otaError tells the page.
Tells(where) == page' = IF where = "milestone" /\ page = "watching" THEN "idle" ELSE page

MilestoneTimeout ==
  /\ thread = "milestone" /\ ~ack /\ ThreadEnds /\ Tells("milestone")
  /\ trouble' = (trouble \/ toDevice # <<>> \/ toPage # <<>>)
  /\ UNCHANGED <<upload, strays, late, offset, batch, ack, orphans, heard, toDevice, toPage,
                 deviceVars>>

FinalTimeout ==
  /\ thread = "final" /\ ~ack /\ ThreadEnds
  /\ UNCHANGED <<pageVars, offset, batch, ack, orphans, heard, toDevice, toPage, deviceVars,
                 trouble>>

\* The thread of an old upload ends whatever upload is under way.
OrphanTimeout ==
  \E where \in Waits :
    /\ orphans[where] > 0 /\ orphans' = [orphans EXCEPT ![where] = @ - 1]
    /\ uploading' = FALSE /\ Tells(where) /\ trouble' = TRUE
    /\ UNCHANGED <<upload, strays, late, thread, offset, batch, ack, heard, toDevice, toPage,
                   deviceVars>>

-----------------------------------------------------------------------------
(* The device *)

\* A start that goes on where the last upload stopped counting.
StartUncounted(m) ==
  \E ok \in BOOLEAN :
    /\ lastPct' = -1 /\ UNCHANGED <<written, image>>
    /\ source' = m.upload
    /\ update' = IF ok THEN "open" ELSE "closed"
    /\ running' = (ok \/ running)
    /\ toPage' = Append(toPage, [m EXCEPT !.kind = IF ok THEN "ready" ELSE "refused"])
    /\ trouble' = (trouble \/ ~ok)

\* startFromStream: what is under way is aborted; if the library refuses to
\* begin, _running stays as it was.
Start(m) ==
  \E ok \in BOOLEAN :
    /\ lastPct' = -1 /\ written' = 0 /\ UNCHANGED image
    /\ source' = m.upload
    /\ update' = IF ok THEN "open" ELSE "closed"
    /\ running' = (ok \/ running)
    /\ toPage' = Append(toPage, [m EXCEPT !.kind = IF ok THEN "ready" ELSE "refused"])
    /\ trouble' = (trouble \/ ~ok)

\* The progress callback tells a progress of more than 5 percent only.
ToldLate(pct) == pct > lastPct + Step \/ pct = Full \/ (pct = 0 /\ pct # lastPct)

\* The progress callback tells every 5 percent, the end, and that it began.
Told(pct) == pct >= lastPct + Step \/ pct = Full \/ (pct = 0 /\ pct # lastPct)

\* _cmdOtaChunk, writeChunk, the progress callback: a write that fails is not
\* told, and the library takes nothing more, nor more than was announced.
Chunk(m) ==
  IF ~running
  THEN UNCHANGED <<deviceVars, toPage, trouble>>
  ELSE \E ok \in BOOLEAN :
    LET good == ok /\ update = "open" /\ written < Total
        n    == IF good THEN written + 1 ELSE written
        pct  == Pct(n)
    IN /\ written' = n
       /\ source' = IF good /\ <<m.upload, m.n>> # <<source, n>> THEN 0 ELSE source
       /\ update' = IF good THEN "open" ELSE "failed"
       /\ lastPct' = IF Told(pct) THEN pct ELSE lastPct
       /\ toPage' = IF Told(pct) THEN Append(toPage, [m EXCEPT !.kind = "progress", !.n = pct])
                            ELSE toPage
       /\ trouble' = (trouble \/ ~good)
       /\ UNCHANGED <<running, image>>

\* _cmdUploadFirmwareEnd, end: the library takes also an image that is too short.
\* After a success the device starts with the image.
End(m) ==
  IF ~running
  THEN UNCHANGED <<deviceVars, toPage, trouble>>
  ELSE \E ok \in BOOLEAN :
    /\ running' = FALSE /\ update' = "closed"
    /\ image' = IF ok /\ update = "open"
                THEN IF source # 0 /\ written = Total THEN "whole" ELSE "broken"
                ELSE image
    /\ toPage' = Append(toPage, [m EXCEPT !.kind = "result"])
    /\ UNCHANGED <<written, lastPct, source, trouble>>

DeviceReceive ==
  LET m == Head(toDevice)
  IN /\ toDevice # <<>> /\ toDevice' = Tail(toDevice)
     /\ \/ m.kind = "start" /\ Start(m)
        \/ m.kind = "chunk" /\ Chunk(m)
        \/ m.kind = "end" /\ End(m)
     /\ UNCHANGED <<pageVars, bridgeVars>>

PowerCut ==
  /\ running' = FALSE /\ update' = "closed" /\ written' = 0 /\ lastPct' = -1
  /\ trouble' = TRUE
  /\ UNCHANGED <<pageVars, bridgeVars, toDevice, toPage, source, image>>

Lose ==
  /\ \/ toDevice # <<>> /\ toDevice' = Tail(toDevice) /\ UNCHANGED toPage
     \/ toPage # <<>> /\ toPage' = Tail(toPage) /\ UNCHANGED toDevice
  /\ trouble' = TRUE
  /\ UNCHANGED <<pageVars, bridgeVars, deviceVars>>

-----------------------------------------------------------------------------

UploadInit ==
  /\ page = "idle" /\ upload = 0 /\ strays = {} /\ late = FALSE
  /\ thread = "none" /\ offset = 0 /\ batch = 1 /\ ack = FALSE /\ heard = -1
  /\ uploading = FALSE /\ orphans = [where \in Waits |-> 0] /\ toDevice = <<>> /\ toPage = <<>>
  /\ running = FALSE /\ written = 0 /\ lastPct = -1 /\ update = "closed"
  /\ source = 0 /\ image = "none" /\ trouble = FALSE

Bridge == SendChunk \/ Await \/ Acked \/ Stopped \/ MilestoneTimeout

UploadNext ==
  \/ PageStart \/ PageReceive \/ PageEnd \/ PageTimeout \/ Cancel \/ StrayEnd
  \/ Bridge \/ FinalTimeout \/ OrphanTimeout
  \/ DeviceReceive \/ PowerCut \/ Lose

UploadSafety == UploadInit /\ [][UploadNext]_uploadVars

UploadSpec ==
  /\ UploadSafety
  /\ WF_uploadVars(PageReceive) /\ WF_uploadVars(PageEnd)
  /\ WF_uploadVars(Bridge) /\ WF_uploadVars(DeviceReceive)

-----------------------------------------------------------------------------
(* Properties *)

\* Only a whole file is activated, every chunk in its place, across lost messages,
\* failed writes, power cuts and uploads cancelled and begun again.  Not where a late
\* message crosses a newer upload: answers are told by their command only, so a late
\* "ready" of one start makes the page hear the 100 percent of the upload before; and
\* a flow stopped in its 2 s pause ends the upload begun meanwhile.
ActivatedIsWhole == ~late => image # "broken"

\* The bridge is never more than two milestones ahead of the progress it heard,
\* although any progress answers for any milestone.
AheadIsBounded ==
  thread # "none" /\ uploading /\ ~late => Pct(offset) <= heard + 2 * Step + 1

\* Without trouble, an upload comes to its end: each milestone the bridge waits for
\* is one the device reports, however percents are rounded.  Trouble is also the
\* thread of an old upload that ends and stops this one.
UploadEnds == page = "watching" ~> page = "ending" \/ trouble
=============================================================================
