----------------------------- MODULE MqttChannel ----------------------------
(***************************************************************************)
(* MqttDeviceChannel.kt: the app's channel over the broker.  start() and   *)
(* stop() return at once and leave coroutines behind: connect loops, the   *)
(* completion and loss callbacks of the MQTT client, the handshake probe,  *)
(* the watchdog, and the disconnect that stop() launches.  They share the  *)
(* channel's fields on a pool of threads.                                  *)
(***************************************************************************)
EXTENDS Naturals

CONSTANT Slots      \* the clients, and so the connect loops, that may exist at once

ASSUME SlotsAssumption == Slots \subseteq Nat \ {0}

VARIABLES mState,              \* _state
          client,              \* client, 0 for null
          up,                  \* the clients the broker has accepted
          loop,                \* connect loops: the next statement of each, "none" when it is over
          cancelled,           \* the loops whose job stop() cancelled in the middle of a dial
          job,                 \* connectJob, 0 for null
          mStopped, mShake,    \* stopped, handshakeComplete
          mProbe, mWatch,      \* handshakeJob, watchdogJob
          completes,           \* connectComplete() callbacks whose coroutine has not run
          closing, closed      \* disconnects launched, and those with the client already closed

mqttVars == <<mState, client, up, loop, cancelled, job, mStopped, mShake, mProbe, mWatch,
              completes, closing, closed>>

IsConnected == client # 0 /\ up[client]
JobActive   == job # 0 /\ loop[job] # "none"
FreeSlots   == {k \in Slots : loop[k] = "none" /\ ~up[k] /\ k # client}

\* A connect loop begins at a statement and is the channel's connectJob.
Launch(k, pc) ==
  /\ k \in FreeSlots /\ \A f \in FreeSlots : k <= f
  /\ loop' = [loop EXCEPT ![k] = pc] /\ job' = k
  /\ cancelled' = cancelled \ {k}

\* cancelHandshake(), cancelWatchdog(), handshakeComplete = false.
ForgetDevice == mShake' = FALSE /\ mProbe' = FALSE /\ mWatch' = FALSE

-----------------------------------------------------------------------------
(* start() and stop() *)

MqttStart ==
  IF IsConnected \/ JobActive THEN UNCHANGED mqttVars
  ELSE /\ mStopped' = FALSE
       /\ \E k \in Slots : Launch(k, "try")
       /\ UNCHANGED <<mState, client, up, mShake, mProbe, mWatch, completes, closing, closed>>

\* stop() of the loop and the probe only.
StopWithoutDisconnect ==
  /\ mStopped' = TRUE /\ job' = 0
  /\ ForgetDevice
  /\ UNCHANGED <<mState, client, up, loop, cancelled, completes, closing, closed>>

\* A dial cannot be cancelled: its loop ends at the next delay.
MqttStop ==
  /\ mStopped' = TRUE
  /\ IF ~JobActive THEN UNCHANGED <<loop, cancelled>>
     ELSE IF loop[job] \in {"try", "pause"}
          THEN loop' = [loop EXCEPT ![job] = "none"] /\ UNCHANGED cancelled
          ELSE cancelled' = cancelled \cup {job} /\ UNCHANGED loop
  /\ job' = 0 /\ closing' = closing + 1
  /\ ForgetDevice
  /\ UNCHANGED <<mState, client, up, completes, closed>>

-----------------------------------------------------------------------------
(* connectWithRetry() and attemptConnect() *)

Dial(k) ==
  /\ loop[k] = "try"
  /\ IF mStopped
     THEN loop' = [loop EXCEPT ![k] = "none"] /\ UNCHANGED <<mState, client>>
     ELSE mState' = "connecting" /\ client' = k /\ loop' = [loop EXCEPT ![k] = "dial"]
  /\ UNCHANGED <<up, cancelled, job, mStopped, mShake, mProbe, mWatch, completes, closing, closed>>

\* The broker accepts: the client's thread calls connectComplete().
Accepted(k) ==
  /\ loop[k] = "dial"
  /\ up' = [up EXCEPT ![k] = TRUE]
  /\ loop' = [loop EXCEPT ![k] = "subscribe"]
  /\ completes' = completes + 1
  /\ UNCHANGED <<mState, client, cancelled, job, mStopped, mShake, mProbe, mWatch, closing, closed>>

\* The subscription returns: from here on nothing the attempt does looks at the client.
Subscribed(k) ==
  /\ loop[k] = "subscribe" /\ up[k] /\ loop' = [loop EXCEPT ![k] = "subscribed"]
  /\ UNCHANGED <<mState, client, up, cancelled, job, mStopped, mShake, mProbe, mWatch, completes, closing, closed>>

TransportReady(k) ==
  /\ loop[k] = "subscribed" /\ loop' = [loop EXCEPT ![k] = "finally"]
  /\ mState' = "ready"
  /\ UNCHANGED <<client, up, cancelled, job, mStopped, mShake, mProbe, mWatch, completes, closing, closed>>

\* The finally clause forgets the job, whichever it is, and a client that is not connected.
Finally(k) ==
  /\ loop[k] = "finally" /\ loop' = [loop EXCEPT ![k] = "none"]
  /\ job' = 0 /\ client' = IF IsConnected THEN client ELSE 0
  /\ UNCHANGED <<mState, up, cancelled, mStopped, mShake, mProbe, mWatch, completes, closing, closed>>

\* The dial or the subscription throws: disconnectInternal() closes the present client.
Thrown(k) ==
  /\ loop[k] \in {"dial", "broken"} \/ (loop[k] = "subscribe" /\ ~up[k])
  /\ up' = IF client = 0 THEN up ELSE [up EXCEPT ![client] = FALSE]
  /\ client' = 0 /\ job' = 0 /\ mState' = "connecting"
  /\ ForgetDevice
  /\ loop' = [loop EXCEPT ![k] = IF mStopped \/ k \in cancelled THEN "none" ELSE "pause"]
  /\ UNCHANGED <<cancelled, mStopped, completes, closing, closed>>

Resumed(k) ==
  /\ loop[k] = "pause"
  /\ loop' = [loop EXCEPT ![k] = "try"]
  /\ UNCHANGED <<mState, client, up, cancelled, job, mStopped, mShake, mProbe, mWatch, completes, closing, closed>>

-----------------------------------------------------------------------------
(* Callbacks and the coroutines they launch *)

\* connectComplete() that leaves the probe to the watchdog.
CompletedWithoutProbe ==
  /\ completes > 0 /\ completes' = completes - 1
  /\ mState' = "ready" /\ mShake' = FALSE
  /\ mWatch' = (IsConnected /\ ~mStopped)
  /\ UNCHANGED <<client, up, loop, cancelled, job, mStopped, mProbe, closing, closed>>

\* connectComplete(): ready, startHandshake(), startWatchdog().
Completed ==
  /\ completes > 0 /\ completes' = completes - 1
  /\ mState' = "ready" /\ mShake' = FALSE
  /\ mProbe' = IsConnected /\ mWatch' = (IsConnected /\ ~mStopped)
  /\ UNCHANGED <<client, up, loop, cancelled, job, mStopped, closing, closed>>

\* connectionLost() that leaves it to the next dial to tell.
LostInSilence(k) ==
  /\ up[k] /\ up' = [up EXCEPT ![k] = FALSE]
  /\ client' = 0
  /\ ForgetDevice
  /\ UNCHANGED <<mState, loop, cancelled, job, mStopped, completes, closing, closed>>

\* The loop is counted as running, and will not dial again.
LoopIsOver == job # 0 /\ loop[job] \in {"subscribed", "finally"}

\* connectionLost(): the present client is dropped, whichever was lost; scheduleReconnect().
ConnectionLost(k) ==
  /\ up[k] /\ up' = [up EXCEPT ![k] = FALSE]
  /\ client' = 0 /\ mState' = "connecting"
  /\ ForgetDevice
  /\ IF mStopped \/ JobActive THEN UNCHANGED <<loop, cancelled, job>>
     ELSE \E s \in Slots : Launch(s, "pause")
  /\ UNCHANGED <<mStopped, completes, closing, closed>>

\* messageArrived() with a getStatus of the device, of the probe or of a stream.
StatusArrived(k) ==
  /\ up[k] /\ ~mShake
  /\ mShake' = TRUE /\ mProbe' = FALSE /\ mState' = "connected"
  /\ UNCHANGED <<client, up, loop, cancelled, job, mStopped, mWatch, completes, closing, closed>>

\* Ten seconds without an answer: the probe is sent again.
ProbeTimedOut ==
  /\ mProbe
  /\ IF IsConnected THEN mState' = "connecting" /\ UNCHANGED mProbe
     ELSE mProbe' = FALSE /\ UNCHANGED mState
  /\ UNCHANGED <<client, up, loop, cancelled, job, mStopped, mShake, mWatch, completes, closing, closed>>

\* Ten seconds of silence after a handshake: back to the probe.
WatchdogBites ==
  /\ mWatch /\ mShake
  /\ mShake' = FALSE /\ mState' = "connecting" /\ mProbe' = IsConnected
  /\ mWatch' = (IsConnected /\ ~mStopped)
  /\ UNCHANGED <<client, up, loop, cancelled, job, mStopped, completes, closing, closed>>

\* disconnectInternal() of stop(): the client is closed, a dial on it throws ...
Close ==
  /\ closing > 0 /\ closing' = closing - 1 /\ closed' = closed + 1
  /\ IF client = 0 THEN UNCHANGED <<up, loop>>
     ELSE /\ up' = [up EXCEPT ![client] = FALSE]
          /\ loop' = IF loop[client] = "dial" THEN [loop EXCEPT ![client] = "broken"] ELSE loop
  /\ UNCHANGED <<mState, client, cancelled, job, mStopped, mShake, mProbe, mWatch, completes>>

\* ... and then the channel is told, whichever client it has by now.
Disconnected ==
  /\ closed > 0 /\ closed' = closed - 1
  /\ client' = 0 /\ mState' = "disconnected"
  /\ ForgetDevice
  /\ UNCHANGED <<up, loop, cancelled, job, mStopped, completes, closing>>

MqttInit ==
  /\ mState = "idle" /\ client = 0 /\ up = [k \in Slots |-> FALSE]
  /\ loop = [k \in Slots |-> "none"] /\ cancelled = {} /\ job = 0
  /\ mStopped = FALSE /\ mShake = FALSE /\ mProbe = FALSE /\ mWatch = FALSE
  /\ completes = 0 /\ closing = 0 /\ closed = 0
=============================================================================
