-------------------------- MODULE WebSocketChannel --------------------------
(***************************************************************************)
(* WebSocketDeviceChannel.kt: the app's channel to the device itself.  A   *)
(* dial is told only by its callbacks, and so is the end of a socket that  *)
(* was closed, long after the channel has forgotten it.                    *)
(***************************************************************************)
EXTENDS Naturals

CONSTANT Sockets      \* the sockets that may exist at once

ASSUME SocketsAssumption == Sockets \subseteq Nat \ {0}

VARIABLES wState,              \* _state
          sock,                \* webSocket, 0 for null
          socket,              \* the sockets: dialing, open, closing or none
          wLoop,               \* connectJob: the delay it is in, "none" when there is none active
          wStopped, wShake,    \* stopped, handshakeComplete
          wProbe, wWatch       \* handshakeJob, watchdogJob

wsVars == <<wState, sock, socket, wLoop, wStopped, wShake, wProbe, wWatch>>

ForgetPeer == wShake' = FALSE /\ wProbe' = FALSE /\ wWatch' = FALSE

\* scheduleReconnect()
ScheduleReconnect == wLoop' = IF wStopped \/ wLoop # "none" THEN wLoop ELSE "pause"

\* attemptConnect(), the first statement of a loop that is started or resumed.
Attempt(s) ==
  /\ socket[s] = "none" /\ \A n \in Sockets : socket[n] = "none" => s <= n
  /\ socket' = [socket EXCEPT ![s] = "dialing"]
  /\ wState' = "connecting" /\ wLoop' = "wait"

-----------------------------------------------------------------------------
(* start() and stop() *)

WsStart ==
  IF sock # 0 \/ wLoop # "none" THEN UNCHANGED wsVars
  ELSE /\ wStopped' = FALSE
       /\ \E s \in Sockets : Attempt(s)
       /\ UNCHANGED <<sock, wShake, wProbe, wWatch>>

\* The socket is closed with a handshake of its own; a dial goes on.
WsStop ==
  /\ wStopped' = TRUE /\ wLoop' = "none" /\ ForgetPeer
  /\ socket' = IF sock = 0 THEN socket ELSE [socket EXCEPT ![sock] = "closing"]
  /\ sock' = 0 /\ wState' = "disconnected"

-----------------------------------------------------------------------------
(* connectWithRetry() *)

\* The end of the wait: a dial that is not through by now goes on beside the next.
Waited ==
  /\ wLoop = "wait"
  /\ wLoop' = IF sock # 0 THEN "none" ELSE "pause"
  /\ UNCHANGED <<wState, sock, socket, wStopped, wShake, wProbe, wWatch>>

WsResumed ==
  /\ wLoop = "pause"
  /\ \E s \in Sockets : Attempt(s)
  /\ UNCHANGED <<sock, wStopped, wShake, wProbe, wWatch>>

-----------------------------------------------------------------------------
(* The listener and the coroutines it launches *)

\* onOpen(): ready, startHandshake(), startWatchdog().
Opened(s) ==
  /\ socket[s] = "dialing" /\ socket' = [socket EXCEPT ![s] = "open"]
  /\ sock' = s /\ wState' = "ready"
  /\ wShake' = FALSE /\ wProbe' = TRUE /\ wWatch' = ~wStopped
  /\ UNCHANGED <<wLoop, wStopped>>

\* onClosed() and onFailure(): the present socket is forgotten, whichever is gone.
Gone(s) ==
  /\ socket[s] # "none" /\ socket' = [socket EXCEPT ![s] = "none"]
  /\ sock' = 0 /\ wState' = "connecting" /\ ForgetPeer /\ ScheduleReconnect
  /\ UNCHANGED wStopped

\* onMessage() with a getStatus of the device, on whatever socket: one the channel has
\* closed still hears what the device sends until the device closes it too.
WsStatusArrived(s) ==
  /\ socket[s] \in {"open", "closing"} /\ ~wShake
  /\ wShake' = TRUE /\ wProbe' = FALSE /\ wState' = "connected"
  /\ UNCHANGED <<sock, socket, wLoop, wStopped, wWatch>>

\* Ten seconds without an answer: the socket is closed and dialed anew.
WsProbeTimedOut ==
  /\ wProbe /\ wProbe' = FALSE
  /\ IF sock = 0 THEN UNCHANGED <<wState, socket, sock, wLoop>>
     ELSE /\ wState' = "connecting" /\ sock' = 0
          /\ socket' = [socket EXCEPT ![sock] = "closing"]
          /\ ScheduleReconnect
  /\ UNCHANGED <<wStopped, wShake, wWatch>>

WsWatchdogBites ==
  /\ wWatch /\ wShake
  /\ wShake' = FALSE /\ wState' = "connecting" /\ wProbe' = (sock # 0)
  /\ wWatch' = (sock # 0 /\ ~wStopped)
  /\ UNCHANGED <<sock, socket, wLoop, wStopped>>

WsInit ==
  /\ wState = "idle" /\ sock = 0 /\ socket = [s \in Sockets |-> "none"]
  /\ wLoop = "none"
  /\ wStopped = FALSE /\ wShake = FALSE /\ wProbe = FALSE /\ wWatch = FALSE
=============================================================================
