---------------------------- MODULE HybridChannel ---------------------------
(***************************************************************************)
(* HybridDeviceChannel.kt: both channels are started, the first to hear    *)
(* the device wins and the other is stopped.  The states of the channels   *)
(* reach it through two collectors, which see the latest value only.       *)
(* Around it: the broker and the device, which is on the broker or serves  *)
(* its own access point, never both, and the user who saves new settings,  *)
(* which restarts everything.                                              *)
(***************************************************************************)
EXTENDS MqttChannel, WebSocketChannel

CONSTANT MaxEvents    \* bound on changes of the broker and the device and restarts by the user

VARIABLES active,        \* activeEntry
          hState,        \* _state
          seen,          \* what each collector has last seen, "off" without collector
          broker,        \* the broker can be reached
          place,         \* where the device answers
          events,        \* those of MaxEvents that have happened
          raced,         \* history: what was left of one MQTT client met another one
          unheard,       \* history: a loss came while a loop that was over counted as running
          stray          \* history: the channel's state was told by a socket it had closed

appVars == <<active, hState, seen>>
envVars == <<broker, place, events>>
history == <<raced, unheard, stray>>
vars == <<mqttVars, wsVars, appVars, envVars, history>>

Channels == {"mqtt", "ws"}

\* A state told by a closed socket lasts until the channel's state changes.
Steady == stray' = (stray /\ wState' = wState)

ChildState(c) == IF c = "mqtt" THEN mState ELSE wState
OnBroker == broker /\ place = "mqtt"

-----------------------------------------------------------------------------
(* start(), stop() and the collectors *)

HybridStart ==
  /\ active' = "none" /\ hState' = "connecting"
  /\ seen' = [c \in Channels |-> "nothing"]
  /\ MqttStart /\ WsStart

\* restart() of the user, in the two calls it makes.
HybridStop ==
  /\ seen["mqtt"] # "off"
  /\ events < MaxEvents /\ events' = events + 1
  /\ active' = "none" /\ hState' = "disconnected"
  /\ seen' = [c \in Channels |-> "off"]
  /\ MqttStop /\ WsStop
  /\ UNCHANGED <<broker, place, raced, unheard>> /\ Steady

\* A start that finds the client stop() is about to disconnect is a race.
HybridRestart ==
  /\ seen["mqtt"] = "off"
  /\ HybridStart
  /\ raced' = (raced \/ (client # 0 /\ closing + closed > 0))
  /\ unheard' = FALSE /\ Steady
  /\ UNCHANGED envVars

StopLosers(winner) ==
  IF winner = "mqtt" THEN WsStop /\ UNCHANGED mqttVars ELSE MqttStop /\ UNCHANGED wsVars

\* onChildStateChanged()
Observe(c) ==
  /\ seen[c] \notin {"off", ChildState(c)}
  /\ seen' = [seen EXCEPT ![c] = ChildState(c)]
  /\ \/ /\ ChildState(c) = "connected" /\ active = "none"
        /\ active' = c /\ hState' = "connected"
        /\ StopLosers(c)
     \/ /\ ChildState(c) = "disconnected" /\ active \in {"none", c}
        /\ active' = "none" /\ hState' = "connecting"
        /\ UNCHANGED <<mqttVars, wsVars>>
     \/ /\ \/ ChildState(c) \in {"ready", "connecting"} /\ active \in {"none", c}
           \/ ChildState(c) = "connected" /\ active = c
        /\ hState' = ChildState(c)
        /\ UNCHANGED <<active, mqttVars, wsVars>>
     \/ /\ ChildState(c) = "idle" \/ active \notin {"none", c}
        /\ UNCHANGED <<active, hState, mqttVars, wsVars>>
  /\ UNCHANGED <<envVars, raced, unheard>> /\ Steady

-----------------------------------------------------------------------------
(* The broker and the device *)

BrokerMoves == broker' = ~broker /\ UNCHANGED place
DeviceMoves == place' = (IF place = "mqtt" THEN "ws" ELSE "mqtt") /\ UNCHANGED broker

Move ==
  /\ events < MaxEvents /\ events' = events + 1
  /\ BrokerMoves \/ DeviceMoves
  /\ UNCHANGED <<mqttVars, wsVars, appVars, history>>

\* The waits of ten seconds and more outlast whatever runs without waiting: the
\* collectors, the coroutines of callbacks and of stop(), the end of an attempt.
Calm ==
  /\ \A c \in Channels : seen[c] = ChildState(c)
  /\ completes = 0 /\ closing = 0 /\ closed = 0
  /\ \A k \in Slots : loop[k] \in {"none", "try", "dial", "pause"}

\* A step of client k replaces or drops another one.
Drops(k) == client \notin {0, k} /\ client' # client

\* A connect loop and the callbacks of its client, with what they need of the outside.
MqttTask(k) ==
  /\ \/ Dial(k) \/ Subscribed(k) \/ TransportReady(k) \/ Finally(k)
     \/ broker /\ Accepted(k)
     \/ (loop[k] = "dial" => ~broker) /\ Thrown(k)
     \/ Calm /\ Resumed(k)
  /\ raced' = (raced \/ Drops(k)) /\ UNCHANGED unheard

\* The callback of a lost client.
MqttLoss(k) ==
  /\ ~broker /\ ConnectionLost(k)
  /\ raced' = (raced \/ Drops(k))
  /\ unheard' = (unheard \/ LoopIsOver)

\* What an earlier stop() left behind drops a client that a later start() has made.
Disconnects ==
  /\ Close \/ Disconnected
  /\ raced' = (raced \/ (client # 0 /\ (~mStopped \/ closing + closed > 1)))
  /\ UNCHANGED unheard

MqttCoroutine ==
  /\ \/ Completed
     \/ ~OnBroker /\ Calm /\ ProbeTimedOut
  /\ UNCHANGED <<raced, unheard>>

\* The answer to a probe, and the status that someone else has asked for.
Answered(k) == mProbe /\ OnBroker /\ StatusArrived(k) /\ UNCHANGED <<raced, unheard>>
Streamed(k) == ~mProbe /\ OnBroker /\ StatusArrived(k) /\ UNCHANGED <<raced, unheard>>
MqttBites   == Calm /\ WatchdogBites /\ UNCHANGED <<raced, unheard>>

WsTask == Calm /\ (Waited \/ WsResumed) /\ Steady
WsSocket(s) ==
  /\ \/ place = "ws" /\ Opened(s)
     \/ (socket[s] # "closing" => place # "ws") /\ Gone(s)
  /\ Steady
WsCoroutine == place # "ws" /\ Calm /\ WsProbeTimedOut /\ Steady
WsBites == Calm /\ WsWatchdogBites /\ Steady

\* The answer to a probe, and the status that is heard on a socket the channel has
\* closed or forgotten.
WsAnswered(s) == wProbe /\ s = sock /\ place = "ws" /\ WsStatusArrived(s) /\ stray' = FALSE
WsStray(s) ==
  /\ s # sock /\ (socket[s] # "closing" => place = "ws") /\ WsStatusArrived(s)
  /\ stray' = (sock = 0)

OfMqtt(A) == A /\ UNCHANGED <<wsVars, appVars, envVars, stray>>
OfWs(A)   == A /\ UNCHANGED <<mqttVars, appVars, envVars, raced, unheard>>

Init ==
  /\ MqttInit /\ WsInit
  /\ active = "none" /\ hState = "idle" /\ seen = [c \in Channels |-> "off"]
  /\ broker \in BOOLEAN /\ place \in Channels /\ (broker \/ place = "mqtt")
  /\ events = 0 /\ raced = FALSE /\ unheard = FALSE /\ stray = FALSE

Next ==
  \/ HybridStop \/ HybridRestart \/ Move
  \/ \E c \in Channels : Observe(c)
  \/ OfMqtt(Disconnects \/ MqttCoroutine \/ MqttBites)
  \/ OfMqtt(\E k \in Slots : MqttTask(k) \/ MqttLoss(k) \/ Answered(k) \/ Streamed(k))
  \/ OfWs(WsTask \/ WsCoroutine \/ \E s \in Sockets : WsSocket(s) \/ WsAnswered(s))
  \/ OfWs(WsBites \/ \E s \in Sockets : WsStray(s))

\* Coroutines and callbacks run; a dial is answered or fails; a probe is answered by
\* a device that is there.  Nobody asks a device that the app does not show as
\* connected: it is silent until the watchdog bites.
Spec ==
  /\ Init /\ [][Next]_vars
  /\ WF_vars(HybridRestart) /\ \A c \in Channels : WF_vars(Observe(c))
  /\ WF_vars(OfMqtt(Disconnects \/ MqttCoroutine))
  /\ \A k \in Slots : WF_vars(OfMqtt(MqttTask(k) \/ MqttLoss(k)))
  /\ WF_vars(OfMqtt(\E k \in Slots : Answered(k)))
  /\ WF_vars(OfWs(WsTask \/ WsCoroutine \/ \E s \in Sockets : WsSocket(s) \/ WsAnswered(s)))
  /\ WF_vars(hState # "connected" /\ (OfMqtt(MqttBites) \/ OfWs(WsBites)))

-----------------------------------------------------------------------------
(* Properties *)

\* Bound of a run: nothing is claimed of what follows a race.
NotRaced == ~raced

\* When the app shows the device as connected and no coroutine is under way, a
\* command can be sent (HybridDeviceChannel.send() and the send() of the active
\* channel): the losses, timeouts and stops that take the client or the socket
\* away all reach the screen, unless two clients of one channel have met, or what
\* was shown last is a status that came by a socket the channel had closed.
ConnectedCanSend ==
  Calm /\ ~raced /\ ~stray /\ hState = "connected" =>
    (active = "mqtt" /\ IsConnected) \/ (active = "ws" /\ sock # 0)

\* stop() really disconnects the channel over the broker, whether the client was
\* dialing, subscribing or lost when the launched disconnect came.
StoppedIsOffline == Calm /\ ~raced /\ mStopped => \A k \in Slots : ~up[k]

\* Once the device is on a broker in reach for good, and the other channel does
\* not hold the app, the app hears from it again and again: no loss, refusal,
\* silence or stop on the way there leaves the channel without a loop, a probe
\* or a watchdog that brings it back, but for the loss that comes between the last
\* look of an attempt at its client and the end of its job, which nobody hears.
ComesBack ==
  <>[](OnBroker /\ active \in {"none", "mqtt"} /\ ~raced /\ ~unheard) => []<>(hState = "connected")

\* What the restart is for (DeviceChannel.kt:27, restart the connection): the same,
\* for every restart.
RestartReconnects ==
  <>[](OnBroker /\ active \in {"none", "mqtt"}) => []<>(hState = "connected")
=============================================================================
