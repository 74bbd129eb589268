------------------------ MODULE HybridChannel_proofs ------------------------
(***************************************************************************)
(* What the app shows of the device is true, for any number of clients and *)
(* sockets, of moves of the broker and the device and of restarts, until   *)
(* what is left of one MQTT client meets another one.                      *)
(***************************************************************************)
EXTENDS HybridChannel, TLAPS

USE SlotsAssumption, SocketsAssumption

MStates == {"idle", "connecting", "ready", "connected", "disconnected"}
Statements == {"none", "try", "dial", "subscribe", "subscribed", "finally", "broken", "pause"}

\* Every client in the broker's books, and every dial, is the channel's client: so
\* whoever closes the channel's client closes all.
OneClient ==
  \A k \in Slots :
    /\ up[k] => client = k /\ loop[k] \in {"subscribe", "subscribed", "finally", "none"}
    /\ loop[k] = "dial" => client = k

\* A stop leaves its disconnect behind until nothing is connected or dialing.
StopCloses ==
  mStopped /\ closing = 0 => \A k \in Slots : ~up[k] /\ loop[k] # "dial"

\* The state of the channel is that of its client, but between the two steps of a
\* disconnect.
MqttTold == mState = "connected" => IsConnected \/ closed > 0

MqttInv == ~raced => OneClient /\ StopCloses /\ MqttTold

\* The socket's probe and its answer go with the socket; only a closed one can tell the
\* channel that it is connected when it is not.
WsInv ==
  /\ wProbe => sock # 0
  /\ wState = "connected" => sock # 0 \/ stray

\* The screen shows what the collector of the winner has seen, and a channel
\* does not go back to the state before its first start.
AppInv ==
  /\ hState = "connected" => active \in Channels /\ seen[active] = "connected"
  /\ \A c \in Channels : ChildState(c) = "idle" => seen[c] \in {"off", "nothing", "idle"}

MqttTypeOK ==
  /\ client \in Slots \cup {0}
  /\ up \in [Slots -> BOOLEAN]
  /\ loop \in [Slots -> Statements]
  /\ closing \in Nat /\ closed \in Nat
  /\ raced \in BOOLEAN /\ mStopped \in BOOLEAN
  /\ mState \in MStates

AppTypeOK ==
  /\ sock \in Sockets \cup {0} /\ wState \in MStates
  /\ wProbe \in BOOLEAN /\ stray \in BOOLEAN
  /\ active \in Channels \cup {"none"}
  /\ seen \in [Channels -> {"off", "nothing"} \cup MStates]

MqttOK == MqttTypeOK /\ MqttInv
HybridInv == MqttOK /\ AppTypeOK /\ WsInv /\ AppInv

-----------------------------------------------------------------------------
(* The channel over the broker *)

LEMMA HybridInitInv == Init => HybridInv
<1>1. SUFFICES ASSUME Init PROVE HybridInv
  OBVIOUS
<1>2. MqttOK
  BY <1>1 DEF Init, MqttInit, MqttOK, MqttTypeOK, MqttInv, OneClient, StopCloses, MqttTold, MStates, Statements
<1>3. AppTypeOK /\ WsInv
  BY <1>1 DEF Init, WsInit, AppTypeOK, WsInv, MStates
<1>4. AppInv
  BY <1>1 DEF Init, AppInv
<1>5. QED
  BY <1>2, <1>3, <1>4 DEF HybridInv

\* The callbacks that only tell the state leave the clients alone; a status
\* comes by a client that is the channel's.
LEMMA TellingKeeps ==
  ASSUME MqttOK, raced' = raced,
         \/ Completed \/ ProbeTimedOut \/ WatchdogBites
         \/ \E k \in Slots : StatusArrived(k)
  PROVE  MqttOK' /\ (mState' = "idle" => mState = "idle")
<1>1. UNCHANGED <<client, up, loop, mStopped, closing, closed>>
  BY DEF Completed, ProbeTimedOut, WatchdogBites, StatusArrived
<1>2. mState' \in MStates /\ (mState' = "idle" => mState = "idle")
  BY DEF Completed, ProbeTimedOut, WatchdogBites, StatusArrived, MqttOK, MqttTypeOK, MStates
<1>3. ~raced /\ mState' = "connected" /\ mState # "connected" => IsConnected
  BY DEF Completed, ProbeTimedOut, WatchdogBites, StatusArrived, MqttOK, MqttInv, OneClient, IsConnected
<1>4. QED
  BY <1>1, <1>2, <1>3 DEF MqttOK, MqttTypeOK, MqttInv, OneClient, StopCloses, MqttTold, IsConnected

\* start(): a loop of its own, or nothing.
LEMMA StartKeeps ==
  ASSUME MqttOK, MqttStart, raced' \in BOOLEAN, raced => raced'
  PROVE  MqttOK' /\ (mState' = "idle" => mState = "idle")
<1>1. CASE UNCHANGED mqttVars
  BY <1>1 DEF mqttVars, MqttOK, MqttTypeOK, MqttInv, OneClient, StopCloses, MqttTold, IsConnected
<1>2. CASE ~UNCHANGED mqttVars
  <2>1. PICK k \in Slots : Launch(k, "try")
    BY <1>2 DEF MqttStart
  <2>2. /\ mStopped' = FALSE /\ loop' = [loop EXCEPT ![k] = "try"] /\ ~up[k]
        /\ UNCHANGED <<mState, client, up, closing, closed>>
    BY <1>2, <2>1 DEF MqttStart, Launch, FreeSlots
  <2>3. QED
    BY <2>2 DEF MqttOK, MqttTypeOK, MqttInv, OneClient, StopCloses, MqttTold, IsConnected, Statements
<1>3. QED
  BY <1>1, <1>2

\* stop() launches a disconnect.
LEMMA StopKeeps ==
  ASSUME MqttOK, MqttStop, raced' = raced
  PROVE  MqttOK' /\ mState' = mState
<1>1. /\ mStopped' = TRUE /\ closing' = closing + 1
      /\ UNCHANGED <<mState, client, up, closed>>
  BY DEF MqttStop
<1>2. /\ loop' \in [Slots -> Statements]
      /\ \A k \in Slots : loop'[k] \in {loop[k], "none"}
  <2>1. loop' = loop \/ loop' = [loop EXCEPT ![job] = "none"]
    BY DEF MqttStop
  <2>2. QED
    BY <2>1 DEF MqttOK, MqttTypeOK, Statements
<1>3. QED
  BY <1>1, <1>2 DEF MqttOK, MqttTypeOK, MqttInv, OneClient, StopCloses, MqttTold, IsConnected

\* The steps of a connect loop and the loss of a client, unless they drop another one.
LEMMA TaskKeeps ==
  ASSUME MqttOK, NEW k \in Slots, MqttTask(k) \/ MqttLoss(k)
  PROVE  MqttOK' /\ (mState' = "idle" => mState = "idle")
<1> USE DEF MqttOK, MqttTypeOK, MqttInv, OneClient, StopCloses, MqttTold, IsConnected, MStates, Statements
<1>1. raced' = (raced \/ Drops(k))
  BY DEF MqttTask, MqttLoss
<1>2. CASE Dial(k)
  BY <1>1, <1>2 DEF Dial, Drops
<1>3. CASE Subscribed(k) \/ TransportReady(k)
  BY <1>1, <1>3 DEF Subscribed, TransportReady, Drops
<1>9. CASE Finally(k)
  <2>1. /\ loop[k] = "finally" /\ loop' = [loop EXCEPT ![k] = "none"]
        /\ client' = IF IsConnected THEN client ELSE 0
        /\ UNCHANGED <<mState, up, mStopped, closing, closed>>
    BY <1>9 DEF Finally
  <2>2. MqttTypeOK'
    BY <1>1, <2>1
  <2>3. ~raced' => ~raced /\ client \in {0, k, client'}
    BY <1>1, <2>1 DEF Drops
  <2>4. ~raced' => OneClient' /\ StopCloses' /\ MqttTold'
    BY <2>1, <2>3
  <2>5. QED
    BY <2>1, <2>2, <2>4
<1>4. CASE Accepted(k)
  BY <1>1, <1>4 DEF Accepted, Drops
<1>5. CASE Thrown(k)
  BY <1>1, <1>5 DEF Thrown, Drops
<1>6. CASE ConnectionLost(k)
  BY <1>1, <1>6 DEF ConnectionLost, Drops, Launch, FreeSlots
<1>7. CASE Resumed(k)
  BY <1>1, <1>7 DEF Resumed, Drops
<1>8. QED
  BY <1>2, <1>3, <1>4, <1>5, <1>6, <1>7, <1>9 DEF MqttTask, MqttLoss

\* The disconnect of a stop() takes the one client there is.
LEMMA DisconnectKeeps ==
  ASSUME MqttOK, Disconnects
  PROVE  MqttOK' /\ (mState' = "idle" => mState = "idle")
<1> USE DEF MqttOK, MqttTypeOK, MqttInv, OneClient, StopCloses, MqttTold, IsConnected, MStates, Statements
<1>1. raced' = (raced \/ (client # 0 /\ (~mStopped \/ closing + closed > 1)))
  BY DEF Disconnects
<1>2. CASE Close
  <2>1. /\ closing > 0 /\ closing' = closing - 1 /\ closed' = closed + 1
        /\ UNCHANGED <<mState, client, mStopped>>
    BY <1>2 DEF Close
  <2>2. /\ up' \in [Slots -> BOOLEAN]
        /\ \A k \in Slots : up'[k] = (up[k] /\ k # client)
        /\ loop' \in [Slots -> Statements]
        /\ \A k \in Slots : loop'[k] = IF k = client /\ loop[k] = "dial" THEN "broken" ELSE loop[k]
    <3>1. CASE client = 0
      BY <1>2, <3>1 DEF Close
    <3>2. CASE client # 0
      <4>1. up' = [up EXCEPT ![client] = FALSE] /\ client \in Slots
        BY <1>2, <3>2 DEF Close
      <4>2. loop' = IF loop[client] = "dial" THEN [loop EXCEPT ![client] = "broken"] ELSE loop
        BY <1>2, <3>2 DEF Close
      <4>3. QED
        BY <4>1, <4>2
    <3>3. QED
      BY <3>1, <3>2
  <2>3. MqttTypeOK'
    BY <1>1, <2>1, <2>2
  <2>4. ~raced' => OneClient'
    BY <1>1, <2>1, <2>2
  <2>5. ~raced' => StopCloses'
    BY <1>1, <2>1, <2>2
  <2>6. MqttTold'
    BY <2>1
  <2>7. QED
    BY <2>1, <2>3, <2>4, <2>5, <2>6
<1>3. CASE Disconnected
  <2>1. /\ closed > 0 /\ closed' = closed - 1 /\ client' = 0 /\ mState' = "disconnected"
        /\ UNCHANGED <<up, loop, mStopped, closing>>
    BY <1>3 DEF Disconnected
  <2>2. ~raced' => \A k \in Slots : ~up[k] /\ loop[k] # "dial"
    <3>1. SUFFICES ASSUME ~raced' PROVE \A k \in Slots : ~up[k] /\ loop[k] # "dial"
      OBVIOUS
    <3>2. ~raced /\ (client = 0 \/ (mStopped /\ closing + closed <= 1))
      <4>1. ~raced /\ (client = 0 \/ (mStopped /\ ~(closing + closed > 1)))
        BY <1>1, <3>1, Zenon
      <4>2. closing + closed \in Nat
        OBVIOUS
      <4>3. QED
        BY <4>1, <4>2
    <3>3. client # 0 => closing = 0
      BY <2>1, <3>2
    <3>4. CASE client = 0
      BY <3>2, <3>4
    <3>5. CASE client # 0
      BY <3>2, <3>3, <3>5
    <3>6. QED
      BY <3>4, <3>5
  <2>3. MqttTypeOK'
    BY <1>1, <2>1
  <2>4. ~raced' => OneClient' /\ StopCloses'
    BY <1>1, <2>1, <2>2
  <2>5. QED
    BY <2>1, <2>3, <2>4
<1>4. QED
  BY <1>2, <1>3 DEF Disconnects

-----------------------------------------------------------------------------
(* The channel to the device itself, and the app *)

WsSteady ==
  /\ \/ WsStart \/ WsStop \/ Waited \/ WsResumed \/ WsProbeTimedOut \/ WsWatchdogBites
     \/ \E s \in Sockets : Opened(s) \/ Gone(s)
  /\ Steady

WsStep == WsSteady \/ \E s \in Sockets : WsAnswered(s) \/ WsStray(s)

WsOK ==
  /\ sock \in Sockets \cup {0} /\ wState \in MStates
  /\ wProbe \in BOOLEAN /\ stray \in BOOLEAN
  /\ WsInv

\* Only a status connects the channel: the answer to the probe of its socket, or one
\* that another socket heard.
LEMMA WsKeeps ==
  ASSUME WsOK, WsStep
  PROVE  WsOK' /\ (wState' = "idle" => wState = "idle")
<1> USE DEF WsOK, WsInv, MStates, Steady
<1>1. CASE (WsStart \/ WsResumed) /\ Steady
  BY <1>1 DEF WsStart, WsResumed, Attempt, wsVars
<1>2. CASE WsStop /\ Steady
  BY <1>2 DEF WsStop, ForgetPeer
<1>3. CASE Waited /\ Steady
  BY <1>3 DEF Waited
<1>4. CASE WsProbeTimedOut /\ Steady
  BY <1>4 DEF WsProbeTimedOut
<1>5. CASE WsWatchdogBites /\ Steady
  BY <1>5 DEF WsWatchdogBites
<1>6. CASE (\E s \in Sockets : Opened(s) \/ Gone(s)) /\ Steady
  BY <1>6 DEF Opened, Gone, ForgetPeer
<1>7. CASE \E s \in Sockets : WsAnswered(s) \/ WsStray(s)
  BY <1>7 DEF WsAnswered, WsStray, WsStatusArrived
<1>8. QED
  BY <1>1, <1>2, <1>3, <1>4, <1>5, <1>6, <1>7 DEF WsStep, WsSteady

AppOK ==
  /\ active \in Channels \cup {"none"}
  /\ seen \in [Channels -> {"off", "nothing"} \cup MStates]
  /\ AppInv

\* A step of a channel does not reach the screen, and takes no channel back to idle.
LEMMA AppFrame ==
  ASSUME AppOK, UNCHANGED appVars,
         mState' = "idle" => mState = "idle", wState' = "idle" => wState = "idle"
  PROVE  AppOK'
BY DEF AppOK, AppInv, appVars, ChildState, Channels

\* The collector of a channel shows its state when nobody else has won.
LEMMA ObserveKeeps ==
  ASSUME HybridInv, NEW c \in Channels, Observe(c)
  PROVE  HybridInv'
<1> USE DEF HybridInv, AppTypeOK
<1>1. MqttOK' /\ (mState' = "idle" => mState = "idle")
  <2>1. UNCHANGED mqttVars /\ raced' = raced => MqttOK'
    BY DEF mqttVars, MqttOK, MqttTypeOK, MqttInv, OneClient, StopCloses, MqttTold, IsConnected
  <2>2. raced' = raced /\ (UNCHANGED mqttVars \/ MqttStop)
    BY DEF Observe, StopLosers
  <2>3. QED
    BY <2>1, <2>2, StopKeeps DEF mqttVars
<1>2. WsOK' /\ (wState' = "idle" => wState = "idle")
  <2>1. (UNCHANGED wsVars \/ WsStop) /\ Steady
    BY DEF Observe, StopLosers
  <2>2. CASE UNCHANGED wsVars
    BY <2>1, <2>2 DEF wsVars, WsOK, WsInv, Steady
  <2>3. QED
    BY <2>1, <2>2, WsKeeps DEF WsOK, WsStep, WsSteady
<1>3. ChildState(c) \in MStates
  BY DEF MqttOK, MqttTypeOK, ChildState
<1>4. /\ seen[c] # "off" /\ seen[c] # ChildState(c)
      /\ seen' = [seen EXCEPT ![c] = ChildState(c)]
  BY DEF Observe
<1>5. active' \in Channels \cup {"none"} /\ seen' \in [Channels -> {"off", "nothing"} \cup MStates]
  BY <1>3, <1>4 DEF Observe
<1>6. hState' = "connected" => active' \in Channels /\ seen'[active'] = "connected"
  <2>1. SUFFICES ASSUME hState' = "connected"
                 PROVE  active' \in Channels /\ seen'[active'] = "connected"
    OBVIOUS
  <2>2. CASE ChildState(c) = "connected" /\ active' = c
    BY <1>4, <2>2
  <2>3. CASE ChildState(c) = "idle" \/ active \notin {"none", c}
    <3>1. active' = active /\ hState' = hState
      BY <2>3 DEF Observe
    <3>2. active \in Channels /\ seen[active] = "connected"
      BY <2>1, <3>1 DEF AppInv
    <3>3. c # active
      BY <2>3, <3>2 DEF AppInv, Channels
    <3>4. QED
      BY <1>4, <3>1, <3>2, <3>3
  <2>4. QED
    BY <2>1, <2>2, <2>3 DEF Observe
<1>7. \A d \in Channels : ChildState(d)' = "idle" => seen'[d] \in {"off", "nothing", "idle"}
  <2>1. \A d \in Channels : ChildState(d)' = "idle" => ChildState(d) = "idle"
    BY <1>1, <1>2 DEF ChildState
  <2>2. QED
    BY <1>4, <2>1 DEF AppInv
<1>8. QED
  BY <1>1, <1>2, <1>5, <1>6, <1>7 DEF AppInv, WsOK

\* restart() of the user: everything is off, and then connecting.
LEMMA RestartKeeps ==
  ASSUME HybridInv, HybridStop \/ HybridRestart
  PROVE  HybridInv'
<1> USE DEF HybridInv, AppTypeOK
<1>1. CASE HybridStop
  <2>1. MqttOK' /\ mState' = mState
    BY <1>1, StopKeeps DEF HybridStop
  <2>2. WsOK' /\ (wState' = "idle" => wState = "idle")
    BY <1>1, WsKeeps DEF HybridStop, WsOK, WsStep, WsSteady
  <2>3. AppOK'
    BY <1>1 DEF HybridStop, AppOK, AppInv, Channels
  <2>4. QED
    BY <2>1, <2>2, <2>3 DEF WsOK, AppOK
<1>2. CASE HybridRestart
  <2>1. MqttOK'
    BY <1>2, StartKeeps DEF HybridRestart, HybridStart, MqttOK, MqttTypeOK
  <2>2. WsOK'
    BY <1>2, WsKeeps DEF HybridRestart, HybridStart, WsOK, WsStep, WsSteady
  <2>3. AppOK'
    BY <1>2 DEF HybridRestart, HybridStart, AppOK, AppInv, Channels
  <2>4. QED
    BY <2>1, <2>2, <2>3 DEF WsOK, AppOK
<1>3. QED
  BY <1>1, <1>2

LEMMA HybridStepInv == HybridInv /\ [Next]_vars => HybridInv'
<1>1. SUFFICES ASSUME HybridInv, [Next]_vars PROVE HybridInv'
  OBVIOUS
<1>2. MqttOK /\ WsOK /\ AppOK
  BY <1>1 DEF HybridInv, AppTypeOK, WsOK, AppOK
<1>3. ASSUME UNCHANGED <<mqttVars, raced>> PROVE MqttOK' /\ mState' = mState
  BY <1>2, <1>3 DEF mqttVars, MqttOK, MqttTypeOK, MqttInv, OneClient, StopCloses, MqttTold, IsConnected
<1>4. ASSUME UNCHANGED <<wsVars, stray>> PROVE WsOK' /\ wState' = wState
  BY <1>2, <1>4 DEF wsVars, WsOK, WsInv
<1>5. ASSUME MqttOK', WsOK', AppOK' PROVE HybridInv'
  BY <1>5 DEF HybridInv, AppTypeOK, WsOK, AppOK
<1>6. CASE HybridStop \/ HybridRestart
  BY <1>1, <1>6, RestartKeeps
<1>7. CASE Move
  BY <1>2, <1>3, <1>4, <1>5, <1>7, AppFrame DEF Move, history
<1>8. CASE \E c \in Channels : Observe(c)
  BY <1>1, <1>8, ObserveKeeps
<1>9. CASE OfMqtt(Disconnects \/ MqttCoroutine \/ MqttBites)
  <2>1. MqttOK' /\ (mState' = "idle" => mState = "idle")
    BY <1>2, <1>9, DisconnectKeeps, TellingKeeps DEF OfMqtt, MqttCoroutine, MqttBites
  <2>2. QED
    BY <1>2, <1>4, <1>5, <1>9, <2>1, AppFrame DEF OfMqtt
<1>10. CASE OfMqtt(\E k \in Slots : MqttTask(k) \/ MqttLoss(k) \/ Answered(k) \/ Streamed(k))
  <2>1. MqttOK' /\ (mState' = "idle" => mState = "idle")
    BY <1>2, <1>10, TaskKeeps, TellingKeeps DEF OfMqtt, Answered, Streamed
  <2>2. QED
    BY <1>2, <1>4, <1>5, <1>10, <2>1, AppFrame DEF OfMqtt
<1>11. CASE \/ OfWs(WsTask \/ WsCoroutine \/ \E s \in Sockets : WsSocket(s) \/ WsAnswered(s))
            \/ OfWs(WsBites \/ \E s \in Sockets : WsStray(s))
  <2>1. WsStep /\ UNCHANGED <<mqttVars, appVars, raced>>
    BY <1>11 DEF OfWs, WsTask, WsCoroutine, WsSocket, WsBites, WsStep, WsSteady
  <2>2. WsOK' /\ (wState' = "idle" => wState = "idle")
    BY <1>2, <2>1, WsKeeps
  <2>3. QED
    BY <1>2, <1>3, <1>5, <2>1, <2>2, AppFrame
<1>12. CASE UNCHANGED vars
  BY <1>2, <1>3, <1>4, <1>5, <1>12, AppFrame DEF vars, history
<1>13. QED
  BY <1>1, <1>6, <1>7, <1>8, <1>9, <1>10, <1>11, <1>12 DEF Next

-----------------------------------------------------------------------------

THEOREM ChannelInvariant == Spec => []HybridInv
<1>1. Init => HybridInv
  BY HybridInitInv
<1>2. HybridInv /\ [Next]_vars => HybridInv'
  BY HybridStepInv
<1>3. QED
  BY <1>1, <1>2, PTL DEF Spec

\* The screen shows a device as connected only while commands reach it
\* (HybridDeviceChannel.kt:96-139).
THEOREM ScreenIsTrue == Spec => []ConnectedCanSend
<1>1. HybridInv => ConnectedCanSend
  <2>1. SUFFICES ASSUME HybridInv, Calm, ~raced, ~stray, hState = "connected"
                 PROVE  (active = "mqtt" /\ IsConnected) \/ (active = "ws" /\ sock # 0)
    BY DEF ConnectedCanSend
  <2>2. active \in Channels /\ ChildState(active) = "connected"
    BY <2>1 DEF HybridInv, AppInv, Calm
  <2>3. CASE active = "mqtt"
    BY <2>1, <2>2, <2>3 DEF HybridInv, MqttOK, MqttTypeOK, MqttInv, MqttTold, Calm, ChildState
  <2>4. CASE active = "ws"
    BY <2>1, <2>2, <2>4 DEF HybridInv, WsInv, ChildState
  <2>5. QED
    BY <2>2, <2>3, <2>4 DEF Channels
<1>2. QED
  BY <1>1, ChannelInvariant, PTL

\* A stop() that is over has disconnected every client (MqttDeviceChannel.kt:128-139, 219-236).
THEOREM StopDisconnects == Spec => []StoppedIsOffline
<1>1. HybridInv => StoppedIsOffline
  BY DEF HybridInv, MqttOK, MqttInv, StopCloses, StoppedIsOffline, Calm
<1>2. QED
  BY <1>1, ChannelInvariant, PTL
=============================================================================
