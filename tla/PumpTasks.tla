------------------------------ MODULE PumpTasks -----------------------------
(***************************************************************************)
(* The calls of PumpController taken apart into the statements between     *)
(* which FreeRTOS may switch tasks.  Nothing locks the pump or the relay:  *)
(*   sensor  priority 4, update() every 20 ms, is never interrupted by the *)
(*           other two: it stays one step (PumpController!Update)          *)
(*   net     priority 3, the ws or mqtt task: setRelay, clearPumpFault     *)
(*   button  priority 1, a click: toggle                                   *)
(* A statement of the button's task runs only while net is idle.  pc[t] is *)
(* the statement of its call that task t executes next.                    *)
(***************************************************************************)
EXTENDS PumpController

CONSTANTS SerialCallers,      \* the tasks that call in a serial behaviour,
          PreemptedCallers    \* and in one with preemption

ASSUME TasksAssumption == SerialCallers \cup PreemptedCallers \subseteq {"net", "button"}

VARIABLES pc,
          preempt,      \* FALSE: calls as a mutex around each would run them
          before,       \* history: what the call under way found (serial behaviours)
          overtaken,    \* history: a trip came between two statements of the last turnOn()
          outrun        \* history: the relay was moved between two statements of another's call

taskVars == <<pumpVars, pc, preempt, before, overtaken, outrun>>

Callers == IF preempt THEN PreemptedCallers ELSE SerialCallers

Idle == \A t \in Callers : pc[t] = "idle"

\* What the calls below may change, for the refinement of the serial runs.
Found == [rly |-> rly, latched |-> latched, state |-> state, timer |-> timer,
          led |-> led, mixed |-> mixed, streak |-> streak, stale |-> stale]
None == <<>>

CanRun(t) == t = "net" \/ "net" \notin Callers \/ pc["net"] = "idle"

\* Where a call has looked at the driver and has not written all of it.
RelayStatements ==
  {"on!", "on step?", "close", "step 1", "step 2", "stamp and fire", "fire",
   "off!", "off step?", "cancel", "step 0", "take off", "step 3"}

\* What the driver does now, it does under a call of one of the tasks.
Outrun(tasks) == outrun' = (outrun \/ (rly' # rly /\ \E t \in tasks : pc[t] \in RelayStatements))

\* Statement l of task t is executed and m follows.
Go(t, l, m) ==
  /\ t \in Callers /\ CanRun(t)
  /\ pc[t] = l
  /\ pc' = [pc EXCEPT ![t] = m]
  /\ before' = IF m = "idle" THEN None ELSE before
  /\ UNCHANGED <<preempt, overtaken>>

\* A statement that only reads the shared state, or writes the driver alone.
Reads   == UNCHANGED pumpVars
Relay(r) ==
  /\ rly' = r
  /\ Watch
  /\ UNCHANGED <<cfg, state, latched, timer, led, plantVars, watched>>

-----------------------------------------------------------------------------
(* A call begins *)

Begin(t, call) ==
  /\ t \in Callers /\ CanRun(t) /\ pc[t] = "idle"
  /\ preempt \/ Idle
  /\ pc' = [pc EXCEPT ![t] = call]
  /\ before' = IF preempt THEN None ELSE Found
  /\ overtaken' = FALSE
  /\ UNCHANGED <<pumpVars, preempt, outrun>>

Receive == \E call \in {"on", "off", "clear"} : Begin("net", call)
Click   == Begin("button", "toggle")

\* toggle() decides by the state it reads now.
Decide(t) == Go(t, "toggle", IF rly.on THEN "off" ELSE "on") /\ Reads

-----------------------------------------------------------------------------
(* turnOn() and turnOff() of the pump and, inside them, of the relay *)

\* turnOn() and turnOff() that leave the latch to clearPumpFault().
UnlatchNothing(t) ==
  /\ \/ Go(t, "on", "on?")
     \/ Go(t, "off", "off?")
  /\ UNCHANGED pumpVars

\* _faultLatched = false
Unlatch(t) ==
  /\ \/ Go(t, "on", "on?")
     \/ Go(t, "off", "off?")
  /\ latched' = FALSE
  /\ UNCHANGED <<rly, cfg, state, timer, led, plantVars, mixed, watched>>

\* if (_on) return;  _on = true
OnTest(t) == Go(t, "on?", IF rly.on THEN "event" ELSE "on!") /\ Reads
OnMark(t) == Go(t, "on!", "on step?") /\ Relay([rly EXCEPT !.on = TRUE])

\* if (_step == 3) ... if (_step == 4) ...
OnBranch(t) ==
  /\ Go(t, "on step?", CASE rly.step = 3 -> "step 2" [] rly.step = 4 -> "close" [] OTHER -> "step 1")
  /\ Reads

Close(t)   == Go(t, "close", "step 2") /\ Relay([rly EXCEPT !.contact = TRUE])
TakeOn(t)  == Go(t, "step 2", "stamp") /\ Relay([rly EXCEPT !.step = 2])
FreshOn(t) == Go(t, "step 1", "stamp and fire") /\ Relay([rly EXCEPT !.step = 1])

\* if (!_on) { if (_step == 0) return; if (_step >= 3) return; }  _on = false
OffTest(t) ==
  /\ Go(t, "off?", CASE rly.on -> "off!" [] ~rly.on /\ rly.step = 0 -> "event" [] OTHER -> "off again?")
  /\ Reads
OffAgain(t) == Go(t, "off again?", IF rly.step >= 3 THEN "event" ELSE "off!") /\ Reads
OffMark(t)  == Go(t, "off!", "off step?") /\ Relay([rly EXCEPT !.on = FALSE])

\* turnOff() that opens a contact it should never have waited for.
OffBranchWithoutCancel(t) ==
  /\ Go(t, "off step?", IF rly.step = 2 THEN "take off" ELSE "step 3")
  /\ Reads

\* turnOff() that cancels the wait after the contact as it cancels the one before.
OffBranchCancellingBoth(t) ==
  /\ Go(t, "off step?", IF rly.step \in {1, 2} THEN "cancel" ELSE "step 3")
  /\ Reads

\* if (_step == 1) ... if (_step == 2) ...
OffBranch(t) ==
  /\ Go(t, "off step?", CASE rly.step = 1 -> "cancel" [] rly.step = 2 -> "take off" [] OTHER -> "step 3")
  /\ Reads

Cancel(t)   == Go(t, "cancel", "step 0") /\ Relay([rly EXCEPT !.gate = FALSE])
Rest(t)     == Go(t, "step 0", "event") /\ Relay([rly EXCEPT !.step = 0])
TakeOff(t)  == Go(t, "take off", "stamp") /\ Relay([rly EXCEPT !.step = 3])
FreshOff(t) == Go(t, "step 3", "stamp and fire") /\ Relay([rly EXCEPT !.step = 3])

\* _lastAction = millis();  _triacFire()
Stamp(t) ==
  /\ \/ Go(t, "stamp", "event")
     \/ Go(t, "stamp and fire", "fire")
  /\ Relay([rly EXCEPT !.age = 0])
FireTriac(t) == Go(t, "fire", "event") /\ Relay([rly EXCEPT !.gate = TRUE])

\* The arguments of the event are read, then the LED is set from them.
ReadEvent(t) == Go(t, "event", Show(state, rly.on)) /\ Reads
SetLed(t) ==
  \E shown \in Faults \cup {"HIGH_CURRENT", "ON", "OFF"} :
    /\ Go(t, shown, "idle")
    /\ led' = shown
    /\ UNCHANGED <<rly, cfg, state, latched, timer, plantVars, mixed, watched>>

-----------------------------------------------------------------------------
(* clearPumpFault(), from the network *)

ClearLatch ==
  /\ Go("net", "clear", "timers")
  /\ latched' = FALSE
  /\ UNCHANGED <<rly, cfg, state, timer, led, plantVars, mixed, watched>>

\* clearPumpFault() that forgets one of the three stamps.
ClearTimersButDry ==
  /\ Go("net", "timers", "fault?")
  /\ timer' = [NoTimers EXCEPT !["DRY_RUN"] = timer["DRY_RUN"]]
  /\ streak' = [f \in Faults |-> 0] /\ stale' = {}
  /\ UNCHANGED <<rly, cfg, state, latched, led, plantVars, mixed>>

\* The three stamps, one statement each in the code.
ClearTimers ==
  /\ Go("net", "timers", "fault?")
  /\ timer' = NoTimers
  /\ streak' = [f \in Faults |-> 0] /\ stale' = {}
  /\ UNCHANGED <<rly, cfg, state, latched, led, plantVars, mixed>>

ClearTest == Go("net", "fault?", IF state \in Faults THEN "state" ELSE "idle") /\ Reads

ClearState ==
  /\ Go("net", "state", "event")
  /\ state' = "OFF"
  /\ UNCHANGED <<rly, cfg, latched, timer, led, plantVars, mixed, watched>>

\* The button's task sets the LED while the button is held.
PressLong ==
  /\ "button" \in Callers /\ CanRun("button") /\ pc["button"] = "idle"
  /\ preempt \/ Idle
  /\ LongPress
  /\ UNCHANGED <<pc, preempt, before, overtaken, outrun>>

-----------------------------------------------------------------------------
(* The tasks *)

Statement(t) ==
  /\ \/ Decide(t) \/ Unlatch(t)
     \/ OnTest(t) \/ OnMark(t) \/ OnBranch(t) \/ Close(t) \/ TakeOn(t) \/ FreshOn(t)
     \/ OffTest(t) \/ OffAgain(t) \/ OffMark(t) \/ OffBranch(t)
     \/ Cancel(t) \/ Rest(t) \/ TakeOff(t) \/ FreshOff(t)
     \/ Stamp(t) \/ FireTriac(t) \/ ReadEvent(t) \/ SetLed(t)
  /\ Outrun(Callers \ {t})

Clearing == (ClearLatch \/ ClearTimers \/ ClearTest \/ ClearState) /\ UNCHANGED outrun

\* The sensor task wakes between any two statements of the others.
Sense ==
  /\ preempt \/ Idle
  /\ Update
  /\ overtaken' = (overtaken \/ (~latched /\ latched' /\ \E t \in Callers : pc[t] \in {"on?", "on!"}))
  /\ Outrun(Callers)
  /\ UNCHANGED <<pc, preempt, before>>

\* No call takes as long as a tick; the plant changes meanwhile, if at all,
\* as well before or after the call.
Pass == Idle /\ (Measure \/ ChangeLoad \/ Tick) /\ UNCHANGED <<pc, preempt, before, overtaken, outrun>>

TasksInit ==
  /\ PumpInit
  /\ preempt \in BOOLEAN
  /\ pc = [t \in SerialCallers \cup PreemptedCallers |-> "idle"]
  /\ before = None
  /\ overtaken = FALSE /\ outrun = FALSE

TasksNext ==
  Receive \/ Click \/ PressLong \/ (\E t \in Callers : Statement(t)) \/ Clearing \/ Sense \/ Pass

TasksSafety == TasksInit /\ [][TasksNext]_taskVars

\* Every task runs when it may; the sensor and time as in PumpController.
TasksSpec ==
  /\ TasksSafety
  /\ WF_taskVars(\E t \in Callers : Statement(t))
  /\ WF_taskVars(Clearing)
  /\ WF_taskVars(Sense)
  /\ WF_taskVars(Idle /\ Tick /\ UNCHANGED <<pc, preempt, before, overtaken, outrun>>)

-----------------------------------------------------------------------------
(* Properties *)

\* A call under way still shows what it found.
Seen(f) == IF before = None THEN Found[f] ELSE before[f]
Serial == INSTANCE PumpController
            WITH rly <- Seen("rly"), latched <- Seen("latched"), state <- Seen("state"),
                 timer <- Seen("timer"), led <- Seen("led"), mixed <- Seen("mixed"),
                 streak <- Seen("streak"), stale <- Seen("stale")

\* Without preemption the statements of turnOn, turnOff, toggle and
\* clearPumpFault add up to the atomic calls of PumpController, for every state
\* of the driver they are called in: the two models are the same code.
CallsAreAtomic == Serial!PumpInit /\ [][preempt \/ Serial!PumpNext]_(Serial!pumpVars)

\* What survives preemption, beside TripsAreEarned and TimersBacked: as long as
\* no trip interferes, the TRIAC is released when calls end, however the
\* statements of a network call met the steps of handle().  (A trip between the
\* last two statements of turnOn() leaves it conducting: the trip cancels step
\* 1, then the call fires it.)
TriacIsReleased == []~latched /\ <>[]Idle => []<>~rly.gate

\* Between calls, a latched fault has the relay off, as the app promises of pump
\* mode (values-vi/strings.xml:228), but for one race: the trip came after
\* turnOn() cleared the latch and before it marked the relay on, so that the
\* call switches on what the trip has just switched off.
LatchYieldsOnlyToARace == Idle /\ latched /\ rly.on => overtaken

\* An idle driver that is off has its contact open, as turnOff() says of a start
\* it cancels (RelayController.cpp:76-77: the relay never closed, cancel entirely),
\* unless another task, update() at any time or the network under a click, once moved
\* the driver while a call had looked at it and not yet written it all: the call then
\* writes its step over the contact that was closed meanwhile, the pump runs, and no
\* turnOff() does anything about it.
OffIsOpenButForARace == Idle /\ ~rly.on /\ rly.step = 0 => ~rly.contact \/ outrun
=============================================================================
