----------------------------- MODULE OtaBootGuard ---------------------------
(***************************************************************************)
(* src/src/OtaBootGuard.cpp: the emergency update by hand.  A constructor  *)
(* that runs before all others arms itself in one power-on boot with the   *)
(* button held, and in a later one asks for a hold and a release before it *)
(* takes the boot over.  It runs alone: time passes only in its own delays *)
(* and the button moves, and the power fails, between any two of its steps.*)
(* Its one key in flash may fail to be read (that counts as IDLE) and to   *)
(* be written (that is not noticed).                                       *)
(***************************************************************************)
EXTENDS Naturals

CONSTANTS HoldTime,      \* OTA_BTN_HOLD_MS in polls of the hold loop
          ReleaseTime    \* OTA_BTN_RELEASE_MS in polls of the release loop

ASSUME GuardAssumption == HoldTime \in Nat \ {0} /\ ReleaseTime \in Nat \ {0}

VARIABLES phase,     \* where the boot is
          cause,     \* ln_chip_get_reboot_cause()
          kv,        \* the key "ota_btn" in flash, "NONE" when never written
          pressed,   \* the button
          clock,     \* polls since the running loop of the pattern began
          reason,    \* history: why the flash may say PREPARING: a boot with the
                     \*   button since the last one without it, or a flash error in that one
          held       \* history: consecutive polls of the hold loop that saw the button

guardVars == <<phase, cause, kv, pressed, clock, reason, held>>
history == <<reason, held>>

Phases == {"off", "guard", "hold", "release", "wifi", "download", "normal"}
InOta  == {"wifi", "download"}

-----------------------------------------------------------------------------
(* Faulty variants, for mutation. *)

\* A guard that also acts on software and watchdog reboots.
SkipNothing == FALSE

\* A guard that forgets to disarm.
GuardKeeps ==
  /\ phase = "guard" /\ cause = "POWER_ON" /\ ~pressed
  /\ phase' = "normal" /\ reason' = "none"
  /\ UNCHANGED <<cause, kv, pressed, clock, held>>

\* A hold loop that does not look at the button.
HoldBlindly ==
  /\ phase = "hold" /\ clock < HoldTime
  /\ clock' = clock + 1
  /\ held' = IF pressed THEN held + 1 ELSE 0
  /\ UNCHANGED <<phase, cause, kv, pressed, reason>>

\* A release loop without its time limit.
WaitForEver ==
  /\ phase = "release" /\ clock < ReleaseTime
  /\ pressed' \in BOOLEAN
  /\ phase' = IF pressed' THEN "release" ELSE "wifi"
  /\ UNCHANGED <<cause, kv, clock, history>>

-----------------------------------------------------------------------------
(* The world: power, button, and the reboots of the normal firmware *)

PowerOn ==
  /\ phase = "off"
  /\ phase' = "guard" /\ cause' = "POWER_ON"
  /\ UNCHANGED <<kv, pressed, clock, history>>

PowerOff ==
  /\ phase # "off"
  /\ phase' = "off"
  /\ UNCHANGED <<cause, kv, pressed, clock, history>>

MoveButton ==
  /\ pressed' = ~pressed
  /\ UNCHANGED <<phase, cause, kv, clock, history>>

\* The reboot command, a watchdog or heap restart.
Reboot ==
  /\ phase = "normal"
  /\ phase' = "guard" /\ cause' \in {"SOFTWARE", "WATCHDOG"}
  /\ UNCHANGED <<kv, pressed, clock, history>>

-----------------------------------------------------------------------------
(* otaBootGuard() *)

Stored == IF kv = "NONE" THEN "IDLE" ELSE kv

\* otaStateRead(): a key that is not there or cannot be read is IDLE.
otaStateRead == {Stored, "IDLE"}

\* otaStateWrite(): the result of ln_kv_set() is dropped.
otaStateWrite(state) == kv' \in {kv, state}

Skipped == cause # "POWER_ON"

GuardSkips ==
  /\ phase = "guard" /\ Skipped
  /\ phase' = "normal"
  /\ UNCHANGED <<cause, kv, pressed, clock, history>>

\* Without the button: anything but IDLE is overwritten.
GuardDisarms ==
  /\ phase = "guard" /\ ~Skipped /\ ~pressed
  /\ phase' = "normal"
  /\ \E state \in otaStateRead :
       /\ IF state = "IDLE" THEN UNCHANGED kv ELSE otaStateWrite("IDLE")
       /\ reason' = IF state = Stored /\ (state = "IDLE" \/ kv' = "IDLE")
                    THEN "none" ELSE "flash error"
  /\ UNCHANGED <<cause, pressed, clock, held>>

GuardArms ==
  /\ phase = "guard" /\ ~Skipped /\ pressed
  /\ \E state \in otaStateRead : state # "PREPARING"
  /\ otaStateWrite("PREPARING")
  /\ phase' = "normal" /\ reason' = "armed"
  /\ UNCHANGED <<cause, pressed, clock, held>>

GuardAsks ==
  /\ phase = "guard" /\ ~Skipped /\ pressed
  /\ \E state \in otaStateRead : state = "PREPARING"
  /\ phase' = "hold" /\ clock' = 0 /\ held' = 0
  /\ UNCHANGED <<cause, kv, pressed, reason>>

\* otaConfirmPattern(): the hold loop, then the release loop.
HoldPoll ==
  /\ phase = "hold" /\ clock < HoldTime
  /\ IF pressed
     THEN clock' = clock + 1 /\ held' = held + 1 /\ UNCHANGED phase
     ELSE phase' = "normal" /\ UNCHANGED <<clock, held>>
  /\ UNCHANGED <<cause, kv, pressed, reason>>

HoldDone ==
  /\ phase = "hold" /\ clock >= HoldTime
  /\ phase' = "release" /\ clock' = 0
  /\ UNCHANGED <<cause, kv, pressed, history>>

\* The loop first waits, and the button may move meanwhile.
ReleasePoll ==
  /\ phase = "release" /\ clock < ReleaseTime
  /\ pressed' \in BOOLEAN
  /\ clock' = clock + 1
  /\ phase' = IF pressed' THEN "release" ELSE "wifi"
  /\ UNCHANGED <<cause, kv, history>>

ReleaseMissed ==
  /\ phase = "release" /\ clock >= ReleaseTime
  /\ phase' = "normal"
  /\ UNCHANGED <<cause, kv, pressed, clock, history>>

-----------------------------------------------------------------------------
(* otaUploadTask(): one attempt, and a reboot whatever came of it *)

Restart == phase' = "guard" /\ cause' = "SOFTWARE"

WifiFails ==
  /\ phase = "wifi" /\ Restart
  /\ UNCHANGED <<kv, pressed, clock, history>>

WifiConnects ==
  /\ phase = "wifi" /\ phase' = "download"
  /\ UNCHANGED <<cause, kv, pressed, clock, history>>

\* The download succeeds or fails; a server that stalls keeps it here.
DownloadEnds ==
  /\ phase = "download" /\ Restart
  /\ UNCHANGED <<kv, pressed, clock, history>>

-----------------------------------------------------------------------------

GuardInit ==
  /\ phase = "off" /\ cause = "POWER_ON" /\ kv = "NONE"
  /\ pressed \in BOOLEAN /\ clock = 0
  /\ reason = "none" /\ held = 0

World == PowerOn \/ PowerOff \/ MoveButton \/ Reboot

Pattern == HoldPoll \/ HoldDone \/ ReleasePoll \/ ReleaseMissed

Guard == GuardSkips \/ GuardDisarms \/ GuardArms \/ GuardAsks \/ Pattern

Upload == WifiFails \/ WifiConnects \/ DownloadEnds

GuardNext == World \/ Guard \/ Upload

GuardSafety == GuardInit /\ [][GuardNext]_guardVars

\* The guard runs alone; WiFi.begin() is given OTA_WIFI_TIMEOUT_MS and a
\* download goes on for as long as the server answers.
GuardSpec ==
  GuardSafety /\ WF_guardVars(Guard) /\ WF_guardVars(WifiFails \/ WifiConnects)

-----------------------------------------------------------------------------
(* Properties *)

GuardTypeOK ==
  /\ phase \in Phases
  /\ cause \in {"POWER_ON", "SOFTWARE", "WATCHDOG"}
  /\ kv \in {"NONE", "IDLE", "PREPARING"}
  /\ pressed \in BOOLEAN
  /\ clock \in Nat /\ held \in Nat
  /\ reason \in {"none", "armed", "flash error"}

\* The boot is taken over only by a button held through the whole first
\* window, and only after a power-on boot that had the button pressed, with
\* none without it since: crashes, reboots, failed attempts and armings that
\* did not reach the flash do not help (OtaBootGuard.cpp:16-26).  The one way
\* round it is a flash error in the very boot that was to disarm (71-78).
TakeoverIsMeant == phase \in InOta => held >= HoldTime /\ reason \in {"armed", "flash error"}

\* A reboot by the firmware itself never takes the boot over again: after an
\* attempt, good or bad, the device boots normally until its power is cycled.
OneAttemptPerPowerOn == phase \in {"hold", "release"} \cup InOta => cause = "POWER_ON"

\* The guard does not hang: whatever the button does, a powered boot ends in
\* the normal firmware, in the download or without power.
BootGoesOn == phase \in {"guard", "hold", "release", "wifi"} ~> phase \in {"normal", "download", "off"}

\* GuardInv is inductive: the flash says PREPARING only as the
\* history explains it.
GuardInv ==
  /\ GuardTypeOK
  /\ kv = "PREPARING" => reason # "none"
  /\ phase \in {"hold", "release"} \cup InOta => kv = "PREPARING" /\ cause = "POWER_ON"
  /\ phase = "hold" => held = clock
  /\ phase \in {"release"} \cup InOta => held >= HoldTime
=============================================================================
