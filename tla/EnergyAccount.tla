---------------------------- MODULE EnergyAccount ---------------------------
(***************************************************************************)
(* The energy account: the sensor task adds what the pump draws to the     *)
(* hour (CurrentSensor.cpp), the energy task below it closes the hours     *)
(* (taskEnergyLog of main.cpp: an entry in the power log, the total in     *)
(* data.bin), the NTP task sets the clock both go by (TimeManager.cpp),    *)
(* and the power may fail between any two statements.  A tick is a second, *)
(* an energy unit a part of 3600 watt seconds.                             *)
(***************************************************************************)
EXTENDS Integers

CONSTANTS Hour,       \* ticks of an hour
          Wh,         \* energy units of a watt hour
          MaxDraw,    \* units the pump draws in a tick
          MaxLag,     \* ticks an NTP answer leaves the clock behind
          NtpPeriod,  \* ticks between two settings of the clock
          MaxLate,    \* ticks from one pass of the energy task to the end of the next
          MaxTime, MaxCuts,   \* bounds of the model: its ticks and its power cuts
          None        \* UINT32_MAX in s_lastHourEpoch

ASSUME EnergyAssumption ==
  /\ {Hour, Wh, MaxLate, NtpPeriod} \subseteq Nat \ {0}
  /\ {MaxDraw, MaxLag, MaxTime, MaxCuts} \subseteq Nat
  /\ MaxLag + 2 * MaxLate < NtpPeriod
  /\ None \notin Int

VARIABLES now,                    \* the true time
          synced, base, ref,      \* TimeManager: _timeSynced, _epoch, _epochMillis
          hourEnergy,             \* CurrentSensor: _totalHourWs
          pc, elapsed, h, wh,     \* the energy task: its next statement and its locals
          lastHour, hourRef,      \* s_lastHourEpoch, s_hourRefMillis
          late,                   \* ticks since the energy task last went to sleep
          total, saved,           \* _data.totalPower, and the one in data.bin
          cuts,
          entries,                \* the power log: for each hour the Wh of its entries, and of the largest
          drawn, boot, closings   \* history: energy since ever; drawn, total and saved at boot; hours closed since

clock   == <<synced, base, ref>>
locals  == <<elapsed, h, wh>>
flash   == <<saved, entries>>
history == <<drawn, boot, closings>>
energyVars ==
  <<now, clock, hourEnergy, pc, locals, lastHour, hourRef, late, total, flash, cuts, history>>

Hours == 0..((MaxTime + NtpPeriod) \div Hour)
NoEntry == [sum |-> 0, most |-> 0]

-----------------------------------------------------------------------------
(* Faulty variants, for mutation. *)

\* Watt hours that are rounded instead of cut.
TakeRounded ==
  /\ pc = "take"
  /\ wh' = (hourEnergy + Wh - 1) \div Wh
  /\ pc' = IF wh' = 0 THEN "reset" ELSE IF h = None THEN "book" ELSE "log"
  /\ UNCHANGED <<now, clock, hourEnergy, elapsed, h, lastHour, hourRef, late, total, flash, cuts, history>>

\* A pass that resets the energy in any hour.
ReadAndReset ==
  /\ pc = "epoch"
  /\ h' = (base + elapsed) \div Hour
  /\ IF lastHour \in {h', None}
     THEN lastHour' = h' /\ hourRef' = now /\ hourEnergy' = 0 /\ pc' = "idle" /\ late' = 0
     ELSE pc' = "take" /\ UNCHANGED <<lastHour, hourRef, late, hourEnergy>>
  /\ UNCHANGED <<now, clock, elapsed, wh, total, flash, cuts, history>>

\* A pass that ends without its reset.
NoReset ==
  /\ pc = "reset" /\ pc' = "idle" /\ late' = 0
  /\ closings' = closings + 1
  /\ UNCHANGED <<now, clock, hourEnergy, locals, lastHour, hourRef, total, flash, cuts, drawn, boot>>

-----------------------------------------------------------------------------
(* The sensor task and the NTP task, both above the energy task *)

\* A second passes; CurrentSensor::loop() adds what was drawn in it.
Tick ==
  /\ now < MaxTime /\ late < MaxLate
  /\ synced => now - ref < NtpPeriod
  /\ now' = now + 1 /\ late' = late + 1
  /\ \E e \in 0..MaxDraw : hourEnergy' = hourEnergy + e /\ drawn' = drawn + e
  /\ UNCHANGED <<clock, pc, locals, lastHour, hourRef, total, flash, cuts, boot, closings>>

\* NTPClient::getEpochTime(): an answer without its fraction and half its way, or when
\* the server is silent the last answer gone on.
EpochTimes == {now - lag : lag \in {l \in 0..MaxLag : l <= now}}

\* taskNtpUpdate(): once it has a time it sets it every minute.
SetTime ==
  /\ synced => now - ref = NtpPeriod
  /\ base' \in EpochTimes
  /\ synced' = TRUE /\ ref' = now
  /\ UNCHANGED <<now, hourEnergy, pc, locals, lastHour, hourRef, late, total, flash, cuts, history>>

-----------------------------------------------------------------------------
(* taskEnergyLog() *)

Sleep == pc' = "idle" /\ late' = 0

\* The first half of getEpoch(), or without a clock the test of the hour by millis().
Wake ==
  /\ pc = "idle" /\ late > 0
  /\ h' = None /\ wh' = 0
  /\ IF synced THEN elapsed' = now - ref /\ pc' = "epoch" /\ UNCHANGED late
     ELSE /\ elapsed' = 0
          /\ IF now - hourRef >= Hour THEN pc' = "take" /\ UNCHANGED late ELSE Sleep
  /\ UNCHANGED <<now, clock, hourEnergy, lastHour, hourRef, total, flash, cuts, history>>

\* The second half of getEpoch(), with a base that may be newer than elapsed.
ReadEpoch ==
  /\ pc = "epoch"
  /\ h' = (base + elapsed) \div Hour
  /\ IF lastHour \in {h', None}
     THEN lastHour' = h' /\ hourRef' = now /\ Sleep
     ELSE pc' = "take" /\ UNCHANGED <<lastHour, hourRef, late>>
  /\ UNCHANGED <<now, clock, hourEnergy, elapsed, wh, total, flash, cuts, history>>

\* uint32_t wh = getHourlyEnergy(): the whole watt hours.
TakeWh ==
  /\ pc = "take"
  /\ \E w \in 0..hourEnergy :
       /\ w * Wh <= hourEnergy /\ hourEnergy < (w + 1) * Wh
       /\ wh' = w
       /\ pc' = IF w = 0 THEN "reset" ELSE IF h = None THEN "book" ELSE "log"
  /\ UNCHANGED <<now, clock, hourEnergy, elapsed, h, lastHour, hourRef, late, total, flash, cuts, history>>

\* _rotate(): when the folder is full the oldest files go, those of hours before first.
Rotated(first) == [hour \in Hours |-> IF hour < first THEN NoEntry ELSE entries[hour]]

\* logHourly(): a line for the hour that ended, unless the file cannot be opened.
LogHour ==
  /\ pc = "log" /\ pc' = "book"
  /\ \E first \in {0, lastHour} :
       \/ entries' = [Rotated(first) EXCEPT ![lastHour] =
            [sum |-> @.sum + wh, most |-> IF wh > @.most THEN wh ELSE @.most]]
       \/ entries' = Rotated(first)
  /\ UNCHANGED <<now, clock, hourEnergy, locals, lastHour, hourRef, late, total, saved, cuts, history>>

\* DataManager::addTotalPower(): the total in memory.
Book ==
  /\ pc = "book" /\ pc' = "save"
  /\ total' = total + wh
  /\ UNCHANGED <<now, clock, hourEnergy, locals, lastHour, hourRef, late, flash, cuts, history>>

\* DataManager::_save(): data.bin is old or new, also when a write fails: the close commits it.
Save ==
  /\ pc = "save" /\ pc' = "reset"
  /\ saved' \in {saved, total}
  /\ UNCHANGED <<now, clock, hourEnergy, locals, lastHour, hourRef, late, total, entries, cuts, history>>

\* resetHourlyEnergy() and the hour the account is in.
Reset ==
  /\ pc = "reset"
  /\ hourEnergy' = 0 /\ hourRef' = now /\ Sleep
  /\ lastHour' = IF h = None THEN lastHour ELSE h
  /\ closings' = closings + 1
  /\ UNCHANGED <<now, clock, locals, total, flash, cuts, drawn, boot>>

-----------------------------------------------------------------------------
(* Power *)

\* The power fails and returns within a tick: setup(), DataManager::begin(), which
\* goes on with 0 when data.bin cannot be opened or has another size.
PowerCut ==
  /\ cuts < MaxCuts /\ cuts' = cuts + 1
  /\ now' \in {n \in {now, now + 1} : n <= MaxTime}
  /\ synced' = FALSE /\ base' = 0 /\ ref' = 0
  /\ hourEnergy' = 0
  /\ pc' = "idle" /\ elapsed' = 0 /\ h' = None /\ wh' = 0
  /\ lastHour' = None /\ hourRef' = now' /\ late' = 0
  /\ total' \in {saved, 0}
  /\ boot' = [drawn |-> drawn, total |-> total', saved |-> saved] /\ closings' = 0
  /\ UNCHANGED <<flash, drawn>>

EnergyInit ==
  /\ now = 0 /\ synced = FALSE /\ base = 0 /\ ref = 0
  /\ hourEnergy = 0
  /\ pc = "idle" /\ elapsed = 0 /\ h = None /\ wh = 0
  /\ lastHour = None /\ hourRef = 0 /\ late = 0
  /\ total = 0 /\ saved = 0 /\ cuts = 0
  /\ entries = [hour \in Hours |-> NoEntry]
  /\ drawn = 0 /\ boot = [drawn |-> 0, total |-> 0, saved |-> 0] /\ closings = 0

EnergyTask == Wake \/ ReadEpoch \/ TakeWh \/ LogHour \/ Book \/ Save \/ Reset

EnergyNext == Tick \/ SetTime \/ EnergyTask \/ PowerCut

EnergySpec == EnergyInit /\ [][EnergyNext]_energyVars

-----------------------------------------------------------------------------
(* Properties *)

\* What is in the account, in units: while the hour is booked and not yet reset,
\* it is in both the hour and the total.
Unbilled == hourEnergy - (IF pc \in {"save", "reset"} THEN Wh * wh ELSE 0)

\* Every watt hour booked was drawn and is booked once, whatever the statement a
\* power cut or the sensor task comes in at, and whether the boot could load the total
\* or not: what the total and the open hour hold together was drawn, so was what flash
\* holds, and flash is ahead of memory only in a boot that did not load it (whose
\* next save then writes the smaller total over it).
NeverOverbilled ==
  /\ Wh * total + Unbilled <= drawn /\ Unbilled >= 0
  /\ Wh * saved <= drawn
  /\ saved <= total \/ (saved = boot.saved /\ boot.total < boot.saved)

\* What an hour closed since the boot may lose is the rest below a watt hour, and
\* what is drawn while it is being closed.
AccountIsClose ==
  (drawn - boot.drawn) - Wh * (total - boot.total) - Unbilled
     <= closings * (Wh - 1 + MaxLate * MaxDraw)

\* The clock may step back over a border of an hour, or a preempted getEpoch() read
\* it ahead, and the hour is closed more than once: the log still tells it in one
\* entry, the largest, and the others hold no more than the pump draws in the time
\* around the two borders in which the clock may be on the wrong side of them.  The
\* app does not look for the largest: it keeps the last (parsePowerLogData), which
\* after a step back over the end of the hour is one of the small ones.
OtherEntriesAreSmall ==
  \A hour \in Hours :
    Wh * (entries[hour].sum - entries[hour].most)
       <= MaxDraw * (2 * (NtpPeriod + MaxLag) + 3 * MaxLate)
=============================================================================
