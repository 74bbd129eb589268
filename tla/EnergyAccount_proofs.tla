------------------------- MODULE EnergyAccount_proofs -----------------------
(***************************************************************************)
(* The energy account never bills what was not drawn, loses less than a    *)
(* watt hour and a pass of the task at the close of an hour, and puts all  *)
(* but a bounded part of an hour in one entry of it, for every length of   *)
(* the hour, of a pass and of the NTP period, every lag of the clock,      *)
(* every power drawn and any number of power cuts.                         *)
(***************************************************************************)
EXTENDS EnergyAccount, TLAPS

USE EnergyAssumption

EnergyTypeOK ==
  /\ hourEnergy \in Nat /\ wh \in Nat
  /\ total \in Nat /\ saved \in Nat /\ drawn \in Nat /\ closings \in Nat
  /\ boot \in [drawn : Nat, total : Nat, saved : Nat]
  /\ late \in 0..MaxLate
  /\ pc \in {"idle", "epoch", "take", "log", "book", "save", "reset"}

\* While an hour is being closed, its energy is what was taken of it and at most
\* what was drawn since the task woke.
Closing ==
  pc \in {"log", "book", "save", "reset"} =>
    Wh * wh <= hourEnergy /\ hourEnergy <= Wh * wh + (Wh - 1) + MaxDraw * late

EnergyInv == EnergyTypeOK /\ Closing /\ NeverOverbilled /\ AccountIsClose

-----------------------------------------------------------------------------
(* Products of naturals, for the solver *)

LEMMA ProductsAreNat == \A a, b \in Nat : a * b \in Nat
OBVIOUS

LEMMA ProductGrows == \A a, b \in Nat : a * (b + 1) = a * b + a
OBVIOUS

LEMMA ProductOfSum == \A a, b, c \in Nat : a * (b + c) = a * b + a * c
OBVIOUS

LEMMA ProductIsMonotone ==
  ASSUME NEW a \in Nat, NEW b \in Nat, NEW c \in Nat, b <= c
  PROVE  a * b <= a * c
<1>1. PICK d \in Nat : c = b + d
  <2>1. c - b \in Nat /\ c = b + (c - b)
    OBVIOUS
  <2>2. QED
    BY <2>1
<1>2. a * c = a * b + a * d
  BY <1>1, ProductOfSum
<1>3. a * b \in Nat /\ a * d \in Nat /\ a * c \in Nat
  BY <1>1, ProductsAreNat
<1>4. QED
  BY <1>2, <1>3

-----------------------------------------------------------------------------

\* The account of a new device is empty.
LEMMA EnergyInitInv == EnergyInit => EnergyInv
BY DEF EnergyInit, EnergyInv, EnergyTypeOK, Closing, NeverOverbilled, AccountIsClose, Unbilled

\* A second's energy is drawn and in the open hour at once.
LEMMA TickInv == EnergyInv /\ Tick => EnergyInv'
<1>1. SUFFICES ASSUME EnergyInv, Tick PROVE EnergyInv'
  OBVIOUS
<1>2. PICK e \in 0..MaxDraw : hourEnergy' = hourEnergy + e /\ drawn' = drawn + e
  BY <1>1 DEF Tick
<1> USE DEF EnergyInv, EnergyTypeOK, locals, flash
<1>3. EnergyTypeOK'
  BY <1>1, <1>2 DEF Tick
<1>4. MaxDraw * late' = MaxDraw * late + MaxDraw /\ MaxDraw * late \in Nat /\ Wh * wh \in Nat
  BY <1>1, ProductGrows, ProductsAreNat DEF Tick
<1>5. Closing'
  BY <1>1, <1>2, <1>4 DEF Tick, Closing
<1>6. Unbilled' = Unbilled + e /\ Unbilled \in Int
  <2>1. pc' = pc /\ wh' = wh
    BY <1>1 DEF Tick
  <2>2. hourEnergy \in Nat
    BY <1>1
  <2>3. e \in Nat
    BY <1>2
  <2>4. QED
    BY <1>2, <1>4, <2>1, <2>2, <2>3 DEF Unbilled
<1>7. NeverOverbilled'
  <2>1. Wh * total \in Nat
    BY <1>1, ProductsAreNat
  <2>2. QED
    BY <1>1, <1>2, <1>6, <2>1 DEF Tick, NeverOverbilled
<1>8. AccountIsClose'
  BY <1>1, <1>2, <1>6 DEF Tick, AccountIsClose
<1>9. QED
  BY <1>3, <1>5, <1>7, <1>8

\* The clock is not part of the account.
LEMMA SetTimeInv == EnergyInv /\ SetTime => EnergyInv'
BY DEF EnergyInv, EnergyTypeOK, Closing, NeverOverbilled, AccountIsClose, Unbilled,
       SetTime, locals, flash, history

\* The task wakes and reads the clock.
LEMMA ReadInv == EnergyInv /\ (Wake \/ ReadEpoch) => EnergyInv'
BY DEF EnergyInv, EnergyTypeOK, Closing, NeverOverbilled, AccountIsClose, Unbilled,
       Wake, ReadEpoch, Sleep, locals, flash, history

\* The whole watt hours of the hour are in it, and the rest is less than one.
LEMMA TakeInv == EnergyInv /\ TakeWh => EnergyInv'
<1>1. SUFFICES ASSUME EnergyInv, TakeWh PROVE EnergyInv'
  OBVIOUS
<1>2. PICK w \in 0..hourEnergy :
        /\ w * Wh <= hourEnergy /\ hourEnergy < (w + 1) * Wh
        /\ wh' = w
        /\ pc' = IF w = 0 THEN "reset" ELSE IF h = None THEN "book" ELSE "log"
  BY <1>1 DEF TakeWh
<1> USE DEF EnergyInv, EnergyTypeOK, flash, history
<1>3. w \in Nat /\ hourEnergy \in Nat
  BY <1>1
<1>4. w * Wh = Wh * w /\ (w + 1) * Wh = Wh * w + Wh /\ Wh * w \in Nat
  BY <1>3, ProductGrows, ProductsAreNat
<1>5. MaxDraw * late \in Nat
  BY <1>1, ProductsAreNat
<1>6. EnergyTypeOK' /\ Closing'
  BY <1>1, <1>2, <1>3, <1>4, <1>5 DEF TakeWh, Closing
<1>7. Unbilled' = Unbilled
  <2>1. w = 0 => Wh * w = 0
    BY <1>4
  <2>2. QED
    BY <1>1, <1>2, <1>3, <2>1 DEF TakeWh, Unbilled
<1>8. QED
  BY <1>1, <1>6, <1>7 DEF TakeWh, NeverOverbilled, AccountIsClose

\* The entry of the power log is apart from the account.
LEMMA LogInv == EnergyInv /\ LogHour => EnergyInv'
BY DEF EnergyInv, EnergyTypeOK, Closing, NeverOverbilled, AccountIsClose, Unbilled,
       LogHour, locals, history

\* Booking moves the watt hours from the open hour to the total.
LEMMA BookInv == EnergyInv /\ Book => EnergyInv'
<1>1. SUFFICES ASSUME EnergyInv, Book PROVE EnergyInv'
  OBVIOUS
<1> USE DEF EnergyInv, EnergyTypeOK, locals, flash, history
<1>2. EnergyTypeOK' /\ Closing'
  BY <1>1 DEF Book, Closing
<1>3. Wh * total' = Wh * total + Wh * wh /\ Wh * wh \in Nat /\ Wh * total \in Nat
  BY <1>1, ProductOfSum, ProductsAreNat DEF Book
<1>4. Unbilled' = Unbilled - Wh * wh /\ Unbilled = hourEnergy
  BY <1>1, <1>3 DEF Book, Unbilled
<1>5. NeverOverbilled'
  BY <1>1, <1>3, <1>4 DEF Book, NeverOverbilled, Closing
<1>6. Wh * (total' - boot'.total) = Wh * (total - boot.total) + Wh * wh
  BY <1>1, <1>3 DEF Book
<1>7. AccountIsClose'
  BY <1>1, <1>3, <1>4, <1>6 DEF Book, AccountIsClose
<1>8. QED
  BY <1>2, <1>5, <1>7

\* Saving makes flash the total or leaves it behind.
LEMMA SaveInv == EnergyInv /\ Save => EnergyInv'
BY DEF EnergyInv, EnergyTypeOK, Closing, NeverOverbilled, AccountIsClose, Unbilled,
       Save, locals, history

\* The reset drops the rest of the hour and what was drawn while it was closed.
LEMMA ResetInv == EnergyInv /\ Reset => EnergyInv'
<1>1. SUFFICES ASSUME EnergyInv, Reset PROVE EnergyInv'
  OBVIOUS
<1> DEFINE K == Wh - 1 + MaxLate * MaxDraw
<1> USE DEF EnergyInv, EnergyTypeOK, locals, flash
<1>2. EnergyTypeOK' /\ Closing'
  BY <1>1 DEF Reset, Sleep, Closing
<1>3. Wh * total \in Nat /\ Wh * wh \in Nat /\ MaxLate * MaxDraw \in Nat
  BY <1>1, ProductsAreNat
<1>4. Unbilled' = 0 /\ Unbilled = hourEnergy - Wh * wh
  BY <1>1 DEF Reset, Sleep, Unbilled
<1>5. NeverOverbilled'
  BY <1>1, <1>3, <1>4 DEF Reset, NeverOverbilled
<1>6. MaxDraw * late <= MaxLate * MaxDraw /\ MaxDraw * late \in Nat
  BY <1>1, ProductIsMonotone, ProductsAreNat
<1>7. Unbilled <= K
  BY <1>1, <1>3, <1>4, <1>6 DEF Reset, Closing
<1>8. closings' * K = closings * K + K /\ closings * K \in Nat /\ K \in Nat
  <2>1. K \in Nat
    BY <1>3
  <2>2. QED
    BY <1>1, <2>1, ProductGrows, ProductsAreNat DEF Reset
<1>9. Wh * (total - boot.total) \in Int /\ drawn - boot.drawn \in Int
  BY <1>1
<1>10. AccountIsClose'
  <2>1. (drawn - boot.drawn) - Wh * (total - boot.total) - Unbilled <= closings * K
    BY <1>1 DEF AccountIsClose
  <2>2. Unbilled \in Int
    BY <1>1, <1>3, <1>4
  <2>3. (drawn - boot.drawn) - Wh * (total - boot.total) - 0 <= closings * K + K
    BY <1>7, <1>8, <1>9, <2>1, <2>2
  <2>4. drawn' = drawn /\ boot' = boot /\ total' = total
    BY <1>1 DEF Reset
  <2>5. QED
    BY <1>4, <1>8, <2>3, <2>4 DEF AccountIsClose
<1>11. QED
  BY <1>2, <1>5, <1>10

\* A power cut takes the account back to what flash holds, or to nothing.
LEMMA PowerCutInv == EnergyInv /\ PowerCut => EnergyInv'
<1>1. SUFFICES ASSUME EnergyInv, PowerCut PROVE EnergyInv'
  OBVIOUS
<1> USE DEF EnergyInv, EnergyTypeOK, flash
<1>2. EnergyTypeOK' /\ Closing'
  BY <1>1 DEF PowerCut, Closing
<1>3. total' \in {saved, 0} /\ Wh * 0 = 0 /\ Wh * saved \in Nat /\ Wh * saved <= drawn
  BY <1>1, ProductsAreNat DEF PowerCut, NeverOverbilled
<1>4. Unbilled' = 0 /\ Unbilled \in Int
  BY <1>1, ProductsAreNat DEF PowerCut, Unbilled
<1>5. NeverOverbilled'
  BY <1>1, <1>3, <1>4 DEF PowerCut, NeverOverbilled
<1>6. AccountIsClose'
  BY <1>1, <1>4 DEF PowerCut, AccountIsClose
<1>7. QED
  BY <1>2, <1>5, <1>6

\* Every step keeps the account.
LEMMA EnergyStepInv == EnergyInv /\ [EnergyNext]_energyVars => EnergyInv'
<1>1. CASE UNCHANGED energyVars
  BY <1>1 DEF EnergyInv, EnergyTypeOK, Closing, NeverOverbilled, AccountIsClose, Unbilled,
              energyVars, locals, flash, history
<1>2. QED
  BY <1>1, TickInv, SetTimeInv, ReadInv, TakeInv, LogInv, BookInv, SaveInv, ResetInv, PowerCutInv
     DEF EnergyNext, EnergyTask

-----------------------------------------------------------------------------

THEOREM EnergyInvariant == EnergySpec => []EnergyInv
<1>1. EnergyInit => EnergyInv
  BY EnergyInitInv
<1>2. EnergyInv /\ [EnergyNext]_energyVars => EnergyInv'
  BY EnergyStepInv
<1>3. QED
  BY <1>1, <1>2, PTL DEF EnergySpec

\* No watt hour is booked that was not drawn, and none twice (main.cpp:510-534), also
\* across boots that did not load the total (DataManager.cpp:7-13).
THEOREM NothingIsOverbilled == EnergySpec => []NeverOverbilled
<1>1. EnergyInv => NeverOverbilled
  BY DEF EnergyInv
<1>2. QED
  BY <1>1, EnergyInvariant, PTL

\* What the account loses at a close of an hour is bounded (main.cpp:510-517).
THEOREM LossIsBounded == EnergySpec => []AccountIsClose
<1>1. EnergyInv => AccountIsClose
  BY DEF EnergyInv
<1>2. QED
  BY <1>1, EnergyInvariant, PTL

-----------------------------------------------------------------------------
(* The other entries of an hour                                            *)
(*                                                                         *)
(* An hour k is closed when the clock shows another one.  The clock is     *)
(* read between MaxLag + MaxLate behind and NtpPeriod ahead of the time    *)
(* the task woke at, so that k is closed around its start, with what was   *)
(* drawn since NtpPeriod before it, or around its end.  The first entry at *)
(* the end may be all of the hour; those after it hold what was drawn      *)
(* since.  The energy from before the clock was first set is no exception: *)
(* the hour that is first read is not left backwards.                      *)

Taken == {"take", "log", "book", "save", "reset"}
Logged == {"book", "save", "reset"}

StartOf(k) == k * Hour
EndOf(k) == StartOf(k) + Hour

\* What is drawn at most from one time to another.
Draw(from, to) == IF to > from THEN MaxDraw * (to - from) ELSE 0

StartDraw == MaxDraw * (NtpPeriod + MaxLag + MaxLate)
EndDraw == MaxDraw * (NtpPeriod + MaxLag + 2 * MaxLate)

EntriesTyped ==
  /\ now \in Nat /\ base \in Nat /\ ref \in Nat /\ elapsed \in Nat
  /\ lastHour \in Nat \cup {None} /\ h \in Nat \cup {None}
  /\ synced \in BOOLEAN
  /\ entries \in [Hours -> [sum : Nat, most : Nat]]
  /\ \A k \in Hours : entries[k].most <= entries[k].sum

\* Of a pass that has half of the time: it reads the time it woke at, less the lag, or
\* the clock was set in between and it reads ahead.
ReadsNow == now - late <= ref + elapsed /\ ref + elapsed <= now
ReadsAhead == lastHour # None /\ now - late <= ref /\ NtpPeriod - MaxLate <= elapsed

ClockInv ==
  /\ synced => /\ ref <= now /\ now <= ref + NtpPeriod
               /\ base <= ref /\ ref <= base + MaxLag
  /\ lastHour # None => synced
  /\ pc = "epoch" => synced /\ elapsed <= NtpPeriod /\ (ReadsNow \/ ReadsAhead)
  /\ synced /\ lastHour = None => /\ now <= ref + MaxLate + late
                                  /\ pc \in Taken => now <= ref + late
  /\ pc \in Taken => (h = None) = (lastHour = None)
  /\ pc \in Taken /\ h # None => h # lastHour
  /\ pc = "log" => h # None

\* An hour is shown from NtpPeriod before its start, and to a pass that wakes before
\* its end and the lag.
HourInv ==
  /\ lastHour # None => /\ StartOf(lastHour) <= now + NtpPeriod
                        /\ now - late < EndOf(lastHour) + MaxLag + MaxLate
  /\ pc \in Taken /\ h # None => /\ StartOf(h) <= now + NtpPeriod
                                 /\ now - late < EndOf(h) + MaxLag

\* No later reading is before the hour.
Firm(k) ==
  /\ base >= StartOf(k) \/ base + (now - late) - ref >= StartOf(k)
  /\ ref + NtpPeriod - MaxLag >= StartOf(k)

\* The hour may be left, or is being left, backwards.
Exposed(k) ==
  /\ lastHour = k
  /\ \/ pc \in {"idle", "epoch"} /\ ~Firm(k)
     \/ pc \in {"take", "log"} /\ h < k

\* Until it is closed at its end: its entries are of the time around its start.
AtStart(k) ==
  LET from == StartOf(k) - NtpPeriod IN
  /\ Wh * entries[k].sum <= StartDraw
  /\ Wh * entries[k].sum <= Draw(from, now)
  /\ Exposed(k) /\ now < EndOf(k) - NtpPeriod => Wh * entries[k].sum + hourEnergy <= Draw(from, now)

\* From then on: the energy of the open hour is of the time around its end.
AtEnd(k) ==
  LET from   == EndOf(k) - NtpPeriod
      others == Wh * (entries[k].sum - entries[k].most)
  IN /\ from <= now
     /\ others <= StartDraw + EndDraw
     /\ others <= StartDraw + Draw(from, now)
     /\ \/ pc \in Logged /\ lastHour = k
        \/ others + hourEnergy <= StartDraw + Draw(from, now)

EntriesInv == EntriesTyped /\ ClockInv /\ HourInv /\ \A k \in Hours : AtStart(k) \/ AtEnd(k)

-----------------------------------------------------------------------------

LEMMA HoursAreNat == \A k \in Hours : k \in Nat
<1>1. (MaxTime + NtpPeriod) \div Hour \in Int
  OBVIOUS
<1>2. QED
  BY <1>1 DEF Hours

LEMMA HourOf ==
  ASSUME NEW c \in Nat
  PROVE  c \div Hour \in Nat /\ StartOf(c \div Hour) <= c /\ c < EndOf(c \div Hour)
<1>1. c \div Hour \in Nat
  OBVIOUS
<1>2. (c \div Hour) * Hour <= c /\ c < ((c \div Hour) + 1) * Hour
  OBVIOUS
<1>3. ((c \div Hour) + 1) * Hour = (c \div Hour) * Hour + Hour
  BY <1>1
<1>4. QED
  BY <1>1, <1>2, <1>3 DEF StartOf, EndOf

LEMMA HoursInOrder ==
  ASSUME NEW j \in Nat, NEW k \in Nat
  PROVE  /\ StartOf(k) \in Nat /\ EndOf(k) \in Nat /\ StartOf(k) < EndOf(k)
         /\ j < k => EndOf(j) <= StartOf(k)
<1>1. StartOf(k) \in Nat /\ StartOf(j) \in Nat
  BY DEF StartOf
<1>2. ASSUME j < k PROVE EndOf(j) <= StartOf(k)
  <2>1. Hour * (j + 1) <= Hour * k
    BY <1>2, ProductIsMonotone
  <2>2. Hour * (j + 1) = j * Hour + Hour /\ Hour * k = k * Hour
    BY ProductGrows
  <2>3. QED
    BY <2>1, <2>2 DEF StartOf, EndOf
<1>3. QED
  BY <1>1, <1>2 DEF EndOf

LEMMA DrawGrows ==
  ASSUME NEW from \in Int, NEW to \in Int, NEW next \in {to, to + 1}
  PROVE  /\ Draw(from, to) \in Nat /\ Draw(from, next) \in Nat
         /\ Draw(from, to) <= Draw(from, next)
         /\ from <= to /\ next = to + 1 => Draw(from, next) = Draw(from, to) + MaxDraw
<1>1. CASE from <= to
  <2>1. to - from \in Nat /\ (to + 1) - from = (to - from) + 1
    BY <1>1
  <2>2. MaxDraw * ((to + 1) - from) = MaxDraw * (to - from) + MaxDraw
    BY <2>1, ProductGrows
  <2>3. MaxDraw * (to - from) \in Nat /\ (to = from => MaxDraw * (to - from) = 0)
    BY <2>1, ProductsAreNat
  <2>4. QED
    BY <1>1, <2>2, <2>3 DEF Draw
<1>2. CASE to < from
  BY <1>2 DEF Draw
<1>3. QED
  BY <1>1, <1>2

LEMMA DrawBounded ==
  ASSUME NEW from \in Int, NEW to \in Int, NEW n \in Nat, to <= from + n
  PROVE  Draw(from, to) <= MaxDraw * n
<1>1. CASE from < to
  <2>1. to - from \in Nat /\ to - from <= n
    BY <1>1
  <2>2. QED
    BY <1>1, <2>1, ProductIsMonotone DEF Draw
<1>2. CASE to <= from
  BY <1>2, ProductsAreNat DEF Draw
<1>3. QED
  BY <1>1, <1>2

LEMMA DrawsAreNat == StartDraw \in Nat /\ EndDraw \in Nat
BY ProductsAreNat DEF StartDraw, EndDraw

-----------------------------------------------------------------------------
(* The clock and the hours it shows *)

ClockedInv == EnergyInv /\ EntriesTyped /\ ClockInv /\ HourInv

\* What a pass reads: behind by the lag and a pass at most, ahead by a period at most.
LEMMA ReadingOf ==
  ASSUME ClockedInv, pc = "epoch"
  PROVE  /\ base + elapsed \in Nat
         /\ base + elapsed <= now + NtpPeriod
         /\ now - late <= base + elapsed + MaxLag
         /\ lastHour = None => base + elapsed <= ref + elapsed /\ ref + elapsed <= now
BY DEF ClockedInv, EnergyInv, EnergyTypeOK, EntriesTyped, ClockInv, ReadsNow, ReadsAhead

LEMMA ClockInit == EnergyInit => EntriesTyped /\ ClockInv /\ HourInv
<1>1. SUFFICES ASSUME EnergyInit PROVE EntriesTyped /\ ClockInv /\ HourInv
  OBVIOUS
<1>2. EntriesTyped
  <2>1. entries = [k \in Hours |-> [sum |-> 0, most |-> 0]]
    BY <1>1 DEF EnergyInit, NoEntry
  <2>2. \A k \in Hours : entries[k] = [sum |-> 0, most |-> 0]
    BY <2>1
  <2>3. entries \in [Hours -> [sum : Nat, most : Nat]]
    BY <2>1
  <2>4. \A k \in Hours : entries[k].most <= entries[k].sum
    BY <2>2
  <2>5. QED
    BY <1>1, <2>3, <2>4 DEF EnergyInit, EntriesTyped
<1>3. ClockInv /\ HourInv
  BY <1>1 DEF EnergyInit, ClockInv, HourInv, Taken
<1>4. QED
  BY <1>2, <1>3

LEMMA TickClock == ClockedInv /\ Tick => (EntriesTyped /\ ClockInv /\ HourInv)'
<1>1. SUFFICES ASSUME ClockedInv, Tick PROVE (EntriesTyped /\ ClockInv /\ HourInv)'
  OBVIOUS
<1> USE DEF ClockedInv, EnergyInv, EnergyTypeOK, EntriesTyped, clock, locals, flash
<1>2. EntriesTyped'
  BY <1>1 DEF Tick
<1>3. ClockInv'
  BY <1>1 DEF Tick, ClockInv, ReadsNow, ReadsAhead, Taken
<1>4. HourInv'
  <2>1. /\ now' - late' = now - late /\ now' = now + 1
        /\ UNCHANGED <<lastHour, pc, h>>
    BY <1>1 DEF Tick
  <2>2. /\ lastHour # None => StartOf(lastHour) \in Nat
        /\ h # None => StartOf(h) \in Nat
    BY <1>1, HoursInOrder
  <2>3. QED
    BY <1>1, <2>1, <2>2 DEF HourInv, EndOf
<1>5. QED
  BY <1>2, <1>3, <1>4

LEMMA SetTimeClock == ClockedInv /\ SetTime => (EntriesTyped /\ ClockInv /\ HourInv)'
<1>1. SUFFICES ASSUME ClockedInv, SetTime PROVE (EntriesTyped /\ ClockInv /\ HourInv)'
  OBVIOUS
<1> USE DEF ClockedInv, EnergyInv, EnergyTypeOK, EntriesTyped, locals, flash, history
<1>2. /\ base' \in Nat /\ base' <= now /\ now <= base' + MaxLag
      /\ ref' = now /\ synced' = TRUE
  BY <1>1 DEF SetTime, EpochTimes
<1>3. UNCHANGED <<now, late, pc, elapsed, h, lastHour, entries>>
  BY <1>1 DEF SetTime
<1>4. EntriesTyped'
  BY <1>1, <1>2, <1>3
<1>5. pc = "epoch" => ReadsAhead'
  <2>1. HAVE pc = "epoch"
  <2>2. synced /\ now - ref = NtpPeriod /\ lastHour # None
    BY <1>1, <2>1 DEF SetTime, ClockInv
  <2>3. ReadsNow
    BY <1>1, <2>1, <2>2 DEF ClockInv, ReadsAhead
  <2>4. QED
    BY <1>1, <1>2, <1>3, <2>2, <2>3 DEF ReadsNow, ReadsAhead
<1>6. ClockInv'
  BY <1>1, <1>2, <1>3, <1>5 DEF ClockInv, Taken
<1>7. HourInv'
  BY <1>1, <1>3 DEF HourInv
<1>8. QED
  BY <1>4, <1>6, <1>7

LEMMA WakeClock == ClockedInv /\ Wake => (EntriesTyped /\ ClockInv /\ HourInv)'
<1>1. SUFFICES ASSUME ClockedInv, Wake PROVE (EntriesTyped /\ ClockInv /\ HourInv)'
  OBVIOUS
<1> USE DEF ClockedInv, EnergyInv, EnergyTypeOK, EntriesTyped, clock, flash, history
<1>2. UNCHANGED <<now, synced, base, ref, lastHour, entries>> /\ h' = None
  BY <1>1 DEF Wake
<1>3. EntriesTyped'
  BY <1>1, <1>2 DEF Wake, ClockInv
<1>4. CASE synced
  <2>1. pc' = "epoch" /\ elapsed' = now - ref /\ late' = late
    BY <1>1, <1>4 DEF Wake
  <2>2. ReadsNow'
    BY <1>1, <1>2, <1>4, <2>1 DEF ReadsNow, ClockInv
  <2>3. QED
    BY <1>1, <1>2, <1>3, <1>4, <2>1, <2>2 DEF ClockInv, HourInv, Taken
<1>5. CASE ~synced
  <2>1. lastHour = None /\ pc' \in {"take", "idle"}
    BY <1>1, <1>5 DEF Wake, Sleep, ClockInv
  <2>2. QED
    BY <1>1, <1>2, <1>3, <1>5, <2>1 DEF ClockInv, HourInv, Taken
<1>6. QED
  BY <1>4, <1>5

LEMMA ReadClock == ClockedInv /\ ReadEpoch => (EntriesTyped /\ ClockInv /\ HourInv)'
<1>1. SUFFICES ASSUME ClockedInv, ReadEpoch PROVE (EntriesTyped /\ ClockInv /\ HourInv)'
  OBVIOUS
<1> USE DEF ClockedInv, EnergyInv, EnergyTypeOK, EntriesTyped, clock, flash, history
<1>2. /\ pc = "epoch" /\ h' = (base + elapsed) \div Hour
      /\ UNCHANGED <<now, synced, base, ref, elapsed, entries>>
  BY <1>1 DEF ReadEpoch
<1>3. /\ base + elapsed \in Nat
      /\ base + elapsed <= now + NtpPeriod
      /\ now - late <= base + elapsed + MaxLag
  BY <1>1, <1>2, ReadingOf
<1>4. /\ h' \in Nat /\ StartOf(h') \in Nat /\ StartOf(h') <= now + NtpPeriod
      /\ now - late < EndOf(h') + MaxLag
  <2>1. h' \in Nat /\ StartOf(h') <= base + elapsed /\ base + elapsed < EndOf(h')
    BY <1>2, <1>3, HourOf
  <2>2. StartOf(h') \in Nat /\ EndOf(h') \in Nat
    BY <2>1, HoursInOrder
  <2>3. QED
    BY <1>1, <1>3, <2>1, <2>2
<1>5. CASE lastHour \in {h', None}
  <2>1. lastHour' = h' /\ pc' = "idle" /\ late' = 0
    BY <1>1, <1>5 DEF ReadEpoch, Sleep
  <2>2. EntriesTyped' /\ ClockInv'
    BY <1>1, <1>2, <1>4, <2>1 DEF ClockInv, Taken
  <2>3. EndOf(h') \in Nat
    BY <1>4, HoursInOrder
  <2>4. HourInv'
    BY <1>1, <1>2, <1>4, <2>1, <2>3 DEF HourInv, Taken
  <2>5. QED
    BY <2>2, <2>4
<1>6. CASE lastHour \notin {h', None}
  <2>1. pc' = "take" /\ UNCHANGED <<lastHour, late>>
    BY <1>1, <1>6 DEF ReadEpoch
  <2>2. EntriesTyped' /\ ClockInv'
    BY <1>1, <1>2, <1>4, <1>6, <2>1 DEF ClockInv, Taken
  <2>3. HourInv'
    BY <1>1, <1>2, <1>4, <2>1 DEF HourInv, Taken
  <2>4. QED
    BY <2>2, <2>3
<1>7. QED
  BY <1>5, <1>6

\* Closing the hour leaves the clock and the hour as they are.
LEMMA ClosingClock ==
  ClockedInv /\ (TakeWh \/ LogHour \/ Book \/ Save) =>
    /\ ClockInv' /\ HourInv'
    /\ UNCHANGED <<now, base, ref, elapsed, lastHour, h, synced>>
<1>1. SUFFICES ASSUME ClockedInv, TakeWh \/ LogHour \/ Book \/ Save
               PROVE  /\ ClockInv' /\ HourInv'
                      /\ UNCHANGED <<now, base, ref, elapsed, lastHour, h, synced>>
  OBVIOUS
<1>2. /\ UNCHANGED <<now, base, ref, elapsed, lastHour, h, synced, late>>
      /\ pc \in Taken /\ pc' \in Taken
      /\ pc' = "log" => h # None
  <2>1. CASE TakeWh
    BY <2>1 DEF TakeWh, Taken, clock
  <2>2. CASE LogHour
    BY <2>2 DEF LogHour, Taken, clock, locals
  <2>3. CASE Book
    BY <2>3 DEF Book, Taken, clock, locals
  <2>4. CASE Save
    BY <2>4 DEF Save, Taken, clock, locals
  <2>5. QED
    BY <1>1, <2>1, <2>2, <2>3, <2>4
<1>3. pc' # "epoch"
  BY <1>2 DEF Taken
<1>4. ClockInv' /\ HourInv'
  BY <1>1, <1>2, <1>3 DEF ClockedInv, ClockInv, HourInv
<1>5. QED
  BY <1>2, <1>4

LEMMA ResetClock == ClockedInv /\ Reset => (EntriesTyped /\ ClockInv /\ HourInv)'
<1>1. SUFFICES ASSUME ClockedInv, Reset PROVE (EntriesTyped /\ ClockInv /\ HourInv)'
  OBVIOUS
<1> USE DEF ClockedInv, EnergyInv, EnergyTypeOK, EntriesTyped, clock, locals, flash
<1>2. /\ pc \in Taken /\ pc' = "idle" /\ late' = 0
      /\ lastHour' = IF h = None THEN lastHour ELSE h
      /\ UNCHANGED <<now, synced, base, ref, elapsed, h, entries>>
  BY <1>1 DEF Reset, Sleep, Taken
<1>3. EntriesTyped'
  BY <1>1, <1>2
<1>4. ClockInv'
  BY <1>1, <1>2 DEF ClockInv, Taken
<1>5. HourInv'
  <2>1. CASE h = None
    BY <1>1, <1>2, <2>1 DEF ClockInv, HourInv, Taken
  <2>2. CASE h # None
    <3>1. StartOf(h) <= now + NtpPeriod /\ now - late < EndOf(h) + MaxLag /\ EndOf(h) \in Nat
      BY <1>1, <1>2, <2>2, HoursInOrder DEF HourInv
    <3>2. QED
      BY <1>1, <1>2, <2>2, <3>1 DEF HourInv, Taken
  <2>3. QED
    BY <2>1, <2>2
<1>6. QED
  BY <1>3, <1>4, <1>5

LEMMA PowerCutClock == ClockedInv /\ PowerCut => (EntriesTyped /\ ClockInv /\ HourInv)'
<1>1. SUFFICES ASSUME ClockedInv, PowerCut PROVE (EntriesTyped /\ ClockInv /\ HourInv)'
  OBVIOUS
<1>2. EntriesTyped'
  <2>1. now' \in Nat
    BY <1>1 DEF ClockedInv, EntriesTyped, PowerCut
  <2>2. base' = 0 /\ ref' = 0 /\ elapsed' = 0 /\ lastHour' = None /\ h' = None /\ synced' = FALSE
    BY <1>1 DEF PowerCut
  <2>3. entries' = entries
    BY <1>1 DEF PowerCut, flash
  <2>4. QED
    BY <1>1, <2>1, <2>2, <2>3 DEF ClockedInv, EntriesTyped
<1>3. ClockInv' /\ HourInv'
  BY <1>1 DEF PowerCut, ClockInv, HourInv, Taken
<1>4. QED
  BY <1>2, <1>3

-----------------------------------------------------------------------------
(* The entries of one hour *)

LEMMA EntryTyped ==
  ASSUME ClockedInv, NEW k \in Hours
  PROVE  /\ k \in Nat /\ StartOf(k) \in Nat /\ EndOf(k) \in Nat
         /\ entries[k].sum \in Nat /\ entries[k].most \in Nat
         /\ entries[k].most <= entries[k].sum
         /\ Wh * entries[k].sum \in Nat
         /\ Wh * (entries[k].sum - entries[k].most) \in Nat
         /\ Wh * (entries[k].sum - entries[k].most) <= Wh * entries[k].sum
<1>1. k \in Nat /\ StartOf(k) \in Nat /\ EndOf(k) \in Nat
  BY HoursAreNat, HoursInOrder
<1>2. /\ entries[k].sum \in Nat /\ entries[k].most \in Nat
      /\ entries[k].most <= entries[k].sum
  BY DEF ClockedInv, EntriesTyped
<1>3. /\ entries[k].sum - entries[k].most \in Nat
      /\ entries[k].sum - entries[k].most <= entries[k].sum
  BY <1>2
<1>4. QED
  BY <1>1, <1>2, <1>3, ProductsAreNat, ProductIsMonotone

\* A step that draws and logs nothing, and exposes no other hour.
LEMMA HourFrame ==
  ASSUME NEW k \in Hours, AtStart(k) \/ AtEnd(k),
         now' = now, hourEnergy' = hourEnergy, entries' = entries,
         Exposed(k)' => Exposed(k),
         pc \in Logged /\ lastHour = k => (pc \in Logged /\ lastHour = k)'
  PROVE  (AtStart(k) \/ AtEnd(k))'
BY DEF AtStart, AtEnd

LEMMA TickHour ==
  ASSUME ClockedInv, Tick, NEW k \in Hours, AtStart(k) \/ AtEnd(k)
  PROVE  (AtStart(k) \/ AtEnd(k))'
<1>1. PICK e \in 0..MaxDraw : hourEnergy' = hourEnergy + e
  BY DEF Tick
<1>2. /\ now' = now + 1 /\ now' - late' = now - late
      /\ UNCHANGED <<base, ref, pc, h, lastHour, entries>>
  BY DEF Tick, clock, locals, flash, ClockedInv, EnergyInv, EnergyTypeOK, EntriesTyped
<1>3. /\ hourEnergy \in Nat /\ now \in Nat
      /\ StartDraw \in Nat /\ EndDraw \in Nat
  BY DrawsAreNat DEF ClockedInv, EnergyInv, EnergyTypeOK, EntriesTyped
<1> DEFINE start == StartOf(k) - NtpPeriod
           end == EndOf(k) - NtpPeriod
<1>4. start \in Int /\ end \in Int /\ EndOf(k) \in Nat
  BY EntryTyped
<1>5. /\ Wh * entries[k].sum \in Nat
      /\ Wh * (entries[k].sum - entries[k].most) \in Nat
  BY EntryTyped
<1>6. /\ Draw(start, now) <= Draw(start, now') /\ Draw(end, now) <= Draw(end, now')
      /\ Draw(start, now) \in Nat /\ Draw(start, now') \in Nat
      /\ Draw(end, now) \in Nat /\ Draw(end, now') \in Nat
      /\ start <= now => Draw(start, now') = Draw(start, now) + MaxDraw
      /\ end <= now => Draw(end, now') = Draw(end, now) + MaxDraw
  <2>1. now \in Int /\ now' \in {now, now + 1}
    BY <1>2, <1>3
  <2>2. QED
    BY <1>2, <1>4, <2>1, DrawGrows
<1>7. Exposed(k)' = Exposed(k)
  BY <1>2 DEF Exposed, Firm
<1>8. Exposed(k) => start <= now
  BY <1>3, EntryTyped, HoursAreNat DEF Exposed, ClockedInv, HourInv
<1> HIDE DEF start, end
<1>9. CASE AtStart(k)
  <2>1. /\ Wh * entries[k].sum <= StartDraw /\ Wh * entries[k].sum <= Draw(start, now)
        /\ Exposed(k) /\ now < end => Wh * entries[k].sum + hourEnergy <= Draw(start, now)
    BY <1>9 DEF AtStart, start, end
  <2>2. Wh * entries[k].sum <= Draw(start, now')
    BY <1>5, <1>6, <2>1
  <2>3. Exposed(k) /\ now' < end => Wh * entries[k].sum + hourEnergy' <= Draw(start, now')
    BY <1>1, <1>2, <1>3, <1>4, <1>5, <1>6, <1>8, <2>1
  <2>4. AtStart(k)'
    BY <1>2, <1>7, <2>1, <2>2, <2>3 DEF AtStart, start, end, StartOf, EndOf, StartDraw
  <2>5. QED
    BY <2>4
<1>10. CASE AtEnd(k)
  <2> DEFINE others == Wh * (entries[k].sum - entries[k].most)
  <2>1. /\ end <= now /\ others <= StartDraw + EndDraw
        /\ others <= StartDraw + Draw(end, now)
        /\ \/ pc \in Logged /\ lastHour = k
           \/ others + hourEnergy <= StartDraw + Draw(end, now)
    BY <1>10 DEF AtEnd, end
  <2>2. others \in Nat
    BY <1>5
  <2> HIDE DEF others
  <2>3. /\ end <= now' /\ others <= StartDraw + Draw(end, now')
        /\ \/ pc \in Logged /\ lastHour = k
           \/ others + hourEnergy' <= StartDraw + Draw(end, now')
    BY <1>1, <1>2, <1>3, <1>4, <1>6, <2>1, <2>2
  <2>4. AtEnd(k)'
    BY <1>2, <2>1, <2>3 DEF AtEnd, others, end, EndOf, StartOf, StartDraw, EndDraw
  <2>5. QED
    BY <2>4
<1>11. QED
  BY <1>9, <1>10

\* The clock that is set again is firm for the hours it was firm for.
LEMMA SetTimeHour ==
  ASSUME ClockedInv, SetTime, NEW k \in Hours, AtStart(k) \/ AtEnd(k)
  PROVE  (AtStart(k) \/ AtEnd(k))'
<1>1. /\ base' \in Nat /\ base' <= now /\ now <= base' + MaxLag
      /\ ref' = now /\ synced => now = ref + NtpPeriod
  BY DEF SetTime, EpochTimes, ClockedInv, EntriesTyped
<1>2. UNCHANGED <<now, late, hourEnergy, pc, h, lastHour, entries>>
  BY DEF SetTime, locals, flash
<1>3. lastHour = k => synced
  BY HoursAreNat DEF ClockedInv, ClockInv
<1>4. lastHour = k /\ Firm(k) => Firm(k)'
  <2>1. StartOf(k) \in Nat /\ now \in Nat /\ ref \in Nat
    BY EntryTyped DEF ClockedInv, EntriesTyped
  <2>2. StartOf(k)' = StartOf(k)
    BY DEF StartOf
  <2>3. ref' = now
    BY DEF SetTime
  <2>4. QED
    BY <1>1, <1>2, <1>3, <2>1, <2>2, <2>3 DEF Firm
<1>5. Exposed(k)' => Exposed(k)
  BY <1>2, <1>4 DEF Exposed
<1>6. QED
  BY <1>2, <1>5, HourFrame

\* Before it reads the clock a pass has no hour; without a clock there is none.
LEMMA WakeHour ==
  ASSUME ClockedInv, Wake, NEW k \in Hours, AtStart(k) \/ AtEnd(k)
  PROVE  (AtStart(k) \/ AtEnd(k))'
<1>1. UNCHANGED <<now, hourEnergy, base, ref, lastHour, entries>> /\ pc = "idle"
  BY DEF Wake, clock, flash
<1>2. Exposed(k)' => Exposed(k)
  <2>1. CASE synced
    BY <1>1, <2>1 DEF Wake, Exposed, Firm
  <2>2. CASE ~synced
    BY <1>1, <2>2, HoursAreNat DEF Exposed, ClockedInv, ClockInv
  <2>3. QED
    BY <2>1, <2>2
<1>3. pc \notin Logged
  BY <1>1 DEF Logged
<1>4. QED
  BY <1>1, <1>2, <1>3, HourFrame

\* A firm hour is not left backwards, and the hour that is read first is firm.
LEMMA ReadHour ==
  ASSUME ClockedInv, ReadEpoch, NEW k \in Hours, AtStart(k) \/ AtEnd(k)
  PROVE  (AtStart(k) \/ AtEnd(k))'
<1> USE DEF ClockedInv, EnergyInv, EnergyTypeOK, EntriesTyped
<1>1. /\ pc = "epoch" /\ h' = (base + elapsed) \div Hour
      /\ UNCHANGED <<now, hourEnergy, base, ref, elapsed, entries>>
  BY DEF ReadEpoch, clock, flash
<1>2. /\ base + elapsed \in Nat /\ base + elapsed <= now + NtpPeriod
      /\ lastHour = None => base + elapsed <= ref + elapsed /\ ref + elapsed <= now
  BY <1>1, ReadingOf
<1>3. h' \in Nat /\ StartOf(h') <= base + elapsed /\ base + elapsed < EndOf(h')
  BY <1>1, <1>2, HourOf
<1>4. StartOf(k) \in Nat /\ StartOf(h') \in Nat /\ EndOf(h') \in Nat /\ k \in Nat
  BY <1>3, EntryTyped, HoursInOrder
<1>5. Firm(k) => base + elapsed >= StartOf(k)
  <2>1. ReadsNow \/ ReadsAhead
    BY <1>1 DEF ClockInv
  <2>2. QED
    BY <1>4, <2>1 DEF Firm, ReadsNow, ReadsAhead
<1>6. Firm(k) => ~(h' < k)
  BY <1>3, <1>4, <1>5, HoursInOrder
<1>7. Exposed(k)' => Exposed(k)
  <2>1. CASE lastHour = None
    <3>1. pc' = "idle" /\ lastHour' = h' /\ late' = 0
      BY <2>1 DEF ReadEpoch, Sleep
    <3>2. synced /\ now <= ref + MaxLate + late /\ ref <= now
      BY <1>1, <2>1 DEF ClockInv
    <3>3. k = h' => Firm(k)'
      <4>1. HAVE k = h'
      <4>2. StartOf(k) <= base + elapsed /\ StartOf(k)' = StartOf(k)
        BY <1>3, <4>1 DEF StartOf
      <4>3. QED
        BY <1>1, <1>2, <1>4, <2>1, <3>1, <3>2, <4>2 DEF Firm
    <3>4. QED
      BY <3>1, <3>3 DEF Exposed
  <2>2. CASE lastHour = h'
    <3>1. pc' = "idle" /\ lastHour' = lastHour /\ late' = 0
      BY <2>2 DEF ReadEpoch, Sleep
    <3>2. Firm(k) => Firm(k)'
      <4>1. StartOf(k)' = StartOf(k)
        BY DEF StartOf
      <4>2. QED
        BY <1>1, <1>4, <3>1, <4>1 DEF Firm
    <3>3. QED
      BY <1>1, <3>1, <3>2 DEF Exposed
  <2>3. CASE lastHour \notin {h', None}
    <3>1. pc' = "take" /\ lastHour' = lastHour
      BY <2>3 DEF ReadEpoch
    <3>2. QED
      BY <1>1, <1>6, <3>1 DEF Exposed
  <2>4. QED
    BY <2>1, <2>2, <2>3
<1>8. pc \notin Logged
  BY <1>1 DEF Logged
<1>9. QED
  BY <1>1, <1>7, <1>8, HourFrame

\* Of the closing of an hour only the entry counts here.
LEMMA BookingHour ==
  ASSUME ClockedInv, TakeWh \/ Book \/ Save, NEW k \in Hours, AtStart(k) \/ AtEnd(k)
  PROVE  (AtStart(k) \/ AtEnd(k))'
<1>1. CASE TakeWh
  <2>1. UNCHANGED <<now, hourEnergy, h, lastHour, entries>> /\ pc = "take"
        /\ pc' \in {"reset", "book", "log"}
    BY <1>1 DEF TakeWh, flash
  <2>2. Exposed(k)' => Exposed(k)
    BY <2>1 DEF Exposed
  <2>3. pc \notin Logged
    BY <2>1 DEF Logged
  <2>4. QED
    BY <2>1, <2>2, <2>3, HourFrame
<1>2. CASE Book \/ Save
  <2>1. UNCHANGED <<now, hourEnergy, lastHour, entries>> /\ pc' \in {"save", "reset"}
    BY <1>2 DEF Book, Save, flash, locals
  <2>2. ~Exposed(k)' /\ pc' \in Logged
    BY <2>1 DEF Exposed, Logged
  <2>3. QED
    BY <2>1, <2>2, HourFrame
<1>3. QED
  BY <1>1, <1>2

\* What the step that logs does to the entries of an hour.
LEMMA LogEffect ==
  ASSUME ClockedInv, LogHour, NEW k \in Hours
  PROVE  /\ \/ entries'[k] = entries[k]
            \/ lastHour # k /\ entries'[k] = [sum |-> 0, most |-> 0]
            \/ /\ lastHour = k
               /\ entries'[k].sum = entries[k].sum + wh
               /\ entries'[k].most = IF wh > entries[k].most THEN wh ELSE entries[k].most
         /\ entries' \in [Hours -> [sum : Nat, most : Nat]]
         /\ entries'[k].most <= entries'[k].sum
<1> USE DEF ClockedInv, EnergyInv, EnergyTypeOK, EntriesTyped
<1>1. PICK first \in {0, lastHour} :
        \/ entries' = [Rotated(first) EXCEPT ![lastHour] =
             [sum |-> @.sum + wh, most |-> IF wh > @.most THEN wh ELSE @.most]]
        \/ entries' = Rotated(first)
  BY DEF LogHour
<1> DEFINE R == Rotated(first)
<1>2. /\ R \in [Hours -> [sum : Nat, most : Nat]]
      /\ \A j \in Hours : R[j] = IF j < first THEN [sum |-> 0, most |-> 0] ELSE entries[j]
  BY DEF Rotated, NoEntry
<1>3. lastHour \in Nat
  BY DEF LogHour, ClockInv, Taken
<1>4. R[k] = entries[k] \/ (lastHour # k /\ R[k] = [sum |-> 0, most |-> 0])
  <2>1. k \in Nat /\ (first = 0 \/ first = lastHour)
    BY HoursAreNat
  <2>2. lastHour = k => ~(k < first)
    BY <1>3, <2>1
  <2>3. QED
    BY <1>2, <2>2
<1>5. R[k].sum \in Nat /\ R[k].most \in Nat /\ R[k].most <= R[k].sum /\ wh \in Nat
  BY <1>2, <1>4
<1> HIDE DEF R
<1>6. CASE entries' = R
  BY <1>2, <1>4, <1>5, <1>6
<1>7. CASE entries' = [R EXCEPT ![lastHour] =
             [sum |-> @.sum + wh, most |-> IF wh > @.most THEN wh ELSE @.most]]
  <2>1. /\ lastHour # k => entries'[k] = R[k]
        /\ lastHour = k => entries'[k] = [sum |-> R[k].sum + wh,
                                          most |-> IF wh > R[k].most THEN wh ELSE R[k].most]
    BY <1>2, <1>7
  <2>2. entries' \in [Hours -> [sum : Nat, most : Nat]]
    <3>1. \A j \in Hours : [sum |-> R[j].sum + wh, most |-> IF wh > R[j].most THEN wh ELSE R[j].most]
                             \in [sum : Nat, most : Nat]
      BY <1>2, <1>5
    <3>2. QED
      BY <1>2, <1>7, <3>1
  <2>3. QED
    BY <1>4, <1>5, <2>1, <2>2
<1>8. QED
  BY <1>1, <1>6, <1>7 DEF R

\* An hour is logged backwards around its start, and forwards around its end.
LEMMA LogTime ==
  ASSUME ClockedInv, LogHour, NEW k \in Hours, lastHour = k
  PROVE  /\ now < EndOf(k) - NtpPeriod =>
              Exposed(k) /\ now <= (StartOf(k) - NtpPeriod) + (NtpPeriod + MaxLag + MaxLate)
         /\ now <= (EndOf(k) - NtpPeriod) + (NtpPeriod + MaxLag + 2 * MaxLate)
<1> USE DEF ClockedInv, EnergyInv, EnergyTypeOK, EntriesTyped
<1>1. pc = "log" /\ h \in Nat /\ h # k /\ k \in Nat
  BY HoursAreNat DEF LogHour, ClockInv, Taken
<1>2. /\ StartOf(h) <= now + NtpPeriod /\ now - late < EndOf(h) + MaxLag
      /\ now - late < EndOf(k) + MaxLag + MaxLate
  BY <1>1, HoursAreNat DEF HourInv, Taken
<1>3. /\ StartOf(h) \in Nat /\ EndOf(h) \in Nat /\ StartOf(k) \in Nat /\ EndOf(k) \in Nat
      /\ h < k => EndOf(h) <= StartOf(k)
      /\ k < h => EndOf(k) <= StartOf(h)
  BY <1>1, HoursInOrder
<1>4. now < EndOf(k) - NtpPeriod => h < k
  BY <1>1, <1>2, <1>3
<1>5. QED
  BY <1>1, <1>2, <1>3, <1>4 DEF Exposed

LEMMA LogHourHour ==
  ASSUME ClockedInv, LogHour, NEW k \in Hours, AtStart(k) \/ AtEnd(k)
  PROVE  (AtStart(k) \/ AtEnd(k))'
<1>1. /\ UNCHANGED <<now, hourEnergy, lastHour>> /\ pc = "log" /\ pc' = "book"
      /\ Wh * wh <= hourEnergy
  BY DEF LogHour, locals, ClockedInv, EnergyInv, Closing
<1>2. ~Exposed(k)' /\ pc' \in Logged /\ pc \notin Logged
  BY <1>1 DEF Exposed, Logged
<1> DEFINE sum == entries[k].sum
           most == entries[k].most
           start == StartOf(k) - NtpPeriod
           end == EndOf(k) - NtpPeriod
<1>3. /\ sum \in Nat /\ most \in Nat /\ most <= sum /\ wh \in Nat
      /\ start \in Int /\ end \in Int /\ now \in Nat /\ hourEnergy \in Nat
      /\ StartDraw \in Nat /\ EndDraw \in Nat
      /\ Draw(start, now) \in Nat /\ Draw(end, now) \in Nat
  <2>1. now \in Nat /\ wh \in Nat /\ hourEnergy \in Nat
    BY DEF ClockedInv, EnergyInv, EnergyTypeOK, EntriesTyped
  <2>2. start \in Int /\ end \in Int
    BY EntryTyped
  <2>3. Draw(start, now) \in Nat /\ Draw(end, now) \in Nat
    <3> HIDE DEF start, end
    <3>1. now \in Int
      BY <2>1
    <3> QED  BY <2>2, <3>1, DrawGrows
  <2>4. sum \in Nat /\ most \in Nat /\ most <= sum
    BY EntryTyped
  <2>5. QED
    BY <2>1, <2>2, <2>3, <2>4, DrawsAreNat
<1>4. Wh * sum \in Nat /\ Wh * (sum - most) \in Nat /\ Wh * wh \in Nat
      /\ Wh * (sum - most) <= Wh * sum
  BY <1>3, EntryTyped, ProductsAreNat
<1>5. CASE entries'[k] = entries[k]
  <2>1. CASE AtStart(k)
    BY <1>1, <1>2, <1>5, <2>1 DEF AtStart, StartOf, EndOf, StartDraw
  <2>2. CASE AtEnd(k)
    BY <1>1, <1>2, <1>5, <2>2 DEF AtEnd, StartOf, EndOf, StartDraw, EndDraw
  <2>3. QED
    BY <2>1, <2>2
<1>6. CASE lastHour # k /\ entries'[k] = [sum |-> 0, most |-> 0]
  <2>1. Wh * entries'[k].sum = 0
    BY <1>6
  <2>2. AtStart(k)'
    BY <1>1, <1>2, <1>3, <2>1 DEF AtStart, StartOf, EndOf, StartDraw
  <2>3. QED
    BY <2>2
<1>7. CASE /\ lastHour = k
           /\ entries'[k].sum = sum + wh
           /\ entries'[k].most = IF wh > most THEN wh ELSE most
  <2>1. /\ now < end => Exposed(k) /\ now <= start + (NtpPeriod + MaxLag + MaxLate)
        /\ now <= end + (NtpPeriod + MaxLag + 2 * MaxLate)
    BY <1>7, LogTime
  <2>2. /\ now < end => Draw(start, now) <= StartDraw
        /\ Draw(end, now) <= EndDraw
    <3>1. NtpPeriod + MaxLag + MaxLate \in Nat /\ NtpPeriod + MaxLag + 2 * MaxLate \in Nat
      OBVIOUS
    <3>2. now < end => Draw(start, now) <= MaxDraw * (NtpPeriod + MaxLag + MaxLate)
      BY <1>3, <2>1, <3>1, DrawBounded
    <3>3. Draw(end, now) <= MaxDraw * (NtpPeriod + MaxLag + 2 * MaxLate)
      BY <1>3, <2>1, <3>1, DrawBounded
    <3>4. QED
      BY <3>2, <3>3 DEF StartDraw, EndDraw
  <2>3. Wh * (sum + wh) = Wh * sum + Wh * wh
    BY <1>3, ProductOfSum
  <2> DEFINE others == Wh * (entries'[k].sum - entries'[k].most)
  <2>4. others <= Wh * sum
    <3>1. entries'[k].sum - entries'[k].most \in Nat /\ entries'[k].sum - entries'[k].most <= sum
      BY <1>3, <1>7
    <3>2. QED
      BY <1>3, <3>1, ProductIsMonotone
  <2>5. others <= Wh * (sum - most) + Wh * wh
    <3>1. /\ entries'[k].sum - entries'[k].most \in Nat
          /\ entries'[k].sum - entries'[k].most <= (sum - most) + wh
          /\ sum - most \in Nat
      BY <1>3, <1>7
    <3>2. Wh * ((sum - most) + wh) = Wh * (sum - most) + Wh * wh
      BY <1>3, <3>1, ProductOfSum
    <3>3. others <= Wh * ((sum - most) + wh)
      BY <1>3, <3>1, ProductIsMonotone
    <3>4. QED
      BY <3>2, <3>3
  <2>6. others \in Nat
    <3>1. entries'[k].sum - entries'[k].most \in Nat
      BY <1>3, <1>7
    <3>2. QED
      BY <3>1, ProductsAreNat
  <2>7. CASE AtStart(k) /\ now < end
    <3>1. Wh * sum + hourEnergy <= Draw(start, now)
      BY <2>1, <2>7 DEF AtStart
    <3>2. Wh * entries'[k].sum <= StartDraw /\ Wh * entries'[k].sum <= Draw(start, now)
      BY <1>1, <1>3, <1>4, <1>7, <2>2, <2>3, <2>7, <3>1
    <3>3. AtStart(k)'
      BY <1>1, <1>2, <3>2 DEF AtStart, StartOf, EndOf, StartDraw
    <3>4. QED
      BY <3>3
  <2>8. CASE AtStart(k) /\ end <= now
    <3>1. Wh * sum <= StartDraw
      BY <2>8 DEF AtStart
    <3>2. others <= StartDraw + EndDraw /\ others <= StartDraw + Draw(end, now)
      BY <1>3, <1>4, <2>4, <2>6, <3>1
    <3>3. AtEnd(k)'
      BY <1>1, <1>2, <1>7, <2>8, <3>2 DEF AtEnd, StartOf, EndOf, StartDraw, EndDraw
    <3>4. QED
      BY <3>3
  <2>9. CASE AtEnd(k)
    <3>1. Wh * (sum - most) + hourEnergy <= StartDraw + Draw(end, now) /\ end <= now
      BY <1>2, <2>9 DEF AtEnd
    <3>2. others <= StartDraw + EndDraw /\ others <= StartDraw + Draw(end, now)
      BY <1>1, <1>3, <1>4, <2>2, <2>5, <2>6, <3>1
    <3>3. AtEnd(k)'
      BY <1>1, <1>2, <1>7, <3>1, <3>2 DEF AtEnd, StartOf, EndOf, StartDraw, EndDraw
    <3>4. QED
      BY <3>3
  <2>10. QED
    BY <1>3, <2>7, <2>8, <2>9
<1>8. QED
  BY <1>5, <1>6, <1>7, LogEffect

LEMMA ResetHour ==
  ASSUME ClockedInv, Reset, NEW k \in Hours, AtStart(k) \/ AtEnd(k)
  PROVE  (AtStart(k) \/ AtEnd(k))'
<1>1. UNCHANGED <<now, entries>> /\ hourEnergy' = 0
  BY DEF Reset, flash
<1>2. Wh * entries[k].sum \in Nat /\ Wh * (entries[k].sum - entries[k].most) \in Nat
  BY EntryTyped
<1>3. CASE AtStart(k)
  <2>1. AtStart(k)'
    BY <1>1, <1>2, <1>3 DEF AtStart, StartOf, EndOf, StartDraw
  <2>2. QED
    BY <2>1
<1>4. CASE AtEnd(k)
  <2>1. AtEnd(k)'
    BY <1>1, <1>2, <1>4 DEF AtEnd, StartOf, EndOf, StartDraw, EndDraw
  <2>2. QED
    BY <2>1
<1>5. QED
  BY <1>3, <1>4

LEMMA PowerCutHour ==
  ASSUME ClockedInv, PowerCut, NEW k \in Hours, AtStart(k) \/ AtEnd(k)
  PROVE  (AtStart(k) \/ AtEnd(k))'
<1>1. now' \in {now, now + 1} /\ entries' = entries /\ hourEnergy' = 0 /\ lastHour' = None
  BY DEF PowerCut, flash
<1> DEFINE start == StartOf(k) - NtpPeriod
           end == EndOf(k) - NtpPeriod
<1>2. /\ Wh * entries[k].sum \in Nat /\ Wh * (entries[k].sum - entries[k].most) \in Nat
      /\ start \in Int /\ end \in Int /\ now \in Nat /\ k \in Nat
      /\ StartDraw \in Nat /\ EndDraw \in Nat
  BY EntryTyped, DrawsAreNat DEF ClockedInv, EntriesTyped
<1>3. /\ Draw(start, now) <= Draw(start, now') /\ Draw(end, now) <= Draw(end, now')
      /\ Draw(start, now) \in Nat /\ Draw(start, now') \in Nat
      /\ Draw(end, now) \in Nat /\ Draw(end, now') \in Nat
  <2>1. now \in Int /\ now' \in {now, now + 1}
    BY <1>1, <1>2
  <2>2. QED
    BY <1>2, <2>1, DrawGrows
<1>4. ~Exposed(k)'
  BY <1>1, <1>2 DEF Exposed
<1>5. CASE AtStart(k)
  <2>1. Wh * entries[k].sum <= StartDraw /\ Wh * entries[k].sum <= Draw(start, now)
    BY <1>5 DEF AtStart
  <2>2. Wh * entries[k].sum <= Draw(start, now')
    BY <1>2, <1>3, <2>1
  <2>3. AtStart(k)'
    BY <1>1, <1>4, <2>1, <2>2 DEF AtStart, StartOf, StartDraw
  <2>4. QED
    BY <2>3
<1>6. CASE AtEnd(k)
  <2> DEFINE others == Wh * (entries[k].sum - entries[k].most)
  <2>1. end <= now /\ others <= StartDraw + EndDraw /\ others <= StartDraw + Draw(end, now)
    BY <1>6 DEF AtEnd
  <2>2. end <= now' /\ others <= StartDraw + Draw(end, now') /\ others + 0 = others
    BY <1>1, <1>2, <1>3, <2>1
  <2>3. AtEnd(k)'
    BY <1>1, <2>1, <2>2 DEF AtEnd, StartOf, EndOf, StartDraw, EndDraw
  <2>4. QED
    BY <2>3
<1>7. QED
  BY <1>5, <1>6

\* Every step keeps the other entries of every hour small.
LEMMA EntriesStepInv == EnergyInv /\ EntriesInv /\ [EnergyNext]_energyVars => EntriesInv'
<1>1. SUFFICES ASSUME EnergyInv, EntriesInv, [EnergyNext]_energyVars PROVE EntriesInv'
  OBVIOUS
<1>2. ClockedInv /\ \A k \in Hours : AtStart(k) \/ AtEnd(k)
  BY <1>1 DEF EntriesInv, ClockedInv
<1>3. CASE Tick
  BY <1>2, <1>3, TickClock, TickHour DEF EntriesInv
<1>4. CASE SetTime
  BY <1>2, <1>4, SetTimeClock, SetTimeHour DEF EntriesInv
<1>5. CASE Wake
  BY <1>2, <1>5, WakeClock, WakeHour DEF EntriesInv
<1>6. CASE ReadEpoch
  BY <1>2, <1>6, ReadClock, ReadHour DEF EntriesInv
<1>7. CASE TakeWh \/ Book \/ Save
  <2>1. entries' = entries
    BY <1>7 DEF TakeWh, Book, Save, flash
  <2>2. EntriesTyped'
    BY <1>2, <1>7, <2>1, ClosingClock DEF ClockedInv, EntriesTyped
  <2>3. QED
    BY <1>2, <1>7, <2>2, ClosingClock, BookingHour DEF EntriesInv
<1>8. CASE LogHour
  <2>1. /\ \A k \in Hours : entries'[k].most <= entries'[k].sum
        /\ entries' \in [Hours -> [sum : Nat, most : Nat]]
    <3>1. Hours # {} => entries' \in [Hours -> [sum : Nat, most : Nat]]
      BY <1>2, <1>8, LogEffect
    <3>2. Hours = {} => entries' \in [Hours -> [sum : Nat, most : Nat]]
      BY <1>2, <1>8 DEF LogHour, Rotated, ClockedInv, EntriesTyped
    <3>3. QED
      BY <1>2, <1>8, <3>1, <3>2, LogEffect
  <2>2. EntriesTyped'
    BY <1>2, <1>8, <2>1, ClosingClock DEF ClockedInv, EntriesTyped
  <2>3. QED
    BY <1>2, <1>8, <2>2, ClosingClock, LogHourHour DEF EntriesInv
<1>9. CASE Reset
  BY <1>2, <1>9, ResetClock, ResetHour DEF EntriesInv
<1>10. CASE PowerCut
  BY <1>2, <1>10, PowerCutClock, PowerCutHour DEF EntriesInv
<1>11. CASE UNCHANGED energyVars
  BY <1>1, <1>11 DEF energyVars, clock, locals, flash, history, EntriesInv, EntriesTyped, ClockInv,
     ReadsNow, ReadsAhead, HourInv, AtStart, AtEnd, Exposed, Firm, StartOf, EndOf
<1>12. QED
  BY <1>1, <1>3, <1>4, <1>5, <1>6, <1>7, <1>8, <1>9, <1>10, <1>11 DEF EnergyNext, EnergyTask

\* No hour of a new device has an entry.
LEMMA EntriesInitInv == EnergyInit => EntriesInv
<1>1. SUFFICES ASSUME EnergyInit, NEW k \in Hours PROVE AtStart(k)
  BY ClockInit DEF EntriesInv
<1>2. Wh * entries[k].sum = 0 /\ lastHour = None /\ now = 0
  BY <1>1 DEF EnergyInit, NoEntry
<1>3. k \in Nat /\ StartOf(k) \in Nat
  BY HoursAreNat, HoursInOrder
<1>4. Draw(StartOf(k) - NtpPeriod, now) \in Nat /\ StartDraw \in Nat
  <2>1. StartOf(k) - NtpPeriod \in Int /\ now \in Int
    BY <1>2, <1>3
  <2>2. QED
    BY <2>1, DrawGrows, DrawsAreNat
<1>5. ~Exposed(k)
  BY <1>2, <1>3 DEF Exposed
<1>6. QED
  BY <1>2, <1>4, <1>5 DEF AtStart

\* An hour that the clock makes the task close more than once has all but a bounded
\* part in one entry of the log (main.cpp:504-519), which is not always the last.
THEOREM OthersAreSmall == EnergySpec => []OtherEntriesAreSmall
<1>1. EnergyInit => EntriesInv
  BY EntriesInitInv
<1>2. EnergyInv /\ EntriesInv /\ [EnergyNext]_energyVars => EntriesInv'
  BY EntriesStepInv
<1>3. EnergyInv /\ EntriesInv => OtherEntriesAreSmall
  <2>1. SUFFICES ASSUME EnergyInv, EntriesInv, NEW k \in Hours
                 PROVE  Wh * (entries[k].sum - entries[k].most)
                          <= MaxDraw * (2 * (NtpPeriod + MaxLag) + 3 * MaxLate)
    BY DEF OtherEntriesAreSmall
  <2>2. ClockedInv
    BY <2>1 DEF ClockedInv, EntriesInv
  <2>3. /\ StartDraw \in Nat /\ EndDraw \in Nat
        /\ MaxDraw * (2 * (NtpPeriod + MaxLag) + 3 * MaxLate) = StartDraw + EndDraw
    <3>1. (NtpPeriod + MaxLag + MaxLate) + (NtpPeriod + MaxLag + 2 * MaxLate)
             = 2 * (NtpPeriod + MaxLag) + 3 * MaxLate
      OBVIOUS
    <3>2. NtpPeriod + MaxLag + MaxLate \in Nat /\ NtpPeriod + MaxLag + 2 * MaxLate \in Nat
      OBVIOUS
    <3>3. QED
      BY <3>1, <3>2, ProductOfSum, DrawsAreNat DEF StartDraw, EndDraw
  <2>4. /\ Wh * (entries[k].sum - entries[k].most) \in Nat
        /\ Wh * entries[k].sum \in Nat
        /\ Wh * (entries[k].sum - entries[k].most) <= Wh * entries[k].sum
    BY <2>1, <2>2, EntryTyped
  <2>5. CASE AtStart(k)
    BY <2>3, <2>4, <2>5 DEF AtStart
  <2>6. CASE AtEnd(k)
    BY <2>3, <2>6 DEF AtEnd
  <2>7. QED
    BY <2>1, <2>5, <2>6 DEF EntriesInv
<1>4. QED
  BY <1>1, <1>2, <1>3, EnergyInvariant, PTL DEF EnergySpec
=============================================================================
