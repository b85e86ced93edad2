-------------------------------- MODULE Clock --------------------------------
(***************************************************************************)
(* The clock of sysbus.c: a thread increments the 16-bit clockticks every  *)
(* 20 ms, and port F1 copies it to the guest's registers H and L with two  *)
(* separate reads of the volatile variable.                                *)
(***************************************************************************)
EXTENDS Integers

CONSTANTS
  HalfBase,    \* 256: values of H and of L
  StartTicks,  \* ticks counted before the guest first looks
  MaxTicks     \* bound on the ticks of a behaviour

ClockBase == HalfBase * HalfBase

ASSUME ClockAssumption ==
  /\ HalfBase \in Nat \ {0}
  /\ StartTicks \subseteq Nat
  /\ MaxTicks \in Nat

VARIABLES
  clockticks,
  H, L,        \* the guest's registers
  halves,      \* halves that port F1 has copied
  now,         \* history: all ticks since the clock was started
  begun,       \* history: now, when the first half was copied
  ended        \* history: now, when the second half was copied

clock == <<clockticks, H, L, halves, now, begun, ended>>

ClockTypeOK ==
  /\ clockticks \in 0..ClockBase-1
  /\ H \in 0..HalfBase-1 /\ L \in 0..HalfBase-1
  /\ halves \in 0..2
  /\ now \in Nat /\ begun \in Nat /\ ended \in Nat

ClockInit ==
  /\ now \in StartTicks
  /\ clockticks = now % ClockBase
  /\ H = 0 /\ L = 0
  /\ halves = 0 /\ begun = 0 /\ ended = 0

(* Faulty: the counter is wider than H and L. *)
TickWide ==
  /\ now < MaxTicks
  /\ now' = now + 1
  /\ clockticks' = clockticks + 1
  /\ UNCHANGED <<H, L, halves, begun, ended>>

Tick ==
  /\ now < MaxTicks
  /\ now' = now + 1
  /\ clockticks' = (clockticks + 1) % ClockBase
  /\ UNCHANGED <<H, L, halves, begun, ended>>

(* Faulty: the low half is copied first. *)
LowFirst == <<"L", "H">>

(* The order of the two assignments of port F1. *)
HalfOrder == <<"H", "L">>

Copy(half) ==
  /\ H' = IF half = "H" THEN clockticks \div HalfBase ELSE H
  /\ L' = IF half = "L" THEN clockticks % HalfBase ELSE L
  /\ UNCHANGED <<clockticks, now>>

ReadFirstHalf ==
  /\ halves \in {0, 2}
  /\ Copy(HalfOrder[1])
  /\ halves' = 1 /\ begun' = now
  /\ UNCHANGED ended

ReadSecondHalf ==
  /\ halves = 1
  /\ Copy(HalfOrder[2])
  /\ halves' = 2 /\ ended' = now
  /\ UNCHANGED begun

Reading == ReadFirstHalf \/ ReadSecondHalf

ClockNext == Tick \/ Reading

ClockSpec == ClockInit /\ [][ClockNext]_clock

-----------------------------------------------------------------------------
(* Carries of the low half between two moments. *)
Carries(from, to) == to \div HalfBase - from \div HalfBase

(* What the guest finds in H and L is the time at which L was copied, less *)
(* HalfBase for each carry between the two halves: it may be late by whole *)
(* carries, so that the clock seems to run back, but is never ahead, and   *)
(* is exact when no carry falls between them (port F1 of _Z80_INPUT_BYTE   *)
(* against sysbus_clockfunction).                                          *)
ReadingNeverAhead ==
  halves = 2 =>
    (HalfBase * H + L) = (ended - HalfBase * Carries(begun, ended)) % ClockBase
=============================================================================
