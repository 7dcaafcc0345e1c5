------------------------------ MODULE Interrupt ------------------------------
(***************************************************************************)
(* machine/interrupt.cc and machine/timer.cc: simulated time and the list  *)
(* of interrupts that are to occur.  Time is an `unsigned long` that does  *)
(* not overflow; the times of interrupts are cut to `unsigned` and kept as *)
(* the `int` keys of a sorted list.                                        *)
(*                                                                         *)
(* Handlers run to their end with interrupts disabled.  The one of the     *)
(* timer and those that poll (keyboard, network) schedule their next       *)
(* interrupt.  The others do nothing to this module's state.               *)
(***************************************************************************)
EXTENDS ListOps, SequencesExt

CONSTANTS
  Devices,       \* the devices; each has at most one pending interrupt
  Timer,         \* the timer device
  Pollers,       \* devices that schedule the next interrupt in the handler
  Delays,        \* Delays[d]: the `fromNow` of the interrupts of d
  SYSTEM_TICK, USER_TICK,
  UINT_MAX, INT_MAX,
  MaxTicks,      \* bound: time does not advance beyond it
  ConsoleON      \* the arguments Idle is called with

ASSUME InterruptConstants ==
  /\ Timer \in Pollers /\ Pollers \subseteq Devices
  /\ Delays \in [Devices -> SUBSET (Nat \ {0})]
  /\ UINT_MAX = 2 * INT_MAX + 1
  /\ ConsoleON \subseteq BOOLEAN

VARIABLES totalTicks, pending, level, status, yieldOnReturn,
  at,            \* "run", or the loop over due interrupts that is running
  left,          \* left[d]: ticks until d's interrupt should occur (history)
  late           \* how late the last interrupt occurred (history)

vars == <<totalTicks, pending, level, status, yieldOnReturn, at, left, late>>

-----------------------------------------------------------------------------

(* The conversions of a time between `unsigned` and the `int` keys. *)
Unsigned(n) == n % (UINT_MAX + 1)

Key(when) == IF when > INT_MAX THEN when - (UINT_MAX + 1) ELSE when

When(element) == Unsigned(element.key)

(* Interrupt::RestartTicks with time `now`: times are counted from now. *)
RestartTicks(q, now) ==
  FoldLeft(LAMBDA new, e : SortedInsert(new, e.item, Key(Unsigned(When(e) - now))),
           <<>>, q)

(* Interrupt::Schedule on list q at time `now`.  `UINT_MAX - now` is an    *)
(* unsigned subtraction: it is huge if now exceeds UINT_MAX.               *)
Schedule(q, now, d, fromNow) ==
  LET restart == now <= UINT_MAX /\ UINT_MAX - now < fromNow
      list == IF restart THEN RestartTicks(q, now) ELSE q
      base == IF restart THEN 0 ELSE now
  IN  [totalTicks |-> base,
       pending |-> SortedInsert(list, d, Key(Unsigned(base + fromNow)))]

(* The timer and the polling devices are started before the machine runs. *)
Init ==
  \E delay \in {f \in [Pollers -> UNION {Delays[d] : d \in Pollers}] :
                  \A d \in Pollers : f[d] \in Delays[d]} :
    /\ pending = FoldLeft(LAMBDA q, d : Schedule(q, 0, d, delay[d]).pending,
                          <<>>, SetToSeq(Pollers))
    /\ left = [d \in Devices |-> IF d \in Pollers THEN delay[d] ELSE 0]
    /\ totalTicks = 0
    /\ level = "INT_OFF"
    /\ status = "SYSTEM_MODE"
    /\ yieldOnReturn = FALSE
    /\ at = "run"
    /\ late = 0

(* A driver asks its device for something, which schedules an interrupt.   *)
(* The drivers wait for the interrupt before they ask again (disk.cc and   *)
(* console.cc assert it).                                                  *)
Request(d, fromNow) ==
  /\ at = "run"
  /\ ~Has(pending, d)
  /\ LET s == Schedule(pending, totalTicks, d, fromNow)
     IN  /\ totalTicks' = s.totalTicks
         /\ pending' = s.pending
         /\ left' = [left EXCEPT ![d] = fromNow]
  /\ UNCHANGED <<level, status, yieldOnReturn, at, late>>

(* Time passes, for the interrupts too. *)
AdvanceTo(now) ==
  [d \in Devices |-> IF Has(pending, d) THEN left[d] - (now - totalTicks) ELSE 0]

(* Interrupt::OneTick, up to its loop, which runs with interrupts off. *)
OneTick(mode, tick) ==
  /\ at = "run"
  /\ totalTicks + tick <= MaxTicks
  /\ totalTicks' = totalTicks + tick
  /\ left' = AdvanceTo(totalTicks')
  /\ status' = mode
  /\ level' = "INT_OFF"
  /\ at' = "tick"
  /\ UNCHANGED <<pending, yieldOnReturn, late>>

(* Interrupt::SetLevel: the kernel turns interrupts off, or on again, and  *)
(* then time advances.                                                     *)
SetLevel(now) ==
  /\ at = "run"
  /\ IF now = "INT_ON" /\ level = "INT_OFF"
     THEN OneTick("SYSTEM_MODE", SYSTEM_TICK)
     ELSE level' = now /\ UNCHANGED <<totalTicks, pending, status, yieldOnReturn, at, left, late>>

(* Machine::Run has executed an instruction of a user program. *)
UserInstruction == level = "INT_ON" /\ OneTick("USER_MODE", USER_TICK)

(* Interrupt::CheckIfDue finds no interrupt to fire at time `now`: the     *)
(* first one, if any, is put back.                                         *)
NoneDue(now) ==
  \/ pending = <<>>
  \/ When(Head(pending)) > now
  \/ status = "IDLE_MODE" /\ Head(pending).item = Timer /\ Len(pending) = 1

PutBack ==
  IF pending = <<>> THEN <<>>
  ELSE SortedInsert(SortedPop(pending), Head(pending).item, Head(pending).key)

(* CheckIfDue fires the first interrupt at time `now`.  The handlers of    *)
(* the pollers schedule the next interrupt; the timer's asks to yield.     *)
Fire(now) ==
  LET d == Head(pending).item
      passed == AdvanceTo(now)
  IN  /\ late' = -passed[d]
      /\ yieldOnReturn' = (yieldOnReturn \/ d = Timer)
      /\ IF d \in Pollers
         THEN \E n \in Delays[d] :
                LET s == Schedule(SortedPop(pending), now, d, n)
                IN  /\ totalTicks' = s.totalTicks
                    /\ pending' = s.pending
                    /\ left' = [passed EXCEPT ![d] = n]
         ELSE /\ totalTicks' = now
              /\ pending' = SortedPop(pending)
              /\ left' = [passed EXCEPT ![d] = 0]

(* The loops of OneTick and Idle: CheckIfDue(false) fires an interrupt. *)
CheckIfDue ==
  /\ at \in {"tick", "idle"}
  /\ ~NoneDue(totalTicks)
  /\ Fire(totalTicks)
  /\ UNCHANGED <<level, status, at>>

(* Mutant: the loop goes on while interrupts are pending. *)
EndTick_Drains ==
  /\ at = "tick"
  /\ pending = <<>>
  /\ yieldOnReturn' = FALSE
  /\ level' = "INT_ON"
  /\ at' = "run"
  /\ UNCHANGED <<totalTicks, pending, status, left, late>>

(* OneTick goes on after its loop; if the timer asked for it, the thread   *)
(* yields.                                                                 *)
EndTick ==
  /\ at = "tick"
  /\ NoneDue(totalTicks)
  /\ pending' = PutBack
  /\ yieldOnReturn' = FALSE
  /\ level' = "INT_ON"
  /\ at' = "run"
  /\ UNCHANGED <<totalTicks, status, left, late>>

(* The time to which CheckIfDue(true) advances the clock. *)
NextDue == IF pending = <<>> THEN totalTicks ELSE Max({totalTicks, When(Head(pending))})

(* The interrupt CheckIfDue(true) pops may fire: it is not only the timer. *)
WorthIdling == pending # <<>> /\ ~(Head(pending).item = Timer /\ Len(pending) = 1)

(* Mutant: the clock is not advanced to the next interrupt. *)
Idle_NoAdvance(consoleRunning) ==
  /\ at = "run" /\ level = "INT_OFF"
  /\ ~consoleRunning /\ WorthIdling
  /\ NextDue <= MaxTicks
  /\ status' = "IDLE_MODE"
  /\ at' = "idle"
  /\ Fire(totalTicks)
  /\ UNCHANGED level

(* Interrupt::Idle, when there is no thread to run: the clock jumps to the *)
(* next interrupt, which fires.                                            *)
Idle(consoleRunning) ==
  /\ at = "run" /\ level = "INT_OFF"
  /\ ~consoleRunning /\ WorthIdling
  /\ NextDue <= MaxTicks
  /\ status' = "IDLE_MODE"
  /\ at' = "idle"
  /\ Fire(NextDue)
  /\ UNCHANGED level

EndIdle ==
  /\ at = "idle"
  /\ NoneDue(totalTicks)
  /\ pending' = PutBack
  /\ yieldOnReturn' = FALSE
  /\ status' = "SYSTEM_MODE"
  /\ at' = "run"
  /\ UNCHANGED <<totalTicks, level, left, late>>

(* Idle when no interrupt is pending but the timer's, or the console is    *)
(* said to be waiting for nothing: the machine stops.                      *)
Halt(consoleRunning) ==
  /\ at = "run" /\ level = "INT_OFF"
  /\ consoleRunning \/ ~WorthIdling
  /\ status' = "IDLE_MODE"
  /\ at' = "halted"
  /\ IF consoleRunning
     THEN UNCHANGED <<totalTicks, pending, left>>
     ELSE totalTicks' = NextDue /\ pending' = PutBack /\ left' = AdvanceTo(NextDue)
  /\ UNCHANGED <<level, yieldOnReturn, late>>

Next ==
  \/ \E d \in Devices \ Pollers : \E n \in Delays[d] : Request(d, n)
  \/ \E now \in {"INT_OFF", "INT_ON"} : SetLevel(now)
  \/ UserInstruction
  \/ CheckIfDue
  \/ EndTick
  \/ \E c \in ConsoleON : Idle(c) \/ Halt(c)
  \/ EndIdle

Safety == Init /\ [][Next]_vars

(* The loops go on while they find interrupts to fire. *)
Spec == Safety /\ WF_vars(CheckIfDue \/ EndTick \/ EndIdle)

-----------------------------------------------------------------------------

(* An interrupt never occurs before the time it was scheduled for, and at  *)
(* most one tick after it.                                                 *)
InterruptsAreOnTime == late \in 0 .. SYSTEM_TICK

(* The loops of OneTick and Idle end, though the handlers they call add    *)
(* interrupts to the list they look at.                                    *)
LoopsEnd == at \in {"tick", "idle"} ~> at \in {"run", "halted"}
=============================================================================
