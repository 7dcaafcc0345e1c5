----------------------------- MODULE SynchConsole ----------------------------
(***************************************************************************)
(* userprog/synch_console.cc over machine/console.cc.  Threads write       *)
(* characters to the display as module Driver says.  Characters from the   *)
(* keyboard arrive in a buffer of one; readers wait on a semaphore that    *)
(* the interrupt increments, and take the character under a lock.  Module  *)
(* Processes makes the calls, in the system calls Read and Write.          *)
(***************************************************************************)
EXTENDS Driver, Sequences

CONSTANTS
  EOF,           \* the value of an empty input buffer
  Typed,         \* the sequences of characters that may be typed
  MaxTyped,      \* their greatest length
  rLock, rSem

Characters == UNION {{s[i] : i \in DOMAIN s} : s \in Typed}

(* A byte with the value of EOF would look like an empty buffer. *)
ASSUME ConsoleConstants ==
  /\ rLock # None /\ rSem # None
  /\ Typed \subseteq Seq(Characters) /\ EOF \notin Characters

VARIABLES
  display,       \* the threads that wrote, a character each
  keyboard,      \* the characters typed and not yet taken by the console
  incoming,      \* the input buffer
  rHolder, rAcquiring, rValue, rBlocked,  \* the lock and semaphore of readers
  rpc,           \* rpc[t]: where thread t is
  got,           \* the characters that readers got, in order (history)
  input          \* all that is typed (history)

RLk == INSTANCE Mutex
         WITH Locks <- {rLock},
              holder <- rHolder, waiting <- rAcquiring

RSem == INSTANCE CountingSemaphore
          WITH Semaphores <- {rSem},
               InitialValue <- [s \in {rSem} |-> 0], MaxValue <- MaxTyped,
               value <- rValue, waiting <- rBlocked

writeVars == <<vars, display>>
rLockVars == <<rHolder, rAcquiring>>
rSemVars == <<rValue, rBlocked>>
deviceVars == <<keyboard, incoming, input>>
readVars == <<rLockVars, rSemVars, deviceVars, rpc, got>>
consoleVars == <<writeVars, readVars>>

ConsoleInit ==
  /\ Init
  /\ display = <<>>
  /\ RLk!Init
  /\ keyboard \in Typed
  /\ input = keyboard
  /\ RSem!Init
  /\ incoming = EOF
  /\ rpc = [t \in Threads |-> "idle"]
  /\ got = <<>>

-----------------------------------------------------------------------------
(* Writing *)

(* WriteCharToConsol is called. *)
CallWrite(t) == Call(t) /\ UNCHANGED <<display, readVars>>

(* Console::PutChar; `active` is its putBusy. *)
PutChar(t) ==
  /\ Start(t)
  /\ display' = Append(display, t)
  /\ UNCHANGED readVars

(* The other steps of WriteCharToConsol: Acquire, P and Release. *)
WriteSteps(t) ==
  /\ Grant(t) \/ Await(t) \/ Resume(t) \/ Return(t)
  /\ UNCHANGED <<display, readVars>>

(* Console::WriteDone and SynchConsole::WriteOK. *)
WriteDone == Interrupt /\ UNCHANGED <<display, readVars>>

-----------------------------------------------------------------------------
(* Reading *)

RAt(t, from) == rpc[t] = from /\ rAcquiring[t] = None /\ rBlocked[t] = None

RGoto(t, to) == rpc' = [rpc EXCEPT ![t] = to]

(* ReadCharFromConsole is called: rLock->Acquire(). *)
CallRead(t) ==
  /\ RAt(t, "idle")
  /\ RLk!Take(t, rLock) \/ RLk!Block(t, rLock)
  /\ RGoto(t, "acquired")
  /\ UNCHANGED <<writeVars, rSemVars, deviceVars, got>>

ReadGrant(t) ==
  /\ RLk!Grant(t, rLock)
  /\ UNCHANGED <<writeVars, rSemVars, deviceVars, rpc, got>>

(* rSem->P(). *)
ReadWait(t) ==
  /\ RAt(t, "acquired")
  /\ RSem!Take(t, rSem) \/ RSem!Block(t, rSem)
  /\ RGoto(t, "char")
  /\ UNCHANGED <<writeVars, rLockVars, deviceVars, got>>

ReadResume(t) ==
  /\ RSem!Unblock(t, rSem)
  /\ UNCHANGED <<writeVars, rLockVars, deviceVars, rpc, got>>

(* Console::GetChar. *)
GetChar(t) ==
  /\ RAt(t, "char")
  /\ got' = Append(got, incoming)
  /\ incoming' = EOF
  /\ RGoto(t, "got")
  /\ UNCHANGED <<writeVars, rLockVars, rSemVars, keyboard, input>>

ReadReturn(t) ==
  /\ RAt(t, "got")
  /\ RLk!Release(t, rLock)
  /\ RGoto(t, "idle")
  /\ UNCHANGED <<writeVars, rSemVars, deviceVars, got>>

(* The steps of ReadCharFromConsole after it has the lock. *)
ReadSteps(t) == ReadWait(t) \/ ReadResume(t) \/ GetChar(t) \/ ReadReturn(t)

(* Mutant: the poll does not look whether the buffer is in use. *)
CheckCharAvail_NoTest ==
  /\ keyboard # <<>>
  /\ incoming' = Head(keyboard)
  /\ keyboard' = Tail(keyboard)
  /\ RSem!V(rSem)
  /\ UNCHANGED <<writeVars, rLockVars, input, rpc, got>>

(* Mutant: the interrupt does not increment the semaphore. *)
CheckCharAvail_NoV ==
  /\ incoming = EOF /\ keyboard # <<>>
  /\ incoming' = Head(keyboard)
  /\ keyboard' = Tail(keyboard)
  /\ UNCHANGED <<writeVars, rLockVars, rSemVars, input, rpc, got>>

(* Console::CheckCharAvail and SynchConsole::ReadWait.  The poll is always *)
(* scheduled anew; it does nothing if the buffer is in use or there is no  *)
(* character.                                                              *)
CheckCharAvail ==
  /\ incoming = EOF /\ keyboard # <<>>
  /\ incoming' = Head(keyboard)
  /\ keyboard' = Tail(keyboard)
  /\ RSem!V(rSem)
  /\ UNCHANGED <<writeVars, rLockVars, input, rpc, got>>

-----------------------------------------------------------------------------

(* The console has one character in each direction, and its users take     *)
(* turns: PutChar finds the display idle, as it asserts, and threads       *)
(* together get the characters in the order they were typed, each once.    *)
CharactersKeepTheirTurn ==
  /\ \A t \in Threads : At(t, "acquired") => ~active
  /\ got \o (IF incoming = EOF THEN <<>> ELSE <<incoming>>) \o keyboard = input
=============================================================================
