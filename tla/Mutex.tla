------------------------------- MODULE Mutex -------------------------------
(***************************************************************************)
(* mutex.h on top of atomic.h: the spin lock and the LR/SC loop under it,  *)
(* one action per instruction that touches the lock word.                  *)
(*                                                                         *)
(* The A extension (external): LR registers a reservation on the word; a   *)
(* store, AMO or successful SC of any hart to the word ends the            *)
(* reservations of the others; an SC writes only if its hart's reservation *)
(* stands, ends that reservation either way, and may fail without reason.  *)
(* An SC pairs with the latest LR of its hart in program order, and trap.S *)
(* does not end a reservation on its way in or out of a handler.           *)
(***************************************************************************)
EXTENDS Integers, FiniteSets

CONSTANTS
  NHarts,    \* harts 0..NHarts-1
  Retries    \* turns of atomic_cas_u32's loop (32 in the code)

ASSUME MutexAssumption == NHarts \in Nat \ {0} /\ Retries \in Nat \ {0}

Harts == 0..NHarts-1

VARIABLES
  holder,    \* mutex_t.holder: 0 = free, else mhartid + 1
  resv,      \* resv[h]: hart h's reservation on the word stands
  pc,        \* where hart h is: out, lr, sc, pause, cs
  op,        \* op[h]: the call hart h is in, mutex_lock or mutex_trylock
  retries    \* retries[h]: the counter of atomic_cas_u32

mutexVars == <<holder, resv, pc, op, retries>>

Self(h) == h + 1                     \* smp_this_hart() + 1

-----------------------------------------------------------------------------

MutexInit ==
  /\ holder = 0
  /\ resv = [h \in Harts |-> FALSE]
  /\ pc = [h \in Harts |-> "out"]
  /\ op = [h \in Harts |-> "lock"]
  /\ retries = [h \in Harts |-> Retries]

\* mutex_lock / mutex_trylock enter atomic_cas_u32(&m->holder, 0, self).
Call(h) ==
  /\ pc[h] = "out"
  /\ \E o \in {"lock", "trylock"} : op' = [op EXCEPT ![h] = o]
  /\ pc' = [pc EXCEPT ![h] = "lr"]
  /\ UNCHANGED <<holder, resv, retries>>

\* atomic_cas_u32 returns; its counter is gone with it, and so is `o` of the
\* call once hart h has left that call for good.
CasReturns(h, where, o) ==
  /\ pc' = [pc EXCEPT ![h] = where]
  /\ op' = [op EXCEPT ![h] = o]
  /\ retries' = [retries EXCEPT ![h] = Retries]

\* It returned false: mutex_trylock returns false, mutex_lock pauses and tries
\* again.
CasFalse(h) == CasReturns(h, IF op[h] = "lock" THEN "pause" ELSE "out", "lock")

\* lr.w; `if (cur != expected) return false`.
Lr(h) ==
  /\ pc[h] = "lr"
  /\ resv' = [resv EXCEPT ![h] = TRUE]
  /\ \/ holder = 0 /\ pc' = [pc EXCEPT ![h] = "sc"] /\ UNCHANGED <<op, retries>>
     \/ holder # 0 /\ CasFalse(h)
  /\ UNCHANGED holder

\* A write of the word ends every other reservation; the writer's own is ended
\* by its SC.
WriteWord(v) ==
  /\ holder' = v
  /\ resv' = [g \in Harts |-> FALSE]

ScSuccessIgnoresReservation(h) ==
  /\ pc[h] = "sc"
  /\ WriteWord(Self(h))
  /\ CasReturns(h, "cs", "lock")

\* sc.w with fail == 0: the CAS returns true, the lock is ours.
ScSuccess(h) ==
  /\ pc[h] = "sc"
  /\ resv[h]
  /\ WriteWord(Self(h))
  /\ CasReturns(h, "cs", "lock")

\* sc.w with fail != 0, the reservation gone or not; `while (--retries > 0)`.
ScFail(h) ==
  /\ pc[h] = "sc"
  /\ resv' = [resv EXCEPT ![h] = FALSE]
  /\ \/ /\ retries[h] - 1 > 0
        /\ retries' = [retries EXCEPT ![h] = @ - 1]
        /\ pc' = [pc EXCEPT ![h] = "lr"]
        /\ UNCHANGED op
     \/ retries[h] - 1 <= 0 /\ CasFalse(h)
  /\ UNCHANGED holder

\* mutex_lock: `fence w, 0`, then a fresh CAS.
Pause(h) ==
  /\ pc[h] = "pause"
  /\ pc' = [pc EXCEPT ![h] = "lr"]
  /\ UNCHANGED <<holder, resv, op, retries>>

UnlockForgets(h) ==
  /\ pc[h] = "cs"
  /\ pc' = [pc EXCEPT ![h] = "out"]
  /\ UNCHANGED <<holder, resv, op, retries>>

\* mutex_unlock: amoswap of 0, no check of who holds the lock.  Callers unlock
\* what they locked.
Unlock(h) ==
  /\ pc[h] = "cs"
  /\ WriteWord(0)
  /\ pc' = [pc EXCEPT ![h] = "out"]
  /\ UNCHANGED <<op, retries>>

\* mutex_holder from thread code: atomic_load_u32 is an lr.w with no sc.
HolderRead(h) ==
  /\ pc[h] \in {"out", "cs"}
  /\ resv' = [resv EXCEPT ![h] = TRUE]
  /\ UNCHANGED <<holder, pc, op, retries>>

MutexStep(h) ==
  \/ Call(h) \/ Lr(h) \/ ScSuccess(h) \/ ScFail(h) \/ Pause(h) \/ Unlock(h)
  \/ HolderRead(h)

MutexNext == \E h \in Harts : MutexStep(h)

MutexSpec == MutexInit /\ [][MutexNext]_mutexVars

-----------------------------------------------------------------------------
(***************************************************************************)
(* Properties.                                                             *)
(***************************************************************************)

\* Each variable ranges over the values the code can give it.
MutexTypeOK ==
  /\ holder \in 0..NHarts
  /\ resv \in [Harts -> BOOLEAN]
  /\ pc \in [Harts -> {"out", "lr", "sc", "pause", "cs"}]
  /\ op \in [Harts -> {"lock", "trylock"}]
  /\ retries \in [Harts -> 0..Retries]

\* At most one hart is between mutex_lock and mutex_unlock.
MutualExclusion == \A g, h \in Harts : pc[g] = "cs" /\ pc[h] = "cs" => g = h

\* The word names the holder: what mutex_holder returns is -1 exactly when
\* nobody is in the critical section, else the hart that is (mutex.h:22-24).
HolderIsOwner ==
  /\ holder = 0 <=> \A h \in Harts : pc[h] # "cs"
  /\ \A h \in Harts : pc[h] = "cs" <=> holder = Self(h)

\* An SC that can still succeed read the lock as free: a reservation taken
\* inside the CAS loop means that the word has not been written since.
ReservationFresh == \A h \in Harts : pc[h] = "sc" /\ resv[h] => holder = 0

MutexIInv == MutexTypeOK /\ HolderIsOwner /\ ReservationFresh
=============================================================================
