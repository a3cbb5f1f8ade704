-------------------------------- MODULE Sync --------------------------------
(***************************************************************************)
(* The spin lock and the panic path on the same harts: a hart may panic or *)
(* fault anywhere in the lock code, inside the critical section too, and   *)
(* runs no lock code afterwards.                                           *)
(***************************************************************************)
EXTENDS Mutex

VARIABLES ppc, guard, wire

P == INSTANCE Panic

syncVars == <<holder, resv, pc, op, retries, ppc, guard, wire>>

SyncInit == MutexInit /\ P!PanicInit

LockCode(h) == ppc[h] = "ok" /\ MutexStep(h) /\ UNCHANGED <<ppc, guard, wire>>
PanicCode(h) == P!PanicStep(h) /\ UNCHANGED mutexVars

SyncNext == \E h \in Harts : LockCode(h) \/ PanicCode(h)

\* A hart inside a lock call keeps executing and a holder unlocks, unless it
\* panics; whether a hart calls at all is its own business.  LR/SC makes progress:
\* a hart that again and again reaches its SC with a reservation that stands
\* succeeds once.  The panic path runs on.
Runs(h, A) == ppc[h] = "ok" /\ A /\ UNCHANGED <<ppc, guard, wire>>
SyncFairness ==
  \A h \in Harts :
    /\ WF_syncVars(Runs(h, Lr(h) \/ Pause(h)))
    /\ WF_syncVars(Runs(h, ScSuccess(h) \/ ScFail(h)))
    /\ WF_syncVars(Runs(h, Unlock(h)))
    /\ SF_syncVars(Runs(h, ScSuccess(h)))
    /\ WF_syncVars((P!PrintMessage(h) \/ P!Guard(h) \/ P!Dump(h)) /\ UNCHANGED mutexVars)

SyncSpec == SyncInit /\ [][SyncNext]_syncVars /\ SyncFairness

\* With panics and faults anywhere in the lock code, one hart dumps at most, every
\* part once and in order (panic.c:19-23, panic.h:35-36); messages, which are
\* printed ahead of the guard, may come from every hart.
OneDump == P!OneDump

\* What panic.c:19-23 says of the wire: whoever panics second "skips the printing
\* and just halts - keeps the on-wire dump readable".  A second hart's message,
\* printed ahead of the guard (panic.c:216-218), lands inside the dump.
DumpUnbroken == P!DumpUnbroken

\* A hart that panics halts for good (panic.c:196-199), lock held or not.
PanicHalts == P!PanicHalts

\* While a hart that has not panicked spins in mutex_lock, somebody gets the
\* lock, unless a hart panics: one that panicked inside the critical section
\* never unlocks, and every other hart then spins for good.
LockLiveUnlessPanic ==
  \A h \in Harts :
    (pc[h] \in {"lr", "sc", "pause"} /\ op[h] = "lock")
      ~> \/ \E g \in Harts : pc[g] = "cs"
         \/ \E g \in Harts : ppc[g] # "ok"
=============================================================================
