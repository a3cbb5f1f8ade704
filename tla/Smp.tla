-------------------------------- MODULE Smp --------------------------------
(***************************************************************************)
(* Symmetric multiprocessing: the boot path of every hart (start.S,        *)
(* start_s.S), the park loop of the secondaries, and smp_init, smp_start,  *)
(* smp_wait and __smp_secondary_dispatch of smp.c, one action per memory   *)
(* access that another hart can observe.                                   *)
(*                                                                         *)
(* A hart's stores go to its store buffer and reach memory in any order,   *)
(* one at a time (Drain); a `fence rw,rw` waits for the buffer to be empty.*)
(* Loads are performed in program order and see the hart's own buffered    *)
(* stores.  The msip word of the CLINT (or sip.SSIP under SBI) is a latch: *)
(* set by plat_ipi_send, cleared by the hart that owns it.                 *)
(*                                                                         *)
(* Every call of smp_start hands over a pair (fn, arg) of its own: call    *)
(* number j passes fn = j and arg = j, so a torn pair is visible.          *)
(***************************************************************************)
EXTENDS Integers, FiniteSets

CONSTANTS
  NHarts,    \* harts of the machine
  MaxHarts,  \* SMP_MAX_HARTS: harts that have a stack
  FdtCpus,   \* cpu nodes in the device tree
  Boot,      \* the hart that runs kmain; 0 under M+CLINT, SBI's choice under SBI
  Modes,     \* the backends considered, of {"m_clint", "s_sbi"}
  MaxJobs    \* bound: accepted calls of smp_start

ASSUME SmpAssumption ==
  /\ NHarts \in Nat \ {0}
  /\ MaxHarts \in Nat \ {0}
  /\ FdtCpus \in 0..NHarts
  /\ Boot \in 0..NHarts-1
  /\ Boot < MaxHarts
  /\ Modes \subseteq {"m_clint", "s_sbi"}
  /\ "m_clint" \in Modes => Boot = 0
  /\ MaxJobs \in Nat

Harts == 0..NHarts-1
Jobs == 1..MaxJobs

NULL == 0          \* a NULL smp_entry_t; also smp_running = 0
Junk == -1         \* BSS before the boot hart has zeroed it
None == -2         \* no store buffered for this location

\* Words shared between harts, one of each per hart: smp_cmd[h].fn,
\* smp_cmd[h].arg, smp_running[h], and the memory an entry writes its result to.
Kinds == {"fn", "arg", "run", "out"}
Vals == {Junk, NULL, 1} \cup Jobs

VARIABLES
  mode,        \* HAL_PLAT of the build
  mem,         \* mem[k][h]: word k of hart h in coherent memory
  sb,          \* sb[c][k][h]: the store of hart c to that word still in its buffer
  msip,        \* msip[h]: IPI pending at hart h
  pc,          \* where hart h is in the boot and park code
  reg,         \* reg[h]: fn and arg as __smp_secondary_dispatch loaded them
  hart_count,  \* hart_count_v
  api,         \* which call of smp.c the boot hart is in
  tgt,         \* hartid argument of that call (loop index in smp_init)
  jobs,        \* number of smp_start calls accepted so far
  last,        \* history: the last pair accepted for hart h
  ran          \* history: how often the entry of call j was entered

vars == <<mode, mem, sb, msip, pc, reg, hart_count, api, tgt, jobs, last, ran>>

-----------------------------------------------------------------------------
(***************************************************************************)
(* Memory.                                                                 *)
(***************************************************************************)

EmptyBuffer == [k \in Kinds |-> [h \in Harts |-> None]]

Load(c, k, h) == IF sb[c][k][h] # None THEN sb[c][k][h] ELSE mem[k][h]

Store(c, k, h, v) == sb' = [sb EXCEPT ![c][k][h] = v]

\* fence rw,rw: every earlier store of c has reached memory.
Fence(c) == \A k \in Kinds, h \in Harts : sb[c][k][h] = None

Drain(c) ==
  \E k \in Kinds, h \in Harts :
    /\ sb[c][k][h] # None
    /\ mem' = [mem EXCEPT ![k][h] = sb[c][k][h]]
    /\ sb' = [sb EXCEPT ![c][k][h] = None]
    /\ UNCHANGED <<mode, msip, pc, reg, hart_count, api, tgt, jobs, last, ran>>

-----------------------------------------------------------------------------
(***************************************************************************)
(* Boot.                                                                   *)
(***************************************************************************)

Init ==
  /\ mode \in Modes
  /\ mem = [k \in Kinds |-> [h \in Harts |-> Junk]]
  /\ sb = [c \in Harts |-> EmptyBuffer]
  /\ msip = [h \in Harts |-> FALSE]
  \* M-mode: all harts leave reset together.  SBI: only the boot hart runs.
  /\ pc = [h \in Harts |-> IF h = Boot \/ mode = "m_clint" THEN "reset" ELSE "stopped"]
  /\ reg = [h \in Harts |-> [fn |-> NULL, arg |-> NULL]]
  /\ hart_count = 1
  /\ api = "user"
  /\ tgt = 0
  /\ jobs = 0
  /\ last = [h \in Harts |-> NULL]
  /\ ran = [j \in Jobs |-> 0]

\* _start on the boot hart: zero BSS, set the trap vector, call kmain.
BootPrimary ==
  /\ pc[Boot] = "reset"
  /\ mem' = [k \in Kinds |-> [h \in Harts |-> NULL]]
  /\ pc' = [pc EXCEPT ![Boot] = "kmain"]
  /\ UNCHANGED <<mode, sb, msip, reg, hart_count, api, tgt, jobs, last, ran>>

\* _start / _smp_secondary_entry on another hart: a hart without a stack parks
\* for good, the others enter the park loop.
BootSecondary(h) ==
  /\ h # Boot
  /\ pc[h] = "reset"
  /\ pc' = [pc EXCEPT ![h] = IF h < MaxHarts THEN "wfi" ELSE "oob"]
  /\ UNCHANGED <<mode, mem, sb, msip, reg, hart_count, api, tgt, jobs, last, ran>>

-----------------------------------------------------------------------------
(***************************************************************************)
(* The boot hart: kmain and the calls of smp.c it makes.                   *)
(***************************************************************************)

\* kmain is running and is not inside a call.
InUser == pc[Boot] = "kmain" /\ api = "user"

\* smp_init up to the bring-up loop: the hart count of the device tree, at
\* least 1 and capped at the harts that have a stack.
SmpInit ==
  /\ InUser
  /\ hart_count' = LET n == IF FdtCpus = 0 THEN 1 ELSE FdtCpus
                   IN IF n > MaxHarts THEN MaxHarts ELSE n
  /\ api' = "init"
  /\ tgt' = 0
  /\ UNCHANGED <<mode, mem, sb, msip, pc, reg, jobs, last, ran>>

\* One turn of the loop: plat_hart_bringup_park(h) for every hart but our own,
\* a no-op under M+CLINT and sbi_hart_start under SBI (which refuses a hart
\* that is not stopped).
SmpInitBringup ==
  /\ api = "init"
  /\ tgt < hart_count
  /\ pc' = IF tgt # Boot /\ mode = "s_sbi" /\ pc[tgt] = "stopped"
           THEN [pc EXCEPT ![tgt] = "reset"] ELSE pc
  /\ tgt' = tgt + 1
  /\ UNCHANGED <<mode, mem, sb, msip, reg, hart_count, api, jobs, last, ran>>

SmpInitReturn ==
  /\ api = "init"
  /\ tgt >= hart_count
  /\ api' = "user"
  /\ tgt' = 0
  /\ UNCHANGED <<mode, mem, sb, msip, pc, reg, hart_count, jobs, last, ran>>

\* The early returns of smp_start: hart 0, a hart that is not there, a hart
\* that is busy.  (A NULL fn is refused too; every pair modelled has an fn.)
\* A refused call changes nothing, so it is no step of the model.
SmpStartChecks(h) ==
  /\ h # 0
  /\ h < hart_count
  /\ Load(Boot, "run", h) = NULL

SmpStartCall(h) ==
  /\ InUser
  /\ jobs < MaxJobs
  /\ SmpStartChecks(h)
  /\ jobs' = jobs + 1
  /\ api' = "st_fn"
  /\ tgt' = h
  /\ last' = [last EXCEPT ![h] = jobs + 1]
  /\ UNCHANGED <<mode, mem, sb, msip, pc, reg, hart_count, ran>>

\* The three stores of smp_start, in program order.
SmpStartStore ==
  /\ \/ api = "st_fn"  /\ Store(Boot, "fn", tgt, jobs)  /\ api' = "st_arg"
     \/ api = "st_arg" /\ Store(Boot, "arg", tgt, jobs) /\ api' = "st_run"
     \/ api = "st_run" /\ Store(Boot, "run", tgt, 1)    /\ api' = "st_ipi"
  /\ UNCHANGED <<mode, mem, msip, pc, reg, hart_count, tgt, jobs, last, ran>>

IpiSendNoFence ==
  /\ api = "st_ipi"
  /\ msip' = [msip EXCEPT ![tgt] = TRUE]
  /\ api' = "user"
  /\ UNCHANGED <<mode, mem, sb, pc, reg, hart_count, tgt, jobs, last, ran>>

IpiSendLost ==
  /\ api = "st_ipi"
  /\ Fence(Boot)
  /\ api' = "user"
  /\ UNCHANGED <<mode, mem, sb, msip, pc, reg, hart_count, tgt, jobs, last, ran>>

\* plat_ipi_send(tgt): a fence, then the write of msip (or the SBI call);
\* smp_start returns true.
IpiSend ==
  /\ api = "st_ipi"
  /\ Fence(Boot)
  /\ msip' = [msip EXCEPT ![tgt] = TRUE]
  /\ api' = "user"
  /\ UNCHANGED <<mode, mem, sb, pc, reg, hart_count, tgt, jobs, last, ran>>

\* smp_wait(h): any hart number is accepted; it spins while smp_is_running(h).
SmpWaitCall(h) ==
  /\ InUser
  /\ api' = "wait"
  /\ tgt' = h
  /\ UNCHANGED <<mode, mem, sb, msip, pc, reg, hart_count, jobs, last, ran>>

SmpIsRunning(h) == h < MaxHarts /\ Load(Boot, "run", h) # NULL

SmpWaitReturn ==
  /\ api = "wait"
  /\ ~SmpIsRunning(tgt)
  /\ api' = "user"
  /\ tgt' = 0
  /\ UNCHANGED <<mode, mem, sb, msip, pc, reg, hart_count, jobs, last, ran>>

-----------------------------------------------------------------------------
(***************************************************************************)
(* A secondary: the park loop and __smp_secondary_dispatch.                *)
(***************************************************************************)

\* wfi; lw msip; beqz.  A wake with nothing pending goes back to wfi and is no
\* step of the model.
ParkWake(h) ==
  /\ pc[h] = "wfi"
  /\ msip[h]
  /\ pc' = [pc EXCEPT ![h] = "clear"]
  /\ UNCHANGED <<mode, mem, sb, msip, reg, hart_count, api, tgt, jobs, last, ran>>

ParkNeverClears(h) ==
  /\ pc[h] = "clear"
  /\ pc' = [pc EXCEPT ![h] = "ld_fn"]
  /\ UNCHANGED <<mode, mem, sb, msip, reg, hart_count, api, tgt, jobs, last, ran>>

\* sw zero, msip (csrc sip): the pending bit is cleared before the slot is read.
ParkClear(h) ==
  /\ pc[h] = "clear"
  /\ msip' = [msip EXCEPT ![h] = FALSE]
  /\ pc' = [pc EXCEPT ![h] = "ld_fn"]
  /\ UNCHANGED <<mode, mem, sb, reg, hart_count, api, tgt, jobs, last, ran>>

DispatchLoad(h) ==
  /\ \/ pc[h] = "ld_fn"
        /\ reg' = [reg EXCEPT ![h].fn = Load(h, "fn", h)]
        /\ pc' = [pc EXCEPT ![h] = "ld_arg"]
     \/ pc[h] = "ld_arg"
        /\ reg' = [reg EXCEPT ![h].arg = Load(h, "arg", h)]
        /\ pc' = [pc EXCEPT ![h] = IF reg[h].fn = NULL THEN "fence" ELSE "entry"]
  /\ UNCHANGED <<mode, mem, sb, msip, hart_count, api, tgt, jobs, last, ran>>

\* fn(hartid, arg): external code that stores a result and returns.
DispatchEntry(h) ==
  /\ pc[h] = "entry"
  /\ Store(h, "out", h, reg[h].arg)
  /\ ran' = [ran EXCEPT ![reg[h].fn] = @ + 1]
  /\ pc' = [pc EXCEPT ![h] = "fence"]
  /\ UNCHANGED <<mode, mem, msip, reg, hart_count, api, tgt, jobs, last>>

DispatchFenceDropped(h) ==
  /\ pc[h] = "fence"
  /\ pc' = [pc EXCEPT ![h] = "st_idle"]
  /\ UNCHANGED <<mode, mem, sb, msip, reg, hart_count, api, tgt, jobs, last, ran>>

DispatchFence(h) ==
  /\ pc[h] = "fence"
  /\ Fence(h)
  /\ pc' = [pc EXCEPT ![h] = "st_idle"]
  /\ UNCHANGED <<mode, mem, sb, msip, reg, hart_count, api, tgt, jobs, last, ran>>

DispatchForgetsIdle(h) ==
  /\ pc[h] = "st_idle"
  /\ pc' = [pc EXCEPT ![h] = "wfi"]
  /\ UNCHANGED <<mode, mem, sb, msip, reg, hart_count, api, tgt, jobs, last, ran>>

\* smp_running[hartid] = 0; back to the park loop.
DispatchIdle(h) ==
  /\ pc[h] = "st_idle"
  /\ Store(h, "run", h, NULL)
  /\ pc' = [pc EXCEPT ![h] = "wfi"]
  /\ UNCHANGED <<mode, mem, msip, reg, hart_count, api, tgt, jobs, last, ran>>

-----------------------------------------------------------------------------

Primary ==
  \/ BootPrimary
  \/ SmpInit \/ SmpInitBringup \/ SmpInitReturn
  \/ \E h \in Harts : SmpStartCall(h)
  \/ SmpStartStore \/ IpiSend
  \/ \E h \in Harts : SmpWaitCall(h)
  \/ SmpWaitReturn

Secondary(h) ==
  \/ BootSecondary(h) \/ ParkWake(h) \/ ParkClear(h) \/ DispatchLoad(h)
  \/ DispatchEntry(h) \/ DispatchFence(h) \/ DispatchIdle(h)

Next == Primary \/ \E h \in Harts : Secondary(h) \/ Drain(h)

\* Harts never stop executing instructions, store buffers drain, and an entry
\* returns.  Which call kmain makes next is its own business; smp_wait spins,
\* so its return is fair too.
Fairness ==
  /\ WF_vars(BootPrimary \/ SmpInitBringup \/ SmpInitReturn \/ SmpStartStore
             \/ IpiSend \/ SmpWaitReturn)
  /\ \A h \in Harts : WF_vars(Secondary(h)) /\ WF_vars(Drain(h))

Spec == Init /\ [][Next]_vars
FairSpec == Spec /\ Fairness

-----------------------------------------------------------------------------
(***************************************************************************)
(* Properties.                                                             *)
(***************************************************************************)

StartStates == {"st_fn", "st_arg", "st_run", "st_ipi"}
WokenStates == {"clear", "ld_fn", "ld_arg"}
BusyStates == {"entry", "fence", "st_idle"}

\* smp_start has passed its checks for hart h and has not returned.
Starting(h) == api \in StartStates /\ tgt = h

\* Each variable ranges over the values the code can give it; smp_cmd[] and
\* smp_running[] have MaxHarts entries, so the harts counted stay below that.
TypeOK ==
  /\ mode \in Modes
  /\ mem \in [Kinds -> [Harts -> Vals]]
  /\ sb \in [Harts -> [Kinds -> [Harts -> Vals \cup {None}]]]
  /\ msip \in [Harts -> BOOLEAN]
  /\ pc \in [Harts -> {"reset", "stopped", "kmain", "oob", "wfi"} \cup WokenStates \cup BusyStates]
  /\ reg \in [Harts -> [fn : Vals, arg : Vals]]
  /\ hart_count \in 1..NHarts
  /\ hart_count <= MaxHarts
  /\ api \in {"user", "init", "wait"} \cup StartStates
  /\ tgt \in 0..NHarts
  /\ api \in StartStates => tgt \in Harts
  /\ jobs \in 0..MaxJobs
  /\ last \in [Harts -> 0..MaxJobs]
  /\ ran \in [Jobs -> Nat]

\* An entry is entered with the fn and the arg of one and the same smp_start,
\* the last one its hart accepted (smp.h:120, "consumed atomically"), although
\* the two words are stored and loaded separately.
NoTornPair ==
  \A h \in Harts : pc[h] \in BusyStates =>
    reg[h].fn = last[h] /\ reg[h].arg = last[h] /\ last[h] # NULL

\* When smp_running[h] reads 0 again after an accepted smp_start, that entry
\* has run exactly once and its stores are in memory: smp_wait never returns
\* while "the entry's results were still in this hart's store buffer"
\* (smp.c:158-160).
IdleMeansDone ==
  \A h \in Harts :
    (last[h] # NULL /\ mem.run[h] = NULL /\ ~Starting(h)) =>
      ran[last[h]] = 1 /\ mem.out[h] = last[h]

\* A hart that is marked busy has its wake-up still latched or is between the
\* wake and the store that marks it idle: the IPI is never consumed without a
\* dispatch (start.S:145-152, msip is cleared before the slot is read).
WakeNotLost ==
  \A h \in Harts :
    (mem.run[h] = 1 /\ ~Starting(h)) =>
      \/ msip[h]
      \/ pc[h] \in WokenStates \cup BusyStates
      \/ sb[h].run[h] = NULL

\* Under fairness every smp_wait returns (smp.h:129-131).
WaitReturns == (api = "wait") ~> (api = "user")

-----------------------------------------------------------------------------
(***************************************************************************)
(* The inductive invariant: which of seven situations a hart is in.        *)
(***************************************************************************)

ParkStates == {"reset", "stopped", "oob", "wfi", "kmain"}

\* Nothing of hart h's own is under way: no IPI, no dispatch, no buffered store.
OwnBufferEmpty(h) == h # Boot => sb[h].run[h] = None /\ sb[h].out[h] = None
Quiet(h) == pc[h] \in ParkStates /\ ~msip[h] /\ OwnBufferEmpty(h)

Free(h) ==
  /\ ~Starting(h) /\ Quiet(h)
  /\ mem.run[h] \in {NULL, Junk}
  /\ last[h] # NULL => ran[last[h]] = 1 /\ mem.out[h] = last[h]

Launching(h) ==
  /\ Starting(h) /\ Quiet(h)
  /\ jobs # 0 /\ last[h] = jobs /\ ran[jobs] = 0
  /\ api \in {"st_arg", "st_run", "st_ipi"} => Load(Boot, "fn", h) = jobs
  /\ api \in {"st_run", "st_ipi"} => Load(Boot, "arg", h) = jobs
  /\ api = "st_ipi" => Load(Boot, "run", h) = 1

\* The accepted pair is in memory and its hart is marked busy.
Accepted(h) ==
  /\ ~Starting(h)
  /\ last[h] # NULL
  /\ mem.run[h] = 1 /\ mem.fn[h] = last[h] /\ mem.arg[h] = last[h]

Latched(h) ==
  /\ Accepted(h) /\ msip[h] /\ OwnBufferEmpty(h)
  /\ pc[h] \in ParkStates \cup {"clear"}
  /\ ran[last[h]] = 0

Loading(h) ==
  /\ Accepted(h) /\ ~msip[h] /\ OwnBufferEmpty(h)
  /\ pc[h] \in {"ld_fn", "ld_arg", "entry"}
  /\ pc[h] \in {"ld_arg", "entry"} => reg[h].fn = last[h]
  /\ pc[h] = "entry" => reg[h].arg = last[h]
  /\ ran[last[h]] = 0

Returned(h) ==
  /\ Accepted(h) /\ ~msip[h] /\ h # Boot
  /\ pc[h] \in {"fence", "st_idle"}
  /\ reg[h].fn = last[h] /\ reg[h].arg = last[h]
  /\ ran[last[h]] = 1
  /\ sb[h].run[h] = None
  /\ Load(h, "out", h) = last[h]
  /\ pc[h] = "st_idle" => sb[h].out[h] = None

Retiring(h) ==
  /\ Accepted(h) /\ ~msip[h] /\ h # Boot
  /\ pc[h] = "wfi"
  /\ ran[last[h]] = 1
  /\ sb[h].run[h] = NULL
  /\ sb[h].out[h] = None /\ mem.out[h] = last[h]

HartInv(h) ==
  \/ Free(h) \/ Launching(h) \/ Latched(h) \/ Loading(h)
  \/ Returned(h) \/ Retiring(h)

\* Who may have which stores buffered.
BufferInv ==
  /\ \A k \in Kinds, h \in Harts :
       sb[Boot][k][h] # None =>
         /\ Starting(h)
         /\ \/ k = "fn" /\ api # "st_fn" /\ sb[Boot][k][h] = jobs
            \/ k = "arg" /\ api \in {"st_run", "st_ipi"} /\ sb[Boot][k][h] = jobs
            \/ k = "run" /\ api = "st_ipi" /\ sb[Boot][k][h] = 1
  /\ \A c \in Harts \ {Boot}, k \in Kinds, h \in Harts :
       sb[c][k][h] # None => h = c /\ k \in {"run", "out"}

\* Every accepted call has a number of its own, and before kmain there is none.
CallInv ==
  /\ pc[Boot] \in {"reset", "kmain"}
  /\ \A h \in Harts \ {Boot} : pc[h] # "kmain"
  /\ pc[Boot] = "reset" => api = "user" /\ jobs = 0
  /\ \A h \in Harts : last[h] <= jobs
  /\ \A g, h \in Harts : last[g] = last[h] /\ last[h] # NULL => g = h
  /\ \A j \in Jobs : j > jobs => ran[j] = 0

IInv == TypeOK /\ BufferInv /\ CallInv /\ \A h \in Harts : HartInv(h)

-----------------------------------------------------------------------------
(***************************************************************************)
(* Refinement of SmpAbs.  A pair counts as queued from the IPI on, as      *)
(* running from the moment its entry is entered until the store of         *)
(* smp_running = 0 is visible.                                             *)
(***************************************************************************)

PhaseOf(h) ==
  CASE h # Boot /\ (pc[h] \in BusyStates \/ sb[h].run[h] = NULL) -> "running"
    [] (h = Boot \/ ~(pc[h] \in BusyStates \/ sb[h].run[h] = NULL))
       /\ (msip[h] \/ pc[h] \in WokenStates) -> "queued"
    [] OTHER -> "idle"

AbsJob(h) == IF PhaseOf(h) = "idle" THEN 0 ELSE mem.fn[h]

Abs == INSTANCE SmpAbs WITH
  phase <- [h \in Harts |-> PhaseOf(h)],
  job   <- [h \in Harts |-> AbsJob(h)],
  done  <- {j \in Jobs : ran[j] > 0
                         /\ \A h \in Harts : PhaseOf(h) = "running" => AbsJob(h) # j}

\* The protocol implements exactly-once hand-over, fairness included.
ImplementsSmpAbs == Abs!AbsSpec
=============================================================================
