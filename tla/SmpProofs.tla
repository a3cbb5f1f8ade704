----------------------------- MODULE SmpProofs -----------------------------
(***************************************************************************)
(* Proofs about Smp, for every number of harts, every boot hart and every  *)
(* number of calls.                                                        *)
(***************************************************************************)
EXTENDS Smp, TLAPS

\* A nested update changes one word and leaves the function's type alone.
LEMMA UpdateWord ==
  ASSUME NEW K, NEW H, NEW V, NEW f \in [K -> [H -> V]],
         NEW k \in K, NEW h \in H, NEW v \in V
  PROVE  /\ [f EXCEPT ![k][h] = v] \in [K -> [H -> V]]
         /\ \A k2 \in K, h2 \in H :
              [f EXCEPT ![k][h] = v][k2][h2] = IF k2 = k /\ h2 = h THEN v ELSE f[k2][h2]
  OBVIOUS

LEMMA UpdateBuffer ==
  ASSUME NEW C, NEW K, NEW H, NEW V, NEW f \in [C -> [K -> [H -> V]]],
         NEW c \in C, NEW k \in K, NEW h \in H, NEW v \in V
  PROVE  /\ [f EXCEPT ![c][k][h] = v] \in [C -> [K -> [H -> V]]]
         /\ \A c2 \in C, k2 \in K, h2 \in H :
              [f EXCEPT ![c][k][h] = v][c2][k2][h2] =
                IF c2 = c /\ k2 = k /\ h2 = h THEN v ELSE f[c2][k2][h2]
<1>1. [f[c] EXCEPT ![k][h] = v] \in [K -> [H -> V]]
  BY UpdateWord
<1>2. [f EXCEPT ![c][k][h] = v] = [f EXCEPT ![c] = [f[c] EXCEPT ![k][h] = v]]
  OBVIOUS
<1> QED
  BY <1>1, <1>2, UpdateWord

LEMMA UpdateField ==
  ASSUME NEW H, NEW V, NEW f \in [H -> [fn : V, arg : V]], NEW h \in H, NEW v \in V
  PROVE  /\ [f EXCEPT ![h].fn = v] \in [H -> [fn : V, arg : V]]
         /\ [f EXCEPT ![h].arg = v] \in [H -> [fn : V, arg : V]]
<1>1. f[h] \in [fn : V, arg : V]
  OBVIOUS
<1>2. [f[h] EXCEPT !.fn = v] \in [fn : V, arg : V] /\ [f[h] EXCEPT !.arg = v] \in [fn : V, arg : V]
  BY <1>1
<1> QED
  BY <1>2

LEMMA CountUp ==
  ASSUME NEW J, NEW f \in [J -> Nat], NEW j
  PROVE  [f EXCEPT ![j] = @ + 1] \in [J -> Nat]
<1>1. CASE j \in J
  <2>1. f[j] + 1 \in Nat
    BY <1>1
  <2> QED
    BY <2>1
<1>2. CASE j \notin J
  BY <1>2
<1> QED
  BY <1>1, <1>2

-----------------------------------------------------------------------------

\* What a buffered store changes.
LEMMA StoreEffect ==
  ASSUME TypeOK, NEW c \in Harts, NEW k \in Kinds, NEW h \in Harts, NEW v \in Vals,
         Store(c, k, h, v)
  PROVE  /\ sb' \in [Harts -> [Kinds -> [Harts -> Vals \cup {None}]]]
         /\ \A c2 \in Harts, k2 \in Kinds, h2 \in Harts :
              sb'[c2][k2][h2] = IF c2 = c /\ k2 = k /\ h2 = h THEN v ELSE sb[c2][k2][h2]
<1>1. sb \in [Harts -> [Kinds -> [Harts -> Vals \cup {None}]]] /\ v \in Vals \cup {None}
  BY DEF TypeOK
<1> QED
  BY <1>1, UpdateBuffer, SMTT(60) DEF Store

\* What the arrival of one buffered store in memory changes.
LEMMA DrainEffect ==
  ASSUME TypeOK, NEW c \in Harts, Drain(c)
  PROVE  \E k \in Kinds, h \in Harts :
           /\ sb[c][k][h] # None
           /\ mem' \in [Kinds -> [Harts -> Vals]]
           /\ sb' \in [Harts -> [Kinds -> [Harts -> Vals \cup {None}]]]
           /\ \A k2 \in Kinds, h2 \in Harts :
                mem'[k2][h2] = IF k2 = k /\ h2 = h THEN sb[c][k][h] ELSE mem[k2][h2]
           /\ \A c2 \in Harts, k2 \in Kinds, h2 \in Harts :
                sb'[c2][k2][h2] = IF c2 = c /\ k2 = k /\ h2 = h THEN None ELSE sb[c2][k2][h2]
           /\ UNCHANGED <<mode, msip, pc, reg, hart_count, api, tgt, jobs, last, ran>>
<1>1. PICK k \in Kinds, h \in Harts :
         /\ sb[c][k][h] # None
         /\ mem' = [mem EXCEPT ![k][h] = sb[c][k][h]]
         /\ sb' = [sb EXCEPT ![c][k][h] = None]
         /\ UNCHANGED <<mode, msip, pc, reg, hart_count, api, tgt, jobs, last, ran>>
  BY DEF Drain
<1>2. sb \in [Harts -> [Kinds -> [Harts -> Vals \cup {None}]]]
  BY DEF TypeOK
<1>3. mem \in [Kinds -> [Harts -> Vals]] /\ sb[c][k][h] \in Vals
  BY <1>1, <1>2 DEF TypeOK
<1>4. /\ mem' \in [Kinds -> [Harts -> Vals]]
      /\ \A k2 \in Kinds, h2 \in Harts :
           mem'[k2][h2] = IF k2 = k /\ h2 = h THEN sb[c][k][h] ELSE mem[k2][h2]
  BY <1>1, <1>3, UpdateWord
<1>5. None \in Vals \cup {None} /\ sb' = [sb EXCEPT ![c][k][h] = None]
  BY <1>1
<1>6. /\ sb' \in [Harts -> [Kinds -> [Harts -> Vals \cup {None}]]]
      /\ \A c2 \in Harts, k2 \in Kinds, h2 \in Harts :
           sb'[c2][k2][h2] = IF c2 = c /\ k2 = k /\ h2 = h THEN None ELSE sb[c2][k2][h2]
  BY <1>2, <1>5, UpdateBuffer, SMTT(60)
<1>7. WITNESS k \in Kinds, h \in Harts
<1> QED
  BY <1>1, <1>4, <1>6

\* Every variable keeps its type: what each step of boot, smp.c and the park
\* loop assigns is in range.
LEMMA TypeInit == Init => TypeOK
  BY SmpAssumption DEF Init, NULL, Junk, None, TypeOK, Harts, Jobs, Vals, Kinds, EmptyBuffer,
     StartStates, WokenStates, BusyStates

LEMMA TypeStep == TypeOK /\ [Next]_vars => TypeOK'
<1> SUFFICES ASSUME TypeOK, [Next]_vars PROVE TypeOK'
  OBVIOUS
<1> USE SmpAssumption DEF TypeOK, StartStates, WokenStates, BusyStates
<1>0. Boot \in Harts /\ {NULL, 1} \subseteq Vals /\ (\A j \in 0..MaxJobs : j \in Vals)
  BY DEF Harts, Vals, Jobs, NULL
<1>1. CASE BootPrimary
  BY <1>0, <1>1 DEF BootPrimary
<1>2. CASE SmpInit
  BY <1>0, <1>2 DEF SmpInit
<1>3. CASE SmpInitBringup
  BY <1>0, <1>3 DEF SmpInitBringup, Harts
<1>4. CASE SmpInitReturn
  BY <1>0, <1>4 DEF SmpInitReturn
<1>5. ASSUME NEW h \in Harts, SmpStartCall(h) PROVE TypeOK'
  BY <1>0, <1>5 DEF SmpStartCall, Harts
<1>6. CASE SmpStartStore
  <2>1. PICK k \in Kinds, v \in Vals :
           Store(Boot, k, tgt, v) /\ api' \in StartStates /\ tgt \in Harts
    BY <1>0, <1>6 DEF SmpStartStore, Kinds
  <2>2. sb' \in [Harts -> [Kinds -> [Harts -> Vals \cup {None}]]]
    BY <1>0, <2>1, StoreEffect
  <2> QED
    BY <1>6, <2>1, <2>2 DEF SmpStartStore
<1>7. CASE IpiSend
  BY <1>0, <1>7 DEF IpiSend
<1>8. ASSUME NEW h \in Harts, SmpWaitCall(h) PROVE TypeOK'
  BY <1>0, <1>8 DEF SmpWaitCall, Harts
<1>9. CASE SmpWaitReturn
  BY <1>0, <1>9 DEF SmpWaitReturn
<1>10. ASSUME NEW h \in Harts, BootSecondary(h) PROVE TypeOK'
  BY <1>0, <1>10 DEF BootSecondary
<1>11. ASSUME NEW h \in Harts, ParkWake(h) PROVE TypeOK'
  BY <1>0, <1>11 DEF ParkWake
<1>12. ASSUME NEW h \in Harts, ParkClear(h) PROVE TypeOK'
  BY <1>0, <1>12 DEF ParkClear
<1>13. ASSUME NEW h \in Harts, DispatchLoad(h) PROVE TypeOK'
  <2>1. Load(h, "fn", h) \in Vals /\ Load(h, "arg", h) \in Vals
    BY DEF Load, Kinds
  <2>2. reg' \in [Harts -> [fn : Vals, arg : Vals]]
    <3>1. CASE reg' = [reg EXCEPT ![h].fn = Load(h, "fn", h)]
      BY <2>1, <3>1, UpdateField, ZenonT(60)
    <3>2. CASE reg' = [reg EXCEPT ![h].arg = Load(h, "arg", h)]
      BY <2>1, <3>2, UpdateField, ZenonT(60)
    <3> QED
      BY <1>13, <3>1, <3>2 DEF DispatchLoad
  <2>3. pc' \in [Harts -> {"reset", "stopped", "kmain", "oob", "wfi"} \cup WokenStates \cup BusyStates]
    BY <1>13 DEF DispatchLoad
  <2> QED
    BY <1>13, <2>2, <2>3 DEF DispatchLoad
<1>14. ASSUME NEW h \in Harts, DispatchEntry(h) PROVE TypeOK'
  <2>1. sb' \in [Harts -> [Kinds -> [Harts -> Vals \cup {None}]]]
    BY <1>14, StoreEffect, "out" \in Kinds DEF DispatchEntry, Kinds
  <2>2. ran' \in [Jobs -> Nat]
    BY <1>14, CountUp DEF DispatchEntry
  <2> QED
    BY <1>14, <2>1, <2>2 DEF DispatchEntry
<1>15. ASSUME NEW h \in Harts, DispatchFence(h) PROVE TypeOK'
  BY <1>0, <1>15 DEF DispatchFence
<1>16. ASSUME NEW h \in Harts, DispatchIdle(h) PROVE TypeOK'
  <2>1. sb' \in [Harts -> [Kinds -> [Harts -> Vals \cup {None}]]]
    BY <1>0, <1>16, StoreEffect DEF DispatchIdle, Kinds
  <2> QED
    BY <1>16, <2>1 DEF DispatchIdle
<1>17. ASSUME NEW h \in Harts, Drain(h) PROVE TypeOK'
  BY <1>17, DrainEffect
<1>18. CASE UNCHANGED vars
  BY <1>18 DEF vars
<1> QED
  BY <1>1, <1>2, <1>3, <1>4, <1>5, <1>6, <1>7, <1>8, <1>9, <1>10, <1>11, <1>12,
     <1>13, <1>14, <1>15, <1>16, <1>17, <1>18 DEF Next, Primary, Secondary

\* Type correctness of the SMP protocol.
THEOREM TypeCorrect == Spec => []TypeOK
<1>1. QED
  BY TypeInit, TypeStep, PTL DEF Spec

-----------------------------------------------------------------------------
(***************************************************************************)
(* The inductive invariant.                                                *)
(***************************************************************************)

\* The words of hart g, its registers and the calls about it are untouched.
SameHart(g) ==
  /\ pc'[g] = pc[g] /\ msip'[g] = msip[g] /\ reg'[g] = reg[g] /\ last'[g] = last[g]
  /\ \A k \in Kinds : /\ mem'[k][g] = mem[k][g]
                       /\ sb'[g][k][g] = sb[g][k][g]
                       /\ sb'[Boot][k][g] = sb[Boot][k][g]
  /\ \/ api' = api /\ tgt' = tgt /\ jobs' = jobs /\ ran'[jobs] = ran[jobs]
     \/ ~Starting(g) /\ ~Starting(g)'
  /\ ran'[last[g]] = ran[last[g]]

\* A step that leaves a hart's words alone leaves it in its situation.
LEMMA HartFrame ==
  ASSUME NEW g \in Harts, HartInv(g), SameHart(g)
  PROVE  HartInv(g)'
<1> USE DEF SameHart, Kinds, Starting, OwnBufferEmpty, Quiet, Load, Accepted
<1>1. CASE Free(g)
  BY <1>1 DEF HartInv, Free
<1>2. CASE Launching(g)
  BY <1>2 DEF HartInv, Launching
<1>3. CASE Latched(g)
  BY <1>3 DEF HartInv, Latched
<1>4. CASE Loading(g)
  BY <1>4 DEF HartInv, Loading
<1>5. CASE Returned(g)
  BY <1>5 DEF HartInv, Returned
<1>6. CASE Retiring(g)
  BY <1>6 DEF HartInv, Retiring
<1> QED
  BY <1>1, <1>2, <1>3, <1>4, <1>5, <1>6 DEF HartInv

LEMMA IInvInit == Init => IInv
<1> SUFFICES ASSUME Init PROVE IInv
  OBVIOUS
<1>1. TypeOK
  BY TypeInit
<1>2. BufferInv
  BY SmpAssumption DEF Init, BufferInv, EmptyBuffer, Harts
<1>3. CallInv
  BY SmpAssumption DEF Init, CallInv, Harts, Jobs, NULL
<1>4. ASSUME NEW h \in Harts PROVE HartInv(h)
  <2>1. Quiet(h)
    BY <1>4, SmpAssumption DEF Init, Quiet, OwnBufferEmpty, ParkStates, EmptyBuffer, Harts, Kinds
  <2>2. Free(h)
    BY <1>4, <2>1 DEF Init, Free, Starting, StartStates, Kinds
  <2> QED
    BY <2>2 DEF HartInv
<1> QED
  BY <1>1, <1>2, <1>3, <1>4 DEF IInv

\* The steps of a secondary on itself.
LEMMA SecondaryStep ==
  ASSUME IInv, TypeOK', NEW h \in Harts, Secondary(h)
  PROVE  IInv'
<1> USE SmpAssumption DEF Kinds
<1>0. /\ TypeOK /\ BufferInv /\ CallInv /\ HartInv(h)
      /\ \A g \in Harts : HartInv(g)
      /\ Boot \in Harts
      /\ h = Boot => pc[h] \in {"reset", "kmain"}
  BY DEF IInv, CallInv, Harts
<1>1. CASE BootSecondary(h)
  <2>1. BufferInv' /\ CallInv'
    BY <1>0, <1>1 DEF BootSecondary, BufferInv, CallInv, TypeOK, Starting
  <2>2. ASSUME NEW g \in Harts, g # h PROVE SameHart(g)
    BY <1>1, <2>2 DEF BootSecondary, SameHart, TypeOK
  <2>3. HartInv(h)'
    BY <1>0, <1>1 DEF BootSecondary, TypeOK, HartInv, Free, Launching, Latched, Loading, Returned,
       Retiring, Accepted, Quiet, OwnBufferEmpty, Starting, Load, ParkStates
  <2> QED
    BY <1>0, <2>1, <2>2, <2>3, HartFrame DEF IInv
<1>2. CASE ParkWake(h)
  <2>1. BufferInv' /\ CallInv'
    BY <1>0, <1>2 DEF ParkWake, BufferInv, CallInv, TypeOK, Starting
  <2>2. ASSUME NEW g \in Harts, g # h PROVE SameHart(g)
    BY <1>2, <2>2 DEF ParkWake, SameHart, TypeOK
  <2>3. HartInv(h)'
    BY <1>0, <1>2 DEF ParkWake, TypeOK, HartInv, Free, Launching, Latched, Loading, Returned,
       Retiring, Accepted, Quiet, OwnBufferEmpty, Starting, Load, ParkStates
  <2> QED
    BY <1>0, <2>1, <2>2, <2>3, HartFrame DEF IInv
<1>3. CASE ParkClear(h)
  <2>1. BufferInv' /\ CallInv'
    BY <1>0, <1>3 DEF ParkClear, BufferInv, CallInv, TypeOK, Starting
  <2>2. ASSUME NEW g \in Harts, g # h PROVE SameHart(g)
    BY <1>3, <2>2 DEF ParkClear, SameHart, TypeOK
  <2>3. HartInv(h)'
    BY <1>0, <1>3 DEF ParkClear, TypeOK, HartInv, Free, Launching, Latched, Loading, Returned,
       Retiring, Accepted, Quiet, OwnBufferEmpty, Starting, Load, ParkStates
  <2> QED
    BY <1>0, <2>1, <2>2, <2>3, HartFrame DEF IInv
<1>4. CASE DispatchLoad(h)
  <2>1. BufferInv' /\ CallInv'
    BY <1>0, <1>4 DEF DispatchLoad, BufferInv, CallInv, TypeOK, Starting
  <2>2. ASSUME NEW g \in Harts, g # h PROVE SameHart(g)
    BY <1>4, <2>2 DEF DispatchLoad, SameHart, TypeOK
  <2>3. HartInv(h)'
    <3>1. Loading(h)
      BY <1>0, <1>4 DEF DispatchLoad, HartInv, Free, Launching, Latched, Returned,
         Retiring, Quiet, ParkStates
    <3>2. Load(h, "fn", h) = last[h] /\ Load(h, "arg", h) = last[h]
      BY <1>0, <1>4, <3>1 DEF DispatchLoad, BufferInv, Loading, Accepted, Load
    <3>3. reg[h] \in [fn : Vals, arg : Vals]
      BY <1>0 DEF TypeOK
    <3>4. CASE pc[h] = "ld_fn"
      <4>1. reg'[h].fn = last[h] /\ pc'[h] = "ld_arg"
        BY <1>0, <1>4, <3>2, <3>3, <3>4 DEF DispatchLoad, TypeOK
      <4> QED
        BY <1>0, <1>4, <3>1, <4>1 DEF DispatchLoad, TypeOK, HartInv, Loading, Accepted,
           OwnBufferEmpty, Starting
    <3>5. CASE pc[h] = "ld_arg"
      <4>1. reg'[h].fn = last[h] /\ reg'[h].arg = last[h] /\ pc'[h] = "entry"
        BY <1>0, <1>4, <3>1, <3>2, <3>3, <3>5 DEF DispatchLoad, TypeOK, Loading, Accepted
      <4> QED
        BY <1>0, <1>4, <3>1, <4>1 DEF DispatchLoad, TypeOK, HartInv, Loading, Accepted,
           OwnBufferEmpty, Starting
    <3> QED
      BY <1>4, <3>4, <3>5 DEF DispatchLoad
  <2> QED
    BY <1>0, <2>1, <2>2, <2>3, HartFrame DEF IInv
<1>5. CASE DispatchEntry(h)
  <2>1. Loading(h) /\ reg[h].fn = last[h] /\ reg[h].arg = last[h] /\ h # Boot
    BY <1>0, <1>5 DEF DispatchEntry, HartInv, Free, Launching, Latched, Loading, Returned,
       Retiring, Quiet, ParkStates
  <2>2. /\ last[h] \in Vals /\ last[h] \in Jobs /\ last[h] <= jobs
        /\ ran[last[h]] = 0
    BY <1>0, <2>1 DEF TypeOK, Loading, Accepted, Vals, Jobs, NULL, CallInv
  <2>3. \A c2 \in Harts, k2 \in Kinds, h2 \in Harts :
          sb'[c2][k2][h2] = IF c2 = h /\ k2 = "out" /\ h2 = h THEN last[h] ELSE sb[c2][k2][h2]
    BY <1>0, <1>5, <2>1, <2>2, StoreEffect DEF DispatchEntry
  <2>4. /\ \A j \in Jobs : ran'[j] = IF j = last[h] THEN 1 ELSE ran[j]
        /\ ran'[0] = ran[0]
    BY <1>0, <1>5, <2>1, <2>2 DEF DispatchEntry, TypeOK, Jobs
  <2>5. BufferInv'
    BY <1>0, <1>5, <2>1, <2>3 DEF DispatchEntry, BufferInv, Starting
  <2>6. CallInv'
    BY <1>0, <1>5, <2>1, <2>2, <2>4 DEF DispatchEntry, CallInv, TypeOK, Jobs
  <2>7. ASSUME NEW g \in Harts, g # h PROVE SameHart(g)
    <3>1. last[g] # last[h]
      BY <1>0, <2>1, <2>7 DEF CallInv, Loading, Accepted
    <3>2. ran'[last[g]] = ran[last[g]]
      BY <1>0, <2>4, <3>1 DEF TypeOK, Jobs
    <3>3. Starting(g) => ran'[jobs] = ran[jobs]
      BY <1>0, <2>4, <2>7, <3>2 DEF HartInv, Free, Latched, Loading, Returned, Retiring, Accepted,
         Launching
    <3> QED
      BY <1>0, <1>5, <2>3, <2>7, <3>2, <3>3 DEF DispatchEntry, SameHart, TypeOK, Starting
  <2>8. HartInv(h)'
    <3>1. Returned(h)'
      BY <1>0, <1>5, <2>1, <2>2, <2>3, <2>4 DEF DispatchEntry, Returned, Loading, Accepted, Load,
         OwnBufferEmpty, Starting, TypeOK, None, Jobs
    <3> QED
      BY <3>1 DEF HartInv
  <2> QED
    BY <1>0, <2>5, <2>6, <2>7, <2>8, HartFrame DEF IInv
<1>6. CASE DispatchFence(h)
  <2>1. BufferInv' /\ CallInv'
    BY <1>0, <1>6 DEF DispatchFence, BufferInv, CallInv, TypeOK, Starting
  <2>2. ASSUME NEW g \in Harts, g # h PROVE SameHart(g)
    BY <1>6, <2>2 DEF DispatchFence, SameHart, TypeOK
  <2>3. HartInv(h)'
    BY <1>0, <1>6 DEF DispatchFence, Fence, TypeOK, HartInv, Free, Launching, Latched, Loading,
       Returned, Retiring, Accepted, Quiet, Starting, Load, ParkStates
  <2> QED
    BY <1>0, <2>1, <2>2, <2>3, HartFrame DEF IInv
<1>7. CASE DispatchIdle(h)
  <2>1. Returned(h) /\ h # Boot /\ NULL \in Vals
    BY <1>0, <1>7 DEF DispatchIdle, HartInv, Free, Launching, Latched, Loading, Returned,
       Retiring, Quiet, ParkStates, Vals
  <2>2. \A c2 \in Harts, k2 \in Kinds, h2 \in Harts :
          sb'[c2][k2][h2] = IF c2 = h /\ k2 = "run" /\ h2 = h THEN NULL ELSE sb[c2][k2][h2]
    BY <1>0, <1>7, <2>1, StoreEffect, SMTT(30) DEF DispatchIdle
  <2>3. BufferInv'
    BY <1>0, <1>7, <2>1, <2>2 DEF DispatchIdle, BufferInv, Starting
  <2>4. CallInv'
    BY <1>0, <1>7, <2>1 DEF DispatchIdle, CallInv, TypeOK
  <2>5. ASSUME NEW g \in Harts, g # h PROVE SameHart(g)
    BY <1>0, <1>7, <2>2, <2>5 DEF DispatchIdle, SameHart, TypeOK
  <2>6. Retiring(h)'
    BY <1>0, <1>7, <2>1, <2>2 DEF DispatchIdle, Returned, Retiring, Accepted, Load, Starting, TypeOK
  <2> QED
    BY <1>0, <2>3, <2>4, <2>5, <2>6, HartFrame DEF IInv, HartInv
<1> QED
  BY <1>1, <1>2, <1>3, <1>4, <1>5, <1>6, <1>7 DEF Secondary

\* A buffered store reaching memory.
LEMMA DrainStep ==
  ASSUME IInv, TypeOK', NEW c \in Harts, Drain(c)
  PROVE  IInv'
<1> USE SmpAssumption DEF Kinds
<1>0. /\ TypeOK /\ BufferInv /\ CallInv
      /\ \A g \in Harts : HartInv(g)
      /\ Boot \in Harts
  BY DEF IInv, Harts
<1>1. PICK k \in Kinds, h \in Harts :
        /\ sb[c][k][h] # None
        /\ mem' \in [Kinds -> [Harts -> Vals]]
        /\ sb' \in [Harts -> [Kinds -> [Harts -> Vals \cup {None}]]]
        /\ \A k2 \in Kinds, h2 \in Harts :
             mem'[k2][h2] = IF k2 = k /\ h2 = h THEN sb[c][k][h] ELSE mem[k2][h2]
        /\ \A c2 \in Harts, k2 \in Kinds, h2 \in Harts :
             sb'[c2][k2][h2] = IF c2 = c /\ k2 = k /\ h2 = h THEN None ELSE sb[c2][k2][h2]
        /\ UNCHANGED <<mode, msip, pc, reg, hart_count, api, tgt, jobs, last, ran>>
  BY <1>0, DrainEffect, ZenonT(60)
<1>2. BufferInv'
  <2>1. \A c2 \in Harts, k2 \in Kinds, h2 \in Harts :
           sb'[c2][k2][h2] # None => sb'[c2][k2][h2] = sb[c2][k2][h2]
    BY <1>1
  <2>2. api' = api /\ tgt' = tgt /\ jobs' = jobs
    BY <1>1
  <2> QED
    BY <1>0, <2>1, <2>2, SMTT(30) DEF BufferInv, Starting
<1>3. CallInv'
  BY <1>0, <1>1 DEF CallInv
<1>4. ASSUME NEW g \in Harts, g # h PROVE SameHart(g)
  BY <1>0, <1>1, <1>4 DEF SameHart
<1>5. HartInv(h)'
  <2>1. CASE c = Boot
    <3>1. Launching(h) /\ k \in {"fn", "arg", "run"}
      BY <1>0, <1>1, <2>1 DEF BufferInv, HartInv, Free, Latched, Loading, Returned, Retiring, Accepted
    <3>2. OwnBufferEmpty(h)'
      BY <1>1, <2>1, <3>1 DEF Launching, Quiet, OwnBufferEmpty
    <3>3. \A k2 \in Kinds : Load(Boot, k2, h)' = Load(Boot, k2, h)
      BY <1>0, <1>1, <2>1 DEF Load
    <3>4. Launching(h)'
      BY <1>1, <3>1, <3>2, <3>3 DEF Launching, Quiet, Starting
    <3> QED
      BY <3>4 DEF HartInv
  <2>2. CASE c # Boot
    <3>1. c = h /\ h # Boot /\ k \in {"run", "out"}
      BY <1>0, <1>1, <2>2 DEF BufferInv
    <3>2. ~Free(h) /\ ~Launching(h) /\ ~Latched(h) /\ ~Loading(h)
      BY <1>1, <3>1 DEF Free, Launching, Latched, Loading, Quiet, OwnBufferEmpty
    <3>3. CASE Returned(h)
      <4>1. k = "out"
        BY <1>1, <3>1, <3>3 DEF Returned
      <4>2. Returned(h)'
        BY <1>0, <1>1, <3>1, <3>3, <4>1 DEF Returned, Accepted, Starting, Load
      <4> QED
        BY <4>2 DEF HartInv
    <3>4. CASE Retiring(h)
      <4>1. k = "run" /\ sb[c][k][h] = NULL
        BY <1>1, <3>1, <3>4 DEF Retiring
      <4>2. Free(h)'
        BY <1>0, <1>1, <3>1, <3>4, <4>1 DEF Retiring, Free, Accepted, Starting, Quiet,
           OwnBufferEmpty, ParkStates
      <4> QED
        BY <4>2 DEF HartInv
    <3> QED
      BY <1>0, <3>2, <3>3, <3>4 DEF HartInv
  <2> QED
    BY <2>1, <2>2
<1> QED
  BY <1>0, <1>2, <1>3, <1>4, <1>5, HartFrame DEF IInv

\* The steps of the boot hart.
LEMMA PrimaryStep ==
  ASSUME IInv, TypeOK', Primary
  PROVE  IInv'
<1> USE SmpAssumption DEF Kinds
<1>0. /\ TypeOK /\ BufferInv /\ CallInv
      /\ \A g \in Harts : HartInv(g)
      /\ Boot \in Harts
  BY DEF IInv, Harts
<1>1. CASE BootPrimary
  <2>1. api = "user" /\ jobs = 0 /\ \A g \in Harts : ~Starting(g) /\ last[g] = NULL
    BY <1>0, <1>1 DEF BootPrimary, CallInv, Starting, StartStates, TypeOK, NULL
  <2>2. BufferInv' /\ CallInv'
    BY <1>0, <1>1, <2>1 DEF BootPrimary, BufferInv, CallInv, TypeOK, Starting
  <2>3. ASSUME NEW g \in Harts PROVE Free(g)'
    <3>1. Free(g)
      BY <1>0, <2>1 DEF HartInv, Launching, Latched, Loading, Returned, Retiring, Accepted
    <3> QED
      BY <1>0, <1>1, <2>1, <3>1 DEF BootPrimary, Free, Quiet, OwnBufferEmpty, ParkStates, Starting, TypeOK
  <2> QED
    BY <2>2, <2>3 DEF IInv, HartInv
<1>2. CASE SmpInit \/ SmpInitReturn \/ SmpWaitReturn \/ \E h \in Harts : SmpWaitCall(h)
  <2>1. /\ api \notin StartStates /\ api' \notin StartStates
        /\ UNCHANGED <<mem, sb, msip, pc, reg, jobs, last, ran>>
        /\ pc[Boot] = "reset" => api' = "user"
    BY <1>0, <1>2 DEF SmpInit, SmpInitReturn, SmpWaitReturn, SmpWaitCall, InUser, StartStates
  <2>2. BufferInv' /\ CallInv'
    BY <1>0, <2>1 DEF BufferInv, CallInv, Starting
  <2>3. ASSUME NEW g \in Harts PROVE SameHart(g)
    BY <2>1 DEF SameHart, Starting
  <2> QED
    BY <1>0, <2>2, <2>3, HartFrame DEF IInv
<1>3. CASE SmpInitBringup
  <2>1. /\ api = "init" /\ api' = "init" /\ UNCHANGED <<mem, sb, msip, reg, jobs, last, ran>>
        /\ \A g \in Harts : pc'[g] = pc[g] \/ (g # Boot /\ pc[g] = "stopped" /\ pc'[g] = "reset")
    BY <1>0, <1>3 DEF SmpInitBringup, TypeOK
  <2>2. \A g \in Harts : ~Starting(g) /\ ~Starting(g)'
    BY <2>1 DEF Starting, StartStates
  <2>3. BufferInv' /\ CallInv'
    BY <1>0, <2>1, <2>2 DEF BufferInv, CallInv
  <2>4. ASSUME NEW g \in Harts PROVE HartInv(g)'
    <3>1. CASE pc'[g] = pc[g]
      BY <1>0, <2>1, <2>2, <3>1, HartFrame DEF SameHart
    <3>2. CASE pc[g] = "stopped" /\ pc'[g] = "reset"
      BY <1>0, <2>1, <2>2, <3>2 DEF HartInv, Free, Launching, Latched, Loading, Returned, Retiring,
         Accepted, Quiet, OwnBufferEmpty, ParkStates
    <3> QED
      BY <2>1, <3>1, <3>2
  <2> QED
    BY <2>3, <2>4 DEF IInv
<1>4. ASSUME NEW h \in Harts, SmpStartCall(h) PROVE IInv'
  <2>1. /\ pc[Boot] = "kmain" /\ api = "user" /\ api' = "st_fn" /\ tgt' = h
        /\ jobs < MaxJobs /\ jobs' = jobs + 1 /\ jobs' \in Jobs
        /\ UNCHANGED <<mem, sb, msip, pc, reg, ran>>
        /\ \A g \in Harts : last'[g] = IF g = h THEN jobs + 1 ELSE last[g]
        /\ Load(Boot, "run", h) = NULL
    BY <1>0, <1>4 DEF SmpStartCall, SmpStartChecks, InUser, TypeOK, Jobs
  <2>2. \A g \in Harts : ~Starting(g) /\ (Starting(g)' <=> g = h)
    BY <2>1 DEF Starting, StartStates
  <2>3. \A k \in Kinds, g \in Harts : sb[Boot][k][g] = None
    BY <1>0, <2>2 DEF BufferInv
  <2>4. mem.run[h] = NULL
    BY <2>1, <2>3 DEF Load
  <2>5. BufferInv'
    BY <1>0, <2>1, <2>3 DEF BufferInv
  <2>6. CallInv'
    <3>1. \A g \in Harts : last[g] \in 0..MaxJobs /\ last[g] <= jobs /\ jobs \in 0..MaxJobs
      BY <1>0 DEF CallInv, TypeOK
    <3>2. \A g \in Harts : last'[g] <= jobs'
      BY <2>1, <3>1
    <3>3. \A f, g \in Harts : last'[f] = last'[g] /\ last'[g] # NULL => f = g
      BY <1>0, <2>1, <3>1 DEF CallInv
    <3>4. \A j \in Jobs : j > jobs' => ran'[j] = 0
      BY <1>0, <2>1, <3>1 DEF CallInv, Jobs
    <3> QED
      BY <1>0, <2>1, <3>2, <3>3, <3>4 DEF CallInv
  <2>7. ran'[jobs'] = 0 /\ jobs' # 0
    BY <1>0, <2>1 DEF CallInv, Jobs, TypeOK
  <2>8. Free(h)
    BY <1>0, <2>2, <2>4 DEF HartInv, Launching, Latched, Loading, Returned, Retiring, Accepted, NULL
  <2>9. Launching(h)'
    BY <2>1, <2>2, <2>7, <2>8 DEF Launching, Free, Quiet, OwnBufferEmpty
  <2>10. ASSUME NEW g \in Harts, g # h PROVE SameHart(g)
    BY <2>1, <2>2, <2>10 DEF SameHart
  <2> QED
    BY <1>0, <2>5, <2>6, <2>9, <2>10, HartFrame DEF IInv, HartInv
<1>5. CASE SmpStartStore
  <2>0. tgt \in Harts /\ jobs \in Vals /\ 1 \in Vals /\ 1 # None /\ jobs # None /\ Starting(tgt)
    BY <1>0, <1>5 DEF SmpStartStore, TypeOK, Vals, Jobs, NULL, None, Starting, StartStates
  <2>1. Launching(tgt)
    BY <1>0, <2>0 DEF HartInv, Free, Latched, Loading, Returned, Retiring, Accepted
  <2>2. PICK k \in {"fn", "arg", "run"}, v \in Vals :
           /\ Store(Boot, k, tgt, v)
           /\ \/ k = "fn" /\ v = jobs /\ api = "st_fn" /\ api' = "st_arg"
              \/ k = "arg" /\ v = jobs /\ api = "st_arg" /\ api' = "st_run"
              \/ k = "run" /\ v = 1 /\ api = "st_run" /\ api' = "st_ipi"
    BY <1>5, <2>0 DEF SmpStartStore
  <2>3. \A c2 \in Harts, k2 \in Kinds, h2 \in Harts :
          sb'[c2][k2][h2] = IF c2 = Boot /\ k2 = k /\ h2 = tgt THEN v ELSE sb[c2][k2][h2]
    BY <1>0, <2>0, <2>2, StoreEffect
  <2>4. UNCHANGED <<mem, msip, pc, reg, tgt, jobs, last, ran>>
    BY <1>5 DEF SmpStartStore
  <2>5. \A g \in Harts : (Starting(g) <=> g = tgt) /\ (Starting(g)' <=> g = tgt)
    BY <2>2, <2>4 DEF Starting, StartStates
  <2>6. BufferInv'
    BY <1>0, <2>0, <2>2, <2>3, <2>4, <2>5 DEF BufferInv
  <2>7. CallInv'
    BY <1>0, <2>2, <2>4 DEF CallInv
  <2>8. Launching(tgt)'
    <3>1. Quiet(tgt)'
      BY <1>0, <2>0, <2>1, <2>3, <2>4 DEF Launching, Quiet, OwnBufferEmpty
    <3>2. \A k2 \in Kinds : Load(Boot, k2, tgt)' = IF k2 = k THEN v ELSE Load(Boot, k2, tgt)
      BY <1>0, <2>0, <2>2, <2>3, <2>4 DEF Load
    <3> QED
      BY <2>0, <2>1, <2>2, <2>4, <2>5, <3>1, <3>2 DEF Launching
  <2>9. ASSUME NEW g \in Harts, g # tgt PROVE SameHart(g)
    BY <1>0, <2>3, <2>4, <2>5, <2>9 DEF SameHart
  <2> QED
    BY <1>0, <2>0, <2>4, <2>6, <2>7, <2>8, <2>9, HartFrame DEF IInv, HartInv
<1>6. CASE IpiSend
  <2>0. tgt \in Harts /\ Starting(tgt)
    BY <1>0, <1>6 DEF IpiSend, TypeOK, Starting, StartStates
  <2>1. Launching(tgt)
    BY <1>0, <2>0 DEF HartInv, Free, Latched, Loading, Returned, Retiring, Accepted
  <2>2. /\ api = "st_ipi" /\ api' = "user" /\ UNCHANGED <<mem, sb, pc, reg, tgt, jobs, last, ran>>
        /\ \A k \in Kinds, h \in Harts : sb[Boot][k][h] = None
        /\ \A g \in Harts : msip'[g] = IF g = tgt THEN TRUE ELSE msip[g]
    BY <1>0, <1>6 DEF IpiSend, Fence, TypeOK
  <2>3. \A g \in Harts : (Starting(g) <=> g = tgt) /\ ~Starting(g)'
    BY <2>2 DEF Starting, StartStates
  <2>4. BufferInv' /\ CallInv'
    BY <1>0, <2>2 DEF BufferInv, CallInv
  <2>5. Latched(tgt)'
    BY <2>0, <2>1, <2>2, <2>3 DEF Launching, Latched, Accepted, Quiet, OwnBufferEmpty, Load, NULL
  <2>6. ASSUME NEW g \in Harts, g # tgt PROVE SameHart(g)
    BY <2>2, <2>3, <2>6 DEF SameHart
  <2> QED
    BY <1>0, <2>0, <2>2, <2>4, <2>5, <2>6, HartFrame DEF IInv, HartInv
<1> QED
  BY <1>1, <1>2, <1>3, <1>4, <1>5, <1>6 DEF Primary

\* IInv is inductive.
LEMMA IInvStep == IInv /\ [Next]_vars => IInv'
<1> SUFFICES ASSUME IInv, [Next]_vars PROVE IInv'
  OBVIOUS
<1>1. TypeOK'
  BY TypeStep DEF IInv
<1>2. CASE UNCHANGED vars
  <2>1. \A g \in Harts : HartInv(g) => SameHart(g)
    BY <1>2 DEF vars, SameHart
  <2> QED
    BY <1>1, <1>2, <2>1, HartFrame DEF IInv, vars, BufferInv, CallInv, Starting
<1> QED
  BY <1>1, <1>2, PrimaryStep, SecondaryStep, DrainStep DEF Next

\* The inductive invariant holds in every reachable state.
THEOREM Invariance == Spec => []IInv
<1>1. QED
  BY IInvInit, IInvStep, PTL DEF Spec

\* Safety of the hand-over, for every number of harts and calls: an entry never
\* sees a torn (fn, arg) pair.
THEOREM NoTornPairHolds == Spec => []NoTornPair
<1>1. IInv => NoTornPair
  BY DEF IInv, NoTornPair, HartInv, Free, Launching, Latched, Loading, Returned, Retiring,
     Accepted, Quiet, ParkStates, BusyStates
<1> QED
  BY <1>1, Invariance, PTL

\* When smp_running[h] reads 0, the last accepted entry has run once and its
\* result is in memory.
THEOREM IdleMeansDoneHolds == Spec => []IdleMeansDone
<1>1. IInv => IdleMeansDone
  BY DEF IInv, IdleMeansDone, HartInv, Free, Launching, Latched, Loading, Returned, Retiring,
     Accepted, NULL
<1> QED
  BY <1>1, Invariance, PTL

\* The IPI of an accepted call is never lost.
THEOREM WakeNotLostHolds == Spec => []WakeNotLost
<1>1. IInv => WakeNotLost
  BY DEF IInv, WakeNotLost, HartInv, Free, Launching, Latched, Loading, Returned, Retiring,
     WokenStates, BusyStates, NULL, Junk
<1> QED
  BY <1>1, Invariance, PTL

-----------------------------------------------------------------------------
(***************************************************************************)
(* Refinement of SmpAbs: what smp.h promises of smp_start and smp_wait.    *)
(* Fairness apart, which is left to the model checker.                     *)
(***************************************************************************)

Runs(h) == h # Boot /\ (pc[h] \in BusyStates \/ sb[h].run[h] = NULL)
Waits(h) == msip[h] \/ pc[h] \in WokenStates
PhaseIf(h) == IF Runs(h) THEN "running" ELSE IF Waits(h) THEN "queued" ELSE "idle"

LEMMA PhaseValue ==
  ASSUME NEW h PROVE PhaseOf(h) = PhaseIf(h) /\ PhaseOf(h)' = PhaseIf(h)'
<1>1. PhaseOf(h) = PhaseIf(h)
  BY Zenon DEF PhaseOf, PhaseIf, Runs, Waits
<1>2. PhaseOf(h)' = PhaseIf(h)'
  BY Zenon DEF PhaseOf, PhaseIf, Runs, Waits
<1> QED
  BY <1>1, <1>2

\* A hart that is not idle has the pair it accepted last, in memory.
LEMMA JobIsLast ==
  ASSUME IInv, NEW h \in Harts
  PROVE  /\ PhaseIf(h) # "idle" =>
              last[h] # NULL /\ last[h] \in Jobs /\ mem.fn[h] = last[h] /\ ~Starting(h)
         /\ PhaseIf(h) = "running" => last[h] # NULL /\ h # Boot
         /\ PhaseIf(h) = "queued" => ran[last[h]] = 0
<1>1. HartInv(h) /\ pc[Boot] \in {"reset", "kmain"} /\ last[h] \in 0..MaxJobs
  BY DEF IInv, CallInv, TypeOK
<1>2. last[h] # NULL => last[h] \in Jobs
  BY <1>1, SmpAssumption DEF NULL, Jobs
<1>3. CASE Free(h) \/ Launching(h)
  BY <1>3 DEF Free, Launching, Quiet, OwnBufferEmpty, ParkStates, PhaseIf, Runs, Waits, BusyStates,
              WokenStates, NULL, None
<1>4. CASE Latched(h) \/ Loading(h)
  BY <1>2, <1>4 DEF Latched, Loading, Accepted, PhaseIf, Runs, Waits, BusyStates, WokenStates
<1>5. CASE Returned(h) \/ Retiring(h)
  BY <1>2, <1>5 DEF Returned, Retiring, Accepted, PhaseIf, Runs, Waits, BusyStates, WokenStates
<1> QED
  BY <1>1, <1>3, <1>4, <1>5 DEF HartInv

\* The situations of a hart that has something of its own under way.
LEMMA Underway ==
  ASSUME IInv, NEW h \in Harts
  PROVE  /\ pc[h] \in {"ld_fn", "ld_arg", "entry"} => Loading(h) /\ h # Boot
         /\ pc[h] \in {"fence", "st_idle"} => Returned(h)
         /\ h # Boot /\ sb[h].run[h] # None => Retiring(h)
         /\ Starting(h) => Launching(h)
<1>1. HartInv(h) /\ pc[Boot] \in {"reset", "kmain"}
  BY DEF IInv, CallInv
<1> QED
  BY <1>1 DEF HartInv, Free, Launching, Latched, Loading, Returned, Retiring, Accepted, Quiet,
              OwnBufferEmpty, ParkStates

\* A step that leaves every hart's phase and pair alone is a stutter.
LEMMA AbsStutter ==
  ASSUME \A g \in Harts : PhaseIf(g)' = PhaseIf(g),
         \A g \in Harts : PhaseIf(g) = "idle" \/ mem'.fn[g] = mem.fn[g],
         \A j \in Jobs : (ran'[j] > 0 <=> ran[j] > 0)
                         \/ \E g \in Harts : PhaseIf(g) = "running" /\ mem.fn[g] = j
  PROVE  UNCHANGED Abs!absVars
<1>1. \A g \in Harts : PhaseOf(g)' = PhaseOf(g)
  BY PhaseValue
<1>2. \A g \in Harts : AbsJob(g)' = AbsJob(g)
  BY <1>1, PhaseValue DEF AbsJob
<1>3. \A j \in Jobs :
        (ran'[j] > 0 /\ \A h \in Harts : PhaseOf(h)' = "running" => AbsJob(h)' # j)
        <=> (ran[j] > 0 /\ \A h \in Harts : PhaseOf(h) = "running" => AbsJob(h) # j)
  BY <1>1, <1>2, PhaseValue DEF AbsJob
<1>4. [h \in Harts |-> PhaseOf(h)]' = [h \in Harts |-> PhaseOf(h)]
  BY <1>1
<1>5. [h \in Harts |-> AbsJob(h)]' = [h \in Harts |-> AbsJob(h)]
  BY <1>2
<1>6. {j \in Jobs : ran[j] > 0
                    /\ \A h \in Harts : PhaseOf(h) = "running" => AbsJob(h) # j}' =
      {j \in Jobs : ran[j] > 0
                    /\ \A h \in Harts : PhaseOf(h) = "running" => AbsJob(h) # j}
  BY <1>3
<1> QED
  BY <1>4, <1>5, <1>6 DEF Abs!absVars

LEMMA PhaseSame ==
  ASSUME NEW g, pc'[g] = pc[g], msip'[g] = msip[g], g = Boot \/ sb'[g].run[g] = sb[g].run[g]
  PROVE  PhaseIf(g)' = PhaseIf(g)
  BY DEF PhaseIf, Runs, Waits

\* Steps that no caller of smp.h can tell from doing nothing.
LEMMA BootStutters ==
  ASSUME IInv, BootPrimary PROVE UNCHANGED Abs!absVars
<1>1. pc[Boot] = "reset" /\ UNCHANGED <<sb, msip, ran>> /\ jobs = 0
  BY DEF BootPrimary, IInv, CallInv
<1>2. ASSUME NEW g \in Harts PROVE PhaseIf(g) = "idle"
  <2>1. last[g] = NULL
    BY <1>1 DEF IInv, CallInv, TypeOK, NULL
  <2> QED
    BY <2>1, JobIsLast
<1>3. ASSUME NEW g \in Harts PROVE PhaseIf(g)' = PhaseIf(g)
  <2>1. CASE g = Boot
    BY <1>1, <2>1 DEF BootPrimary, IInv, TypeOK, PhaseIf, Runs, Waits, WokenStates
  <2>2. CASE g # Boot
    BY <1>1, <2>2, PhaseSame DEF BootPrimary, IInv, TypeOK
  <2> QED
    BY <2>1, <2>2
<1> QED
  BY <1>1, <1>2, <1>3, AbsStutter

LEMMA CallsStutter ==
  ASSUME IInv,
         \/ SmpInit \/ SmpInitReturn \/ SmpWaitReturn \/ SmpStartStore \/ SmpInitBringup
         \/ \E h \in Harts : SmpStartCall(h) \/ SmpWaitCall(h)
         \/ UNCHANGED vars
  PROVE  UNCHANGED Abs!absVars
<1>1. mem' = mem /\ msip' = msip /\ ran' = ran
  BY DEF SmpInit, SmpInitReturn, SmpWaitReturn, SmpStartStore, SmpInitBringup, SmpStartCall,
         SmpWaitCall, vars
<1>2. ASSUME NEW g \in Harts PROVE g = Boot \/ sb'[g].run[g] = sb[g].run[g]
  <2>1. CASE SmpStartStore
    <3>1. Boot \in Harts /\ 1 \in Vals /\ (\A j \in 0..MaxJobs : j \in Vals)
      BY SmpAssumption DEF Harts, Vals, Jobs, NULL
    <3>2. PICK k \in Kinds, v \in Vals : Store(Boot, k, tgt, v) /\ tgt \in Harts
      BY <2>1, <3>1 DEF SmpStartStore, Kinds, IInv, TypeOK, StartStates
    <3> QED
      BY <3>1, <3>2, StoreEffect DEF IInv, Kinds
  <2>2. CASE ~SmpStartStore
    BY <2>2 DEF SmpInit, SmpInitReturn, SmpWaitReturn, SmpInitBringup, SmpStartCall, SmpWaitCall, vars
  <2> QED
    BY <2>1, <2>2
<1>3. ASSUME NEW g \in Harts PROVE PhaseIf(g)' = PhaseIf(g)
  <2>1. pc'[g] = pc[g] \/ (pc[g] = "stopped" /\ pc'[g] = "reset")
    BY DEF SmpInit, SmpInitReturn, SmpWaitReturn, SmpStartStore, SmpInitBringup, SmpStartCall,
           SmpWaitCall, vars, IInv, TypeOK
  <2> QED
    BY <1>1, <1>2, <2>1 DEF PhaseIf, Runs, Waits, BusyStates, WokenStates
<1> QED
  BY <1>1, <1>3, AbsStutter

LEMMA ParkStutters ==
  ASSUME IInv, NEW h \in Harts,
         \/ BootSecondary(h) \/ ParkWake(h) \/ ParkClear(h) \/ DispatchFence(h) \/ DispatchIdle(h)
         \/ (DispatchLoad(h) /\ pc[h] = "ld_fn")
  PROVE  UNCHANGED Abs!absVars
<1>0. TypeOK /\ "run" \in Kinds /\ NULL \in Vals /\ pc[Boot] \in {"reset", "kmain"}
  BY DEF IInv, Kinds, Vals, CallInv
<1>1. mem' = mem /\ ran' = ran
  BY DEF BootSecondary, ParkWake, ParkClear, DispatchFence, DispatchIdle, DispatchLoad
<1>2. \A g \in Harts : g # h => pc'[g] = pc[g] /\ msip'[g] = msip[g] /\ sb'[g].run[g] = sb[g].run[g]
  <2>1. CASE DispatchIdle(h)
    BY <1>0, <2>1, StoreEffect DEF DispatchIdle, TypeOK
  <2>2. CASE ~DispatchIdle(h)
    BY <1>0, <2>2 DEF BootSecondary, ParkWake, ParkClear, DispatchFence, DispatchLoad, TypeOK
  <2> QED
    BY <2>1, <2>2
<1>3. PhaseIf(h)' = PhaseIf(h)
  <2>1. CASE BootSecondary(h)
    BY <1>0, <2>1 DEF BootSecondary, TypeOK, PhaseIf, Runs, Waits, BusyStates, WokenStates
  <2>2. CASE ParkWake(h)
    BY <1>0, <2>2 DEF ParkWake, TypeOK, PhaseIf, Runs, Waits, BusyStates, WokenStates
  <2>3. CASE ParkClear(h)
    BY <1>0, <2>3 DEF ParkClear, TypeOK, PhaseIf, Runs, Waits, BusyStates, WokenStates
  <2>4. CASE DispatchFence(h)
    BY <1>0, <2>4 DEF DispatchFence, TypeOK, PhaseIf, Runs, Waits, BusyStates, WokenStates
  <2>5. CASE DispatchIdle(h)
    <3>1. sb'[h].run[h] = NULL /\ h # Boot /\ pc[h] = "st_idle"
      BY <1>0, <2>5, StoreEffect DEF DispatchIdle
    <3> QED
      BY <3>1 DEF PhaseIf, Runs, BusyStates
  <2>6. CASE DispatchLoad(h) /\ pc[h] = "ld_fn"
    BY <1>0, <2>6 DEF DispatchLoad, TypeOK, PhaseIf, Runs, Waits, BusyStates, WokenStates
  <2> QED
    BY <2>1, <2>2, <2>3, <2>4, <2>5, <2>6
<1>4. \A g \in Harts : PhaseIf(g)' = PhaseIf(g)
  BY <1>2, <1>3, PhaseSame
<1> QED
  BY <1>1, <1>4, AbsStutter

\* Inside the entry the pair is still the hart's own.
LEMMA EntryStutters ==
  ASSUME IInv, NEW h \in Harts, DispatchEntry(h) PROVE UNCHANGED Abs!absVars
<1>0. TypeOK /\ "run" \in Kinds /\ "out" \in Kinds
  BY DEF IInv, Kinds
<1>1. Loading(h) /\ h # Boot /\ pc[h] = "entry"
  BY Underway DEF DispatchEntry
<1>2. reg[h].fn = last[h] /\ mem.fn[h] = last[h] /\ reg[h].arg \in Vals
  BY <1>0, <1>1 DEF Loading, Accepted, TypeOK
<1>3. \A g \in Harts : sb'[g].run[g] = sb[g].run[g]
  BY <1>0, <1>2, StoreEffect DEF DispatchEntry
<1>4. /\ mem' = mem /\ msip' = msip /\ pc' = [pc EXCEPT ![h] = "fence"]
      /\ ran' = [ran EXCEPT ![last[h]] = @ + 1]
  BY <1>2 DEF DispatchEntry
<1>5. PhaseIf(h) = "running" /\ PhaseIf(h)' = "running"
  BY <1>0, <1>1, <1>4 DEF PhaseIf, Runs, BusyStates, TypeOK
<1>6. \A g \in Harts : PhaseIf(g)' = PhaseIf(g)
  <2>1. ASSUME NEW g \in Harts, g # h PROVE PhaseIf(g)' = PhaseIf(g)
    BY <1>0, <1>3, <1>4, <2>1, PhaseSame DEF TypeOK
  <2> QED
    BY <1>5, <2>1
<1>7. \A j \in Jobs : j # last[h] => ran'[j] = ran[j]
  BY <1>0, <1>4 DEF TypeOK
<1> QED
  BY <1>2, <1>4, <1>5, <1>6, <1>7, AbsStutter

\* The arrival of a pair's stores in memory is no step, that of smp_running = 0
\* the end of the call.
LEMMA DrainRefines ==
  ASSUME IInv, NEW c \in Harts, Drain(c)
  PROVE  Abs!Finish(c) \/ UNCHANGED Abs!absVars
<1>0. TypeOK /\ BufferInv /\ Boot \in Harts /\ "run" \in Kinds /\ "fn" \in Kinds
  BY SmpAssumption DEF IInv, Kinds, Harts
<1>1. PICK k \in Kinds, h \in Harts :
        /\ sb[c][k][h] # None
        /\ mem' \in [Kinds -> [Harts -> Vals]]
        /\ sb' \in [Harts -> [Kinds -> [Harts -> Vals \cup {None}]]]
        /\ \A k2 \in Kinds, h2 \in Harts :
             mem'[k2][h2] = IF k2 = k /\ h2 = h THEN sb[c][k][h] ELSE mem[k2][h2]
        /\ \A c2 \in Harts, k2 \in Kinds, h2 \in Harts :
             sb'[c2][k2][h2] = IF c2 = c /\ k2 = k /\ h2 = h THEN None ELSE sb[c2][k2][h2]
        /\ UNCHANGED <<mode, msip, pc, reg, hart_count, api, tgt, jobs, last, ran>>
  BY <1>0, DrainEffect
<1>2. CASE c = Boot
  <2>1. Starting(h)
    BY <1>0, <1>1, <1>2 DEF BufferInv
  <2>2. PhaseIf(h) = "idle"
    BY <2>1, JobIsLast
  <2>3. \A g \in Harts : PhaseIf(g)' = PhaseIf(g)
    <3>1. ASSUME NEW g \in Harts PROVE g = Boot \/ sb'[g].run[g] = sb[g].run[g]
      BY <1>0, <1>1, <1>2
    <3> QED
      BY <1>1, <3>1, PhaseSame
  <2>4. \A g \in Harts : PhaseIf(g) = "idle" \/ mem'.fn[g] = mem.fn[g]
    BY <1>0, <1>1, <2>2
  <2> QED
    BY <1>1, <2>3, <2>4, AbsStutter
<1>3. CASE c # Boot /\ k # "run"
  <2>1. k = "out"
    BY <1>0, <1>1, <1>3 DEF BufferInv
  <2>2. \A g \in Harts : sb'[g].run[g] = sb[g].run[g] /\ mem'.fn[g] = mem.fn[g]
    BY <1>0, <1>1, <2>1
  <2>3. \A g \in Harts : PhaseIf(g)' = PhaseIf(g)
    BY <1>1, <2>2, PhaseSame
  <2> QED
    BY <1>1, <2>2, <2>3, AbsStutter
<1>4. CASE c # Boot /\ k = "run"
  <2>1. h = c
    BY <1>0, <1>1, <1>4 DEF BufferInv
  <2>2. Retiring(c)
    BY <1>1, <1>4, <2>1, Underway
  <2>3. /\ pc[c] = "wfi" /\ ~msip[c] /\ ran[last[c]] = 1 /\ sb[c].run[c] = NULL
        /\ last[c] # NULL /\ mem.fn[c] = last[c]
    BY <2>2 DEF Retiring, Accepted
  <2>4. PhaseIf(c) = "running" /\ PhaseIf(c)' = "idle"
    <3>1. sb'[c].run[c] = None /\ pc'[c] = "wfi" /\ ~msip'[c]
      BY <1>0, <1>1, <1>4, <2>1, <2>3
    <3> QED
      BY <1>4, <2>3, <3>1 DEF PhaseIf, Runs, Waits, BusyStates, WokenStates, NULL, None
  <2>5. \A g \in Harts : g # c => PhaseIf(g)' = PhaseIf(g)
    <3>1. ASSUME NEW g \in Harts, g # c PROVE sb'[g].run[g] = sb[g].run[g]
      BY <1>0, <1>1, <3>1
    <3> QED
      BY <1>1, <3>1, PhaseSame
  <2>6. \A g \in Harts : mem'.fn[g] = mem.fn[g]
    BY <1>0, <1>1, <1>4
  <2>7. PhaseOf(c) = "running" /\ AbsJob(c) = last[c] /\ PhaseOf(c)' = "idle" /\ AbsJob(c)' = 0
    BY <2>3, <2>4, PhaseValue DEF AbsJob
  <2>8. \A g \in Harts : g # c => PhaseOf(g)' = PhaseOf(g) /\ AbsJob(g)' = AbsJob(g)
    BY <2>5, <2>6, PhaseValue DEF AbsJob
  <2>9. \A g \in Harts : g # c /\ PhaseOf(g) = "running" => AbsJob(g) # last[c]
    <3>1. ASSUME NEW g \in Harts, g # c, PhaseOf(g) = "running" PROVE AbsJob(g) # last[c]
      <4>1. AbsJob(g) = last[g]
        BY <3>1, PhaseValue, JobIsLast DEF AbsJob
      <4>2. last[g] # last[c]
        BY <2>3, <3>1 DEF IInv, CallInv
      <4> QED
        BY <4>1, <4>2
    <3> QED
      BY <3>1
  <2>10. last[c] \in Jobs
    BY <2>4, JobIsLast
  <2>11. [g \in Harts |-> PhaseOf(g)]' = [[g \in Harts |-> PhaseOf(g)] EXCEPT ![c] = "idle"]
    BY <2>7, <2>8
  <2>12. [g \in Harts |-> AbsJob(g)]' = [[g \in Harts |-> AbsJob(g)] EXCEPT ![c] = 0]
    BY <2>7, <2>8
  <2>13. {j \in Jobs : ran[j] > 0
                       /\ \A g \in Harts : PhaseOf(g) = "running" => AbsJob(g) # j}' =
         {j \in Jobs : ran[j] > 0
                       /\ \A g \in Harts : PhaseOf(g) = "running" => AbsJob(g) # j}
           \cup {[g \in Harts |-> AbsJob(g)][c]}
    <3> DEFINE Reported(j) == ran[j] > 0 /\ \A g \in Harts : PhaseOf(g) = "running" => AbsJob(g) # j
    <3>1. ASSUME NEW j \in Jobs PROVE Reported(j)' <=> Reported(j) \/ j = last[c]
      <4>1. CASE j = last[c]
        <5>1. ran'[j] > 0
          BY <1>1, <2>3, <4>1
        <5>2. ASSUME NEW g \in Harts, PhaseOf(g)' = "running" PROVE AbsJob(g)' # j
          BY <2>7, <2>8, <2>9, <4>1, <5>2
        <5> QED
          BY <4>1, <5>1, <5>2
      <4>2. CASE j # last[c]
        BY <1>1, <2>7, <2>8, <4>2
      <4> QED
        BY <4>1, <4>2
    <3>2. [g \in Harts |-> AbsJob(g)][c] = last[c]
      BY <2>7
    <3> QED
      BY <2>10, <3>1, <3>2
  <2> QED
    BY <2>7, <2>11, <2>12, <2>13 DEF Abs!Finish
<1> QED
  BY <1>2, <1>3, <1>4

\* The second load is where a hart leaves the park loop, with the pair queued.
LEMMA LoadRefines ==
  ASSUME IInv, NEW h \in Harts, DispatchLoad(h), pc[h] = "ld_arg"
  PROVE  Abs!Run(h)
<1>0. TypeOK
  BY DEF IInv
<1>1. Loading(h) /\ h # Boot
  BY Underway
<1>2. /\ reg[h].fn = last[h] /\ last[h] # NULL /\ mem.fn[h] = last[h] /\ ran[last[h]] = 0
      /\ sb[h].run[h] = None
  BY <1>1 DEF Loading, Accepted, OwnBufferEmpty
<1>3. UNCHANGED <<mem, sb, msip, ran>> /\ pc' = [pc EXCEPT ![h] = "entry"]
  BY <1>2 DEF DispatchLoad
<1>4. PhaseIf(h) = "queued" /\ PhaseIf(h)' = "running"
  BY <1>0, <1>1, <1>2, <1>3 DEF PhaseIf, Runs, Waits, BusyStates, WokenStates, TypeOK, NULL, None
<1>5. \A g \in Harts : g # h => PhaseIf(g)' = PhaseIf(g)
  BY <1>0, <1>3, PhaseSame DEF TypeOK
<1>6. PhaseOf(h) = "queued" /\ PhaseOf(h)' = "running" /\ AbsJob(h)' = AbsJob(h) /\ AbsJob(h) = last[h]
  BY <1>2, <1>3, <1>4, PhaseValue DEF AbsJob
<1>7. \A g \in Harts : g # h => PhaseOf(g)' = PhaseOf(g) /\ AbsJob(g)' = AbsJob(g)
  BY <1>3, <1>5, PhaseValue DEF AbsJob
<1>8. [g \in Harts |-> PhaseOf(g)]' = [[g \in Harts |-> PhaseOf(g)] EXCEPT ![h] = "running"]
  BY <1>6, <1>7
<1>9. [g \in Harts |-> AbsJob(g)]' = [g \in Harts |-> AbsJob(g)]
  BY <1>6, <1>7
<1>10. {j \in Jobs : ran[j] > 0
                     /\ \A g \in Harts : PhaseOf(g) = "running" => AbsJob(g) # j}' =
       {j \in Jobs : ran[j] > 0
                     /\ \A g \in Harts : PhaseOf(g) = "running" => AbsJob(g) # j}
  <2> DEFINE Reported(j) == ran[j] > 0 /\ \A g \in Harts : PhaseOf(g) = "running" => AbsJob(g) # j
  <2>1. ASSUME NEW j \in Jobs PROVE Reported(j)' <=> Reported(j)
    <3>1. CASE j = last[h]
      BY <1>2, <1>3, <3>1
    <3>2. CASE j # last[h]
      BY <1>3, <1>6, <1>7, <3>2
    <3> QED
      BY <3>1, <3>2
  <2> QED
    BY <2>1
<1> QED
  BY <1>6, <1>8, <1>9, <1>10 DEF Abs!Run

\* With the IPI smp_start has handed its pair over.
LEMMA IpiRefines ==
  ASSUME IInv, IpiSend PROVE \E h \in Harts, j \in Jobs : Abs!Queue(h, j)
<1>p. PICK h \in Harts : h = tgt
  BY DEF IInv, TypeOK, IpiSend, StartStates
<1>j. PICK j \in 0..MaxJobs : j = jobs
  BY DEF IInv, TypeOK
<1>0. TypeOK /\ Starting(h) /\ pc[Boot] \in {"reset", "kmain"}
  BY <1>p DEF IInv, IpiSend, Starting, StartStates, CallInv
<1>1. Launching(h)
  BY <1>0, Underway
<1>2. /\ last[h] = j /\ j # 0 /\ ran[j] = 0 /\ ~msip[h] /\ pc[h] \in ParkStates
      /\ OwnBufferEmpty(h) /\ Load(Boot, "fn", h) = j
  BY <1>j, <1>1 DEF Launching, Quiet, IpiSend
<1>3. mem.fn[h] = j
  BY <1>0, <1>2 DEF IpiSend, Fence, Load, Kinds
<1>4. UNCHANGED <<mem, sb, pc, ran>> /\ msip' = [msip EXCEPT ![h] = TRUE]
  BY <1>p DEF IpiSend
<1>5. j \in Jobs
  BY <1>2, SmpAssumption DEF TypeOK, Jobs
<1>6. PhaseIf(h) = "idle" /\ PhaseIf(h)' = "queued"
  BY <1>0, <1>2, <1>4 DEF PhaseIf, Runs, Waits, BusyStates, WokenStates, ParkStates, TypeOK, NULL,
     None, OwnBufferEmpty
<1>7. \A g \in Harts : g # h => PhaseIf(g)' = PhaseIf(g)
  BY <1>0, <1>4, PhaseSame DEF TypeOK
<1>8. PhaseOf(h) = "idle" /\ PhaseOf(h)' = "queued" /\ AbsJob(h)' = j
  BY <1>3, <1>4, <1>6, PhaseValue DEF AbsJob
<1>9. \A g \in Harts : g # h => PhaseOf(g)' = PhaseOf(g) /\ AbsJob(g)' = AbsJob(g)
  BY <1>4, <1>7, PhaseValue DEF AbsJob
<1>10. ASSUME NEW g \in Harts, PhaseOf(g) # "idle" PROVE AbsJob(g) # j
  <2>1. AbsJob(g) = last[g] /\ g # h
    BY <1>8, <1>10, PhaseValue, JobIsLast DEF AbsJob
  <2>2. last[g] # last[h]
    BY <1>0, <1>2, <2>1 DEF IInv, CallInv, NULL
  <2> QED
    BY <1>2, <2>1, <2>2
<1>11. [g \in Harts |-> PhaseOf(g)]' = [[g \in Harts |-> PhaseOf(g)] EXCEPT ![h] = "queued"]
  BY <1>8, <1>9
<1>12. [g \in Harts |-> AbsJob(g)]' = [[g \in Harts |-> AbsJob(g)] EXCEPT ![h] = j]
  BY <1>8, <1>9
<1>13. {i \in Jobs : ran[i] > 0
                     /\ \A g \in Harts : PhaseOf(g) = "running" => AbsJob(g) # i}' =
       {i \in Jobs : ran[i] > 0
                     /\ \A g \in Harts : PhaseOf(g) = "running" => AbsJob(g) # i}
  BY <1>4, <1>8, <1>9
<1>14. j \notin {i \in Jobs : ran[i] > 0
                     /\ \A g \in Harts : PhaseOf(g) = "running" => AbsJob(g) # i}
  BY <1>2
<1>15. \A g \in Harts : [k \in Harts |-> PhaseOf(k)][g] # "idle" => [k \in Harts |-> AbsJob(k)][g] # j
  BY <1>10
<1>16. Abs!Queue(h, j)
  BY <1>0, <1>8, <1>11, <1>12, <1>13, <1>14, <1>15 DEF Abs!Queue
<1> QED
  BY <1>0, <1>5, <1>16

LEMMA RefineInit == Init => Abs!AbsInit
<1> SUFFICES ASSUME Init PROVE Abs!AbsInit
  OBVIOUS
<1>1. ASSUME NEW h \in Harts PROVE PhaseOf(h) = "idle" /\ AbsJob(h) = 0
  <2>1. /\ pc[h] \in {"reset", "stopped"} /\ ~msip[h] /\ sb[h].run[h] = None
    BY <1>1 DEF Init, EmptyBuffer, Kinds
  <2>2. PhaseIf(h) = "idle"
    BY <2>1 DEF PhaseIf, Runs, Waits, BusyStates, WokenStates, NULL, None
  <2> QED
    BY <2>2, PhaseValue DEF AbsJob
<1>2. \A j \in Jobs : ran[j] = 0
  BY DEF Init
<1> QED
  BY <1>1, <1>2 DEF Abs!AbsInit

LEMMA RefineStep == IInv /\ [Next]_vars => [Abs!AbsNext]_(Abs!absVars)
<1> SUFFICES ASSUME IInv, [Next]_vars PROVE Abs!AbsNext \/ UNCHANGED Abs!absVars
  OBVIOUS
<1>1. CASE Primary \/ UNCHANGED vars
  <2>1. CASE IpiSend
    BY <2>1, IpiRefines DEF Abs!AbsNext
  <2> QED
    BY <1>1, <2>1, BootStutters, CallsStutter DEF Primary
<1>2. ASSUME NEW h \in Harts, Secondary(h) PROVE Abs!AbsNext \/ UNCHANGED Abs!absVars
  <2>1. CASE DispatchLoad(h)
    <3>1. pc[h] = "ld_fn" \/ pc[h] = "ld_arg"
      BY <2>1 DEF DispatchLoad
    <3>2. CASE pc[h] = "ld_fn"
      BY <2>1, <3>2, ParkStutters
    <3>3. CASE pc[h] = "ld_arg"
      BY <2>1, <3>3, LoadRefines DEF Abs!AbsNext
    <3> QED
      BY <3>1, <3>2, <3>3
  <2> QED
    BY <1>2, <2>1, ParkStutters, EntryStutters DEF Secondary
<1>3. ASSUME NEW h \in Harts, Drain(h) PROVE Abs!AbsNext \/ UNCHANGED Abs!absVars
  BY <1>3, DrainRefines DEF Abs!AbsNext
<1> QED
  BY <1>1, <1>2, <1>3 DEF Next

\* The code implements the exactly-once hand-over of smp.h (SmpAbs): every step of
\* boot, smp.c, the park loop and the store buffers is a step of the promise or
\* changes nothing a caller can see.
THEOREM RefinesSmpAbs == Spec => Abs!AbsInit /\ [][Abs!AbsNext]_(Abs!absVars)
<1>1. Spec => []IInv
  BY Invariance
<1> QED
  BY <1>1, RefineInit, RefineStep, PTL DEF Spec
=============================================================================
