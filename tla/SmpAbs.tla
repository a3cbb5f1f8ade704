------------------------------- MODULE SmpAbs -------------------------------
(***************************************************************************)
(* What smp_start / smp_wait promise, with no memory, no IPI and no park   *)
(* loop (include/smp.h:115-131): a hart is idle, has one entry queued, or  *)
(* executes it; an accepted entry runs once, to the end, and only then is  *)
(* its hart available for the next one.                                    *)
(***************************************************************************)
EXTENDS Naturals

CONSTANTS Harts,    \* the harts an entry can be handed to
          Jobs      \* the (fn, arg) pairs handed over, each call its own

VARIABLES phase,    \* phase[h]: what smp_is_running(h) stands for
          job,      \* job[h]: the pair hart h was handed last
          done      \* the pairs whose entry has returned and been reported

absVars == <<phase, job, done>>

AbsInit ==
  /\ phase = [h \in Harts |-> "idle"]
  /\ job = [h \in Harts |-> 0]
  /\ done = {}

\* smp_start(h, fn, arg) returning true: only to an idle hart, and with a pair
\* that is not anybody else's.
Queue(h, j) ==
  /\ phase[h] = "idle"
  /\ j \notin done
  /\ \A g \in Harts : phase[g] # "idle" => job[g] # j
  /\ phase' = [phase EXCEPT ![h] = "queued"]
  /\ job' = [job EXCEPT ![h] = j]
  /\ UNCHANGED done

\* The hart leaves its park loop with exactly the pair that was queued.
Run(h) ==
  /\ phase[h] = "queued"
  /\ phase' = [phase EXCEPT ![h] = "running"]
  /\ UNCHANGED <<job, done>>

\* The entry has returned and everybody can see it.
Finish(h) ==
  /\ phase[h] = "running"
  /\ phase' = [phase EXCEPT ![h] = "idle"]
  /\ job' = [job EXCEPT ![h] = 0]
  /\ done' = done \cup {job[h]}

AbsNext == \E h \in Harts : (\E j \in Jobs : Queue(h, j)) \/ Run(h) \/ Finish(h)

AbsSpec ==
  /\ AbsInit /\ [][AbsNext]_absVars
  /\ \A h \in Harts : WF_absVars(Run(h)) /\ WF_absVars(Finish(h))
=============================================================================
