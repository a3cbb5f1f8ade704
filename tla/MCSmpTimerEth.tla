--------------------------- MODULE MCSmpTimerEth ----------------------------
(* Three parts that share no state, checked side by side: the hand-over of *)
(* work to harts, the local interrupts with time_busy_until, and the       *)
(* Ethernet driver.  A behaviour is about one of them; the others stay in  *)
(* a state in which nothing that fairness asks for is enabled.             *)
EXTENDS Smp, Timer, Eth

VARIABLE about

parts == <<about, vars, timerVars, ethVars>>

\* No hart has been started.
SmpUnused ==
  /\ mode = "s_sbi"
  /\ mem = [k \in Kinds |-> [h \in Harts |-> Junk]]
  /\ sb = [c \in Harts |-> EmptyBuffer]
  /\ msip = [h \in Harts |-> FALSE]
  /\ pc = [h \in Harts |-> "stopped"]
  /\ reg = [h \in Harts |-> [fn |-> NULL, arg |-> NULL]]
  /\ hart_count = 1 /\ api = "user" /\ tgt = 0 /\ jobs = 0
  /\ last = [h \in Harts |-> NULL] /\ ran = [j \in Jobs |-> 0]

PartsInit ==
  /\ \/ about = "smp" /\ Init
     \/ about \in {"timer", "eth"} /\ SmpUnused
  /\ TimerInit /\ EthInit

PartsNext ==
  /\ UNCHANGED about
  /\ \/ about = "smp" /\ Next /\ UNCHANGED <<timerVars, ethVars>>
     \/ about = "timer" /\ TimerNext /\ UNCHANGED <<vars, ethVars>>
     \/ about = "eth" /\ EthNext /\ UNCHANGED <<vars, timerVars>>

PartsSpec ==
  /\ PartsInit /\ [][PartsNext]_parts
  /\ Fairness /\ TimerFairness /\ EthFairness
=============================================================================
