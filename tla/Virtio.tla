------------------------------ MODULE Virtio -------------------------------
(***************************************************************************)
(* The two virtio drivers on their queue (virtio_gpu.c, virtio_input.c) and*)
(* the device behind it.  virtio_find_fdt finds a slot, whose device id    *)
(* decides which driver binds: `dev`.                                      *)
(*                                                                         *)
(* The keyboard driver keeps every descriptor posted and takes events out  *)
(* of the used ring when the program polls.  The GPU driver sends one      *)
(* command at a time and spins for its answer; stages 1 to 4 are the       *)
(* commands of virtio_gpu_init_fdt, 5 and 6 those of virtio_gpu_present.   *)
(* Commands and events are numbered; an event is a key transition that the *)
(* callback hears of, or another one.                                      *)
(***************************************************************************)
EXTENDS Virtq

CONSTANTS MaxInits,    \* calls of the init functions
          MaxCmds,     \* GPU commands
          MaxEvents    \* keyboard events

ASSUME VirtioAssumption == MaxInits \in Nat /\ MaxCmds \in Nat /\ MaxEvents \in Nat

VARIABLES
  dev, pc, inits,
  head,                \* desc head or id in the driver's hand
  any,                 \* virtio_input_poll's any
  evt_buf, emitted, accepted, delivered,
  stage, sent, req_buf, rsp_buf, done, trusted

inputVars == <<any, evt_buf, emitted, accepted, delivered>>
gpuVars == <<stage, sent, req_buf, rsp_buf, done, trusted>>
virtioVars == <<queueVars, dev, pc, inits, head, inputVars, gpuVars>>

NoEvent == [n |-> 0, key |-> FALSE]

\* A press or release, not a repeat, of a key that lkc_to_usb has a usage for.
Heard(e) == e.key

NoAnswer == [num |-> 0, ok |-> FALSE]

VirtioInit ==
  /\ VirtqInit
  /\ dev \in {"input", "gpu"} /\ pc = "off" /\ inits = 0
  /\ head = 0 /\ any = FALSE
  /\ evt_buf = [d \in Descs |-> NoEvent]
  /\ emitted = 0 /\ accepted = <<>> /\ delivered = <<>>
  /\ stage = 0 /\ sent = 0 /\ req_buf = 0 /\ rsp_buf = NoAnswer
  /\ done = {} /\ trusted = {}

At(d, from, to) == dev = d /\ pc = from /\ pc' = to
rings == <<avail_ring, avail_idx, used_ring, used_idx, last_used_idx>>

-----------------------------------------------------------------------------
(***************************************************************************)
(* Bring-up, again and again if the program likes ("re-init paths").       *)
(***************************************************************************)

\* virtio_input_init_fdt up to refill_eventq; virtio_gpu_init_fdt up to its
\* first command.  Events that the program has not polled for are gone.
Setup ==
  /\ pc \in {"off", "idle"} /\ inits < MaxInits
  /\ inits' = inits + 1
  /\ QueueSetup
  /\ \/ dev = "input" /\ pc' = "refill" /\ live' = FALSE /\ UNCHANGED stage
     \/ dev = "gpu" /\ pc' = "cmd" /\ live' = TRUE /\ stage' = 1
  /\ accepted' = delivered
  /\ UNCHANGED <<dev, head, any, evt_buf, emitted, delivered, sent, req_buf, rsp_buf,
                 done, trusted>>

\* virtq_avail_push, in both drivers.
PushEntry ==
  /\ pc = "ring" /\ pc' = "idx"
  /\ AvailEntry(head)
  /\ UNCHANGED <<freeList, avail_idx, used_ring, used_idx, last_used_idx, device, live,
                 dev, inits, head, inputVars, gpuVars>>

PushIndex ==
  /\ pc = "idx" /\ pc' = (IF dev = "input" THEN "refill" ELSE "notify")
  /\ AvailIndex
  /\ UNCHANGED <<freeList, avail_ring, used_ring, used_idx, last_used_idx, device, live,
                 dev, inits, head, inputVars, gpuVars>>

\* Variant: the notification is forgotten.
NotifyForgets ==
  /\ pc = "notify" /\ pc' = (IF dev = "input" THEN "idle" ELSE "pop")
  /\ UNCHANGED <<queueVars, dev, inits, head, inputVars, gpuVars>>

\* virtio_notify.
Notify ==
  /\ pc = "notify" /\ pc' = (IF dev = "input" THEN "idle" ELSE "pop")
  /\ kick' = TRUE
  /\ UNCHANGED <<freeList, rings, dev_avail, dev_has, live, dev, inits, head, inputVars,
                 gpuVars>>

-----------------------------------------------------------------------------
(***************************************************************************)
(* virtio_input.c.                                                         *)
(***************************************************************************)

\* refill_eventq, one descriptor.
RefillDesc ==
  /\ At("input", "refill", "ring") /\ num_free # 0
  /\ head' = free_head /\ AllocDesc(1)
  /\ next' = [next EXCEPT ![free_head] = 0]
  /\ chained' = chained \ {free_head}
  /\ UNCHANGED <<rings, device, live, dev, inits, inputVars, gpuVars>>

\* All posted; after init, virtio_finalize.
RefillDone ==
  /\ At("input", "refill", "notify") /\ num_free = 0
  /\ live' = TRUE
  /\ UNCHANGED <<freeList, rings, device, dev, inits, head, inputVars, gpuVars>>

InputPoll ==
  /\ At("input", "idle", "pop")
  /\ any' = FALSE
  /\ UNCHANGED <<queueVars, dev, inits, head, evt_buf, emitted, accepted, delivered, gpuVars>>

InputPop ==
  /\ At("input", "pop", "event") /\ UsedPending
  /\ head' = UsedId /\ UsedTake /\ any' = TRUE
  /\ UNCHANGED <<freeList, avail_ring, avail_idx, used_ring, used_idx, device, live, dev,
                 inits, evt_buf, emitted, accepted, delivered, gpuVars>>

\* The callback, if the event is one for it, then virtq_free_desc.
InputEvent ==
  /\ At("input", "event", "pop")
  /\ delivered' = IF Heard(evt_buf[head]) THEN Append(delivered, evt_buf[head].n) ELSE delivered
  /\ FreeDesc(head)
  /\ UNCHANGED <<rings, device, live, dev, inits, head, any, evt_buf, emitted, accepted,
                 gpuVars>>

InputDrained ==
  /\ At("input", "pop", IF any THEN "refill" ELSE "idle") /\ ~UsedPending
  /\ UNCHANGED <<queueVars, dev, inits, head, inputVars, gpuVars>>

-----------------------------------------------------------------------------
(***************************************************************************)
(* virtio_gpu.c.                                                           *)
(***************************************************************************)

\* gpu_cmd_sync returns: what virtio_gpu_init_fdt or virtio_gpu_present does
\* with the result.  present sends its flush only after a good transfer.
Returns(ok) ==
  /\ pc' = CASE stage < 4 -> IF ok THEN "cmd" ELSE "off"
             [] stage = 4 -> IF ok THEN "idle" ELSE "off"
             [] stage = 5 -> IF ok THEN "cmd" ELSE "idle"
             [] OTHER -> "idle"
  /\ stage' = IF pc' = "cmd" THEN stage + 1 ELSE stage

\* virtio_gpu_present with something visible; gfx.c calls it only after
\* virtio_gpu_init_fdt has succeeded.
Present ==
  /\ At("gpu", "idle", "cmd")
  /\ stage' = 5
  /\ UNCHANGED <<queueVars, dev, inits, head, inputVars, sent, req_buf, rsp_buf, done, trusted>>

\* gpu_cmd_sync up to the push: a chain of two, or no descriptors and FALSE.
GpuCmd ==
  /\ dev = "gpu" /\ pc = "cmd" /\ sent < MaxCmds
  /\ sent' = sent + 1
  /\ IF num_free < 2
     THEN Returns(FALSE) /\ UNCHANGED <<freeList, head, req_buf>>
     ELSE /\ head' = free_head /\ AllocDesc(2)
          /\ next' = [next EXCEPT ![free_head] = Nth[1], ![Nth[1]] = 0]
          /\ chained' = (chained \cup {free_head}) \ {Nth[1]}
          /\ req_buf' = sent + 1
          /\ pc' = "ring" /\ UNCHANGED stage
  /\ UNCHANGED <<rings, device, live, dev, inits, inputVars, rsp_buf, done, trusted>>

\* The poll hits: copy the answer, free both descriptors, look at its type.
\* After GET_DISPLAY_INFO the mode may turn out not to fit into vram.
GpuPop ==
  /\ dev = "gpu" /\ pc = "pop" /\ UsedPending
  /\ UsedTake /\ FreeChain(head)
  /\ trusted' = IF rsp_buf.ok THEN trusted \cup {sent} ELSE trusted
  /\ \E fits \in {TRUE, stage # 1} : Returns(rsp_buf.ok /\ fits)
  /\ UNCHANGED <<avail_ring, avail_idx, used_ring, used_idx, device, live, dev, inits, head,
                 inputVars, sent, req_buf, rsp_buf, done>>

-----------------------------------------------------------------------------
(***************************************************************************)
(* The device (external).                                                  *)
(***************************************************************************)

Take == DevTake /\ UNCHANGED <<dev, pc, inits, head, inputVars, gpuVars>>

\* A keyboard event; without a buffer the device drops it.
KeyEvent ==
  /\ dev = "input" /\ emitted < MaxEvents
  /\ emitted' = emitted + 1
  /\ \E h \in dev_has, key \in BOOLEAN :
       /\ DevReturn(h)
       /\ evt_buf' = [evt_buf EXCEPT ![h] = [n |-> emitted + 1, key |-> key]]
       /\ accepted' = IF key THEN Append(accepted, emitted + 1) ELSE accepted
  /\ UNCHANGED <<dev, pc, inits, head, any, delivered, gpuVars>>

\* The GPU carries out the request it finds in req_buf, or refuses it.
GpuAnswer ==
  /\ dev = "gpu"
  /\ \E h \in dev_has, ok \in BOOLEAN :
       /\ DevReturn(h)
       /\ rsp_buf' = [num |-> req_buf, ok |-> ok]
       /\ done' = IF ok THEN done \cup {req_buf} ELSE done
  /\ UNCHANGED <<dev, pc, inits, head, inputVars, stage, sent, req_buf, trusted>>

-----------------------------------------------------------------------------
Driver ==
  \/ PushEntry \/ PushIndex \/ Notify
  \/ RefillDesc \/ RefillDone \/ InputPop \/ InputEvent \/ InputDrained
  \/ GpuCmd \/ GpuPop

VirtioNext == Driver \/ Setup \/ InputPoll \/ Present \/ Take \/ KeyEvent \/ GpuAnswer

\* The driver's code runs, the device reads the ring it was notified of, and
\* the GPU answers.  Keys need not be pressed, nor the program poll or present.
VirtioFairness == WF_virtioVars(Driver) /\ WF_virtioVars(Take) /\ WF_virtioVars(GpuAnswer)

VirtioSpec == VirtioInit /\ [][VirtioNext]_virtioVars
VirtioFairSpec == VirtioSpec /\ VirtioFairness

-----------------------------------------------------------------------------
(***************************************************************************)
(* Properties.                                                             *)
(***************************************************************************)

\* What a call of the driver has in hand: nothing when none is under way.
Held ==
  CASE pc \in {"ring", "idx"} -> Chain(head)
    [] pc = "event" -> {head}
    [] OTHER -> {}

\* Every descriptor has one owner (virtio.h: the free list, the driver, the
\* available ring, the device or the used ring) at every step of both drivers,
\* whatever the order in which the device returns them: none leaks, none is
\* handed out twice (virtq_alloc_desc, virtq_free_desc, virtq_avail_push).
OneOwner == inits > 0 => Partitioned(Held)

\* Buffers with events on their way to the callback, oldest first.
Coming == (IF pc = "event" THEN <<head>> ELSE <<>>) \o UsedSeq

\* The numbers of the events in them that the callback is to hear of.
KeysOf(s) ==
  LET upTo[i \in 0..Len(s)] ==
        IF i = 0 THEN <<>>
        ELSE IF Heard(evt_buf[s[i]]) THEN Append(upTo[i - 1], evt_buf[s[i]].n) ELSE upTo[i - 1]
  IN upTo[Len(s)]

\* virtio_input_poll hands every key transition the device had a buffer for to
\* the callback once and in order, although ids come back in any order and a
\* buffer is posted again while later events arrive.
KeysInOrder == dev = "input" => delivered \o KeysOf(Coming) = accepted

\* A command that gpu_cmd_sync reports as done has been done by the device: the
\* driver ignores the id it pops, and so relies on having one command in flight
\* and no completion left over from before a re-init.
TrustedWasDone == trusted \subseteq done

\* gpu_cmd_sync, which polls without a limit, returns.
CommandReturns == (dev = "gpu" /\ pc = "pop") ~> (pc # "pop")
=============================================================================
