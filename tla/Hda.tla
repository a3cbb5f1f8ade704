-------------------------------- MODULE Hda --------------------------------
(***************************************************************************)
(* The HDA controller as the audio code uses it (hda.c, audio.c): verbs go *)
(* into the CORB, the codec's responses come back in the RIRB, one verb at *)
(* a time, with a bounded poll for each response.                          *)
(*                                                                         *)
(* A verb is the number under which hda_send_cmd sent it, a response the   *)
(* number of the verb it answers.  `todo` counts the verbs that the call   *)
(* under way (`call`) still has to send.                                   *)
(***************************************************************************)
EXTENDS Integers, Sequences, FiniteSets

CONSTANTS WpMod,      \* the range of corb_wp: 256
          RirbSize,   \* entries of rirb[]: 256
          MaxVerbs,   \* verbs the program sends in a behaviour
          MaxTimeouts \* polls that give up in a behaviour

ASSUME HdaAssumption ==
  /\ WpMod \in Nat \ {0, 1} /\ RirbSize \in Nat \ {0, 1} /\ MaxVerbs \in Nat
  /\ MaxTimeouts \in Nat
  /\ RirbSize <= WpMod   \* 256 and 256

VARIABLES
  pc, call, todo,
  hda_up, corb_wp, rirb_rp,
  corb,               \* what the words from corb[] on hold
  codec_rp,           \* the codec: CORBRP, and RIRBWP
  rirb_wp, rirb,
  sent, timeouts,     \* verbs sent, polls that gave up
  answer              \* what hda_send_cmd has returned: a response, or 0

control == <<pc, call, todo>>
codec == <<codec_rp, rirb_wp, rirb>>
hdaVars == <<control, hda_up, corb_wp, rirb_rp, corb, codec, sent, timeouts, answer>>

HdaInit ==
  /\ pc = "idle" /\ call = "none" /\ todo = 0
  /\ hda_up = FALSE /\ corb_wp = 0 /\ rirb_rp = 0
  /\ corb = [i \in 0..WpMod-1 |-> 0]
  /\ codec_rp = 0 /\ rirb_wp = 0 /\ rirb = [i \in 0..RirbSize-1 |-> 0]
  /\ sent = 0 /\ timeouts = 0 /\ answer = 0

Calls(c, verbs) ==
  /\ pc = "idle" /\ sent + verbs <= MaxVerbs
  /\ pc' = "send" /\ call' = c /\ todo' = verbs

-----------------------------------------------------------------------------
\* hda_init: the device may be missing, its BAR unmapped, or the codec silent,
\* and the call may be made again.  Out of reset both rings are empty.  The
\* beep widget is unmuted with one verb.
InitCall ==
  /\ ~hda_up
  /\ \/ pc = "idle" /\ UNCHANGED <<control, hda_up>>
     \/ Calls("init", 1) /\ hda_up' = TRUE
  /\ corb_wp' = 0 /\ rirb_rp' = 0 /\ codec_rp' = 0 /\ rirb_wp' = 0
  /\ UNCHANGED <<corb, rirb, sent, timeouts, answer>>

\* audio_beep and hda_beep; hda_verb likewise sends one verb.
BeepCall ==
  /\ hda_up /\ Calls("beep", 1)
  /\ UNCHANGED <<hda_up, corb_wp, rirb_rp, corb, codec, sent, timeouts, answer>>

\* hda_send_cmd up to the poll.
SendCmd ==
  LET wp == (corb_wp + 1) % WpMod IN
  /\ pc = "send" /\ todo > 0 /\ hda_up
  /\ pc' = "poll" /\ todo' = todo - 1
  /\ corb_wp' = wp
  /\ corb' = [corb EXCEPT ![wp] = sent + 1]
  /\ sent' = sent + 1
  /\ UNCHANGED <<call, hda_up, rirb_rp, codec, timeouts, answer>>

\* Variant: jumps to the newest response instead of the next one.
PollHitNewest ==
  /\ pc = "poll" /\ rirb_wp # rirb_rp
  /\ pc' = "send"
  /\ rirb_rp' = rirb_wp
  /\ answer' = rirb[rirb_wp]
  /\ UNCHANGED <<call, todo, hda_up, corb_wp, corb, codec, sent, timeouts>>

\* A response is there: the next one in the ring.
PollHit ==
  LET rp == (rirb_rp + 1) % RirbSize IN
  /\ pc = "poll" /\ rirb_wp # rirb_rp
  /\ pc' = "send"
  /\ rirb_rp' = rp
  /\ answer' = rirb[rp]
  /\ UNCHANGED <<call, todo, hda_up, corb_wp, corb, codec, sent, timeouts>>

\* 100000 reads of RIRBWP have seen nothing.
PollTimeout ==
  /\ pc = "poll" /\ rirb_wp = rirb_rp /\ timeouts < MaxTimeouts
  /\ pc' = "send"
  /\ timeouts' = timeouts + 1 /\ answer' = 0
  /\ UNCHANGED <<call, todo, hda_up, corb_wp, rirb_rp, corb, codec, sent>>

\* The codec (external) answers the next verb of its ring, sooner or later.
CodecAnswer ==
  LET rp == (codec_rp + 1) % WpMod
      wp == (rirb_wp + 1) % RirbSize
  IN /\ codec_rp # corb_wp
     /\ codec_rp' = rp /\ rirb_wp' = wp
     /\ rirb' = [rirb EXCEPT ![wp] = corb[rp]]
     /\ UNCHANGED <<control, hda_up, corb_wp, rirb_rp, corb, sent, timeouts, answer>>

-----------------------------------------------------------------------------
\* hda_send_cmd hands out the codec's responses in order and each one once.
\* It never looks which verb a response is for, so every poll that gave up
\* shifts all later calls by one for good: after t timeouts a call returns the
\* response to the t-th verb before its own.  (RirbSize unread responses look
\* like none.)
AnswersLag ==
  pc = "send" /\ answer # 0 /\ timeouts < RirbSize => answer = sent - timeouts

\* "send a codec verb, get the response" (hda.h:8).  Not after a timeout.
AnswerIsOwn == pc = "send" /\ answer # 0 => answer = sent
=============================================================================
