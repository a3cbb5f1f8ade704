------------------------------- MODULE Audio -------------------------------
(***************************************************************************)
(* PCM streaming and the edge-driven speaker (audio_pcm.c, audio_edge.c)   *)
(* on the HDA stream, which plays the ring round and round while it runs.  *)
(*                                                                         *)
(* The program's emulator has a clock; it submits level changes at the     *)
(* clock's value and calls audio_edge_advance once per frame.  A slot of   *)
(* the ring is a sample: its level, its place in the order in which        *)
(* samples were rendered (n) and the time it is for (t, in sample periods).*)
(***************************************************************************)
EXTENDS Hda

CONSTANTS RingN,       \* EDGE_RING_FRAMES
          EventsN,     \* entries of events[]
          Rate, Hz,    \* audio_sample_rate(), emulator_hz
          MaxWaits,    \* polls of writable() before a frame is dropped: 50
          Levels,      \* speaker levels, 0 among them
          MaxCycle,    \* the emulator's clock stops here
          MaxOpens

ASSUME AudioAssumption ==
  /\ RingN \in Nat \ {0, 1} /\ EventsN \in Nat \ {0} /\ MaxWaits \in Nat
  /\ Rate \in Nat \ {0} /\ Hz \in Nat \ {0}
  /\ 0 \in Levels /\ MaxCycle \in Nat /\ MaxOpens \in Nat

Slots == 0..RingN-1
SampleOf(cycle) == (cycle * Rate) \div Hz       \* cycle_to_sample; the origin is 0
MaxSample == SampleOf(MaxCycle)

VARIABLES
  opens, open,             \* e->open; edge_pcm_open and running go with it
  clock,                   \* the emulator's cycle counter
  ring, wp_frames,
  events, current_level, total_samples,
  waited, s,               \* locals of audio_edge_advance, 0 outside it
  lpib,                    \* the stream's position, in frames
  fresh,                   \* slots rendered and not yet played
  written, heard,          \* samples rendered; the last one of them played
  overtaken,               \* the stream ran through a frame being rendered
  wave, lost               \* the level asked for at each time; a change was lost

locals == <<waited, s>>
edgeVars == <<events, current_level, total_samples>>
stream == <<ring, wp_frames, lpib, fresh, written, heard, overtaken>>
audioVars == <<hdaVars, opens, open, clock, stream, edgeVars, locals, wave, lost>>

Silence == [n |-> 0, t |-> 0, lvl |-> 0]

AudioInit ==
  /\ HdaInit
  /\ opens = 0 /\ open = FALSE /\ clock = 0
  /\ ring = [i \in Slots |-> Silence] /\ wp_frames = 0
  /\ events = <<>> /\ current_level = 0 /\ total_samples = 0
  /\ waited = 0 /\ s = 0
  /\ lpib = 0 /\ fresh = {} /\ written = 0 /\ heard = 0 /\ overtaken = FALSE
  /\ wave = [t \in 0..MaxSample |-> 0] /\ lost = FALSE

-----------------------------------------------------------------------------
(***************************************************************************)
(* HDA calls, and the opening of the channel.                              *)
(***************************************************************************)

HdaStep ==
  /\ InitCall \/ BeepCall \/ SendCmd \/ PollHit \/ PollTimeout \/ CodecAnswer
  /\ UNCHANGED <<opens, open, clock, stream, edgeVars, locals, wave, lost>>

\* audio_init or audio_beep returns.
HdaReturn ==
  /\ pc = "send" /\ todo = 0 /\ call # "open"
  /\ pc' = "idle" /\ call' = "none" /\ answer' = 0
  /\ UNCHANGED <<todo, hda_up, corb_wp, rirb_rp, corb, codec, sent, timeouts,
                 opens, open, clock, stream, edgeVars, locals, wave, lost>>

\* audio_edge_open as far as audio_pcm_open's verbs: amplifier, format, stream.
\* A backend that is down, a channel that is open or a clock of 0 Hz refuses.
OpenCall ==
  /\ hda_up /\ ~open /\ opens < MaxOpens
  /\ Calls("open", 3)
  /\ opens' = opens + 1
  /\ ring' = [i \in Slots |-> Silence]
  /\ fresh' = {} /\ written' = 0 /\ heard' = 0
  /\ UNCHANGED <<hda_up, corb_wp, rirb_rp, corb, codec, sent, timeouts, answer, open, clock,
                 wp_frames, lpib, overtaken, edgeVars, locals, wave, lost>>

\* audio_pcm_advance.
PcmAdvance(wp, frames) == (wp + frames) % RingN

\* The rest of audio_pcm_open: the descriptor list covers the ring, RUN.
PcmStart == pc = "send" /\ todo = 0 /\ call = "open" /\ open' = TRUE

\* The channel's fields; all but one slot count as filled.
OpenDone ==
  /\ PcmStart
  /\ pc' = "idle" /\ call' = "none" /\ answer' = 0
  /\ wp_frames' = PcmAdvance(0, RingN - 1)
  /\ events' = <<>> /\ current_level' = 0 /\ total_samples' = 0
  /\ wave' = [t \in 0..MaxSample |-> 0] /\ lost' = FALSE /\ overtaken' = FALSE
  /\ UNCHANGED <<todo, hda_up, corb_wp, rirb_rp, corb, codec, sent, timeouts, opens,
                 clock, ring, lpib, fresh, written, heard, locals>>

CloseCall ==
  /\ pc = "idle" /\ open
  /\ open' = FALSE
  /\ UNCHANGED <<hdaVars, opens, clock, stream, edgeVars, locals, wave, lost>>

-----------------------------------------------------------------------------
(***************************************************************************)
(* The emulator.                                                           *)
(***************************************************************************)

Emulate ==
  /\ pc = "idle" /\ open /\ clock < MaxCycle
  /\ clock' = clock + 1
  /\ UNCHANGED <<hdaVars, opens, open, stream, edgeVars, locals, wave, lost>>

\* audio_edge_set at the emulator's present cycle.  With the queue full the
\* level is stored as the one the frame began with.
EdgeSet(level) ==
  /\ pc = "idle" /\ open /\ level # wave[SampleOf(clock)]
  /\ wave' = [t \in 0..MaxSample |-> IF t >= SampleOf(clock) THEN level ELSE wave[t]]
  /\ IF Len(events) < EventsN
     THEN /\ events' = Append(events, [cycle |-> clock, level |-> level])
          /\ UNCHANGED <<current_level, lost>>
     ELSE /\ current_level' = level /\ lost' = TRUE
          /\ UNCHANGED events
  /\ UNCHANGED <<hdaVars, opens, open, clock, stream, total_samples, locals>>

-----------------------------------------------------------------------------
(***************************************************************************)
(* audio_edge_advance.                                                     *)
(***************************************************************************)

\* Variant: "free" counts the sentinel slot too.
WritableAll == RingN - ((wp_frames + RingN - lpib) % RingN)

\* audio_pcm_writable and audio_pcm_position.
Writable == RingN - 1 - ((wp_frames + RingN - lpib) % RingN)

\* Variant: the events of a short frame are dropped with their level.
AdvanceShortForgets ==
  /\ pc = "idle" /\ open /\ SampleOf(clock) <= total_samples
  /\ events' = <<>>
  /\ UNCHANGED <<hdaVars, opens, open, clock, stream, current_level, total_samples, locals,
                 wave, lost>>

\* Shorter than a sample period: only the level is kept.
AdvanceShort ==
  /\ pc = "idle" /\ open /\ SampleOf(clock) <= total_samples /\ events # <<>>
  /\ current_level' = events[Len(events)].level
  /\ events' = <<>>
  /\ UNCHANGED <<hdaVars, opens, open, clock, stream, total_samples, locals, wave, lost>>

\* frame_samples: at most RingN - 1 samples of a frame are rendered.
Frame ==
  LET n == SampleOf(clock) - total_samples IN IF n > RingN - 1 THEN RingN - 1 ELSE n

AdvanceCall ==
  /\ pc = "idle" /\ open /\ SampleOf(clock) > total_samples
  /\ pc' = "wait"
  /\ UNCHANGED <<call, todo, hda_up, corb_wp, rirb_rp, corb, codec, sent, timeouts, answer,
                 opens, open, clock, stream, edgeVars, locals, wave, lost>>

\* One poll: room, another millisecond, or the frame is dropped with its events.
AdvanceWait ==
  /\ pc = "wait"
  /\ \/ /\ Writable >= Frame
        /\ pc' = "render" /\ waited' = 0
        /\ UNCHANGED <<events, total_samples, lost>>
     \/ /\ Writable < Frame /\ waited < MaxWaits
        /\ waited' = waited + 1
        /\ UNCHANGED <<pc, events, total_samples, lost>>
     \/ /\ Writable < Frame /\ waited = MaxWaits
        /\ events' = <<>> /\ total_samples' = SampleOf(clock)
        /\ lost' = (lost \/ events # <<>>)
        /\ pc' = "idle" /\ waited' = 0
  /\ UNCHANGED <<call, todo, hda_up, corb_wp, rirb_rp, corb, codec, sent, timeouts, answer,
                 opens, open, clock, stream, current_level, s, wave>>

\* Where event i falls in the frame; event 0 is the frame's beginning, one past
\* the last its end.
Index(i) ==
  IF i = 0 THEN 0
  ELSE IF i > Len(events) THEN Frame
  ELSE LET c == IF events[i].cycle > clock THEN clock ELSE events[i].cycle
           d == SampleOf(c) - total_samples
       IN IF d <= 0 THEN 0 ELSE IF d > Frame THEN Frame ELSE d

LevelOf(i) == IF i = 0 THEN current_level ELSE events[i].level

\* Sample k of the frame is filled last by the last event i whose stretch,
\* Index(i) to Index(i+1), it lies in.
RenderedLevel(k) ==
  LevelOf(CHOOSE i \in 0..Len(events) :
            /\ Index(i) <= k /\ k < Index(i + 1)
            /\ \A j \in i+1..Len(events) : ~(Index(j) <= k /\ k < Index(j + 1)))

RenderSample ==
  LET slot == (wp_frames + s) % RingN IN
  /\ pc = "render" /\ s < Frame
  /\ ring' = [ring EXCEPT ![slot] = [n |-> written + 1, t |-> total_samples + s,
                                     lvl |-> RenderedLevel(s)]]
  /\ fresh' = fresh \cup {slot}
  /\ written' = written + 1 /\ s' = s + 1
  /\ UNCHANGED <<hdaVars, opens, open, clock, wp_frames, lpib, heard, overtaken, edgeVars,
                 waited, wave, lost>>

\* audio_pcm_advance, and the frame's last level becomes the channel's.
RenderDone ==
  /\ pc = "render" /\ s = Frame
  /\ wp_frames' = PcmAdvance(wp_frames, Frame)
  /\ total_samples' = SampleOf(clock)
  /\ current_level' = LevelOf(Len(events)) /\ events' = <<>>
  /\ pc' = "idle" /\ s' = 0
  /\ UNCHANGED <<call, todo, hda_up, corb_wp, rirb_rp, corb, codec, sent, timeouts, answer,
                 opens, open, clock, ring, lpib, fresh, written, heard, overtaken, waited,
                 wave, lost>>

\* The stream (external) plays a frame, whether or not it is a new one.  What
\* the slot holds from then on matters to nobody and is forgotten.
Play ==
  /\ open
  /\ ring' = [ring EXCEPT ![lpib] = Silence]
  /\ lpib' = (lpib + 1) % RingN
  /\ fresh' = fresh \ {lpib}
  /\ heard' = IF lpib \in fresh THEN ring[lpib].n ELSE heard
  /\ overtaken' = (overtaken \/ (pc = "render" /\ lpib = (wp_frames + s) % RingN))
  /\ UNCHANGED <<hdaVars, opens, open, clock, wp_frames, written, edgeVars, locals, wave, lost>>

-----------------------------------------------------------------------------
AudioNext ==
  \/ HdaStep \/ HdaReturn \/ OpenCall \/ OpenDone \/ CloseCall
  \/ Emulate \/ (\E level \in Levels : EdgeSet(level))
  \/ AdvanceShort \/ AdvanceCall \/ AdvanceWait \/ RenderSample \/ RenderDone \/ Play

AudioSpec == AudioInit /\ [][AudioNext]_audioVars

-----------------------------------------------------------------------------
(***************************************************************************)
(* Properties.                                                             *)
(***************************************************************************)

Ahead(slot) == (slot + RingN - lpib) % RingN

\* Every sample audio_edge_advance has rendered is played or still lies ahead of
\* the stream, in the order of rendering: wp_frames, LPIB and the sentinel slot
\* of audio_pcm_writable keep the writer from overrunning what the host has not
\* consumed, also after the host has run dry and played old samples.  The one
\* exception is a host that runs through a frame while it is being rendered.
NothingOverwritten ==
  ~overtaken =>
    /\ Cardinality(fresh) = written - heard
    /\ \A a, b \in fresh : Ahead(a) < Ahead(b) => ring[a].n < ring[b].n

\* Every sample that waits to be played has the level the program had asked for
\* at that time, over frames shorter than a sample, frames longer than the ring
\* and frames the host delayed, until audio_edge_set finds its queue full or a
\* stalled host makes audio_edge_advance drop a frame with its changes.
WaveAsAsked == ~lost => \A i \in fresh : ring[i].lvl = wave[ring[i].t]
=============================================================================
