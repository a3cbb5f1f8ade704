---------------------------- MODULE AudioProofs ----------------------------
(***************************************************************************)
(* Proofs about the audio path (hda.c, audio_pcm.c, audio_edge.c), for     *)
(* rings and queues of any size, any clock rates and any number of calls.  *)
(*                                                                         *)
(* Three invariants: how far the codec is with the verbs (VerbInv), where  *)
(* the samples lie that wait in the ring (StreamInv), and what the queued  *)
(* level changes say about the wave from total_samples on (WaveInv).       *)
(***************************************************************************)
EXTENDS Audio, FiniteSetTheorems, TLAPS

-----------------------------------------------------------------------------
(***************************************************************************)
(* Places in a ring of n.                                                  *)
(***************************************************************************)

\* The place k after place i.
Past(n, i, k) == (i + k) % n

LEMMA PastValue ==
  ASSUME NEW n \in Nat \ {0}, NEW i \in 0..n-1, NEW k \in 0..n
  PROVE  /\ Past(n, i, k) = IF i + k < n THEN i + k ELSE i + k - n
         /\ Past(n, i, k) \in 0..n-1
<1>1. CASE i + k < n
  BY <1>1 DEF Past
<1>2. CASE i + k >= n
  BY <1>2 DEF Past
<1> QED
  BY <1>1, <1>2

LEMMA PastEnds ==
  ASSUME NEW n \in Nat \ {0}, NEW i \in 0..n-1
  PROVE  Past(n, i, 0) = i /\ Past(n, i, n) = i /\ Past(n, i, 1) \in 0..n-1
<1>1. 0 \in 0..n /\ n \in 0..n /\ 1 \in 0..n
  OBVIOUS
<1>2. Past(n, i, 0) = IF i + 0 < n THEN i + 0 ELSE i + 0 - n
  BY <1>1, PastValue
<1>3. Past(n, i, n) = IF i + n < n THEN i + n ELSE i + n - n
  BY <1>1, PastValue
<1>4. Past(n, i, 1) \in 0..n-1
  BY <1>1, PastValue
<1> QED
  BY <1>2, <1>3, <1>4

\* Places that are less than a lap apart differ.
LEMMA PastDiffers ==
  ASSUME NEW n \in Nat \ {0}, NEW i \in 0..n-1, NEW j \in 0..n, NEW k \in 0..n, j < k, k - j < n
  PROVE  Past(n, i, j) # Past(n, i, k)
<1>1. Past(n, i, j) = IF i + j < n THEN i + j ELSE i + j - n
  BY PastValue
<1>2. Past(n, i, k) = IF i + k < n THEN i + k ELSE i + k - n
  BY PastValue
<1>3. (IF i + j < n THEN i + j ELSE i + j - n) # (IF i + k < n THEN i + k ELSE i + k - n)
  OBVIOUS
<1> QED
  BY <1>1, <1>2, <1>3, Zenon

LEMMA PastNext ==
  ASSUME NEW n \in Nat \ {0}, NEW i \in 0..n-1, NEW k \in 0..n-1
  PROVE  /\ Past(n, Past(n, i, 1), k) = Past(n, i, k + 1)
         /\ Past(n, Past(n, i, k), 1) = Past(n, i, k + 1)
<1>1. k \in 0..n /\ k + 1 \in 0..n /\ 1 \in 0..n
  OBVIOUS
<1> DEFINE a == Past(n, i, 1)
           b == Past(n, i, k)
<1>2. a = (IF i + 1 < n THEN i + 1 ELSE i + 1 - n) /\ a \in 0..n-1
  BY <1>1, PastValue
<1>3. b = (IF i + k < n THEN i + k ELSE i + k - n) /\ b \in 0..n-1
  BY <1>1, PastValue
<1>4. Past(n, i, k + 1) = IF i + (k + 1) < n THEN i + (k + 1) ELSE i + (k + 1) - n
  BY <1>1, PastValue
<1> HIDE DEF a, b
<1>5. Past(n, a, k) = IF a + k < n THEN a + k ELSE a + k - n
  BY <1>1, <1>2, PastValue
<1>6. Past(n, b, 1) = IF b + 1 < n THEN b + 1 ELSE b + 1 - n
  BY <1>1, <1>3, PastValue
<1>7. Past(n, a, k) = Past(n, i, k + 1)
  BY <1>2, <1>4, <1>5
<1>8. Past(n, b, 1) = Past(n, i, k + 1)
  BY <1>3, <1>4, <1>6
<1> QED
  BY <1>7, <1>8 DEF a, b

\* How far ahead place a is of place b.
LEMMA Distance ==
  ASSUME NEW n \in Nat \ {0}, NEW a \in 0..n-1, NEW b \in 0..n-1
  PROVE  /\ (a + n - b) % n \in 0..n-1 /\ Past(n, b, (a + n - b) % n) = a
         /\ \A j \in 0..n-1 : Past(n, b, j) = a => j = (a + n - b) % n
<1> DEFINE d == (a + n - b) % n
<1>1. d = (IF a >= b THEN a - b ELSE a - b + n) /\ d \in 0..n-1
  <2>1. CASE a >= b
    BY <2>1
  <2>2. CASE a < b
    BY <2>2
  <2> QED
    BY <2>1, <2>2
<1> HIDE DEF d
<1>2. Past(n, b, d) = (IF b + d < n THEN b + d ELSE b + d - n)
  BY <1>1, PastValue
<1>3. Past(n, b, d) = a
  BY <1>1, <1>2
<1>4. ASSUME NEW j \in 0..n-1, Past(n, b, j) = a PROVE j = d
  <2>1. Past(n, b, j) = (IF b + j < n THEN b + j ELSE b + j - n)
    BY PastValue
  <2> QED
    BY <1>1, <1>4, <2>1
<1> QED
  BY <1>1, <1>3, <1>4 DEF d

\* The cnt places after place `from` hold base + 1, base + 2, ...
Run(n, mem, from, base, cnt) == \A k \in 1..cnt : mem[Past(n, from, k)] = base + k

LEMMA RunPut ==
  ASSUME NEW n \in Nat \ {0}, NEW mem, NEW from \in 0..n-1,
         NEW base \in Nat, NEW cnt \in 0..n-1, Run(n, mem, from, base, cnt),
         NEW mem2, \A p \in 0..n-1 : mem2[p] = IF p = Past(n, from, cnt + 1)
                                              THEN base + (cnt + 1) ELSE mem[p]
  PROVE  Run(n, mem2, from, base, cnt + 1)
<1> DEFINE at == Past(n, from, cnt + 1)
<1>1. cnt + 1 \in 0..n
  OBVIOUS
<1>2. at \in 0..n-1
  BY <1>1, PastValue
<1>3. ASSUME NEW k \in 1..cnt+1 PROVE mem2[Past(n, from, k)] = base + k
  <2>1. k \in 0..n /\ Past(n, from, k) \in 0..n-1
    <3>1. k \in 0..n
      OBVIOUS
    <3> QED
      BY <3>1, PastValue
  <2>2. CASE k = cnt + 1
    <3>1. mem2[at] = base + (cnt + 1)
      BY <1>2
    <3> QED
      BY <2>2, <3>1
  <2>3. CASE k # cnt + 1
    <3>1. k \in 1..cnt /\ k < cnt + 1 /\ (cnt + 1) - k < n
      BY <2>3
    <3>2. Past(n, from, k) # at
      BY <1>1, <2>1, <3>1, PastDiffers
    <3>3. mem[Past(n, from, k)] = base + k
      BY <3>1 DEF Run
    <3> QED
      BY <2>1, <3>2, <3>3
  <2> QED
    BY <2>2, <2>3
<1> QED
  BY <1>3 DEF Run

LEMMA RunTake ==
  ASSUME NEW n \in Nat \ {0}, NEW mem, NEW from \in 0..n-1,
         NEW base \in Nat, NEW cnt \in 1..n, Run(n, mem, from, base, cnt),
         NEW at, at = Past(n, from, 1)
  PROVE  /\ at \in 0..n-1 /\ mem[at] = base + 1
         /\ Past(n, at, cnt - 1) = Past(n, from, cnt)
         /\ Run(n, mem, at, base + 1, cnt - 1)
<1>1. at \in 0..n-1
  BY PastEnds
<1>2. 1 \in 1..cnt
  OBVIOUS
<1>3. mem[at] = base + 1
  BY <1>2 DEF Run
<1>4. \A k \in 0..cnt-1 : k \in 0..n-1 /\ k + 1 \in 1..cnt
  OBVIOUS
<1>5. \A k \in 0..cnt-1 : Past(n, at, k) = Past(n, from, k + 1)
  BY <1>4, PastNext
<1>6. cnt - 1 \in 0..cnt-1 /\ (cnt - 1) + 1 = cnt
  OBVIOUS
<1>7. ASSUME NEW k \in 1..cnt-1 PROVE mem[Past(n, at, k)] = (base + 1) + k
  <2>1. k \in 0..cnt-1 /\ k + 1 \in 1..cnt /\ (base + 1) + k = base + (k + 1)
    OBVIOUS
  <2> QED
    BY <1>5, <2>1 DEF Run
<1>8. Past(n, at, cnt - 1) = Past(n, from, cnt)
  BY <1>5, <1>6
<1> QED
  BY <1>1, <1>3, <1>7, <1>8 DEF Run

-----------------------------------------------------------------------------
(***************************************************************************)
(* Verbs and responses.                                                    *)
(***************************************************************************)

\* Responses hda_send_cmd has taken out of the RIRB.
Read == sent - timeouts - (IF pc = "poll" THEN 1 ELSE 0)

\* The codec has answered a verbs: the verbs after them lie in the CORB, the
\* responses not yet taken in the RIRB, both in order.
CodecAt(a) ==
  /\ Read <= a /\ a <= sent
  /\ corb_wp = Past(WpMod, codec_rp, sent - a) /\ Run(WpMod, corb, codec_rp, a, sent - a)
  /\ rirb_wp = Past(RirbSize, rirb_rp, a - Read) /\ Run(RirbSize, rirb, rirb_rp, Read, a - Read)

VerbTypeOK ==
  /\ corb_wp \in 0..WpMod-1 /\ codec_rp \in 0..WpMod-1
  /\ rirb_wp \in 0..RirbSize-1 /\ rirb_rp \in 0..RirbSize-1
  /\ corb \in [0..WpMod-1 -> Nat] /\ rirb \in [0..RirbSize-1 -> Nat]
  /\ sent \in Nat /\ timeouts \in Nat /\ answer \in Nat

VerbInv ==
  /\ VerbTypeOK
  /\ ~hda_up => pc \notin {"send", "poll"} /\ sent = 0 /\ timeouts = 0
  /\ timeouts < RirbSize => Read \in Nat /\ \E a \in Nat : CodecAt(a)
  /\ pc \notin {"send", "poll"} => answer = 0
  /\ AnswersLag

LEMMA ReadValue ==
  /\ pc = "poll" => Read = sent - timeouts - 1
  /\ pc # "poll" => Read = sent - timeouts - 0
  BY Zenon DEF Read

LEMMA RingSizes ==
  /\ WpMod \in Nat \ {0} /\ RirbSize \in Nat \ {0} /\ RirbSize <= WpMod
  /\ 0 \in 0..WpMod-1 /\ 0 \in 0..RirbSize-1
  BY HdaAssumption

\* With both rings empty nothing is under way.
LEMMA NothingSent ==
  ASSUME sent = 0, timeouts = 0, pc # "poll",
         corb_wp = 0, codec_rp = 0, rirb_wp = 0, rirb_rp = 0
  PROVE  Read = 0 /\ CodecAt(0)
<1>1. Read = 0
  BY ReadValue
<1>2. Past(WpMod, 0, 0) = 0 /\ Past(RirbSize, 0, 0) = 0
  BY RingSizes, PastEnds
<1>3. Run(WpMod, corb, 0, 0, 0) /\ Run(RirbSize, rirb, 0, 0, 0)
  BY DEF Run
<1> QED
  BY <1>1, <1>2, <1>3 DEF CodecAt

LEMMA VerbInit == AudioInit => VerbInv
<1> SUFFICES ASSUME AudioInit PROVE VerbInv
  OBVIOUS
<1> USE DEF AudioInit, HdaInit
<1>1. Read = 0 /\ CodecAt(0)
  BY NothingSent
<1>2. VerbTypeOK
  BY RingSizes DEF VerbTypeOK
<1>3. AnswersLag
  BY DEF AnswersLag
<1> QED
  BY <1>1, <1>2, <1>3 DEF VerbInv

\* Steps that leave the rings alone.
LEMMA VerbQuiet ==
  ASSUME VerbInv, UNCHANGED <<hda_up, corb_wp, rirb_rp, corb, codec, sent, timeouts>>,
         (pc # "poll" /\ pc' # "poll") \/ pc' = pc,
         pc' = "send" => hda_up,
         answer' = 0 \/ (pc' = pc /\ answer' = answer)
  PROVE  VerbInv'
<1>0. UNCHANGED <<codec_rp, rirb_wp, rirb>>
  BY DEF codec
<1>1. Read' = Read
  BY DEF Read
<1>2. \A a \in Nat : CodecAt(a) => CodecAt(a)'
  BY <1>0, <1>1 DEF CodecAt
<1>3. VerbTypeOK'
  BY <1>0 DEF VerbInv, VerbTypeOK
<1>4. AnswersLag'
  BY DEF VerbInv, AnswersLag
<1>5. ~hda_up' => pc' \notin {"send", "poll"} /\ sent' = 0 /\ timeouts' = 0
  BY DEF VerbInv
<1>6. timeouts' < RirbSize => Read' \in Nat /\ \E a \in Nat : CodecAt(a)'
  BY <1>1, <1>2 DEF VerbInv
<1>7. pc' \notin {"send", "poll"} => answer' = 0
  BY DEF VerbInv
<1> QED
  BY <1>3, <1>4, <1>5, <1>6, <1>7 DEF VerbInv

LEMMA VerbInitCall == ASSUME VerbInv, InitCall PROVE VerbInv'
<1>1. /\ ~hda_up /\ pc = "idle" /\ answer = 0 /\ sent = 0 /\ timeouts = 0
      /\ UNCHANGED <<corb, rirb, sent, timeouts, answer>>
      /\ corb_wp' = 0 /\ codec_rp' = 0 /\ rirb_wp' = 0 /\ rirb_rp' = 0
  BY DEF InitCall, Calls, VerbInv
<1>2. pc' = "idle" \/ (pc' = "send" /\ hda_up' = TRUE)
  BY <1>1 DEF InitCall, Calls, control
<1>3. Read' = 0 /\ CodecAt(0)'
  <2>1. Read' = 0
    <3>1. Read' = sent' - timeouts' - 0
      BY <1>2, Zenon DEF Read
    <3> QED
      BY <1>1, <3>1
  <2>2. Past(WpMod, 0, 0) = 0 /\ Past(RirbSize, 0, 0) = 0
    BY RingSizes, PastEnds
  <2>3. Run(WpMod, corb', 0, 0, 0) /\ Run(RirbSize, rirb', 0, 0, 0)
    BY DEF Run
  <2> QED
    BY <1>1, <2>1, <2>2, <2>3 DEF CodecAt
<1>4. VerbTypeOK'
  BY <1>1, RingSizes DEF VerbInv, VerbTypeOK
<1>5. AnswersLag'
  BY <1>1 DEF AnswersLag
<1> QED
  BY <1>1, <1>2, <1>3, <1>4, <1>5 DEF VerbInv

LEMMA VerbSend == ASSUME VerbInv, SendCmd PROVE VerbInv'
<1>1. /\ pc = "send" /\ pc' = "poll" /\ hda_up /\ sent' = sent + 1
      /\ corb_wp' = Past(WpMod, corb_wp, 1) /\ corb' = [corb EXCEPT ![corb_wp'] = sent + 1]
      /\ UNCHANGED <<hda_up, rirb_rp, codec_rp, rirb_wp, rirb, timeouts, answer>>
  BY DEF SendCmd, Past, codec
<1>2. VerbTypeOK
  BY DEF VerbInv
<1>3. corb_wp' \in 0..WpMod-1
  BY <1>1, <1>2, RingSizes, PastEnds DEF VerbTypeOK
<1>4. VerbTypeOK'
  BY <1>1, <1>2, <1>3 DEF VerbTypeOK
<1>5. ASSUME timeouts < RirbSize PROVE Read' \in Nat /\ \E a \in Nat : CodecAt(a)'
  <2>1. PICK a \in Nat : CodecAt(a)
    BY <1>5 DEF VerbInv
  <2>2. Read \in Nat /\ Read = sent - timeouts /\ Read' = Read
    BY <1>1, <1>2, <1>5 DEF VerbInv, Read, VerbTypeOK
  <2>3. sent - a \in 0..WpMod-1
    BY <1>2, <1>5, <2>1, <2>2, RingSizes DEF CodecAt, VerbTypeOK
  <2>4. a + ((sent - a) + 1) = sent + 1 /\ (sent - a) + 1 = sent' - a /\ a <= sent'
    BY <1>1, <1>2, <2>1 DEF CodecAt, VerbTypeOK
  <2>5. /\ corb_wp' = Past(WpMod, codec_rp, (sent - a) + 1)
        /\ Run(WpMod, corb', codec_rp, a, (sent - a) + 1)
    <3> DEFINE c == sent - a
    <3>1. /\ WpMod \in Nat \ {0} /\ corb \in [0..WpMod-1 -> Nat] /\ codec_rp \in 0..WpMod-1
          /\ c \in 0..WpMod-1 /\ Run(WpMod, corb, codec_rp, a, c)
          /\ corb_wp' = Past(WpMod, Past(WpMod, codec_rp, c), 1)
      BY <1>1, <1>2, <2>1, <2>3, RingSizes DEF CodecAt, VerbTypeOK
    <3>2. \A p \in 0..WpMod-1 : corb'[p] = IF p = corb_wp' THEN a + (c + 1) ELSE corb[p]
      BY <1>1, <1>3, <2>4, <3>1
    <3> HIDE DEF c
    <3>3. corb_wp' = Past(WpMod, codec_rp, c + 1)
      BY <3>1, PastNext
    <3>4. Run(WpMod, corb', codec_rp, a, c + 1)
      BY <3>1, <3>2, <3>3, RunPut
    <3> QED
      BY <3>3, <3>4 DEF c
  <2>6. CodecAt(a)'
    BY <1>1, <2>1, <2>2, <2>4, <2>5 DEF CodecAt
  <2> QED
    BY <2>2, <2>6
<1>6. AnswersLag'
  BY <1>1 DEF AnswersLag
<1> QED
  BY <1>1, <1>4, <1>5, <1>6 DEF VerbInv

LEMMA VerbHit == ASSUME VerbInv, PollHit PROVE VerbInv'
<1>1. /\ pc = "poll" /\ pc' = "send" /\ rirb_wp # rirb_rp
      /\ rirb_rp' = Past(RirbSize, rirb_rp, 1) /\ answer' = rirb[rirb_rp']
      /\ UNCHANGED <<hda_up, corb_wp, corb, codec_rp, rirb_wp, rirb, sent, timeouts>>
  BY DEF PollHit, Past, codec
<1>2. VerbTypeOK /\ hda_up
  BY <1>1 DEF VerbInv
<1>3. rirb_rp' \in 0..RirbSize-1
  BY <1>1, <1>2, RingSizes, PastEnds DEF VerbTypeOK
<1>4. VerbTypeOK'
  BY <1>1, <1>2, <1>3 DEF VerbTypeOK
<1>5. ASSUME timeouts < RirbSize
      PROVE  Read' \in Nat /\ (\E a \in Nat : CodecAt(a)') /\ answer' = sent - timeouts
  <2>1. PICK a \in Nat : CodecAt(a)
    BY <1>5 DEF VerbInv
  <2>2. Read \in Nat /\ Read = sent - timeouts - 1 /\ Read' = Read + 1 /\ Read' = sent - timeouts
    BY <1>1, <1>2, <1>5 DEF VerbInv, Read, VerbTypeOK
  <2>3. a - Read \in 1..RirbSize
    <3>1. a - Read \in 0..RirbSize
      BY <1>2, <1>5, <2>1, <2>2, RingSizes DEF CodecAt, VerbTypeOK
    <3>2. a - Read # 0
      BY <1>1, <1>2, <2>1, RingSizes, PastEnds DEF CodecAt, VerbTypeOK
    <3> QED
      BY <3>1, <3>2
  <2>4. /\ rirb[rirb_rp'] = Read + 1
        /\ Past(RirbSize, rirb_rp', (a - Read) - 1) = Past(RirbSize, rirb_rp, a - Read)
        /\ Run(RirbSize, rirb, rirb_rp', Read + 1, (a - Read) - 1)
    <3>1. /\ RirbSize \in Nat \ {0} /\ rirb_rp \in 0..RirbSize-1
          /\ Run(RirbSize, rirb, rirb_rp, Read, a - Read)
          /\ rirb_rp' = Past(RirbSize, rirb_rp, 1)
      BY <1>1, <1>2, <2>1, RingSizes DEF CodecAt, VerbTypeOK
    <3> QED
      BY <2>2, <2>3, <3>1, RunTake
  <2>5. (a - Read) - 1 = a - Read' /\ Read' <= a
    BY <2>2, <2>3
  <2>6. CodecAt(a)'
    BY <1>1, <2>1, <2>2, <2>4, <2>5 DEF CodecAt
  <2> QED
    BY <1>1, <2>2, <2>4, <2>6
<1>6. AnswersLag'
  BY <1>1, <1>5 DEF AnswersLag
<1> QED
  BY <1>1, <1>2, <1>4, <1>5, <1>6 DEF VerbInv

LEMMA VerbTimeout == ASSUME VerbInv, PollTimeout PROVE VerbInv'
<1>1. /\ pc = "poll" /\ pc' = "send" /\ timeouts' = timeouts + 1 /\ answer' = 0
      /\ UNCHANGED <<hda_up, corb_wp, rirb_rp, corb, codec_rp, rirb_wp, rirb, sent>>
  BY DEF PollTimeout, codec
<1>2. VerbTypeOK /\ hda_up
  BY <1>1 DEF VerbInv
<1>3. VerbTypeOK'
  BY <1>1, <1>2 DEF VerbTypeOK
<1>4. Read' = Read
  BY <1>1, <1>2 DEF Read, VerbTypeOK
<1>5. \A a \in Nat : CodecAt(a) => CodecAt(a)'
  BY <1>1, <1>4 DEF CodecAt
<1>6. timeouts' < RirbSize => timeouts < RirbSize
  BY <1>1, <1>2, RingSizes DEF VerbTypeOK
<1>7. timeouts' < RirbSize => Read' \in Nat /\ \E a \in Nat : CodecAt(a)'
  BY <1>4, <1>5, <1>6 DEF VerbInv
<1>8. AnswersLag'
  BY <1>1 DEF AnswersLag
<1> QED
  BY <1>1, <1>2, <1>3, <1>7, <1>8 DEF VerbInv

LEMMA VerbAnswer == ASSUME VerbInv, CodecAnswer PROVE VerbInv'
<1>1. /\ codec_rp # corb_wp
      /\ codec_rp' = Past(WpMod, codec_rp, 1) /\ rirb_wp' = Past(RirbSize, rirb_wp, 1)
      /\ rirb' = [rirb EXCEPT ![rirb_wp'] = corb[codec_rp']]
      /\ UNCHANGED <<pc, hda_up, corb_wp, rirb_rp, corb, sent, timeouts, answer>>
  BY DEF CodecAnswer, Past, control
<1>2. VerbTypeOK
  BY DEF VerbInv
<1>3. codec_rp' \in 0..WpMod-1 /\ rirb_wp' \in 0..RirbSize-1
  BY <1>1, <1>2, RingSizes, PastEnds DEF VerbTypeOK
<1>4. VerbTypeOK'
  BY <1>1, <1>2, <1>3 DEF VerbTypeOK
<1>5. Read' = Read
  BY <1>1 DEF Read
<1>6. ASSUME timeouts < RirbSize PROVE Read' \in Nat /\ \E a \in Nat : CodecAt(a)'
  <2>1. PICK a \in Nat : CodecAt(a)
    BY <1>6 DEF VerbInv
  <2>2. Read \in Nat /\ sent - Read <= timeouts + 1
    BY <1>2, <1>6 DEF VerbInv, Read, VerbTypeOK
  <2>3. sent - a \in 1..WpMod /\ a - Read \in 0..RirbSize-1
    <3>1. sent - a \in 0..WpMod /\ a - Read \in Nat /\ (sent - a) + (a - Read) <= RirbSize
      <4>1. Read <= a /\ a <= sent /\ sent \in Nat /\ timeouts \in Nat
        BY <1>2, <2>1 DEF CodecAt, VerbTypeOK
      <4> QED
        BY <1>6, <2>2, <4>1, RingSizes
    <3>2. sent - a # 0
      BY <1>1, <1>2, <2>1, RingSizes, PastEnds DEF CodecAt, VerbTypeOK
    <3> QED
      BY <3>1, <3>2, RingSizes
  <2>4. /\ corb[codec_rp'] = a + 1
        /\ Past(WpMod, codec_rp', (sent - a) - 1) = Past(WpMod, codec_rp, sent - a)
        /\ Run(WpMod, corb, codec_rp', a + 1, (sent - a) - 1)
    <3>1. /\ WpMod \in Nat \ {0} /\ codec_rp \in 0..WpMod-1
          /\ Run(WpMod, corb, codec_rp, a, sent - a)
          /\ codec_rp' = Past(WpMod, codec_rp, 1)
      BY <1>1, <1>2, <2>1, RingSizes DEF CodecAt, VerbTypeOK
    <3> QED
      BY <2>3, <3>1, RunTake
  <2>5. /\ Read + ((a - Read) + 1) = a + 1 /\ (a - Read) + 1 = (a + 1) - Read
        /\ (sent - a) - 1 = sent - (a + 1) /\ Read <= a + 1 /\ a + 1 <= sent
    BY <1>2, <2>2, <2>3 DEF VerbTypeOK
  <2>6. /\ rirb_wp' = Past(RirbSize, rirb_rp, (a - Read) + 1)
        /\ Run(RirbSize, rirb', rirb_rp, Read, (a - Read) + 1)
    <3> DEFINE c == a - Read
    <3>1. /\ RirbSize \in Nat \ {0} /\ rirb \in [0..RirbSize-1 -> Nat]
          /\ rirb_rp \in 0..RirbSize-1 /\ Read \in Nat /\ c \in 0..RirbSize-1
          /\ Run(RirbSize, rirb, rirb_rp, Read, c)
          /\ rirb_wp' = Past(RirbSize, Past(RirbSize, rirb_rp, c), 1)
      BY <1>1, <1>2, <2>1, <2>2, <2>3, RingSizes DEF CodecAt, VerbTypeOK
    <3>2. \A p \in 0..RirbSize-1 : rirb'[p] = IF p = rirb_wp' THEN Read + (c + 1) ELSE rirb[p]
      BY <1>1, <1>3, <2>4, <2>5, <3>1
    <3> HIDE DEF c
    <3>3. rirb_wp' = Past(RirbSize, rirb_rp, c + 1)
      BY <3>1, PastNext
    <3>4. Run(RirbSize, rirb', rirb_rp, Read, c + 1)
      BY <3>1, <3>2, <3>3, RunPut
    <3> QED
      BY <3>3, <3>4 DEF c
  <2>7. CodecAt(a + 1)'
    BY <1>1, <1>5, <2>1, <2>4, <2>5, <2>6 DEF CodecAt
  <2> QED
    BY <1>5, <2>2, <2>7
<1>7. AnswersLag'
  BY <1>1 DEF VerbInv, AnswersLag
<1> QED
  BY <1>1, <1>4, <1>6, <1>7 DEF VerbInv

LEMMA VerbStep == ASSUME VerbInv, [AudioNext]_audioVars PROVE VerbInv'
<1>1. CASE HdaStep
  <2>1. CASE BeepCall
    BY <2>1, VerbQuiet DEF BeepCall, Calls, VerbInv
  <2> QED
    BY <1>1, <2>1, VerbInitCall, VerbSend, VerbHit, VerbTimeout, VerbAnswer DEF HdaStep
<1>2. CASE HdaReturn
  BY <1>2, VerbQuiet DEF HdaReturn
<1>3. CASE OpenCall
  BY <1>3, VerbQuiet DEF OpenCall, Calls, VerbInv
<1>4. CASE OpenDone
  BY <1>4, VerbQuiet DEF OpenDone, PcmStart
<1>5. CASE AdvanceCall \/ AdvanceWait \/ RenderDone
  BY <1>5, VerbQuiet DEF AdvanceCall, AdvanceWait, RenderDone, VerbInv
<1>6. CASE UNCHANGED hdaVars
  <2>1. UNCHANGED <<pc, hda_up, corb_wp, rirb_rp, corb, codec, sent, timeouts, answer>>
    BY <1>6 DEF hdaVars, control
  <2> QED
    BY <2>1, VerbQuiet DEF VerbInv
<1>7. ASSUME CloseCall \/ Emulate \/ (\E level \in Levels : EdgeSet(level)) \/ AdvanceShort
             \/ RenderSample \/ Play \/ UNCHANGED audioVars
      PROVE  UNCHANGED hdaVars
  BY <1>7 DEF CloseCall, Emulate, EdgeSet, AdvanceShort, RenderSample, Play, audioVars
<1> QED
  BY <1>1, <1>2, <1>3, <1>4, <1>5, <1>6, <1>7 DEF AudioNext

\* However the codec's answers and the polls interleave, hda_send_cmd returns
\* the response to the t-th verb before its own after t polls that gave up
\* (hda.c): for rings of any size, any number of verbs and of timeouts below
\* the size of the RIRB.
THEOREM AnswersLagHolds == AudioSpec => []AnswersLag
<1>1. VerbInv => AnswersLag
  BY DEF VerbInv
<1>2. VerbInv /\ [AudioNext]_audioVars => VerbInv'
  BY VerbStep
<1> QED
  BY <1>1, <1>2, VerbInit, PTL DEF AudioSpec

-----------------------------------------------------------------------------
(***************************************************************************)
(* The clock and the length of a frame.                                    *)
(***************************************************************************)

LEMMA DivMod ==
  ASSUME NEW x \in Nat, NEW Q \in Nat, Q > 0
  PROVE  x \div Q \in Nat /\ x % Q \in 0..Q-1 /\ x = (x \div Q) * Q + (x % Q)
OBVIOUS

LEMMA ProductNat == ASSUME NEW a \in Nat, NEW b \in Nat PROVE a * b \in Nat
OBVIOUS

LEMMA ProductStep ==
  ASSUME NEW q \in Nat, NEW k \in Nat, q <= k, NEW E \in Nat
  PROVE  q * E <= k * E /\ (q < k => q * E + E <= k * E)
<1>1. q * E <= k * E
  <2>1. PICK d \in Nat : k = q + d
    <3>1. k - q \in Nat /\ k = q + (k - q)
      OBVIOUS
    <3> QED
      BY <3>1
  <2>2. k * E = q * E + d * E
    BY <2>1
  <2> QED
    BY <2>2, ProductNat
<1>2. ASSUME q < k PROVE q * E + E <= k * E
  <2>1. PICK d \in Nat : k = q + 1 + d
    <3>1. k - q - 1 \in Nat /\ k = q + 1 + (k - q - 1)
      BY <1>2
    <3> QED
      BY <3>1
  <2>2. k * E = q * E + E + d * E
    BY <2>1
  <2> QED
    BY <2>2, ProductNat
<1> QED
  BY <1>1, <1>2

LEMMA DivMonotone ==
  ASSUME NEW x \in Nat, NEW y \in Nat, x <= y, NEW Q \in Nat, Q > 0
  PROVE  x \div Q <= y \div Q
<1> DEFINE a == x \div Q
           b == y \div Q
           r == x % Q
           z == y % Q
<1>1. a \in Nat /\ r \in 0..Q-1 /\ x = a * Q + r
  BY DivMod
<1>2. b \in Nat /\ z \in 0..Q-1 /\ y = b * Q + z
  BY DivMod
<1> HIDE DEF a, b, r, z
<1>3. ASSUME b < a PROVE FALSE
  <2>1. b * Q + Q <= a * Q /\ a * Q \in Nat /\ b * Q \in Nat
    BY <1>1, <1>2, <1>3, ProductStep, ProductNat
  <2> DEFINE A == a * Q
             B == b * Q
  <2>2. B + Q <= A /\ A \in Nat /\ B \in Nat /\ x = A + r /\ y = B + z
    BY <1>1, <1>2, <2>1
  <2> HIDE DEF A, B
  <2> QED
    BY <1>1, <1>2, <2>2
<1>4. a <= b
  BY <1>1, <1>2, <1>3
<1> QED
  BY <1>4 DEF a, b

LEMMA SampleOfNat == \A c \in Nat : SampleOf(c) \in Nat
<1> SUFFICES ASSUME NEW c \in Nat PROVE SampleOf(c) \in Nat
  OBVIOUS
<1>1. c * Rate \in Nat
  BY ProductNat, AudioAssumption
<1> QED
  BY <1>1, DivMod, AudioAssumption DEF SampleOf

LEMMA SampleOfMonotone == \A c, d \in Nat : c <= d => SampleOf(c) <= SampleOf(d)
<1> SUFFICES ASSUME NEW c \in Nat, NEW d \in Nat, c <= d PROVE SampleOf(c) <= SampleOf(d)
  OBVIOUS
<1>1. c * Rate \in Nat /\ d * Rate \in Nat /\ c * Rate <= d * Rate
  BY ProductNat, ProductStep, AudioAssumption
<1> QED
  BY <1>1, DivMonotone, AudioAssumption DEF SampleOf

\* A frame that is waited for or rendered has samples.
ClockInv ==
  /\ clock \in 0..MaxCycle /\ total_samples \in Nat /\ total_samples <= SampleOf(clock)
  /\ pc \in {"wait", "render"} => total_samples < SampleOf(clock)

LEMMA ClockInit == AudioInit => ClockInv
<1>1. SampleOf(0) \in Nat
  BY SampleOfNat
<1> QED
  BY <1>1, AudioAssumption DEF AudioInit, HdaInit, ClockInv

LEMMA ClockQuiet ==
  ASSUME ClockInv, UNCHANGED <<clock, total_samples>>,
         pc' = pc \/ pc' \notin {"wait", "render"} \/ total_samples < SampleOf(clock)
  PROVE  ClockInv'
  BY DEF ClockInv, SampleOf

LEMMA ClockStep == ASSUME ClockInv, [AudioNext]_audioVars PROVE ClockInv'
<1>0. clock \in Nat /\ clock \in 0..MaxCycle /\ MaxCycle \in Nat /\ SampleOf(clock) \in Nat
  BY SampleOfNat, AudioAssumption DEF ClockInv
<1>1. CASE HdaStep \/ HdaReturn \/ OpenCall
  <2>1. UNCHANGED <<clock, total_samples>>
    BY <1>1 DEF HdaStep, HdaReturn, OpenCall, edgeVars
  <2>2. pc' = pc \/ pc' \notin {"wait", "render"}
    BY <1>1 DEF HdaStep, HdaReturn, OpenCall, InitCall, BeepCall, SendCmd, PollHit, PollTimeout,
                CodecAnswer, Calls, control
  <2> QED
    BY <2>1, <2>2, ClockQuiet
<1>2. CASE OpenDone
  BY <1>0, <1>2 DEF OpenDone, ClockInv, SampleOf
<1>3. CASE Emulate
  <2>1. clock' = clock + 1 /\ clock' \in 0..MaxCycle /\ clock' \in Nat /\ clock <= clock'
        /\ pc' = "idle" /\ total_samples' = total_samples
    BY <1>0, <1>3 DEF Emulate, hdaVars, control, edgeVars
  <2>2. SampleOf(clock) <= SampleOf(clock') /\ SampleOf(clock') \in Nat
    BY <1>0, <2>1, SampleOfMonotone, SampleOfNat
  <2>3. SampleOf(clock)' = SampleOf(clock')
    BY DEF SampleOf
  <2> QED
    BY <1>0, <2>1, <2>2, <2>3 DEF ClockInv
<1>4. CASE CloseCall \/ (\E level \in Levels : EdgeSet(level)) \/ AdvanceShort
           \/ RenderSample \/ Play \/ UNCHANGED audioVars
  <2>1. UNCHANGED <<clock, total_samples, pc>>
    BY <1>4 DEF CloseCall, EdgeSet, AdvanceShort, RenderSample, Play, audioVars,
                hdaVars, control, edgeVars
  <2> QED
    BY <2>1, ClockQuiet
<1>5. CASE AdvanceCall
  BY <1>5, ClockQuiet DEF AdvanceCall, edgeVars
<1>6. CASE AdvanceWait
  <2>1. CASE UNCHANGED total_samples
    BY <1>6, <2>1, ClockQuiet DEF AdvanceWait, ClockInv
  <2>2. CASE total_samples' = SampleOf(clock) /\ pc' = "idle"
    BY <1>0, <1>6, <2>2 DEF AdvanceWait, ClockInv, SampleOf
  <2> QED
    BY <1>6, <2>1, <2>2 DEF AdvanceWait
<1>7. CASE RenderDone
  BY <1>0, <1>7 DEF RenderDone, ClockInv, SampleOf
<1> QED
  BY <1>1, <1>2, <1>3, <1>4, <1>5, <1>6, <1>7 DEF AudioNext

LEMMA FrameSize ==
  ASSUME ClockInv
  PROVE  /\ Frame \in 0..RingN-1
         /\ pc \in {"wait", "render"} => Frame \in 1..RingN-1
         /\ total_samples + Frame <= SampleOf(clock)
<1>1. SampleOf(clock) \in Nat /\ total_samples \in Nat /\ total_samples <= SampleOf(clock)
  BY SampleOfNat, AudioAssumption DEF ClockInv
<1>2. RingN \in Nat \ {0, 1}
  BY AudioAssumption
<1> DEFINE S == SampleOf(clock)
<1>3. Frame = IF S - total_samples > RingN - 1 THEN RingN - 1 ELSE S - total_samples
  BY DEF Frame
<1>4. pc \in {"wait", "render"} => total_samples < S
  BY DEF ClockInv
<1> HIDE DEF S
<1> QED
  BY <1>1, <1>2, <1>3, <1>4 DEF S

-----------------------------------------------------------------------------
(***************************************************************************)
(* Samples that wait in the ring.                                          *)
(***************************************************************************)

\* The w places before the f-th after place `from` are those in `set`, and what
\* they hold is numbered up to `last`.
Lies(n, set, mem, from, f, w, last) ==
  \A j \in 0..n-1 :
    /\ Past(n, from, j) \in set <=> f - w <= j /\ j < f
    /\ f - w <= j /\ j < f => mem[Past(n, from, j)].n = last - f + j + 1

LEMMA LiesNone ==
  ASSUME NEW n \in Nat \ {0}, NEW mem, NEW from, NEW f \in 0..n-1, NEW last
  PROVE  Lies(n, {}, mem, from, f, 0, last)
  BY DEF Lies

LEMMA LiesPut ==
  ASSUME NEW n \in Nat \ {0}, NEW set, NEW mem, NEW from \in 0..n-1, NEW f \in 0..n-1,
         f + 1 <= n - 1, NEW w \in 0..f, NEW last \in Nat, Lies(n, set, mem, from, f, w, last),
         NEW at, at = Past(n, from, f), NEW mem2,
         \A p \in 0..n-1 : mem2[p].n = IF p = at THEN last + 1 ELSE mem[p].n
  PROVE  /\ at \notin set
         /\ Lies(n, set \cup {at}, mem2, from, f + 1, w + 1, last + 1)
<1>1. at \notin set
  BY DEF Lies
<1>2. ASSUME NEW j \in 0..n-1
      PROVE  /\ Past(n, from, j) \in set \cup {at} <=> (f + 1) - (w + 1) <= j /\ j < f + 1
             /\ (f + 1) - (w + 1) <= j /\ j < f + 1
                  => mem2[Past(n, from, j)].n = (last + 1) - (f + 1) + j + 1
  <2>1. Past(n, from, j) \in 0..n-1
    <3>1. j \in 0..n
      OBVIOUS
    <3> QED
      BY <3>1, PastValue
  <2>2. /\ Past(n, from, j) \in set <=> f - w <= j /\ j < f
        /\ f - w <= j /\ j < f => mem[Past(n, from, j)].n = last - f + j + 1
    BY DEF Lies
  <2>3. (f + 1) - (w + 1) = f - w /\ (last + 1) - (f + 1) + j + 1 = last - f + j + 1
    OBVIOUS
  <2>4. CASE j = f
    <3>1. mem2[at].n = last + 1 /\ last - f + j + 1 = last + 1
      BY <2>1, <2>4
    <3> QED
      BY <2>3, <2>4, <3>1
  <2>5. CASE j # f
    <3>1. Past(n, from, j) # at
      <4>1. CASE j < f
        BY <4>1, PastDiffers
      <4>2. CASE f < j
        BY <4>2, PastDiffers
      <4> QED
        BY <2>5, <4>1, <4>2
    <3>2. mem2[Past(n, from, j)].n = mem[Past(n, from, j)].n
      BY <2>1, <3>1
    <3>3. j < f + 1 <=> j < f
      BY <2>5
    <3> QED
      BY <2>2, <2>3, <3>1, <3>2, <3>3
  <2> QED
    BY <2>4, <2>5
<1> QED
  BY <1>1, <1>2 DEF Lies

\* Only place `at` may hold another number in mem2 than in mem.
SameBut(n, at, mem, mem2) == \A p \in 0..n-1 : p # at => mem2[p].n = mem[p].n

LEMMA LiesTake ==
  ASSUME NEW n \in Nat \ {0}, NEW set, NEW mem, NEW from \in 0..n-1, NEW f \in 1..n-1,
         NEW w \in 0..f, NEW last \in Nat, Lies(n, set, mem, from, f, w, last),
         NEW mem2, SameBut(n, from, mem, mem2)
  PROVE  /\ from \in set <=> w = f
         /\ w = f => mem[from].n = last - f + 1
         /\ w = f => Lies(n, set \ {from}, mem2, Past(n, from, 1), f - 1, w - 1, last)
         /\ w # f => Lies(n, set \ {from}, mem2, Past(n, from, 1), f - 1, w, last)
<1> DEFINE v == IF w = f THEN w - 1 ELSE w
           to == Past(n, from, 1)
           set2 == set \ {from}
<1>1. Past(n, from, 0) = from /\ Past(n, from, n) = from
  BY PastEnds
<1>2. 0 \in 0..n-1
  OBVIOUS
<1>3. /\ from \in set <=> f - w <= 0 /\ 0 < f
      /\ f - w <= 0 /\ 0 < f => mem[from].n = last - f + 0 + 1
  BY <1>1, <1>2 DEF Lies
<1>4. (f - w <= 0 /\ 0 < f <=> w = f) /\ last - f + 0 + 1 = last - f + 1
  OBVIOUS
<1>5. ASSUME NEW j \in 0..n-1
      PROVE  /\ Past(n, to, j) \in set2 <=> (f - 1) - v <= j /\ j < f - 1
             /\ (f - 1) - v <= j /\ j < f - 1
                  => mem2[Past(n, to, j)].n = last - (f - 1) + j + 1
  <2>1. Past(n, to, j) = Past(n, from, j + 1)
    BY PastNext
  <2>2. CASE j = n - 1
    <3>1. Past(n, to, j) = from
      BY <1>1, <2>1, <2>2
    <3>2. ~(j < f - 1)
      BY <2>2
    <3> QED
      BY <3>1, <3>2
  <2>3. CASE j # n - 1
    <3>1. j + 1 \in 0..n-1 /\ j + 1 \in 0..n /\ 0 \in 0..n /\ 0 < j + 1 /\ (j + 1) - 0 < n
      BY <2>3
    <3>2. Past(n, from, j + 1) \in 0..n-1 /\ Past(n, from, j + 1) # from
      <4>1. Past(n, from, j + 1) \in 0..n-1
        BY <3>1, PastValue
      <4>2. Past(n, from, 0) # Past(n, from, j + 1)
        BY <3>1, PastDiffers
      <4> QED
        BY <1>1, <4>1, <4>2
    <3>3. /\ Past(n, from, j + 1) \in set <=> f - w <= j + 1 /\ j + 1 < f
          /\ f - w <= j + 1 /\ j + 1 < f => mem[Past(n, from, j + 1)].n = last - f + (j + 1) + 1
      BY <3>1 DEF Lies
    <3>4. /\ f - w <= j + 1 <=> (f - 1) - v <= j
          /\ j + 1 < f <=> j < f - 1
          /\ last - f + (j + 1) + 1 = last - (f - 1) + j + 1
      OBVIOUS
    <3> QED
      BY <2>1, <3>2, <3>3, <3>4 DEF SameBut
  <2> QED
    BY <2>2, <2>3
<1>6. Lies(n, set2, mem2, to, f - 1, v, last)
  BY <1>5 DEF Lies
<1> QED
  BY <1>3, <1>4, <1>6

RingTypeOK ==
  /\ wp_frames \in Slots /\ lpib \in Slots /\ s \in Nat /\ written \in Nat /\ heard \in Nat
  /\ DOMAIN ring = Slots /\ (\A i \in Slots : ring[i].n \in Nat) /\ fresh \subseteq Slots

\* The writer is f places ahead of the stream, and the samples not yet played
\* are the ones right behind it.  What is left of a frame fits before the
\* sentinel slot.
FilledTo(f) ==
  /\ Past(RingN, lpib, f) = Past(RingN, wp_frames, s)
  /\ heard <= written /\ written - heard <= f
  /\ Lies(RingN, fresh, ring, lpib, f, written - heard, written)
  /\ Cardinality(fresh) = written - heard
  /\ pc = "render" => f + (Frame - s) <= RingN - 1

StreamInv ==
  /\ RingTypeOK
  /\ pc # "render" => s = 0
  /\ pc = "render" => s <= Frame
  /\ call = "open" => pc \in {"send", "poll"} /\ ~open
                      /\ fresh = {} /\ written = 0 /\ heard = 0
  /\ ~overtaken => \E f \in 0..RingN-1 : FilledTo(f)

LEMMA RingSize ==
  /\ RingN \in Nat \ {0, 1} /\ RingN \in Nat \ {0}
  /\ 0 \in 0..RingN-1 /\ 1 \in 0..RingN-1 /\ RingN - 1 \in 0..RingN-1
  /\ Slots = 0..RingN-1 /\ IsFiniteSet(Slots)
<1>1. RingN \in Nat \ {0, 1} /\ 0 \in Int /\ RingN - 1 \in Int
  BY AudioAssumption
<1>2. IsFiniteSet(Slots)
  BY <1>1, FS_Interval DEF Slots
<1> QED
  BY <1>1, <1>2 DEF Slots

LEMMA WriterAhead ==
  ASSUME NEW lp \in Slots, NEW wp \in Slots
  PROVE  \E f \in 0..RingN-1 : Past(RingN, lp, f) = Past(RingN, wp, 0)
<1>1. lp \in 0..RingN-1 /\ wp \in 0..RingN-1 /\ RingN \in Nat \ {0}
  BY RingSize
<1>2. Past(RingN, wp, 0) = wp
  BY <1>1, PastEnds
<1> QED
  BY <1>1, <1>2, Distance

LEMMA StreamInit == AudioInit => StreamInv
<1> SUFFICES ASSUME AudioInit PROVE StreamInv
  OBVIOUS
<1> USE DEF AudioInit, HdaInit
<1>1. RingTypeOK
  BY RingSize DEF RingTypeOK, Silence
<1>2. PICK f \in 0..RingN-1 : Past(RingN, lpib, f) = Past(RingN, wp_frames, 0)
  BY <1>1, WriterAhead DEF RingTypeOK
<1>3. Lies(RingN, fresh, ring, lpib, f, 0, written)
  BY RingSize, LiesNone
<1>4. FilledTo(f)
  BY <1>2, <1>3, RingSize, FS_EmptySet DEF FilledTo
<1> QED
  BY <1>1, <1>4 DEF StreamInv

\* Steps that leave the ring alone.
LEMMA StreamQuiet ==
  ASSUME StreamInv, UNCHANGED stream, s' = s,
         \/ pc # "render" /\ pc' # "render"
         \/ pc' = pc /\ UNCHANGED <<clock, total_samples>>,
         call' = "open" => call = "open" /\ pc' \in {"send", "poll"} /\ open' = open
  PROVE  StreamInv'
<1>0. UNCHANGED <<ring, wp_frames, lpib, fresh, written, heard, overtaken>>
  BY DEF stream
<1>1. pc' = "render" => pc = "render" /\ Frame' = Frame
  BY DEF Frame, SampleOf
<1>2. RingTypeOK'
  BY <1>0 DEF StreamInv, RingTypeOK
<1>3. \A f \in 0..RingN-1 : FilledTo(f) => FilledTo(f)'
  BY <1>0, <1>1 DEF FilledTo
<1> QED
  BY <1>0, <1>1, <1>2, <1>3 DEF StreamInv

LEMMA StreamOpenCall == ASSUME StreamInv, OpenCall PROVE StreamInv'
<1>1. /\ pc = "idle" /\ pc' = "send" /\ call' = "open" /\ ~open /\ open' = open /\ s' = s
      /\ ring' = [i \in Slots |-> Silence] /\ fresh' = {} /\ written' = 0 /\ heard' = 0
      /\ UNCHANGED <<wp_frames, lpib>>
  BY DEF OpenCall, Calls, locals
<1>2. RingTypeOK /\ s = 0
  BY <1>1 DEF StreamInv
<1>3. RingTypeOK'
  BY <1>1, <1>2 DEF RingTypeOK, Silence
<1>4. PICK f \in 0..RingN-1 : Past(RingN, lpib, f) = Past(RingN, wp_frames, 0)
  BY <1>2, WriterAhead DEF RingTypeOK
<1>5. Lies(RingN, fresh', ring', lpib', f, 0, written')
  BY <1>1, RingSize, LiesNone
<1>6. FilledTo(f)'
  BY <1>1, <1>2, <1>4, <1>5, RingSize, FS_EmptySet DEF FilledTo
<1> QED
  BY <1>1, <1>2, <1>3, <1>6 DEF StreamInv

LEMMA StreamOpenDone == ASSUME StreamInv, OpenDone PROVE StreamInv'
<1>1. /\ pc = "send" /\ pc' = "idle" /\ call = "open" /\ call' = "none" /\ s' = s
      /\ wp_frames' = Past(RingN, 0, RingN - 1)
      /\ UNCHANGED <<ring, lpib, fresh, written, heard>>
  BY DEF OpenDone, PcmStart, PcmAdvance, locals, Past
<1>2. RingTypeOK /\ s = 0 /\ fresh = {} /\ written = 0 /\ heard = 0
  BY <1>1 DEF StreamInv
<1>3. wp_frames' \in Slots
  <2>1. RingN - 1 \in 0..RingN
    BY RingSize
  <2> QED
    BY <1>1, <2>1, RingSize, PastValue
<1>4. RingTypeOK'
  BY <1>1, <1>2, <1>3 DEF RingTypeOK
<1>5. PICK f \in 0..RingN-1 : Past(RingN, lpib', f) = Past(RingN, wp_frames', 0)
  BY <1>4, WriterAhead DEF RingTypeOK
<1>6. Lies(RingN, fresh', ring', lpib', f, 0, written')
  BY <1>1, <1>2, RingSize, LiesNone
<1>7. FilledTo(f)'
  BY <1>1, <1>2, <1>5, <1>6, RingSize, FS_EmptySet DEF FilledTo
<1> QED
  BY <1>1, <1>2, <1>4, <1>7 DEF StreamInv

\* audio_pcm_writable counts the places between the writer and the sentinel.
LEMMA WritableRoom ==
  ASSUME RingTypeOK, s = 0, NEW f \in 0..RingN-1, Past(RingN, lpib, f) = Past(RingN, wp_frames, s)
  PROVE  Writable = RingN - 1 - f
<1>1. lpib \in 0..RingN-1 /\ wp_frames \in 0..RingN-1 /\ RingN \in Nat \ {0}
  BY RingSize DEF RingTypeOK
<1>2. Past(RingN, wp_frames, 0) = wp_frames
  BY <1>1, PastEnds
<1>3. f = (wp_frames + RingN - lpib) % RingN
  BY <1>1, <1>2, Distance
<1> QED
  BY <1>3 DEF Writable

LEMMA StreamAdvanceWait == ASSUME StreamInv, ClockInv, AdvanceWait PROVE StreamInv'
<1>1. /\ pc = "wait" /\ UNCHANGED <<call, open, stream, s>>
      /\ pc' \in {"render", "wait", "idle"}
  BY DEF AdvanceWait
<1>2. CASE pc' # "render"
  BY <1>1, <1>2, StreamQuiet DEF StreamInv
<1>3. CASE pc' = "render"
  <2>1. Writable >= Frame /\ UNCHANGED <<clock, total_samples>>
    BY <1>1, <1>3 DEF AdvanceWait
  <2>2. UNCHANGED <<ring, wp_frames, lpib, fresh, written, heard, overtaken>>
    BY <1>1 DEF stream
  <2>3. RingTypeOK /\ s = 0 /\ call # "open" /\ Frame \in 1..RingN-1
    BY <1>1, FrameSize DEF StreamInv
  <2>4. Frame' = Frame
    BY <2>1 DEF Frame, SampleOf
  <2>5. RingTypeOK'
    BY <1>1, <2>2, <2>3 DEF RingTypeOK
  <2>6. ASSUME NEW f \in 0..RingN-1, FilledTo(f) PROVE FilledTo(f)'
    <3>1. Writable = RingN - 1 - f
      BY <2>3, <2>6, WritableRoom DEF FilledTo
    <3>2. f + (Frame - s) <= RingN - 1
      BY <2>1, <2>3, <3>1, RingSize
    <3> QED
      BY <1>1, <2>2, <2>4, <2>6, <3>2 DEF FilledTo
  <2>7. 0 <= Frame
    BY <2>3
  <2> QED
    BY <1>1, <1>3, <2>2, <2>3, <2>4, <2>5, <2>6, <2>7 DEF StreamInv
<1> QED
  BY <1>2, <1>3

LEMMA StreamRenderSample == ASSUME StreamInv, ClockInv, RenderSample PROVE StreamInv'
<1> DEFINE slot == Past(RingN, wp_frames, s)
<1>1. /\ pc = "render" /\ s < Frame
      /\ ring' = [ring EXCEPT ![slot] = [n |-> written + 1, t |-> total_samples + s,
                                         lvl |-> RenderedLevel(s)]]
      /\ fresh' = fresh \cup {slot} /\ written' = written + 1 /\ s' = s + 1
      /\ UNCHANGED <<pc, call, open, clock, total_samples, wp_frames, lpib, heard, overtaken>>
  BY DEF RenderSample, Past, hdaVars, control, edgeVars
<1>2. RingTypeOK /\ call # "open" /\ Frame \in 1..RingN-1
  BY <1>1, FrameSize DEF StreamInv
<1>3. Frame' = Frame
  BY <1>1 DEF Frame, SampleOf
<1>4. s \in 0..RingN-1 /\ s \in 0..RingN /\ wp_frames \in 0..RingN-1 /\ lpib \in 0..RingN-1
  BY <1>1, <1>2, RingSize DEF RingTypeOK
<1>5. slot \in Slots
  BY <1>4, RingSize, PastValue
<1> HIDE DEF slot
<1>6. \A p \in Slots : ring'[p].n = IF p = slot THEN written + 1 ELSE ring[p].n
  BY <1>1, <1>2, <1>5 DEF RingTypeOK
<1>7. RingTypeOK'
  <2>1. DOMAIN ring' = Slots
    BY <1>1, <1>2 DEF RingTypeOK
  <2>2. \A i \in Slots : ring'[i].n \in Nat
    BY <1>2, <1>6 DEF RingTypeOK
  <2> QED
    BY <1>1, <1>2, <1>5, <2>1, <2>2 DEF RingTypeOK
<1>8. ASSUME ~overtaken PROVE \E f \in 0..RingN-1 : FilledTo(f)'
  <2>1. PICK f \in 0..RingN-1 : FilledTo(f)
    BY <1>8 DEF StreamInv
  <2>2. /\ slot = Past(RingN, lpib, f) /\ heard <= written /\ written - heard <= f
        /\ Lies(RingN, fresh, ring, lpib, f, written - heard, written)
        /\ Cardinality(fresh) = written - heard
        /\ f + (Frame - s) <= RingN - 1
    BY <1>1, <2>1 DEF FilledTo, slot
  <2>3. /\ f + 1 <= RingN - 1 /\ f + 1 \in 0..RingN-1 /\ written - heard \in 0..f
        /\ (f + 1) + (Frame - (s + 1)) <= RingN - 1
    BY <1>1, <1>2, <1>4, <2>2, RingSize DEF RingTypeOK
  <2>4. /\ slot \notin fresh
        /\ Lies(RingN, fresh', ring', lpib, f + 1, (written - heard) + 1, written + 1)
    <3> DEFINE w == written - heard
    <3>1. w \in 0..f /\ Lies(RingN, fresh, ring, lpib, f, w, written) /\ written \in Nat
      BY <1>2, <2>2, <2>3 DEF RingTypeOK
    <3> HIDE DEF w
    <3>2. \A p \in 0..RingN-1 : ring'[p].n = IF p = slot THEN written + 1 ELSE ring[p].n
      BY <1>6, RingSize
    <3>3. slot \notin fresh /\ Lies(RingN, fresh \cup {slot}, ring', lpib, f + 1, w + 1, written + 1)
      BY <1>4, <2>2, <2>3, <3>1, <3>2, RingSize, LiesPut
    <3> QED
      BY <1>1, <3>3 DEF w
  <2>5. Past(RingN, lpib, f + 1) = Past(RingN, wp_frames, s + 1)
    <3>1. /\ Past(RingN, Past(RingN, wp_frames, s), 1) = Past(RingN, wp_frames, s + 1)
          /\ Past(RingN, Past(RingN, lpib, f), 1) = Past(RingN, lpib, f + 1)
      BY <1>4, RingSize, PastNext
    <3> QED
      BY <2>2, <3>1 DEF slot
  <2>6. Cardinality(fresh') = (written - heard) + 1
    <3>1. IsFiniteSet(fresh)
      BY <1>2, RingSize, FS_Subset DEF RingTypeOK
    <3> QED
      BY <1>1, <2>2, <2>4, <3>1, FS_AddElement
  <2>7. /\ (written - heard) + 1 = written' - heard' /\ written' - heard' <= f + 1
        /\ heard' <= written'
    BY <1>1, <1>2, <2>2 DEF RingTypeOK
  <2>8. FilledTo(f + 1)'
    BY <1>1, <1>3, <2>3, <2>4, <2>5, <2>6, <2>7 DEF FilledTo
  <2> QED
    BY <2>3, <2>8
<1>9. s' <= Frame'
  BY <1>1, <1>2, <1>3 DEF RingTypeOK
<1> QED
  BY <1>1, <1>2, <1>7, <1>8, <1>9 DEF StreamInv

LEMMA StreamRenderDone == ASSUME StreamInv, ClockInv, RenderDone PROVE StreamInv'
<1>1. /\ pc = "render" /\ s = Frame /\ wp_frames' = Past(RingN, wp_frames, s)
      /\ pc' = "idle" /\ s' = 0 /\ call' = call
      /\ UNCHANGED <<ring, lpib, fresh, written, heard, overtaken>>
  BY DEF RenderDone, PcmAdvance, Past
<1>2. RingTypeOK /\ call # "open" /\ Frame \in 1..RingN-1
  BY <1>1, FrameSize DEF StreamInv
<1>3. wp_frames' \in Slots
  <2>1. s \in 0..RingN /\ wp_frames \in 0..RingN-1
    BY <1>1, <1>2, RingSize DEF RingTypeOK
  <2> QED
    BY <1>1, <2>1, RingSize, PastValue
<1>4. RingTypeOK'
  BY <1>1, <1>2, <1>3 DEF RingTypeOK
<1>5. Past(RingN, wp_frames', 0) = wp_frames'
  BY <1>3, RingSize, PastEnds
<1>6. \A f \in 0..RingN-1 : FilledTo(f) => FilledTo(f)'
  BY <1>1, <1>5 DEF FilledTo
<1> QED
  BY <1>1, <1>2, <1>4, <1>6 DEF StreamInv

LEMMA StreamPlay == ASSUME StreamInv, ClockInv, Play PROVE StreamInv'
<1>1. /\ open /\ ring' = [ring EXCEPT ![lpib] = Silence] /\ lpib' = Past(RingN, lpib, 1)
      /\ fresh' = fresh \ {lpib} /\ heard' = (IF lpib \in fresh THEN ring[lpib].n ELSE heard)
      /\ overtaken' = (overtaken \/ (pc = "render" /\ lpib = Past(RingN, wp_frames, s)))
      /\ UNCHANGED <<pc, call, open, clock, total_samples, wp_frames, written, s>>
  BY DEF Play, Past, hdaVars, control, edgeVars, locals
<1>2. RingTypeOK /\ call # "open"
  BY <1>1 DEF StreamInv
<1>3. Frame' = Frame
  BY <1>1 DEF Frame, SampleOf
<1>4. lpib \in 0..RingN-1 /\ lpib' \in 0..RingN-1
  BY <1>1, <1>2, RingSize, PastEnds DEF RingTypeOK
<1>5. \A p \in Slots : p # lpib => ring'[p].n = ring[p].n
  BY <1>1, <1>2 DEF RingTypeOK
<1>6. RingTypeOK'
  <2>1. DOMAIN ring' = Slots
    BY <1>1, <1>2 DEF RingTypeOK
  <2>2. \A i \in Slots : ring'[i].n \in Nat
    BY <1>1, <1>2 DEF RingTypeOK, Silence
  <2>3. heard' \in Nat
    BY <1>1, <1>2 DEF RingTypeOK
  <2> QED
    BY <1>1, <1>2, <1>4, <2>1, <2>2, <2>3, RingSize DEF RingTypeOK
<1>7. ASSUME ~overtaken' PROVE \E f \in 0..RingN-1 : FilledTo(f)'
  <2>1. ~overtaken /\ (pc = "render" => lpib # Past(RingN, wp_frames, s))
    BY <1>1, <1>7
  <2>2. PICK f \in 0..RingN-1 : FilledTo(f)
    BY <2>1 DEF StreamInv
  <2>3. /\ Past(RingN, lpib, f) = Past(RingN, wp_frames, s)
        /\ heard <= written /\ written - heard \in 0..f
        /\ Lies(RingN, fresh, ring, lpib, f, written - heard, written)
        /\ Cardinality(fresh) = written - heard
        /\ pc = "render" => f + (Frame - s) <= RingN - 1
    BY <1>2, <2>2 DEF FilledTo, RingTypeOK
  <2>4. IsFiniteSet(fresh)
    BY <1>2, RingSize, FS_Subset DEF RingTypeOK
  <2>5. CASE f = 0
    <3>1. Past(RingN, lpib, 0) = lpib /\ Past(RingN, lpib, RingN) = lpib
      BY <1>4, RingSize, PastEnds
    <3>2. pc # "render"
      BY <2>1, <2>3, <2>5, <3>1
    <3>3. written - heard = 0
      BY <2>3, <2>5
    <3>4. fresh = {} /\ fresh' = {} /\ heard' = heard
      BY <1>1, <2>3, <2>4, <3>3, FS_EmptySet
    <3>5. Past(RingN, lpib', RingN - 1) = lpib
      <4>1. Past(RingN, Past(RingN, lpib, 1), RingN - 1) = Past(RingN, lpib, (RingN - 1) + 1)
        BY <1>4, RingSize, PastNext
      <4>2. (RingN - 1) + 1 = RingN
        BY RingSize
      <4> QED
        BY <1>1, <3>1, <4>1, <4>2
    <3>6. Lies(RingN, {}, ring', lpib', RingN - 1, 0, written)
      BY RingSize, LiesNone
    <3>7. 0 <= RingN - 1
      BY RingSize
    <3>8. FilledTo(RingN - 1)'
      BY <1>1, <2>3, <2>5, <3>1, <3>2, <3>3, <3>4, <3>5, <3>6, <3>7, FS_EmptySet DEF FilledTo
    <3> QED
      BY <3>8, RingSize
  <2>6. CASE f # 0
    <3>1. f \in 1..RingN-1 /\ f - 1 \in 0..RingN-1 /\ (f - 1) + 1 = f
      BY <2>6, RingSize
    <3> DEFINE w == written - heard
               v == IF w = f THEN w - 1 ELSE w
    <3>2. w \in 0..f /\ Lies(RingN, fresh, ring, lpib, f, w, written) /\ written \in Nat
          /\ Cardinality(fresh) = w /\ w = written - heard /\ heard \in Nat
      BY <1>2, <2>3 DEF RingTypeOK
    <3> HIDE DEF w
    <3>3. SameBut(RingN, lpib, ring, ring')
      BY <1>5, RingSize DEF SameBut
    <3>0. v \in Int /\ (w = f => v = w - 1) /\ (w # f => v = w)
      BY <3>1, <3>2
    <3> HIDE DEF v
    <3>4. /\ lpib \in fresh <=> w = f
          /\ w = f => ring[lpib].n = written - f + 1
          /\ Lies(RingN, fresh', ring', lpib', f - 1, v, written)
      <4>1. RingN \in Nat \ {0}
        BY RingSize
      <4>2. /\ lpib \in fresh <=> w = f
            /\ w = f => ring[lpib].n = written - f + 1
            /\ w = f => Lies(RingN, fresh \ {lpib}, ring', Past(RingN, lpib, 1), f - 1, w - 1, written)
            /\ w # f => Lies(RingN, fresh \ {lpib}, ring', Past(RingN, lpib, 1), f - 1, w, written)
        BY <1>4, <3>1, <3>2, <3>3, <4>1, LiesTake
      <4>3. CASE w = f
        BY <1>1, <3>0, <4>2, <4>3
      <4>4. CASE w # f
        BY <1>1, <3>0, <4>2, <4>4
      <4> QED
        BY <4>3, <4>4
    <3>5. v = written - heard' /\ heard' <= written /\ written - heard' <= f - 1
      <4>1. CASE w = f
        <5>1. heard' = written - f + 1
          BY <1>1, <3>4, <4>1
        <5>2. v = w - 1
          BY <3>0, <4>1
        <5> QED
          BY <3>1, <3>2, <4>1, <5>1, <5>2
      <4>2. CASE w # f
        <5>1. heard' = heard /\ v = w
          BY <1>1, <3>4, <3>0, <4>2
        <5> QED
          BY <3>1, <3>2, <4>2, <5>1
      <4> QED
        BY <4>1, <4>2
    <3>6. Cardinality(fresh') = v
      BY <1>1, <2>4, <3>2, <3>4, <3>0, FS_RemoveElement
    <3>7. Past(RingN, lpib', f - 1) = Past(RingN, wp_frames, s)
      <4>1. Past(RingN, Past(RingN, lpib, 1), f - 1) = Past(RingN, lpib, (f - 1) + 1)
        BY <1>4, <3>1, RingSize, PastNext
      <4> QED
        BY <1>1, <2>3, <3>1, <4>1
    <3>8. pc = "render" => (f - 1) + (Frame - s) <= RingN - 1
      <4>1. Frame \in Int /\ s \in Int /\ f \in Int
        BY <1>2, <3>1, FrameSize, RingSize DEF RingTypeOK
      <4> QED
        BY <2>3, <4>1, RingSize
    <3>9. FilledTo(f - 1)'
      BY <1>1, <1>3, <3>4, <3>5, <3>6, <3>7, <3>8 DEF FilledTo
    <3> QED
      BY <3>1, <3>9
  <2> QED
    BY <2>5, <2>6
<1> QED
  BY <1>1, <1>2, <1>3, <1>6, <1>7 DEF StreamInv

LEMMA StreamStep ==
  ASSUME StreamInv, ClockInv, [AudioNext]_audioVars
  PROVE  StreamInv'
<1>1. CASE HdaStep
  <2>1. /\ UNCHANGED <<stream, open, clock, total_samples, s>>
        /\ InitCall \/ BeepCall \/ SendCmd \/ PollHit \/ PollTimeout \/ CodecAnswer
    BY <1>1 DEF HdaStep, edgeVars, locals
  <2>2. \/ pc # "render" /\ pc' # "render"
        \/ pc' = pc
    BY <2>1 DEF InitCall, BeepCall, SendCmd, PollHit, PollTimeout, CodecAnswer, Calls, control
  <2>3. call' = "open" => call = "open" /\ pc' \in {"send", "poll"}
    BY <2>1 DEF InitCall, BeepCall, SendCmd, PollHit, PollTimeout, CodecAnswer, Calls, control,
                StreamInv
  <2> QED
    BY <2>1, <2>2, <2>3, StreamQuiet
<1>2. CASE HdaReturn
  BY <1>2, StreamQuiet DEF HdaReturn, locals
<1>3. CASE CloseCall \/ Emulate \/ (\E level \in Levels : EdgeSet(level)) \/ AdvanceShort
           \/ AdvanceCall
  <2>1. UNCHANGED <<stream, s, call>> /\ pc = "idle" /\ pc' # "render"
    BY <1>3 DEF CloseCall, Emulate, EdgeSet, AdvanceShort, AdvanceCall, hdaVars, control, locals
  <2> QED
    BY <2>1, StreamQuiet DEF StreamInv
<1>4. CASE UNCHANGED audioVars
  BY <1>4, StreamQuiet DEF audioVars, hdaVars, control, edgeVars, locals, StreamInv
<1> QED
  BY <1>1, <1>2, <1>3, <1>4, StreamOpenCall, StreamOpenDone, StreamAdvanceWait,
     StreamRenderSample, StreamRenderDone, StreamPlay DEF AudioNext

LEMMA StreamKeepsOrder == StreamInv => NothingOverwritten
<1> SUFFICES ASSUME StreamInv, ~overtaken PROVE NothingOverwritten
  BY DEF NothingOverwritten
<1>1. PICK f \in 0..RingN-1 : FilledTo(f)
  BY DEF StreamInv
<1>2. /\ heard \in Nat /\ written \in Nat /\ lpib \in 0..RingN-1 /\ fresh \subseteq 0..RingN-1
      /\ RingN \in Nat \ {0}
  BY RingSize DEF StreamInv, RingTypeOK
<1>3. \A a \in fresh : /\ Ahead(a) \in 0..RingN-1
                       /\ ring[a].n = written - f + Ahead(a) + 1
  <2> SUFFICES ASSUME NEW a \in fresh
               PROVE  Ahead(a) \in 0..RingN-1 /\ ring[a].n = written - f + Ahead(a) + 1
    OBVIOUS
  <2>1. Ahead(a) \in 0..RingN-1 /\ Past(RingN, lpib, Ahead(a)) = a
    BY <1>2, Distance DEF Ahead
  <2> QED
    BY <1>1, <2>1 DEF FilledTo, Lies
<1>4. ASSUME NEW a \in fresh, NEW b \in fresh, Ahead(a) < Ahead(b)
      PROVE  ring[a].n < ring[b].n
  <2>1. /\ Ahead(a) \in 0..RingN-1 /\ ring[a].n = written - f + Ahead(a) + 1
        /\ Ahead(b) \in 0..RingN-1 /\ ring[b].n = written - f + Ahead(b) + 1
    BY <1>3
  <2> QED
    BY <1>2, <1>4, <2>1
<1> QED
  BY <1>1, <1>4 DEF NothingOverwritten, FilledTo

\* audio_edge_advance never overwrites a sample the stream has not played, and
\* the stream plays the samples in the order of rendering (audio_pcm_writable,
\* audio_pcm_advance): for a ring of any size, frames of any length and however
\* often the stream runs dry, as long as it does not run through the frame
\* being rendered.
THEOREM NothingOverwrittenHolds == AudioSpec => []NothingOverwritten
<1>1. StreamInv /\ ClockInv /\ [AudioNext]_audioVars => StreamInv' /\ ClockInv'
  BY StreamStep, ClockStep
<1> QED
  BY <1>1, StreamInit, ClockInit, StreamKeepsOrder, PTL DEF AudioSpec

-----------------------------------------------------------------------------
(***************************************************************************)
(* The wave and the queued changes.                                        *)
(***************************************************************************)

\* Of the level the frame began with (i = 0) and the queued changes, the i-th
\* is the last that falls on or before time t; the wave has its level there.
AskedAt(i, t) ==
  /\ i = 0 \/ SampleOf(events[i].cycle) <= t
  /\ \A j \in i+1..Len(events) : SampleOf(events[j].cycle) > t
  /\ wave[t] = LevelOf(i)

\* What is not rendered yet can be had from the queue, and what waits in the
\* ring is for a time the clock has passed, which no later change touches.
EventsOK ==
  /\ events \in Seq([cycle : 0..MaxCycle, level : Levels])
  /\ \A j \in 1..Len(events) : events[j].cycle <= clock

Queued == \A t \in total_samples..MaxSample : \E i \in 0..Len(events) : AskedAt(i, t)

Rendered ==
  /\ \A i \in fresh : ring[i].t \in 0..MaxSample /\ ring[i].t < SampleOf(clock)
  /\ WaveAsAsked

WaveInv == EventsOK /\ Rendered /\ (~lost => Queued)

LEMMA Times ==
  ASSUME ClockInv
  PROVE  /\ SampleOf(clock) \in 0..MaxSample /\ MaxSample \in Nat /\ total_samples \in Nat
         /\ clock \in Nat /\ total_samples <= SampleOf(clock)
<1>1. clock \in Nat /\ MaxCycle \in Nat /\ clock <= MaxCycle
  BY AudioAssumption DEF ClockInv
<1>2. SampleOf(clock) \in Nat /\ MaxSample \in Nat /\ SampleOf(clock) <= MaxSample
  BY <1>1, SampleOfNat, SampleOfMonotone DEF MaxSample
<1> QED
  BY <1>1, <1>2 DEF ClockInv

LEMMA EventTimes ==
  ASSUME ClockInv, EventsOK
  PROVE  /\ Len(events) \in Nat
         /\ \A j \in 1..Len(events) : /\ events[j].cycle \in Nat /\ events[j].cycle <= clock
                                      /\ SampleOf(events[j].cycle) \in Nat
                                      /\ SampleOf(events[j].cycle) <= SampleOf(clock)
<1>1. Len(events) \in Nat
  BY DEF EventsOK
<1>2. ASSUME NEW j \in 1..Len(events)
      PROVE  /\ events[j].cycle \in Nat /\ events[j].cycle <= clock
             /\ SampleOf(events[j].cycle) \in Nat
             /\ SampleOf(events[j].cycle) <= SampleOf(clock)
  <2>1. events[j] \in [cycle : 0..MaxCycle, level : Levels] /\ events[j].cycle <= clock
    <3> DEFINE Change == [cycle : 0..MaxCycle, level : Levels]
    <3>1. events \in Seq(Change) /\ events[j].cycle <= clock
      BY DEF EventsOK
    <3> HIDE DEF Change
    <3>2. events[j] \in Change
      BY <3>1
    <3> QED
      BY <3>1, <3>2 DEF Change
  <2>2. events[j].cycle \in Nat /\ clock \in Nat
    BY <2>1, Times, AudioAssumption
  <2> QED
    BY <2>1, <2>2, SampleOfNat, SampleOfMonotone
<1> QED
  BY <1>1, <1>2

\* From the clock's time on the wave has the last queued level.
LEMMA LastLevel ==
  ASSUME ClockInv, EventsOK, Queued, NEW t \in 0..MaxSample, SampleOf(clock) <= t
  PROVE  wave[t] = LevelOf(Len(events))
<1>1. t \in total_samples..MaxSample
  BY Times
<1>2. PICK i \in 0..Len(events) : AskedAt(i, t)
  BY <1>1 DEF Queued
<1>3. Len(events) \in Nat /\ (i # Len(events) => Len(events) \in 1..Len(events)
                                                 /\ Len(events) \in i+1..Len(events))
  BY EventTimes
<1>4. i # Len(events) => SampleOf(events[Len(events)].cycle) > t
  BY <1>2, <1>3 DEF AskedAt
<1>5. i # Len(events) => /\ SampleOf(events[Len(events)].cycle) \in Nat
                         /\ SampleOf(events[Len(events)].cycle) <= SampleOf(clock)
  BY <1>3, EventTimes
<1>6. i = Len(events)
  BY <1>4, <1>5, Times
<1> QED
  BY <1>2, <1>6 DEF AskedAt

LEMMA WaveInit == AudioInit => WaveInv
<1> SUFFICES ASSUME AudioInit PROVE WaveInv
  OBVIOUS
<1>1. /\ events = <<>> /\ current_level = 0 /\ wave = [t \in 0..MaxSample |-> 0]
      /\ fresh = {} /\ total_samples = 0
  BY DEF AudioInit
<1>2. Len(events) = 0
  BY <1>1
<1>3. EventsOK
  BY <1>1 DEF EventsOK
<1>4. Rendered
  BY <1>1 DEF Rendered, WaveAsAsked
<1>5. ASSUME NEW t \in total_samples..MaxSample PROVE AskedAt(0, t)
  <2>1. t \in 0..MaxSample
    BY <1>1
  <2> QED
    BY <1>1, <1>2, <2>1 DEF AskedAt, LevelOf
<1>6. 0 \in 0..Len(events)
  BY <1>2
<1> QED
  BY <1>3, <1>4, <1>5, <1>6 DEF WaveInv, Queued

\* Steps that leave the queue and the wave alone.
LEMMA QueueQuiet ==
  ASSUME WaveInv, UNCHANGED <<events, current_level, total_samples, wave, lost, clock>>, Rendered'
  PROVE  WaveInv'
<1>1. EventsOK'
  BY DEF WaveInv, EventsOK
<1>2. \A i, t : AskedAt(i, t) => AskedAt(i, t)'
  BY DEF AskedAt, LevelOf, SampleOf
<1>3. Queued => Queued'
  BY <1>2 DEF Queued
<1> QED
  BY <1>1, <1>3 DEF WaveInv

LEMMA WaveQuiet ==
  ASSUME WaveInv, UNCHANGED <<events, current_level, total_samples, wave, lost, clock, ring, fresh>>
  PROVE  WaveInv'
<1>1. Rendered'
  BY DEF WaveInv, Rendered, WaveAsAsked, SampleOf
<1> QED
  BY <1>1, QueueQuiet

\* Steps after which the queue is empty and every time not yet rendered has the
\* channel's level.
LEMMA QueueEmpty ==
  ASSUME events' = <<>>, ~lost' => \A t \in total_samples'..MaxSample : wave'[t] = current_level'
  PROVE  EventsOK' /\ (~lost' => Queued')
<1>1. Len(events') = 0 /\ 0 \in 0..Len(events')
  OBVIOUS
<1>2. EventsOK'
  BY <1>1 DEF EventsOK
<1>3. ASSUME NEW t, wave'[t] = current_level' PROVE AskedAt(0, t)'
  BY <1>1, <1>3 DEF AskedAt, LevelOf
<1> QED
  BY <1>1, <1>2, <1>3 DEF Queued

LEMMA WaveOpen ==
  ASSUME WaveInv, StreamInv, OpenCall \/ OpenDone
  PROVE  WaveInv'
<1>1. CASE OpenCall
  <2>1. /\ UNCHANGED <<events, current_level, total_samples, wave, lost, clock>> /\ fresh' = {}
    BY <1>1 DEF OpenCall, edgeVars
  <2>2. Rendered'
    BY <2>1 DEF Rendered, WaveAsAsked
  <2> QED
    BY <2>1, <2>2, QueueQuiet
<1>2. CASE OpenDone
  <2>1. /\ events' = <<>> /\ current_level' = 0 /\ total_samples' = 0
        /\ wave' = [t \in 0..MaxSample |-> 0] /\ fresh' = {}
    BY <1>2 DEF OpenDone, PcmStart, StreamInv
  <2>2. Rendered'
    BY <2>1 DEF Rendered, WaveAsAsked
  <2>3. \A t \in total_samples'..MaxSample : wave'[t] = current_level'
    BY <2>1
  <2> QED
    BY <2>1, <2>2, <2>3, QueueEmpty DEF WaveInv
<1> QED
  BY <1>1, <1>2

LEMMA WaveEmulate == ASSUME WaveInv, ClockInv, Emulate PROVE WaveInv'
<1>1. /\ clock' = clock + 1
      /\ UNCHANGED <<events, current_level, total_samples, wave, lost, ring, fresh>>
  BY DEF Emulate, edgeVars, stream
<1>2. clock \in Nat /\ clock' \in Nat /\ SampleOf(clock) \in Nat /\ SampleOf(clock') \in Nat
      /\ SampleOf(clock) <= SampleOf(clock')
  BY <1>1, Times, SampleOfNat, SampleOfMonotone
<1>3. EventsOK'
  <2>1. EventsOK
    BY DEF WaveInv
  <2>2. \A j \in 1..Len(events) : events[j].cycle <= clock'
    BY <1>1, <1>2, <2>1, EventTimes
  <2> QED
    BY <1>1, <2>1, <2>2 DEF EventsOK
<1>4. Rendered'
  <2>1. SampleOf(clock)' = SampleOf(clock')
    BY DEF SampleOf
  <2>2. \A x \in 0..MaxSample : x < SampleOf(clock) => x < SampleOf(clock')
    BY <1>2, Times
  <2>3. \A i \in fresh' : ring'[i].t \in 0..MaxSample /\ ring'[i].t < SampleOf(clock')
    BY <1>1, <2>2 DEF WaveInv, Rendered
  <2>4. WaveAsAsked'
    BY <1>1 DEF WaveInv, Rendered, WaveAsAsked
  <2>5. MaxSample' = MaxSample
    BY DEF MaxSample, SampleOf
  <2> QED
    BY <2>1, <2>3, <2>4, <2>5 DEF Rendered
<1>5. \A i, t : AskedAt(i, t) => AskedAt(i, t)'
  BY <1>1 DEF AskedAt, LevelOf, SampleOf
<1>6. Queued => Queued'
  BY <1>1, <1>5 DEF Queued
<1> QED
  BY <1>1, <1>3, <1>4, <1>6 DEF WaveInv

LEMMA WaveAdvanceShort == ASSUME WaveInv, ClockInv, AdvanceShort PROVE WaveInv'
<1>1. /\ SampleOf(clock) <= total_samples /\ events # <<>>
      /\ current_level' = events[Len(events)].level /\ events' = <<>>
      /\ UNCHANGED <<total_samples, wave, lost, clock, ring, fresh>>
  BY DEF AdvanceShort, stream
<1>2. current_level' = LevelOf(Len(events))
  <2>1. Len(events) # 0
    BY <1>1 DEF WaveInv, EventsOK
  <2> QED
    BY <1>1, <2>1 DEF LevelOf
<1>3. ASSUME ~lost, NEW t \in total_samples..MaxSample PROVE wave[t] = current_level'
  <2>1. t \in 0..MaxSample /\ SampleOf(clock) <= t
    BY <1>1, Times
  <2> QED
    BY <1>2, <1>3, <2>1, LastLevel DEF WaveInv
<1>4. Rendered'
  BY <1>1 DEF WaveInv, Rendered, WaveAsAsked, SampleOf
<1> QED
  BY <1>1, <1>3, <1>4, QueueEmpty DEF WaveInv

LEMMA WaveRenderDone == ASSUME WaveInv, ClockInv, RenderDone PROVE WaveInv'
<1>1. /\ total_samples' = SampleOf(clock)
      /\ current_level' = LevelOf(Len(events)) /\ events' = <<>>
      /\ UNCHANGED <<wave, lost, clock, ring, fresh>>
  BY DEF RenderDone
<1>2. ASSUME ~lost, NEW t \in total_samples'..MaxSample PROVE wave[t] = current_level'
  <2>1. t \in 0..MaxSample /\ SampleOf(clock) <= t
    BY <1>1, Times
  <2> QED
    BY <1>1, <1>2, <2>1, LastLevel DEF WaveInv
<1>3. Rendered'
  BY <1>1 DEF WaveInv, Rendered, WaveAsAsked, SampleOf
<1> QED
  BY <1>1, <1>2, <1>3, QueueEmpty DEF WaveInv

\* A frame dropped without changes takes nothing from the wave.
LEMMA WaveAdvanceWait == ASSUME WaveInv, ClockInv, AdvanceWait PROVE WaveInv'
<1>1. UNCHANGED <<clock, ring, fresh, current_level, wave>>
  BY DEF AdvanceWait, stream
<1>2. CASE UNCHANGED <<events, total_samples, lost>>
  BY <1>1, <1>2, WaveQuiet
<1>3. CASE events' = <<>> /\ total_samples' = SampleOf(clock) /\ lost' = (lost \/ events # <<>>)
  <2>1. ASSUME ~lost', NEW t \in total_samples'..MaxSample PROVE wave[t] = current_level
    <3>1. ~lost /\ events = <<>>
      BY <1>3, <2>1, Zenon
    <3>2. Len(events) = 0
      BY <3>1
    <3>3. wave[t] = LevelOf(Len(events))
      <4>1. t \in 0..MaxSample /\ SampleOf(clock) <= t
        BY <1>3, Times
      <4> QED
        BY <3>1, <4>1, LastLevel DEF WaveInv
    <3> QED
      BY <3>2, <3>3 DEF LevelOf
  <2>2. Rendered'
    BY <1>1, <1>3 DEF WaveInv, Rendered, WaveAsAsked, SampleOf
  <2> QED
    BY <1>1, <1>3, <2>1, <2>2, QueueEmpty DEF WaveInv
<1> QED
  BY <1>2, <1>3 DEF AdvanceWait

LEMMA WavePlay == ASSUME WaveInv, StreamInv, Play PROVE WaveInv'
<1>1. /\ ring' = [ring EXCEPT ![lpib] = Silence] /\ fresh' = fresh \ {lpib}
      /\ UNCHANGED <<events, current_level, total_samples, wave, lost, clock>>
  BY DEF Play, edgeVars
<1>2. \A i \in fresh' : i \in fresh /\ ring'[i] = ring[i]
  BY <1>1 DEF StreamInv, RingTypeOK
<1>3. Rendered'
  BY <1>1, <1>2 DEF WaveInv, Rendered, WaveAsAsked, SampleOf
<1> QED
  BY <1>1, <1>3, QueueQuiet

LEMMA WaveEdgeSet ==
  ASSUME WaveInv, ClockInv, NEW level \in Levels, EdgeSet(level)
  PROVE  WaveInv'
<1> DEFINE S == SampleOf(clock)
<1>0. PICK n \in Nat : n = Len(events)
  BY EventTimes DEF WaveInv
<1>1. /\ wave' = [t \in 0..MaxSample |-> IF t >= S THEN level ELSE wave[t]]
      /\ UNCHANGED <<clock, total_samples, ring, fresh>>
  BY DEF EdgeSet, stream
<1>2. S \in 0..MaxSample /\ total_samples \in Nat /\ n \in Nat
      /\ clock \in 0..MaxCycle /\ MaxSample \in Nat /\ clock \in Nat
  BY Times DEF ClockInv
<1>3. Rendered'
  <2>1. SampleOf(clock)' = S /\ MaxSample' = MaxSample
    BY <1>1 DEF SampleOf, MaxSample
  <2>2. lost' = lost \/ lost' = TRUE
    BY DEF EdgeSet
  <2>3. \A i \in fresh : ring[i].t \in 0..MaxSample /\ ring[i].t < S
    BY DEF WaveInv, Rendered
  <2>4. \A i \in fresh : wave'[ring[i].t] = wave[ring[i].t]
    <3> HIDE DEF S
    <3> QED
      BY <1>1, <1>2, <2>3
  <2>5. WaveAsAsked'
    BY <1>1, <2>2, <2>4 DEF WaveInv, Rendered, WaveAsAsked
  <2> QED
    BY <1>1, <2>1, <2>3, <2>5 DEF Rendered
<1>4. CASE n < EventsN
  <2>1. events' = Append(events, [cycle |-> clock, level |-> level])
        /\ UNCHANGED <<current_level, lost>>
    BY <1>0, <1>4 DEF EdgeSet
  <2>2. /\ Len(events') = n + 1 /\ events'[n + 1] = [cycle |-> clock, level |-> level]
        /\ \A j \in 1..n : events'[j] = events[j]
    BY <1>0, <2>1 DEF WaveInv, EventsOK
  <2>3. EventsOK'
    <3>1. events' \in Seq([cycle : 0..MaxCycle, level : Levels])
      <4> DEFINE Change == [cycle : 0..MaxCycle, level : Levels]
      <4>1. events \in Seq(Change) /\ [cycle |-> clock, level |-> level] \in Change
        BY <1>2 DEF WaveInv, EventsOK
      <4> HIDE DEF Change
      <4>2. events' \in Seq(Change)
        BY <2>1, <4>1
      <4> QED
        BY <4>2 DEF Change
    <3>2. \A j \in 1..n : events[j].cycle <= clock
      BY <1>0 DEF WaveInv, EventsOK
    <3>3. ASSUME NEW j \in 1..Len(events') PROVE events'[j].cycle <= clock'
      <4>1. CASE j = n + 1
        BY <1>1, <1>2, <2>2, <4>1
      <4>2. CASE j # n + 1
        <5>1. j \in 1..n
          BY <1>2, <2>2, <4>2
        <5> QED
          BY <1>1, <2>2, <3>2, <5>1
      <4> QED
        BY <4>1, <4>2
    <3> QED
      BY <3>1, <3>3 DEF EventsOK
  <2>4. ASSUME ~lost, NEW t \in total_samples..MaxSample
        PROVE  \E i \in 0..n+1 : AskedAt(i, t)'
    <3>1. t \in 0..MaxSample /\ t \in Nat
      BY <1>2
    <3>2. CASE S <= t
      <4>1. wave'[t] = level
        <5> HIDE DEF S
        <5> QED
          BY <1>1, <1>2, <3>1, <3>2
      <4>2. LevelOf(n + 1)' = level
        BY <1>2, <2>2 DEF LevelOf
      <4>3. SampleOf(events[n + 1].cycle)' <= t
        BY <2>2, <3>2 DEF SampleOf
      <4>4. (n + 1) + 1..Len(events') = {} /\ n + 1 \in 0..n+1
        BY <1>2, <2>2
      <4>5. AskedAt(n + 1, t)'
        BY <4>1, <4>2, <4>3, <4>4 DEF AskedAt
      <4> QED
        BY <4>4, <4>5
    <3>3. CASE t < S
      <4>1. PICK i \in 0..n : AskedAt(i, t)
        BY <1>0, <2>4 DEF WaveInv, Queued
      <4>2. wave'[t] = wave[t]
        <5> HIDE DEF S
        <5> QED
          BY <1>1, <1>2, <3>1, <3>3
      <4>3. LevelOf(i)' = LevelOf(i)
        BY <1>2, <2>1, <2>2, <4>1 DEF LevelOf
      <4>4. i = 0 \/ SampleOf(events[i].cycle)' <= t
        <5>1. i # 0 => i \in 1..n
          BY <1>2
        <5> QED
          BY <2>2, <4>1, <5>1 DEF AskedAt, SampleOf
      <4>5. ASSUME NEW j \in i+1..Len(events') PROVE SampleOf(events[j].cycle)' > t
        <5>1. CASE j = n + 1
          <6>1. SampleOf(events[j].cycle)' = S
            BY <2>2, <5>1 DEF SampleOf
          <6> HIDE DEF S
          <6> QED
            BY <1>2, <3>1, <3>3, <6>1
        <5>2. CASE j # n + 1
          <6>1. j \in 1..n /\ j \in i+1..n
            BY <1>2, <2>2, <5>2
          <6> QED
            BY <1>0, <2>2, <4>1, <6>1 DEF AskedAt, SampleOf
        <5> QED
          BY <5>1, <5>2
      <4>6. AskedAt(i, t)'
        BY <4>1, <4>2, <4>3, <4>4, <4>5 DEF AskedAt
      <4> QED
        BY <1>2, <4>6
    <3> QED
      BY <1>2, <3>1, <3>2, <3>3
  <2> QED
    BY <1>1, <1>3, <2>1, <2>2, <2>3, <2>4 DEF WaveInv, Queued
<1>5. CASE ~(n < EventsN)
  <2>1. lost' = TRUE /\ events' = events
    BY <1>0, <1>5 DEF EdgeSet
  <2>2. EventsOK'
    BY <1>1, <2>1 DEF WaveInv, EventsOK
  <2> QED
    BY <1>3, <2>1, <2>2 DEF WaveInv
<1> QED
  BY <1>4, <1>5

\* The stretch in which sample k of the frame is filled last belongs to the last
\* change that falls on or before it.
LEMMA RenderedAsAsked ==
  ASSUME ClockInv, EventsOK, NEW k \in Nat, k < Frame,
         NEW i \in 0..Len(events), AskedAt(i, total_samples + k)
  PROVE  RenderedLevel(k) = wave[total_samples + k]
<1> DEFINE n == Len(events)
           T == total_samples
           F == Frame
           At(j) == SampleOf(events[j].cycle)
           P(j) == /\ Index(j) <= k /\ k < Index(j + 1)
                   /\ \A m \in j+1..n : ~(Index(m) <= k /\ k < Index(m + 1))
<1>1. n \in Nat /\ T \in Nat /\ F \in Nat /\ k < F
      /\ \A j \in 1..n : At(j) \in Nat
  BY EventTimes, Times, FrameSize
<1>2. (i = 0 \/ At(i) <= T + k) /\ \A j \in i+1..n : At(j) > T + k
  BY DEF AskedAt
<1>3. Index(0) = 0 /\ Index(n + 1) = F
  BY <1>1 DEF Index
<1>4. ASSUME NEW j \in 1..n
      PROVE  Index(j) = IF At(j) - T <= 0 THEN 0 ELSE IF At(j) - T > F THEN F ELSE At(j) - T
  <2>1. events[j].cycle \in Nat /\ events[j].cycle <= clock /\ clock \in Nat
    BY EventTimes, Times
  <2>2. (IF events[j].cycle > clock THEN clock ELSE events[j].cycle) = events[j].cycle
    BY <2>1
  <2>3. j # 0 /\ ~(j > n)
    BY <1>1
  <2> QED
    BY <2>2, <2>3, Zenon DEF Index
<1> HIDE DEF n, T, F, At
<1>5. Index(i) <= k
  <2>1. CASE i = 0
    BY <1>3, <2>1
  <2>2. CASE i # 0
    <3>1. i \in 1..n
      BY <1>1, <2>2 DEF n
    <3>2. Index(i) = IF At(i) - T <= 0 THEN 0 ELSE IF At(i) - T > F THEN F ELSE At(i) - T
      BY <1>4, <3>1
    <3>3. At(i) \in Nat /\ At(i) <= T + k
      BY <1>1, <1>2, <2>2, <3>1
    <3> QED
      BY <1>1, <3>2, <3>3
  <2> QED
    BY <2>1, <2>2
<1>6. \A j \in i+1..n+1 : Index(j) \in Nat /\ k < Index(j)
  <2> SUFFICES ASSUME NEW j \in i+1..n+1 PROVE Index(j) \in Nat /\ k < Index(j)
    OBVIOUS
  <2>1. CASE j = n + 1
    BY <1>1, <1>3, <2>1
  <2>2. CASE j # n + 1
    <3>1. i \in 0..n /\ j \in 1..n /\ j \in i+1..n
      BY <1>1, <2>2 DEF n
    <3>2. Index(j) = IF At(j) - T <= 0 THEN 0 ELSE IF At(j) - T > F THEN F ELSE At(j) - T
      BY <1>4, <3>1
    <3>3. At(j) \in Nat /\ At(j) > T + k
      BY <1>1, <1>2, <3>1
    <3> QED
      BY <1>1, <3>2, <3>3
  <2> QED
    BY <2>1, <2>2
<1>7. i \in 0..n
  BY DEF n
<1>8. P(i)
  <2>1. i + 1 \in i+1..n+1 /\ \A m \in i+1..n : m \in i+1..n+1
    BY <1>1, <1>7
  <2>2. \A m \in i+1..n : ~(Index(m) <= k)
    BY <1>6, <2>1
  <2> QED
    BY <1>5, <1>6, <2>1, <2>2
<1>9. ASSUME NEW j \in 0..n, P(j) PROVE j = i
  <2>1. CASE j > i
    <3>1. j \in i+1..n+1
      BY <1>1, <1>7, <2>1
    <3> QED
      BY <1>6, <1>9, <3>1
  <2>2. CASE j < i
    <3>1. i \in j+1..n
      BY <1>1, <1>7, <2>2
    <3> QED
      BY <1>8, <1>9, <3>1
  <2> QED
    BY <1>7, <2>1, <2>2
<1>10. (CHOOSE j \in 0..n : P(j)) = i
  <2> HIDE DEF P
  <2> QED
    BY <1>7, <1>8, <1>9
<1>11. RenderedLevel(k) = LevelOf(CHOOSE j \in 0..n : P(j))
  BY DEF RenderedLevel, n
<1>12. wave[total_samples + k] = LevelOf(i)
  BY DEF AskedAt
<1> QED
  BY <1>10, <1>11, <1>12

LEMMA WaveRenderSample ==
  ASSUME WaveInv, StreamInv, ClockInv, RenderSample
  PROVE  WaveInv'
<1> DEFINE slot == (wp_frames + s) % RingN
           sample == [n |-> written + 1, t |-> total_samples + s, lvl |-> RenderedLevel(s)]
<1>1. /\ pc = "render" /\ s < Frame
      /\ ring' = [ring EXCEPT ![slot] = sample] /\ fresh' = fresh \cup {slot}
      /\ UNCHANGED <<events, current_level, total_samples, wave, lost, clock>>
  BY DEF RenderSample, edgeVars
<1>2. s \in Nat /\ DOMAIN ring = Slots /\ fresh \subseteq Slots /\ Frame \in Nat
      /\ total_samples + Frame <= SampleOf(clock) /\ SampleOf(clock) \in 0..MaxSample
      /\ MaxSample \in Nat /\ total_samples \in Nat
  BY FrameSize, Times DEF StreamInv, RingTypeOK
<1>3. slot \in Slots
  <2>1. wp_frames \in 0..RingN-1 /\ s \in 0..RingN /\ RingN \in Nat \ {0}
    BY <1>1, <1>2, FrameSize, RingSize DEF StreamInv, RingTypeOK
  <2> QED
    BY <2>1, PastValue DEF Past, Slots
<1>4. total_samples + s \in total_samples..MaxSample /\ total_samples + s \in 0..MaxSample
      /\ total_samples + s < SampleOf(clock)
  BY <1>1, <1>2
<1>5. ~lost => RenderedLevel(s) = wave[total_samples + s]
  <2> SUFFICES ASSUME ~lost PROVE RenderedLevel(s) = wave[total_samples + s]
    OBVIOUS
  <2>1. PICK i \in 0..Len(events) : AskedAt(i, total_samples + s)
    BY <1>4 DEF WaveInv, Queued
  <2> QED
    BY <1>1, <1>2, <2>1, RenderedAsAsked DEF WaveInv
<1>6. sample.t = total_samples + s /\ sample.lvl = RenderedLevel(s)
  OBVIOUS
<1> HIDE DEF slot, sample
<1>7. \A i \in fresh' : ring'[i] = sample \/ (i \in fresh /\ ring'[i] = ring[i])
  BY <1>1, <1>2, <1>3
<1>8. /\ \A i \in fresh : ring[i].t \in 0..MaxSample /\ ring[i].t < SampleOf(clock)
      /\ ~lost => \A i \in fresh : ring[i].lvl = wave[ring[i].t]
  BY DEF WaveInv, Rendered, WaveAsAsked
<1>9. Rendered'
  <2>1. \A i \in fresh' : ring'[i].t \in 0..MaxSample /\ ring'[i].t < SampleOf(clock)
    BY <1>4, <1>6, <1>7, <1>8
  <2>2. ~lost => \A i \in fresh' : ring'[i].lvl = wave[ring'[i].t]
    BY <1>5, <1>6, <1>7, <1>8
  <2>3. SampleOf(clock)' = SampleOf(clock) /\ MaxSample' = MaxSample
    BY <1>1 DEF SampleOf, MaxSample
  <2> QED
    BY <1>1, <2>1, <2>2, <2>3 DEF Rendered, WaveAsAsked
<1> QED
  BY <1>1, <1>9, QueueQuiet

LEMMA WaveStep ==
  ASSUME WaveInv, StreamInv, ClockInv, [AudioNext]_audioVars
  PROVE  WaveInv'
<1>1. CASE HdaStep \/ HdaReturn \/ CloseCall \/ AdvanceCall \/ UNCHANGED audioVars
  <2>1. UNCHANGED <<events, current_level, total_samples, wave, lost, clock, ring, fresh>>
    BY <1>1 DEF HdaStep, HdaReturn, CloseCall, AdvanceCall, audioVars, edgeVars, stream
  <2> QED
    BY <2>1, WaveQuiet
<1> QED
  BY <1>1, WaveOpen, WaveEmulate, WaveEdgeSet, WaveAdvanceShort, WaveAdvanceWait,
     WaveRenderSample, WaveRenderDone, WavePlay DEF AudioNext

\* Every sample that waits to be played has the level asked for at its time
\* (audio_edge_set, audio_edge_advance), whatever the clock and sample rates,
\* the sizes of ring and queue and the lengths of the frames, until a change is
\* lost to a full queue or to a stalled host.
THEOREM WaveAsAskedHolds == AudioSpec => []WaveAsAsked
<1>1. /\ WaveInv /\ StreamInv /\ ClockInv /\ [AudioNext]_audioVars
           => WaveInv' /\ StreamInv' /\ ClockInv'
      /\ WaveInv => WaveAsAsked
  BY WaveStep, StreamStep, ClockStep DEF WaveInv, Rendered
<1> QED
  BY <1>1, WaveInit, StreamInit, ClockInit, PTL DEF AudioSpec
=============================================================================
