---------------------------- MODULE FramingProofs ----------------------------
(***************************************************************************)
(* Proofs about module Framing, for headers, buffers and frames of any     *)
(* length and any cut of the stream: the receive path implements           *)
(* FrameStream.                                                            *)
(***************************************************************************)
EXTENDS Framing, SequenceTheorems, TLAPS

USE FramingAssumption DEF FramingAssumption

(* The bytes on their way to process_rx, as one stream: what is left in    *)
(* rx, what the TLS library holds, what is on the wire.                    *)
Waiting == Unparsed + Len(record) + Len(wire)
Byte(k) == IF k <= Unparsed THEN rx[consumed + k]
           ELSE IF k <= Unparsed + Len(record) THEN record[k - Unparsed]
           ELSE wire[k - Unparsed - Len(record)]

(* The first frame not yet handled, and the last one sent.                 *)
Now  == Len(handled) + 1
Last == Len(sent)

(* The stream is the frames not yet handled, whole and in order: frame n   *)
(* begins behind its first start[n] bytes.  Order is stated for any two    *)
(* frames, so that no step needs an induction over the frames.             *)
Layout(start) ==
  /\ Now <= Last + 1
  /\ start[Now] = 0 /\ start[Last + 1] = Waiting
  /\ \A n \in Now .. Last : start[n + 1] = start[n] + Length(sent[n])
  /\ \A n \in Now .. Last : \A m \in n + 1 .. Last + 1 : start[n] + Length(sent[n]) <= start[m]
  /\ \A n \in Now .. Last : \A q \in 1 .. Length(sent[n]) : Byte(start[n] + q) = <<n, q>>

StreamIntact == \E start \in [Nat -> Int] : Layout(start)

(* Types, with sequences.                                                  *)
Bytestring == Seq((1 .. Len(sent)) \X Nat)

Types ==
  /\ sent \in Seq(Frame) /\ Len(sent) <= MaxFrames
  /\ peer \in {"there", "closed", "reset"}
  /\ wire \in Bytestring /\ record \in Bytestring /\ rx \in Bytestring
  /\ tls \in BOOLEAN /\ open \in BOOLEAN
  /\ consumed \in Nat /\ consumed <= Len(rx) /\ Len(rx) <= RxBuffer
  /\ pc \in {"select", "read", "parse"}
  /\ handled \in Seq(Seq(Nat \X Nat))

(* Outside process_rx the buffer holds no frame that could be handled or   *)
(* has to be refused, and there is room in it.                             *)
Parsed ==
  pc # "parse" =>
    /\ consumed = 0 /\ Len(rx) < RxBuffer
    /\ HaveHeader => Acceptable /\ ~Complete

OnlyTls == ~tls => record = <<>> /\ pc # "read"

IInv == Types /\ StreamIntact /\ Parsed /\ OnlyTls

-----------------------------------------------------------------------------
(* Pieces of sequences.                                                    *)
LEMMA FirstFacts ==
  ASSUME NEW S, NEW s \in Seq(S), NEW k \in 0 .. Len(s)
  PROVE  /\ First(s, k) \in Seq(S) /\ Len(First(s, k)) = k
         /\ \A j \in 1 .. k : First(s, k)[j] = s[j]
  BY DEF First

LEMMA BehindFacts ==
  ASSUME NEW S, NEW s \in Seq(S), NEW k \in 0 .. Len(s)
  PROVE  /\ Behind(s, k) \in Seq(S) /\ Len(Behind(s, k)) = Len(s) - k
         /\ \A j \in 1 .. Len(s) - k : Behind(s, k)[j] = s[k + j]
  <1>1. k + 1 \in 1 .. Len(s) + 1
    OBVIOUS
  <1>2. QED
    BY <1>1, SubSeqProperties DEF Behind

LEMMA JoinFacts ==
  ASSUME NEW S, NEW s \in Seq(S), NEW t \in Seq(S)
  PROVE  /\ s \o t \in Seq(S) /\ Len(s \o t) = Len(s) + Len(t)
         /\ \A j \in 1 .. Len(s) : (s \o t)[j] = s[j]
         /\ \A j \in 1 .. Len(t) : (s \o t)[Len(s) + j] = t[j]
  BY ConcatProperties

LEMMA JoinBytes ==
  ASSUME NEW s \in Bytestring, NEW t \in Bytestring
  PROVE  /\ s \o t \in Bytestring /\ Len(s \o t) = Len(s) + Len(t)
         /\ \A j \in 1 .. Len(s) : (s \o t)[j] = s[j]
         /\ \A j \in 1 .. Len(t) : (s \o t)[Len(s) + j] = t[j]
  <1>1. PICK S : Bytestring = Seq(S)
    BY DEF Bytestring
  <1>2. s \in Seq(S) /\ t \in Seq(S)
    BY <1>1
  <1>3. /\ s \o t \in Seq(S) /\ Len(s \o t) = Len(s) + Len(t)
        /\ \A j \in 1 .. Len(s) : (s \o t)[j] = s[j]
        /\ \A j \in 1 .. Len(t) : (s \o t)[Len(s) + j] = t[j]
    BY <1>2, JoinFacts
  <1>4. QED
    BY <1>1, <1>3

LEMMA WiderSeq ==
  ASSUME NEW S, NEW T, S \subseteq T, NEW s \in Seq(S)
  PROVE  s \in Seq(T)
  OBVIOUS

LEMMA FrameFacts ==
  ASSUME sent \in Seq(Frame), NEW n \in 1 .. Len(sent)
  PROVE  /\ sent[n].claim \in Nat /\ sent[n].sync \in BOOLEAN
         /\ Length(sent[n]) \in Nat \ {0} /\ Length(sent[n]) >= HeaderLen
         /\ sent[n].claim >= HeaderLen => Length(sent[n]) = sent[n].claim
  <1>1. sent[n] \in [sync : BOOLEAN, claim : Nat]
    OBVIOUS
  <1>2. QED
    BY <1>1 DEF Length

-----------------------------------------------------------------------------
(* The layout of the stream.                                               *)
LEMMA Counts ==
  ASSUME Types
  PROVE  /\ Now \in Nat \ {0} /\ Last \in Nat /\ Unparsed \in Nat
         /\ Len(record) \in Nat /\ Len(wire) \in Nat /\ Waiting \in Nat
  BY DEF Types, Now, Last, Unparsed, Waiting, Bytestring

LEMMA InStream ==
  ASSUME Types, NEW start \in [Nat -> Int], Layout(start), NEW n \in Now .. Last,
         NEW q \in 1 .. Length(sent[n])
  PROVE  start[n] + q \in 1 .. Waiting
  <1>1. /\ Now \in Nat \ {0} /\ Last \in Nat /\ Waiting \in Nat
    BY Counts
  <1>2. n \in 1 .. Len(sent) /\ Length(sent[n]) \in Nat /\ start[n] \in Int
    BY <1>1, FrameFacts DEF Last, Types
  <1>3. 0 <= start[n]
    <2>1. CASE n = Now
      BY <2>1 DEF Layout
    <2>2. CASE n # Now
      <3>1. n \in Now + 1 .. Last + 1 /\ Now \in Now .. Last
        BY <1>1, <2>2
      <3>2. start[Now] + Length(sent[Now]) <= start[n] /\ start[Now] = 0
        BY <3>1 DEF Layout
      <3>3. Length(sent[Now]) \in Nat
        BY <1>1, <3>1, FrameFacts DEF Last, Types
      <3>4. QED
        BY <1>2, <3>2, <3>3
    <2>3. QED
      BY <2>1, <2>2
  <1>4. start[n] + Length(sent[n]) <= Waiting
    <2>1. Last + 1 \in n + 1 .. Last + 1
      BY <1>1, <1>2 DEF Last
    <2>2. QED
      BY <2>1 DEF Layout
  <1> DEFINE L == Length(sent[n])
             s == start[n]
  <1>5. L \in Nat /\ s \in Int /\ 0 <= s /\ s + L <= Waiting /\ q \in 1 .. L
    BY <1>2, <1>3, <1>4
  <1> HIDE DEF L, s
  <1>6. s + q \in 1 .. Waiting
    BY <1>1, <1>5
  <1>7. QED
    BY <1>6 DEF s

(* A step that moves bytes on along the pipe leaves the stream as it was.  *)
LEMMA SameStream ==
  ASSUME Types, StreamIntact, UNCHANGED <<sent, handled>>, Waiting' = Waiting,
         \A k \in 1 .. Waiting : Byte(k)' = Byte(k)
  PROVE  StreamIntact'
  <1>1. PICK start \in [Nat -> Int] : Layout(start)
    BY DEF StreamIntact
  <1>2. Now' = Now /\ Last' = Last
    BY DEF Now, Last
  <1>3. ASSUME NEW n \in Now .. Last, NEW q \in 1 .. Length(sent[n])
        PROVE  Byte(start[n] + q)' = <<n, q>>
    <2>1. start[n] + q \in 1 .. Waiting
      BY <1>1, InStream
    <2>2. Byte(start[n] + q) = <<n, q>>
      BY <1>1 DEF Layout
    <2>3. PICK k : k = start[n] + q
      OBVIOUS
    <2>4. QED
      BY <2>1, <2>2, <2>3
  <1>4. Layout(start)'
    BY <1>1, <1>2, <1>3 DEF Layout
  <1>5. QED
    BY <1>4 DEF StreamIntact

(* While a frame waits, it is the next to be handled that is in front.     *)
LEMMA FrontFrame ==
  ASSUME Types, StreamIntact
  PROVE  /\ Now <= Last + 1
         /\ Waiting = 0 <=> Now = Last + 1
         /\ Now <= Last => /\ Now \in 1 .. Len(sent) /\ Length(sent[Now]) <= Waiting
                           /\ \A q \in 1 .. Length(sent[Now]) : Byte(q) = <<Now, q>>
  <1>1. PICK start \in [Nat -> Int] : Layout(start)
    BY DEF StreamIntact
  <1>2. Now \in Nat \ {0} /\ Last \in Nat /\ Waiting \in Nat
    BY Counts
  <1>3. Now <= Last + 1 /\ start[Now] = 0 /\ start[Last + 1] = Waiting
    BY <1>1 DEF Layout
  <1>4. ASSUME Now <= Last
        PROVE  /\ Now \in 1 .. Len(sent) /\ Length(sent[Now]) \in Nat \ {0}
               /\ Length(sent[Now]) <= Waiting
               /\ \A q \in 1 .. Length(sent[Now]) : Byte(q) = <<Now, q>>
    <2>1. Now \in Now .. Last /\ Now \in 1 .. Len(sent) /\ Last + 1 \in Now + 1 .. Last + 1
      BY <1>2, <1>4 DEF Last
    <2>2. Length(sent[Now]) \in Nat \ {0}
      BY <2>1, FrameFacts DEF Types
    <2>3. start[Now] + Length(sent[Now]) <= start[Last + 1]
      BY <1>1, <2>1 DEF Layout
    <2>4. \A q \in 1 .. Length(sent[Now]) : Byte(start[Now] + q) = <<Now, q>>
      BY <1>1, <2>1 DEF Layout
    <2>5. ASSUME NEW q \in 1 .. Length(sent[Now]) PROVE Byte(q) = <<Now, q>>
      <3>1. start[Now] + q = q
        BY <1>3, <2>2
      <3>2. QED
        BY <2>4, <3>1
    <2>6. QED
      BY <1>3, <2>1, <2>2, <2>3, <2>5
  <1>5. Now = Last + 1 => Waiting = 0
    BY <1>3
  <1>6. QED
    BY <1>2, <1>3, <1>4, <1>5

(* process_rx looks at the header of the next frame sent.                  *)
LEMMA HeaderOfNow ==
  ASSUME Types, StreamIntact, HaveHeader
  PROVE  /\ Now \in 1 .. Len(sent) /\ Now <= Last /\ Head1 = <<Now, 1>>
         /\ Claim = sent[Now].claim /\ (Synced <=> sent[Now].sync)
         /\ Acceptable <=> Good(sent[Now])
  <1>1. Unparsed \in Nat /\ Unparsed > 0 /\ Waiting > 0 /\ Now \in Nat \ {0} /\ Last \in Nat
    BY Counts DEF HaveHeader, Waiting
  <1>2. Now <= Last
    BY <1>1, FrontFrame
  <1>3. /\ Now \in 1 .. Len(sent)
        /\ \A q \in 1 .. Length(sent[Now]) : Byte(q) = <<Now, q>>
    BY <1>2, FrontFrame
  <1>4. 1 \in 1 .. Length(sent[Now]) /\ sent[Now].claim \in Nat
    BY <1>3, FrameFacts DEF Types
  <1>5. Byte(1) = Head1
    BY <1>1 DEF Byte, Head1
  <1>6. Head1 = <<Now, 1>>
    BY <1>3, <1>4, <1>5
  <1>7. Claim = sent[Now].claim /\ (Synced <=> sent[Now].sync)
    BY <1>6 DEF Claim, Synced
  <1>8. QED
    BY <1>2, <1>3, <1>4, <1>6, <1>7 DEF Acceptable, Good

(* A frame that is all there is one that process_rx handles or refuses.    *)
LEMMA NothingLeftOver ==
  ASSUME Types, StreamIntact, HaveHeader => Acceptable /\ ~Complete, Now <= Last
  PROVE  Unparsed < Waiting
  <1>1. /\ Now \in 1 .. Len(sent) /\ Length(sent[Now]) <= Waiting
        /\ Unparsed \in Nat /\ Waiting \in Nat
    BY FrontFrame, Counts
  <1>2. /\ Length(sent[Now]) \in Nat /\ Length(sent[Now]) >= HeaderLen
        /\ sent[Now].claim \in Nat
        /\ sent[Now].claim >= HeaderLen => Length(sent[Now]) = sent[Now].claim
    BY <1>1, FrameFacts DEF Types
  <1>3. CASE HaveHeader
    <2>1. Claim = sent[Now].claim /\ Claim >= HeaderLen /\ Claim > Unparsed
      BY <1>1, <1>2, <1>3, HeaderOfNow DEF Acceptable, Complete
    <2>2. QED
      BY <1>1, <1>2, <2>1
  <1>4. CASE ~HaveHeader
    BY <1>1, <1>2, <1>4 DEF HaveHeader
  <1>5. QED
    BY <1>3, <1>4

-----------------------------------------------------------------------------
(* Every step keeps the invariant.                                         *)
LEMMA InitInv == Init => IInv
  <1> SUFFICES ASSUME Init PROVE IInv
    OBVIOUS
  <1>1. Types
    BY DEF Init, Types, Bytestring
  <1>2. StreamIntact
    <2> DEFINE start == [n \in Nat |-> 0]
    <2>1. start \in [Nat -> Int]
      OBVIOUS
    <2>2. Layout(start)
      BY DEF Layout, Init, Now, Last, Waiting, Unparsed
    <2>3. QED
      BY <2>1, <2>2 DEF StreamIntact
  <1>3. Parsed
    BY DEF Init, Parsed, HaveHeader, Unparsed
  <1>4. QED
    BY <1>1, <1>2, <1>3 DEF IInv, Init, OnlyTls

LEMMA SendFrameKeeps ==
  ASSUME IInv, NEW f \in Frame, SendFrame(f)
  PROVE  IInv'
  <1>0. PICK N, L, W : N = Len(sent) /\ L = Length(f) /\ W = Waiting
    OBVIOUS
  <1>1. /\ Types /\ Parsed /\ Len(sent) < MaxFrames
        /\ UNCHANGED <<peer, tls, record, rx, consumed, pc, open, handled>>
        /\ sent' = Append(sent, f)
    BY DEF IInv, SendFrame
  <1>2. N \in Nat /\ L \in Nat /\ W \in Nat
    <2>1. f \in [sync : BOOLEAN, claim : Nat]
      OBVIOUS
    <2>2. QED
      BY <1>0, <1>1, <2>1, Counts DEF Types, Length
  <1>3. /\ Len(sent') = N + 1 /\ sent' \in Seq(Frame) /\ sent'[N + 1] = f
        /\ \A n \in 1 .. N : sent'[n] = sent[n]
    BY <1>0, <1>1 DEF Types
  <1>4. PICK body : body = [p \in 1 .. L |-> <<N + 1, p>>]
    OBVIOUS
  <1>5. PICK Wider : Wider = (1 .. N + 1) \X Nat
    OBVIOUS
  <1>6. /\ body \in Seq(Wider) /\ Len(body) = L
        /\ \A q \in 1 .. L : body[q] = <<N + 1, q>>
    <2>1. \A q \in 1 .. L : <<N + 1, q>> \in Wider
      BY <1>2, <1>5
    <2>2. QED
      BY <1>2, <1>4, <2>1
  <1>7. wire \in Seq(Wider) /\ record \in Seq(Wider) /\ rx \in Seq(Wider)
    <2>1. (1 .. N) \X Nat \subseteq Wider
      BY <1>2, <1>5
    <2>2. QED
      BY <1>0, <1>1, <2>1, WiderSeq DEF Types, Bytestring
  <1>8. wire' = wire \o body
    BY <1>0, <1>4 DEF SendFrame
  <1>9. /\ wire' \in Seq(Wider) /\ Len(wire') = Len(wire) + L
        /\ \A j \in 1 .. Len(wire) : wire'[j] = wire[j]
        /\ \A q \in 1 .. L : wire'[Len(wire) + q] = <<N + 1, q>>
    <2>1. /\ wire \o body \in Seq(Wider) /\ Len(wire \o body) = Len(wire) + Len(body)
          /\ \A j \in 1 .. Len(wire) : (wire \o body)[j] = wire[j]
          /\ \A q \in 1 .. Len(body) : (wire \o body)[Len(wire) + q] = body[q]
      <3>1. wire \in Seq(Wider) /\ body \in Seq(Wider)
        BY <1>6, <1>7
      <3>2. QED
        BY <3>1, JoinFacts
    <2>2. QED
      BY <1>6, <1>8, <2>1
  <1>10. Types'
    <2>1. Bytestring' = Seq(Wider)
      BY <1>3, <1>5 DEF Bytestring
    <2>2. QED
      BY <1>0, <1>1, <1>3, <1>7, <1>9, <2>1 DEF Types
  <1>11. Parsed'
    <2>1. pc = "parse" \/ (consumed = 0 /\ Len(rx) < RxBuffer)
      BY <1>1 DEF Parsed
    <2>2. HaveHeader' <=> HaveHeader
      BY <1>1 DEF HaveHeader, Unparsed
    <2>3. ASSUME HaveHeader, pc # "parse" PROVE (Acceptable /\ ~Complete)'
      <3>1. Head1[1] \in 1 .. N
        BY <1>0, <2>3, HeaderOfNow DEF IInv
      <3>2. Head1' = Head1 /\ sent'[Head1[1]] = sent[Head1[1]] /\ Unparsed' = Unparsed
        BY <1>1, <1>3, <3>1 DEF Head1, Unparsed
      <3>3. Acceptable /\ ~Complete
        BY <1>1, <2>3 DEF Parsed
      <3>4. QED
        BY <3>2, <3>3 DEF Acceptable, Complete, Claim, Synced
    <2>4. QED
      BY <1>1, <2>1, <2>2, <2>3 DEF Parsed
  <1>12. StreamIntact'
    <2>1. PICK start \in [Nat -> Int] : Layout(start)
      BY DEF IInv, StreamIntact
    <2>2. PICK longer : longer = [start EXCEPT ![N + 2] = W + L]
      OBVIOUS
    <2>3. PICK now : now = Now
      OBVIOUS
    <2>4. now \in Nat \ {0} /\ Now' = now /\ Last = N /\ Last' = N + 1
      BY <1>0, <1>1, <1>3, <2>3, Counts DEF Now, Last
    <2>5. /\ Unparsed \in Nat /\ Len(record) \in Nat /\ Len(wire) \in Nat
          /\ W = Unparsed + Len(record) + Len(wire) /\ Unparsed' = Unparsed
      BY <1>0, <1>1, Counts DEF Waiting, Unparsed
    <2>6. Waiting' = W + L
      BY <1>1, <1>2, <1>9, <2>5 DEF Waiting
    <2>7. \A k \in 1 .. W : Byte(k)' = Byte(k)
      <3>1. SUFFICES ASSUME NEW k \in 1 .. W PROVE Byte(k)' = Byte(k)
        OBVIOUS
      <3>2. rx' = rx /\ record' = record /\ consumed' = consumed /\ Unparsed' = Unparsed
        BY <1>1, <2>5
      <3>3. CASE k <= Unparsed + Len(record)
        BY <2>5, <3>2, <3>3 DEF Byte
      <3>4. CASE k > Unparsed + Len(record)
        <4>1. k - Unparsed - Len(record) \in 1 .. Len(wire)
          BY <2>5, <3>4
        <4>2. wire'[k - Unparsed - Len(record)] = wire[k - Unparsed - Len(record)]
          BY <1>9, <4>1
        <4>3. QED
          BY <2>5, <3>2, <3>4, <4>2 DEF Byte
      <3>5. QED
        BY <2>5, <3>3, <3>4
    <2>8. \A k \in W + 1 .. W + L : Byte(k)' = <<N + 1, k - W>>
      <3>1. SUFFICES ASSUME NEW k \in W + 1 .. W + L PROVE Byte(k)' = <<N + 1, k - W>>
        OBVIOUS
      <3>2. /\ ~(k <= Unparsed) /\ ~(k <= Unparsed + Len(record))
            /\ k - Unparsed - Len(record) = Len(wire) + (k - W) /\ k - W \in 1 .. L
        BY <1>2, <2>5
      <3>3. wire'[Len(wire) + (k - W)] = <<N + 1, k - W>>
        BY <1>9, <3>2
      <3>4. record' = record /\ Unparsed' = Unparsed
        BY <1>1, <2>5
      <3>5. QED
        BY <3>2, <3>3, <3>4 DEF Byte
    <2>9. /\ longer \in [Nat -> Int] /\ longer[N + 2] = W + L
          /\ \A n \in now .. N + 1 : longer[n] = start[n]
      BY <1>2, <2>2, <2>4
    <2>10. now <= N + 1 /\ start[now] = 0 /\ start[N + 1] = W
      BY <1>0, <2>1, <2>3, <2>4 DEF Layout
    <2>11. \A n \in now .. N : Length(sent'[n]) = Length(sent[n]) /\ Length(sent[n]) \in Nat
      <3>1. SUFFICES ASSUME NEW n \in now .. N
                     PROVE  sent'[n] = sent[n] /\ Length(sent[n]) \in Nat
        OBVIOUS
      <3>2. n \in 1 .. N /\ n \in 1 .. Len(sent)
        BY <1>0, <1>2, <2>4
      <3>3. QED
        BY <1>1, <1>3, <3>2, FrameFacts DEF Types
    <2>12. Length(sent'[N + 1]) = L
      BY <1>0, <1>3
    <2>13. \A n \in now .. N + 1 : longer[n + 1] = longer[n] + Length(sent'[n])
      <3>1. ASSUME NEW n \in now .. N
            PROVE  longer[n + 1] = longer[n] + Length(sent'[n])
        <4>1. start[n + 1] = start[n] + Length(sent[n])
          BY <2>1, <2>3, <2>4 DEF Layout
        <4>2. n + 1 \in now .. N + 1 /\ n \in now .. N + 1
          BY <1>2, <2>4
        <4>3. QED
          BY <2>9, <2>11, <4>1, <4>2
      <3>2. longer[N + 1 + 1] = longer[N + 1] + Length(sent'[N + 1])
        BY <1>2, <2>4, <2>9, <2>10, <2>12
      <3>3. QED
        BY <1>2, <2>4, <3>1, <3>2
    <2>14. \A n \in now .. N + 1 : \A m \in n + 1 .. N + 2 :
             longer[n] + Length(sent'[n]) <= longer[m]
      <3>1. ASSUME NEW n \in now .. N, NEW m \in n + 1 .. N + 1
            PROVE  longer[n] + Length(sent'[n]) <= longer[m]
        <4>1. start[n] + Length(sent[n]) <= start[m]
          BY <2>1, <2>3, <2>4 DEF Layout
        <4>2. m \in now .. N + 1 /\ n \in now .. N + 1
          BY <1>2, <2>4
        <4>3. QED
          BY <2>9, <2>11, <4>1, <4>2
      <3>2. ASSUME NEW n \in now .. N
            PROVE  longer[n] + Length(sent'[n]) <= longer[N + 2]
        <4>1. N + 1 \in n + 1 .. N + 1 /\ n \in Nat /\ N + 1 \in now .. N + 1
          BY <1>2, <2>4
        <4>2. longer[n] + Length(sent'[n]) <= longer[N + 1]
          BY <3>1, <4>1
        <4>3. longer[N + 1] = W
          BY <2>9, <2>10, <4>1
        <4>4. Length(sent'[n]) \in Nat /\ longer[n] \in Int
          BY <2>9, <2>11, <4>1
        <4>5. QED
          BY <1>2, <2>9, <4>2, <4>3, <4>4
      <3>3. longer[N + 1] + Length(sent'[N + 1]) <= longer[N + 2]
        BY <1>2, <2>4, <2>9, <2>10, <2>12
      <3>4. QED
        BY <1>2, <2>4, <3>1, <3>2, <3>3
    <2>15. \A n \in now .. N + 1 : \A q \in 1 .. Length(sent'[n]) :
             Byte(longer[n] + q)' = <<n, q>>
      <3>1. ASSUME NEW n \in now .. N, NEW q \in 1 .. Length(sent'[n])
            PROVE  Byte(longer[n] + q)' = <<n, q>>
        <4>1. q \in 1 .. Length(sent[n]) /\ longer[n] = start[n]
          BY <1>2, <2>4, <2>9, <2>11
        <4>2. start[n] + q \in 1 .. W /\ Byte(start[n] + q) = <<n, q>>
          BY <1>0, <1>1, <2>1, <2>3, <2>4, <4>1, InStream DEF Layout
        <4>3. QED
          BY <2>7, <4>1, <4>2
      <3>2. ASSUME NEW q \in 1 .. Length(sent'[N + 1])
            PROVE  Byte(longer[N + 1] + q)' = <<N + 1, q>>
        <4>1. longer[N + 1] = W /\ q \in 1 .. L
          BY <1>2, <2>4, <2>9, <2>10, <2>12
        <4>2. PICK k \in Int : k = W + q
          BY <1>2, <4>1
        <4>3. k \in W + 1 .. W + L /\ k - W = q
          BY <1>2, <4>1, <4>2
        <4>4. Byte(k)' = <<N + 1, q>>
          BY <2>8, <4>3
        <4>5. k = longer[N + 1] + q
          BY <4>1, <4>2
        <4>6. QED
          BY <4>4, <4>5
      <3>3. QED
        BY <1>2, <2>4, <3>1, <3>2
    <2>16. Layout(longer)'
      <3>1. Now' = now /\ Last' = N + 1 /\ N + 1 + 1 = N + 2
        BY <1>2, <2>4
      <3>2. longer[now] = 0 /\ now <= N + 2
        BY <1>2, <2>4, <2>9, <2>10
      <3>3. QED
        BY <2>6, <2>9, <2>13, <2>14, <2>15, <3>1, <3>2 DEF Layout
    <2>17. QED
      BY <2>9, <2>16 DEF StreamIntact
  <1>13. QED
    BY <1>1, <1>10, <1>11, <1>12 DEF IInv, OnlyTls

(* Steps that leave every buffer as it is.                                 *)
LEMMA StillKeeps ==
  ASSUME IInv, UNCHANGED <<sent, wire, tls, record, rx, consumed, handled>>, Types',
         Parsed', OnlyTls'
  PROVE  IInv'
  <1>1. Unparsed' = Unparsed /\ Waiting' = Waiting
    BY DEF Unparsed, Waiting
  <1>2. \A k \in 1 .. Waiting : Byte(k)' = Byte(k)
    BY <1>1 DEF Byte
  <1>3. StreamIntact'
    BY <1>1, <1>2, SameStream DEF IInv
  <1>4. QED
    BY <1>3 DEF IInv

LEMMA QuietKeeps ==
  ASSUME IInv, \/ \E how \in {"closed", "reset"} : LeavePeer(how)
               \/ TlsReadable \/ TlsWouldBlock \/ ReadFails \/ RefuseFrame
               \/ UNCHANGED vars
  PROVE  IInv'
  <1>1. UNCHANGED <<sent, wire, tls, record, rx, consumed, handled>>
    BY DEF LeavePeer, TlsReadable, TlsWouldBlock, ReadFails, RefuseFrame, peerVars, vars
  <1>2. Types'
    BY <1>1 DEF IInv, Types, Bytestring, LeavePeer, TlsReadable, TlsWouldBlock, ReadFails,
                RefuseFrame, peerVars, vars
  <1>3. pc' # "parse" => pc # "parse"
    BY DEF IInv, Types, LeavePeer, TlsReadable, TlsWouldBlock, ReadFails, RefuseFrame, vars
  <1>4. Parsed'
    BY <1>1, <1>3
       DEF IInv, Parsed, HaveHeader, Unparsed, Acceptable, Complete, Claim, Head1, Synced
  <1>5. OnlyTls'
    BY <1>1 DEF IInv, OnlyTls, LeavePeer, TlsReadable, TlsWouldBlock, ReadFails, RefuseFrame,
                peerVars, vars
  <1>6. QED
    BY <1>1, <1>2, <1>4, <1>5, StillKeeps

LEMMA RecvKeeps ==
  ASSUME IInv, Recv
  PROVE  IInv'
  <1>1. /\ Types /\ consumed = 0 /\ record = <<>>
        /\ UNCHANGED <<sent, peer, tls, record, consumed, open, handled>> /\ pc' = "parse"
    BY DEF IInv, Parsed, OnlyTls, Recv, peerVars
  <1>2. PICK k \in 1 .. Len(wire) :
          k <= Space /\ rx' = rx \o First(wire, k) /\ wire' = Behind(wire, k)
    BY DEF Recv
  <1>3. /\ wire \in Bytestring /\ rx \in Bytestring /\ k \in 0 .. Len(wire)
        /\ Len(rx) \in Nat /\ Len(wire) \in Nat /\ Len(rx) <= RxBuffer
    BY <1>1, <1>2 DEF Types, Bytestring
  <1>4. /\ First(wire, k) \in Bytestring /\ Len(First(wire, k)) = k
        /\ \A j \in 1 .. k : First(wire, k)[j] = wire[j]
    BY <1>3, FirstFacts DEF Bytestring
  <1>5. /\ wire' \in Bytestring /\ Len(wire') = Len(wire) - k
        /\ \A j \in 1 .. Len(wire) - k : wire'[j] = wire[k + j]
    BY <1>2, <1>3, BehindFacts DEF Bytestring
  <1>6. /\ rx' \in Bytestring /\ Len(rx') = Len(rx) + k
        /\ \A j \in 1 .. Len(rx) : rx'[j] = rx[j]
        /\ \A j \in 1 .. k : rx'[Len(rx) + j] = wire[j]
    <2>1. PICK t \in Bytestring : t = First(wire, k)
      BY <1>4
    <2>2. /\ rx \o t \in Bytestring /\ Len(rx \o t) = Len(rx) + Len(t)
          /\ \A j \in 1 .. Len(rx) : (rx \o t)[j] = rx[j]
          /\ \A j \in 1 .. Len(t) : (rx \o t)[Len(rx) + j] = t[j]
      BY <1>3, JoinBytes
    <2>3. QED
      BY <1>2, <1>4, <2>1, <2>2
  <1>7. Types'
    BY <1>1, <1>2, <1>3, <1>5, <1>6 DEF Types, Bytestring, Space
  <1>8. Unparsed = Len(rx) /\ Unparsed' = Len(rx) + k /\ Waiting' = Waiting
    BY <1>1, <1>3, <1>5, <1>6 DEF Unparsed, Waiting
  <1>9. ASSUME NEW j \in 1 .. Waiting PROVE Byte(j)' = Byte(j)
    <2>1. j \in 1 .. Len(rx) + Len(wire) /\ Len(record) = 0 /\ Len(record') = 0
      BY <1>1, <1>3, <1>8 DEF Waiting
    <2>2. CASE j <= Len(rx)
      <3>1. Byte(j) = rx[j] /\ rx'[j] = rx[j]
        BY <1>1, <1>6, <1>8, <2>1, <2>2 DEF Byte
      <3>2. Byte(j)' = rx'[j]
        BY <1>1, <1>3, <1>8, <2>1, <2>2 DEF Byte
      <3>3. QED
        BY <3>1, <3>2
    <2>3. CASE j > Len(rx) /\ j <= Len(rx) + k
      <3>1. PICK m \in 1 .. k : m = j - Len(rx) /\ j = Len(rx) + m
        BY <1>3, <2>1, <2>3
      <3>2. Byte(j) = wire[m]
        BY <1>3, <1>8, <2>1, <2>3, <3>1 DEF Byte
      <3>3. Byte(j)' = rx'[j]
        BY <1>1, <1>3, <1>8, <2>1, <2>3 DEF Byte
      <3>4. QED
        BY <1>6, <3>1, <3>2, <3>3
    <2>4. CASE j > Len(rx) + k
      <3>0. j - Len(rx) - k \in 1 .. Len(wire) - k
        BY <1>3, <2>1, <2>4
      <3>1. PICK m \in 1 .. Len(wire) - k : m = j - Len(rx) - k
        BY <3>0
      <3>2. j - Len(rx) = k + m /\ ~(j <= Len(rx))
        BY <1>3, <2>1, <2>4, <3>1
      <3>3. Byte(j) = wire[k + m]
        BY <1>3, <1>8, <2>1, <2>4, <3>2 DEF Byte
      <3>4. Byte(j)' = wire'[m]
        BY <1>1, <1>3, <1>8, <2>1, <2>4, <3>1 DEF Byte
      <3>5. QED
        BY <1>5, <3>3, <3>4
    <2>5. QED
      BY <1>3, <2>1, <2>2, <2>3, <2>4
  <1>10. StreamIntact'
    BY <1>1, <1>8, <1>9, SameStream DEF IInv
  <1>11. QED
    BY <1>1, <1>7, <1>10 DEF IInv, Parsed, OnlyTls

LEMMA TlsReadKeeps ==
  ASSUME IInv, TlsRead
  PROVE  IInv'
  <1>1. /\ Types /\ consumed = 0 /\ pc = "read"
        /\ UNCHANGED <<sent, peer, tls, consumed, open, handled>> /\ pc' = "parse"
    BY DEF IInv, Parsed, TlsRead, peerVars
  <1>2. PICK n \in 0 .. Len(wire) :
          LET have == record \o First(wire, n)
              k    == IF Len(have) < Space THEN Len(have) ELSE Space
          IN  /\ (record = <<>>) <=> (n > 0)
              /\ k > 0
              /\ wire' = Behind(wire, n)
              /\ rx' = rx \o First(have, k)
              /\ record' = Behind(have, k)
    BY DEF TlsRead
  <1>3. PICK have : have = record \o First(wire, n)
    OBVIOUS
  <1>4. PICK k : k = IF Len(have) < Space THEN Len(have) ELSE Space
    OBVIOUS
  <1>5. /\ wire' = Behind(wire, n) /\ rx' = rx \o First(have, k) /\ record' = Behind(have, k)
        /\ k > 0
    BY <1>2, <1>3, <1>4
  <1>6. /\ wire \in Bytestring /\ record \in Bytestring /\ rx \in Bytestring
        /\ Len(rx) \in Nat /\ Len(record) \in Nat /\ Len(wire) \in Nat /\ Len(rx) <= RxBuffer
    BY <1>1 DEF Types, Bytestring
  <1>7. /\ First(wire, n) \in Bytestring /\ Len(First(wire, n)) = n
        /\ \A j \in 1 .. n : First(wire, n)[j] = wire[j]
    BY <1>6, FirstFacts DEF Bytestring
  <1>8. /\ have \in Bytestring /\ Len(have) = Len(record) + n
        /\ \A j \in 1 .. Len(record) : have[j] = record[j]
        /\ \A j \in 1 .. n : have[Len(record) + j] = wire[j]
    <2>1. PICK t \in Bytestring : t = First(wire, n)
      BY <1>7
    <2>2. /\ record \o t \in Bytestring /\ Len(record \o t) = Len(record) + Len(t)
          /\ \A j \in 1 .. Len(record) : (record \o t)[j] = record[j]
          /\ \A j \in 1 .. Len(t) : (record \o t)[Len(record) + j] = t[j]
      BY <1>6, JoinBytes
    <2>3. QED
      BY <1>3, <1>7, <2>1, <2>2
  <1>9. k \in 1 .. Len(have) /\ k \in 0 .. Len(have) /\ Len(rx) + k <= RxBuffer
    <2>0. k > 0
      BY <1>5
    <2>1. /\ Len(have) \in Nat /\ Len(rx) \in Nat /\ Space \in Int
          /\ Space = RxBuffer - Len(rx)
      BY <1>6, <1>8 DEF Space
    <2>2. CASE Len(have) < Space
      <3>1. k = Len(have)
        BY <1>4, <2>2
      <3>2. QED
        BY <2>0, <2>1, <2>2, <3>1
    <2>3. CASE ~(Len(have) < Space)
      <3>1. k = Space
        BY <1>4, <2>3
      <3>2. QED
        BY <2>0, <2>1, <2>3, <3>1
    <2>4. QED
      BY <2>2, <2>3
  <1>10. /\ wire' \in Bytestring /\ Len(wire') = Len(wire) - n
         /\ \A j \in 1 .. Len(wire) - n : wire'[j] = wire[n + j]
    BY <1>5, <1>6, BehindFacts DEF Bytestring
  <1>11. /\ record' \in Bytestring /\ Len(record') = Len(have) - k
         /\ \A j \in 1 .. Len(have) - k : record'[j] = have[k + j]
    BY <1>5, <1>8, <1>9, BehindFacts DEF Bytestring
  <1>12. /\ rx' \in Bytestring /\ Len(rx') = Len(rx) + k
         /\ \A j \in 1 .. Len(rx) : rx'[j] = rx[j]
         /\ \A j \in 1 .. k : rx'[Len(rx) + j] = have[j]
    <2>1. /\ First(have, k) \in Bytestring /\ Len(First(have, k)) = k
          /\ \A j \in 1 .. k : First(have, k)[j] = have[j]
      BY <1>8, <1>9, FirstFacts DEF Bytestring
    <2>2. PICK t \in Bytestring : t = First(have, k)
      BY <2>1
    <2>3. /\ rx \o t \in Bytestring /\ Len(rx \o t) = Len(rx) + Len(t)
          /\ \A j \in 1 .. Len(rx) : (rx \o t)[j] = rx[j]
          /\ \A j \in 1 .. Len(t) : (rx \o t)[Len(rx) + j] = t[j]
      BY <1>6, JoinBytes
    <2>4. QED
      BY <1>5, <2>1, <2>2, <2>3
  <1>13. Types'
    BY <1>1, <1>9, <1>10, <1>11, <1>12 DEF Types, Bytestring
  <1>14. /\ Unparsed = Len(rx) /\ Unparsed' = Len(rx) + k /\ Waiting' = Waiting
         /\ Waiting = Len(rx) + Len(record) + Len(wire)
    BY <1>1, <1>6, <1>8, <1>9, <1>10, <1>11, <1>12 DEF Unparsed, Waiting
  <1>15. ASSUME NEW j \in 1 .. Waiting PROVE Byte(j)' = Byte(j)
    <2>1. j \in 1 .. Len(rx) + Len(record) + Len(wire)
      BY <1>14
    <2>2. CASE j <= Len(rx)
      <3>1. Byte(j) = rx[j] /\ rx'[j] = rx[j]
        BY <1>1, <1>12, <1>14, <2>1, <2>2 DEF Byte
      <3>2. Byte(j)' = rx'[j]
        BY <1>1, <1>6, <1>9, <1>14, <2>1, <2>2 DEF Byte
      <3>3. QED
        BY <3>1, <3>2
    <2>3. CASE j > Len(rx) /\ j <= Len(rx) + Len(have)
      <3>0. j - Len(rx) \in 1 .. Len(have)
        BY <1>6, <1>8, <2>1, <2>3
      <3>1. PICK m \in 1 .. Len(have) : m = j - Len(rx)
        BY <3>0
      <3>2. Byte(j) = have[m]
        <4>1. CASE m <= Len(record)
          <5>1. Byte(j) = record[m]
            BY <1>6, <1>14, <2>1, <2>3, <3>1, <4>1 DEF Byte
          <5>2. QED
            BY <1>6, <1>8, <3>1, <4>1, <5>1
        <4>2. CASE m > Len(record)
          <5>1. m - Len(record) \in 1 .. n
            BY <1>6, <1>8, <3>1, <4>2
          <5>2. PICK i \in 1 .. n : i = m - Len(record)
            BY <5>1
          <5>3. Byte(j) = wire[i]
            BY <1>6, <1>14, <2>1, <2>3, <3>1, <4>2, <5>2 DEF Byte
          <5>4. m = Len(record) + i
            BY <1>6, <1>8, <3>1, <5>2
          <5>5. QED
            BY <1>8, <5>2, <5>3, <5>4
        <4>3. QED
          BY <1>6, <1>8, <3>1, <4>1, <4>2
      <3>3. Byte(j)' = have[m]
        <4>1. CASE m <= k
          <5>1. Byte(j)' = rx'[j] /\ j = Len(rx) + m /\ m \in 1 .. k
            BY <1>1, <1>6, <1>8, <1>9, <1>14, <2>1, <2>3, <3>1, <4>1 DEF Byte
          <5>2. QED
            BY <1>12, <5>1
        <4>2. CASE m > k
          <5>1. m - k \in 1 .. Len(have) - k
            BY <1>6, <1>8, <1>9, <3>1, <4>2
          <5>2. PICK i \in 1 .. Len(have) - k : i = m - k
            BY <5>1
          <5>3. Byte(j)' = record'[i]
            <6>1. Unparsed' = Len(rx) + k /\ Len(record') = Len(have) - k
              BY <1>11, <1>14
            <6>2. /\ ~(j <= Len(rx) + k) /\ j <= (Len(rx) + k) + (Len(have) - k)
                  /\ j - (Len(rx) + k) = i
              BY <1>6, <1>8, <1>9, <2>1, <3>1, <4>2, <5>2
            <6>3. QED
              BY <6>1, <6>2 DEF Byte
          <5>4. m = k + i
            BY <1>6, <1>8, <1>9, <3>1, <5>2
          <5>5. QED
            BY <1>11, <5>2, <5>3, <5>4
        <4>3. QED
          BY <1>9, <3>1, <4>1, <4>2
      <3>4. QED
        BY <3>2, <3>3
    <2>4. CASE j > Len(rx) + Len(have)
      <3>0. j - Len(rx) - Len(have) \in 1 .. Len(wire) - n
        BY <1>6, <1>8, <2>1, <2>4
      <3>1. PICK m \in 1 .. Len(wire) - n : m = j - Len(rx) - Len(have)
        BY <3>0
      <3>2. j - Len(rx) - Len(record) = n + m
        BY <1>6, <1>8, <2>1, <3>1
      <3>3. Byte(j) = wire[n + m]
        BY <1>6, <1>8, <1>14, <2>1, <2>4, <3>2 DEF Byte
      <3>4. Byte(j)' = wire'[m]
        BY <1>6, <1>8, <1>9, <1>11, <1>14, <2>1, <2>4, <3>1 DEF Byte
      <3>5. QED
        BY <1>10, <3>3, <3>4
    <2>5. QED
      BY <1>6, <1>8, <2>1, <2>2, <2>3, <2>4
  <1>16. StreamIntact'
    BY <1>1, <1>14, <1>15, SameStream DEF IInv
  <1>17. OnlyTls'
    BY <1>1 DEF IInv, OnlyTls
  <1>18. QED
    BY <1>1, <1>13, <1>16, <1>17 DEF IInv, Parsed


LEMMA HandleFrameKeeps ==
  ASSUME IInv, HandleFrame
  PROVE  IInv' /\ Now <= Last /\ Good(sent[Now]) /\ handled' = Append(handled, Content(Now))
  <1>1. /\ Types /\ StreamIntact /\ HaveHeader /\ Acceptable /\ Complete /\ pc = "parse"
        /\ UNCHANGED <<sent, peer, wire, tls, record, rx, pc, open>>
        /\ consumed' = consumed + Claim
        /\ handled' = Append(handled, SubSeq(rx, consumed + 1, consumed + Claim))
    BY DEF IInv, HandleFrame, Parsing, peerVars
  <1>2. /\ Now \in 1 .. Len(sent) /\ Now <= Last /\ Claim = sent[Now].claim /\ Good(sent[Now])
    BY <1>1, HeaderOfNow
  <1>3. PICK now, C, W, U : now = Now /\ C = Claim /\ W = Waiting /\ U = Unparsed
    OBVIOUS
  <1>4. /\ C \in Nat /\ C = Length(sent[now]) /\ C <= U /\ C > 0
    <2>1. sent \in Seq(Frame)
      BY <1>1 DEF Types
    <2>2. /\ sent[now].claim \in Nat /\ Length(sent[now]) \in Nat \ {0}
          /\ sent[now].claim >= HeaderLen => Length(sent[now]) = sent[now].claim
      BY <1>2, <1>3, <2>1, FrameFacts
    <2>3. C = sent[now].claim /\ C >= HeaderLen /\ C <= U
      BY <1>1, <1>2, <1>3 DEF Acceptable, Complete
    <2>4. C = Length(sent[now])
      BY <2>2, <2>3
    <2>5. C \in Nat \ {0}
      BY <2>2, <2>4
    <2>6. QED
      BY <2>3, <2>4, <2>5
  <1>5. /\ now \in Nat \ {0} /\ Last \in Nat /\ Last' = Last /\ W \in Nat /\ U \in Nat
        /\ W = U + Len(record) + Len(wire) /\ Len(record) \in Nat /\ Len(wire) \in Nat
        /\ U = Len(rx) - consumed /\ consumed \in Nat /\ Len(rx) \in Nat
    BY <1>1, <1>3, Counts DEF Last, Waiting, Unparsed, Types, Bytestring
  <1>6. \A q \in 1 .. C : Byte(q) = <<now, q>>
    BY <1>1, <1>2, <1>3, <1>4, FrontFrame
  <1>7. PICK got : got = SubSeq(rx, consumed + 1, consumed + C)
    OBVIOUS
  <1>8. /\ Len(got) = C /\ got \in Seq((1 .. Len(sent)) \X Nat)
        /\ \A q \in 1 .. C : got[q] = rx[consumed + q]
    <2>1. rx \in Seq((1 .. Len(sent)) \X Nat)
      BY <1>1 DEF Types, Bytestring
    <2>2. PICK m, n \in Int : m = consumed + 1 /\ n = consumed + C
      BY <1>4, <1>5
    <2>3. m \in 1 .. Len(rx) + 1 /\ n \in m - 1 .. Len(rx) /\ n - m + 1 = C /\ n >= m
      BY <1>4, <1>5, <2>2
    <2>4. /\ SubSeq(rx, m, n) \in Seq((1 .. Len(sent)) \X Nat)
          /\ Len(SubSeq(rx, m, n)) = n - m + 1
          /\ \A q \in 1 .. n - m + 1 : SubSeq(rx, m, n)[q] = rx[m + q - 1]
      <3>1. \A i \in m .. n : rx[i] \in (1 .. Len(sent)) \X Nat
        BY <1>5, <2>1, <2>2, <2>3
      <3>2. QED
        BY <2>2, <2>3, <3>1, SubSeqProperties
    <2>5. \A q \in 1 .. C : m + q - 1 = consumed + q
      BY <1>4, <1>5, <2>2
    <2>6. QED
      BY <1>7, <2>2, <2>3, <2>4, <2>5
  <1>9. \A q \in 1 .. C : rx[consumed + q] = <<now, q>>
    <2>1. \A q \in 1 .. C : Byte(q) = rx[consumed + q]
      BY <1>3, <1>4, <1>5 DEF Byte
    <2>2. QED
      BY <1>6, <2>1
  <1>10. got = Content(now)
    <2>1. got = [q \in 1 .. C |-> got[q]]
      BY <1>8
    <2>2. \A q \in 1 .. C : got[q] = <<now, q>>
      BY <1>8, <1>9
    <2>3. QED
      BY <1>4, <2>1, <2>2 DEF Content
  <1>11. handled' = Append(handled, Content(Now))
    BY <1>1, <1>3, <1>7, <1>10
  <1>12. /\ Len(handled') = Len(handled) + 1 /\ Now' = now + 1
    BY <1>1, <1>3, <1>11 DEF Types, Now
  <1>13. Types'
    <2>1. got \in Seq(Nat \X Nat)
      BY <1>8, WiderSeq
    <2>2. handled' \in Seq(Seq(Nat \X Nat))
      BY <1>1, <1>3, <1>7, <2>1 DEF Types
    <2>3. consumed' \in Nat /\ consumed' <= Len(rx)
      BY <1>1, <1>3, <1>4, <1>5
    <2>4. QED
      BY <1>1, <2>2, <2>3 DEF Types, Bytestring
  <1>14. Unparsed' = U - C /\ Waiting' = W - C
    <2>1. Unparsed' = U - C
      BY <1>1, <1>3, <1>4, <1>5 DEF Unparsed
    <2>2. Waiting' = Unparsed' + Len(record) + Len(wire)
      BY <1>1 DEF Waiting
    <2>3. QED
      BY <1>4, <1>5, <2>1, <2>2
  <1>15. \A j \in 1 .. W - C : Byte(j)' = Byte(C + j)
    <2>1. SUFFICES ASSUME NEW j \in 1 .. W - C PROVE Byte(j)' = Byte(C + j)
      OBVIOUS
    <2>2. PICK i \in Int : i = C + j
      BY <1>4
    <2>3. CASE j <= U - C
      <3>1. Byte(i) = rx[consumed + i]
        BY <1>3, <1>4, <1>5, <2>2, <2>3 DEF Byte
      <3>2. Byte(j)' = rx[(consumed + C) + j]
        BY <1>1, <1>3, <1>14, <2>3 DEF Byte
      <3>3. consumed + i = (consumed + C) + j
        BY <1>4, <1>5, <2>2
      <3>4. QED
        BY <2>2, <3>1, <3>2, <3>3
    <2>4. CASE j > U - C
      <3>0. j \in Int /\ C \in Int /\ U \in Int /\ i = C + j /\ Len(record) \in Int
        BY <1>4, <1>5, <2>2
      <3>1. j - (U - C) = i - U /\ ~(i <= U) /\ ~(j <= U - C)
        BY <2>4, <3>0
      <3>2. j <= (U - C) + Len(record) <=> i <= U + Len(record)
        BY <3>0
      <3>3. j - (U - C) - Len(record) = i - U - Len(record)
        BY <3>0
      <3>4. Byte(j)' = IF j <= (U - C) + Len(record) THEN record[j - (U - C)]
                       ELSE wire[j - (U - C) - Len(record)]
        BY <1>1, <1>14, <3>1 DEF Byte
      <3>5. Byte(i) = IF i <= U + Len(record) THEN record[i - U]
                      ELSE wire[i - U - Len(record)]
        BY <1>3, <3>1 DEF Byte
      <3>6. Byte(j)' = Byte(i)
        BY <3>1, <3>2, <3>3, <3>4, <3>5
      <3>7. QED
        BY <2>2, <3>6
    <2>5. QED
      BY <1>4, <1>5, <2>3, <2>4
  <1>16. StreamIntact'
    <2>1. PICK start \in [Nat -> Int] : Layout(start)
      BY <1>1 DEF StreamIntact
    <2>2. PICK last : last = Last
      OBVIOUS
    <2>3. PICK shorter : shorter = [n \in Nat |-> start[n] - C]
      OBVIOUS
    <2>4. shorter \in [Nat -> Int] /\ \A n \in Nat : shorter[n] = start[n] - C
      BY <1>4, <2>3
    <2>5. /\ now <= last /\ last \in Nat /\ last' = last /\ last = Len(sent)
      BY <1>2, <1>3, <1>5, <2>2 DEF Last
    <2>6. /\ start[now] = 0 /\ start[last + 1] = W
          /\ \A n \in now .. last : start[n + 1] = start[n] + Length(sent[n])
          /\ \A n \in now .. last : \A m \in n + 1 .. last + 1 :
               start[n] + Length(sent[n]) <= start[m]
          /\ \A n \in now .. last : \A q \in 1 .. Length(sent[n]) :
               Byte(start[n] + q) = <<n, q>>
      BY <1>3, <2>1, <2>2 DEF Layout
    <2>7. start[now + 1] = C
      BY <1>4, <1>5, <2>5, <2>6
    <2>8. shorter[now + 1] = 0 /\ shorter[last + 1] = W - C
      BY <1>4, <1>5, <2>4, <2>5, <2>6, <2>7
    <2>9. ASSUME NEW n \in now + 1 .. last
          PROVE  /\ n \in now .. last /\ n \in Nat /\ n + 1 \in Nat /\ start[n] \in Int
                 /\ Length(sent[n]) \in Nat /\ start[n] >= C
      <3>1. n \in now .. last /\ n \in Nat /\ n + 1 \in Nat /\ n \in 1 .. Len(sent)
        BY <1>5, <2>5
      <3>2. Length(sent[n]) \in Nat /\ start[n] \in Int
        BY <1>1, <3>1, FrameFacts DEF Types
      <3>3. now \in now .. last /\ n \in now + 1 .. last + 1
        BY <1>5, <2>5, <3>1
      <3>4. start[now] + Length(sent[now]) <= start[n]
        BY <2>6, <3>3
      <3>5. QED
        BY <1>4, <2>6, <3>1, <3>2, <3>4
    <2>10. \A n \in now + 1 .. last : shorter[n + 1] = shorter[n] + Length(sent[n])
      <3>1. SUFFICES ASSUME NEW n \in now + 1 .. last
                     PROVE  shorter[n + 1] = shorter[n] + Length(sent[n])
        OBVIOUS
      <3>2. start[n + 1] = start[n] + Length(sent[n])
        BY <2>6, <2>9
      <3>3. QED
        BY <1>4, <2>4, <2>9, <3>2
    <2>11. \A n \in now + 1 .. last : \A m \in n + 1 .. last + 1 :
             shorter[n] + Length(sent[n]) <= shorter[m]
      <3>1. SUFFICES ASSUME NEW n \in now + 1 .. last, NEW m \in n + 1 .. last + 1
                     PROVE  shorter[n] + Length(sent[n]) <= shorter[m]
        OBVIOUS
      <3>2. start[n] + Length(sent[n]) <= start[m]
        BY <2>6, <2>9
      <3>3. m \in Nat /\ start[m] \in Int
        BY <2>9
      <3>4. QED
        BY <1>4, <2>4, <2>9, <3>2, <3>3
    <2>12. \A n \in now + 1 .. last : \A q \in 1 .. Length(sent[n]) :
             Byte(shorter[n] + q)' = <<n, q>>
      <3>1. SUFFICES ASSUME NEW n \in now + 1 .. last, NEW q \in 1 .. Length(sent[n])
                     PROVE  Byte(shorter[n] + q)' = <<n, q>>
        OBVIOUS
      <3>2. start[n] + q \in 1 .. W
        BY <1>1, <1>3, <2>1, <2>2, <2>9, InStream
      <3>3. Byte(start[n] + q) = <<n, q>>
        BY <2>6, <2>9
      <3>4. PICK j \in Int : j = start[n] - C + q
        BY <1>4, <2>9
      <3>5. j \in 1 .. W - C /\ C + j = start[n] + q
        <4>1. /\ start[n] \in Int /\ start[n] >= C /\ C \in Int /\ W \in Int
              /\ q \in Int /\ q >= 1 /\ start[n] + q <= W
          BY <1>4, <1>5, <2>9, <3>2
        <4>2. QED
          BY <3>4, <4>1
      <3>6. Byte(j)' = <<n, q>>
        BY <1>15, <3>3, <3>5
      <3>7. j = shorter[n] + q
        BY <2>4, <2>9, <3>4
      <3>8. QED
        BY <3>6, <3>7
    <2>13. Layout(shorter)'
      <3>1. Now' = now + 1 /\ Last' = last /\ sent' = sent /\ Waiting' = W - C
        BY <1>1, <1>5, <1>12, <1>14, <2>2
      <3>2. now + 1 <= last + 1
        BY <1>5, <2>5
      <3>3. QED
        BY <2>8, <2>10, <2>11, <2>12, <3>1, <3>2 DEF Layout
    <2>14. QED
      BY <2>4, <2>13 DEF StreamIntact
  <1>17. Parsed' /\ OnlyTls'
    BY <1>1 DEF Parsed, IInv, OnlyTls
  <1>18. QED
    BY <1>2, <1>11, <1>13, <1>16, <1>17 DEF IInv

LEMMA EndParseKeeps ==
  ASSUME IInv, EndParse
  PROVE  IInv' /\ open' = open
  <1>1. /\ Types /\ StreamIntact /\ pc = "parse" /\ open = TRUE
        /\ HaveHeader => Acceptable /\ ~Complete
        /\ UNCHANGED <<sent, peer, wire, tls, record, handled>>
        /\ rx' = Behind(rx, consumed) /\ consumed' = 0
        /\ open' = (Len(Behind(rx, consumed)) < RxBuffer)
        /\ pc' = IF ReadMore THEN "read" ELSE "select"
    BY DEF IInv, EndParse, Parsing, Leftover, peerVars, Types
  <1>2. /\ Unparsed \in Nat /\ Unparsed = Len(rx) - consumed /\ rx \in Bytestring
        /\ consumed \in 0 .. Len(rx) /\ Len(rx) \in Nat /\ Len(rx) <= RxBuffer
    BY <1>1, Counts DEF Types, Unparsed, Bytestring
  <1>3. /\ rx' \in Bytestring /\ Len(rx') = Unparsed
        /\ \A j \in 1 .. Unparsed : rx'[j] = rx[consumed + j]
    BY <1>1, <1>2, BehindFacts DEF Bytestring
  <1>4. Unparsed < RxBuffer
    <2>1. CASE HaveHeader
      <3>1. Now \in 1 .. Len(sent) /\ Claim = sent[Now].claim /\ sent \in Seq(Frame)
        BY <1>1, <2>1, HeaderOfNow DEF Types
      <3>2. Claim \in Nat
        BY <3>1, FrameFacts
      <3>3. Claim <= RxBuffer /\ ~(Claim <= Unparsed)
        BY <1>1, <2>1 DEF Acceptable, Complete
      <3>4. QED
        BY <1>2, <3>2, <3>3
    <2>2. CASE ~HaveHeader
      BY <1>2, <2>2 DEF HaveHeader
    <2>3. QED
      BY <2>1, <2>2
  <1>5. open' = open
    BY <1>1, <1>3, <1>4
  <1>6. Types'
    BY <1>1, <1>2, <1>3, <1>5 DEF Types, Bytestring
  <1>7. Unparsed' = Unparsed /\ Waiting' = Waiting
    BY <1>1, <1>2, <1>3 DEF Unparsed, Waiting
  <1>8. \A j \in 1 .. Waiting : Byte(j)' = Byte(j)
    BY <1>1, <1>2, <1>3, <1>7 DEF Byte
  <1>9. StreamIntact'
    BY <1>1, <1>7, <1>8, SameStream
  <1>10. Parsed'
    <2>1. consumed' = 0 /\ Len(rx') < RxBuffer
      BY <1>1, <1>3, <1>4
    <2>2. ASSUME HaveHeader' PROVE (Acceptable /\ ~Complete)'
      <3>1. HaveHeader /\ Unparsed >= 1
        BY <1>2, <1>7, <2>2 DEF HaveHeader
      <3>2. Head1' = Head1
        BY <1>1, <1>2, <1>3, <3>1 DEF Head1
      <3>3. QED
        BY <1>1, <1>7, <3>1, <3>2 DEF Acceptable, Complete, Claim, Synced
    <2>3. QED
      BY <2>1, <2>2 DEF Parsed
  <1>11. OnlyTls'
    BY <1>1 DEF IInv, OnlyTls, ReadMore
  <1>12. QED
    BY <1>5, <1>6, <1>9, <1>10, <1>11 DEF IInv

LEMMA Inductive == IInv /\ [Next]_vars => IInv'
  <1> SUFFICES ASSUME IInv, [Next]_vars PROVE IInv'
    OBVIOUS
  <1>1. ASSUME NEW f \in Frame, SendFrame(f) PROVE IInv'
    BY <1>1, SendFrameKeeps
  <1>2. CASE Recv \/ TlsRead
    BY <1>2, RecvKeeps, TlsReadKeeps
  <1>3. CASE HandleFrame \/ EndParse
    BY <1>3, HandleFrameKeeps, EndParseKeeps
  <1>4. CASE \/ \E how \in {"closed", "reset"} : LeavePeer(how)
             \/ TlsReadable \/ TlsWouldBlock \/ ReadFails \/ RefuseFrame
             \/ UNCHANGED vars
    BY <1>4, QuietKeeps
  <1>5. QED
    BY <1>1, <1>2, <1>3, <1>4 DEF Next

-----------------------------------------------------------------------------
(* Every step of the receive path is a step of the stream, or none.        *)

(* A read that fails has a reason on the controller's side: there is       *)
(* always room to read into, and what a controller that closed has sent    *)
(* was handled.                                                            *)
LEMMA ReadFailsMaps ==
  ASSUME IInv, ReadFails
  PROVE  Stream!Drop
  <1>1. /\ Types /\ StreamIntact /\ consumed = 0 /\ Len(rx) < RxBuffer
        /\ HaveHeader => Acceptable /\ ~Complete
    BY DEF IInv, Parsed, ReadFails
  <1>2. Space # 0
    BY <1>1 DEF Space, Types, Bytestring
  <1>3. ASSUME wire = <<>>, record = <<>> PROVE Len(handled) + 1 > Len(sent)
    <2>1. Waiting = Unparsed /\ Unparsed \in Nat /\ Now \in Nat /\ Last \in Nat
      BY <1>1, <1>3, Counts DEF Waiting
    <2>2. ~(Now <= Last)
      BY <1>1, <2>1, NothingLeftOver
    <2>3. QED
      BY <2>1, <2>2 DEF Now, Last
  <1>4. peer = "reset" \/ (peer = "closed" /\ Len(handled) + 1 > Len(sent))
    BY <1>2, <1>3 DEF ReadFails
  <1>5. QED
    BY <1>4 DEF ReadFails, Stream!Drop, peerVars

LEMMA HandleFrameMaps ==
  ASSUME IInv, HandleFrame
  PROVE  Stream!HandleNext
  <1>1. Now <= Last /\ Good(sent[Now]) /\ handled' = Append(handled, Content(Now))
    BY HandleFrameKeeps
  <1>2. Content(Now) = Stream!Content(Now)
    BY DEF Content, Stream!Content
  <1>3. QED
    BY <1>1, <1>2 DEF HandleFrame, Parsing, Stream!HandleNext, Now, Last, peerVars

LEMMA RefuseFrameMaps ==
  ASSUME IInv, RefuseFrame
  PROVE  Stream!Drop
  <1>1. Now <= Last /\ ~Good(sent[Now])
    BY HeaderOfNow DEF IInv, RefuseFrame
  <1>2. QED
    BY <1>1 DEF RefuseFrame, Parsing, Stream!Drop, Now, Last, peerVars

LEMMA StepMaps == IInv /\ [Next]_vars => [Stream!StreamNext]_(Stream!streamVars)
  <1> SUFFICES ASSUME IInv, [Next]_vars PROVE [Stream!StreamNext]_(Stream!streamVars)
    OBVIOUS
  <1>1. ASSUME NEW f \in Frame, SendFrame(f) PROVE Stream!SendFrame(f)
    BY <1>1 DEF SendFrame, Stream!SendFrame
  <1>2. ASSUME NEW how \in {"closed", "reset"}, LeavePeer(how) PROVE Stream!LeavePeer(how)
    BY <1>2 DEF LeavePeer, Stream!LeavePeer
  <1>3. CASE Recv \/ TlsReadable \/ TlsRead \/ TlsWouldBlock \/ UNCHANGED vars
    BY <1>3 DEF Recv, TlsReadable, TlsRead, TlsWouldBlock, vars, peerVars, Stream!streamVars
  <1>4. CASE EndParse
    BY <1>4, EndParseKeeps DEF EndParse, peerVars, Stream!streamVars
  <1>5. CASE ReadFails \/ RefuseFrame
    BY <1>5, ReadFailsMaps, RefuseFrameMaps DEF Stream!StreamNext
  <1>6. CASE HandleFrame
    BY <1>6, HandleFrameMaps DEF Stream!StreamNext
  <1>7. QED
    BY <1>1, <1>2, <1>3, <1>4, <1>5, <1>6 DEF Next, Stream!StreamNext

(* The inductive invariant holds: what process_rx has not handled yet is,  *)
(* across its buffer, the TLS library and the wire, the stream of the      *)
(* frames sent, whole and in order.                                        *)
THEOREM FramingInvariant == Spec => []IInv
  BY InitInv, Inductive, PTL DEF Spec

(* Types; rx never holds more than its size and process_rx never consumes  *)
(* more than it holds.                                                     *)
THEOREM FramingTypeCorrect == Spec => []TypeOK
  <1>1. IInv => TypeOK
    <2>1. SUFFICES ASSUME Types PROVE TypeOK
      BY DEF IInv
    <2>2. ASSUME NEW s \in Bytestring PROVE Bytes(s)
      <3>1. ASSUME NEW k \in 1 .. Len(s) PROVE s[k][1] \in 1 .. Len(sent) /\ s[k][2] \in Nat
        <4>1. s[k] \in (1 .. Len(sent)) \X Nat
          BY DEF Bytestring
        <4>2. QED
          BY <4>1
      <3>2. QED
        BY <3>1 DEF Bytes
    <2>3. consumed \in 0 .. Len(rx)
      BY <2>1 DEF Types, Bytestring
    <2>4. QED
      BY <2>1, <2>2, <2>3 DEF Types, TypeOK
  <1>2. QED
    BY <1>1, FramingInvariant, PTL

(* However TCP segments and TLS records cut the stream, process_rx hands   *)
(* over the frames sent, whole and in order, and the connection is dropped *)
(* over a frame to refuse or by the controller only.                       *)
THEOREM StreamImplemented == Spec => ImplementsStream
  <1>1. Init => Stream!StreamInit
    BY DEF Init, Stream!StreamInit
  <1>2. QED
    BY <1>1, StepMaps, FramingInvariant, PTL DEF Spec, ImplementsStream, Stream!StreamSpec
=============================================================================
