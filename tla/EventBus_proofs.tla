---------------------------- MODULE EventBus_proofs ----------------------------
(***************************************************************************)
(* Proofs about EventBus, for every ring size, any number of subscribers   *)
(* and publishers of any events.                                           *)
(***************************************************************************)
EXTENDS EventBus, SequenceTheorems, TLAPS

\* The inductive invariant.
IInv(Events) == sent \in Seq(Events) /\ BusTypeOK /\ OnlyOverwrittenAreLost

\* What a step of one subscriber has to keep, for its own record.
RecordOK(r) ==
  /\ r \in SubRecord
  /\ r.from <= r.next /\ r.next <= Len(sent) + 1
  /\ r.last < r.next /\ r.gap < r.next
  /\ r.next > r.from => r.next - 1 \in {r.last, r.gap}
  /\ r.gap >= r.from => r.gap + RingSize <= Len(sent)

LEMMA RecordsOK ==
  ASSUME NEW Events, IInv(Events)
  PROVE  /\ sub \in [Subscribers -> SubRecord]
         /\ \A s \in Subscribers : RecordOK(sub[s])
  BY DEF IInv, BusTypeOK, OnlyOverwrittenAreLost, RecordOK

LEMMA AwayIsOK ==
  ASSUME NEW Events, sent \in Seq(Events)
  PROVE  RecordOK(Away)
<1>1. Len(sent) \in Nat
  OBVIOUS
<1> QED
  BY <1>1, BusAssumption DEF RecordOK, Away, SubRecord

\* The two ways in which a cursor moves keep the record's type.
LEMMA CursorMoves ==
  ASSUME NEW r \in SubRecord, NEW n \in Nat \ {0}, NEW p \in Nat
  PROVE  /\ [r EXCEPT !.last = p, !.next = n] \in SubRecord
         /\ [r EXCEPT !.next = n, !.gap = p] \in SubRecord
  BY DEF SubRecord

LEMMA OldestFacts ==
  ASSUME NEW Events, sent \in Seq(Events)
  PROVE  /\ Oldest \in Nat \ {0} /\ Len(sent) \in Nat /\ Oldest <= Len(sent) + 1
         /\ Oldest > 1 => Oldest - 1 + RingSize = Len(sent)
<1>1. Len(sent) \in Nat
  OBVIOUS
<1> QED
  BY <1>1, BusAssumption DEF Oldest

LEMMA InitIInv ==
  ASSUME NEW Events, BusInit
  PROVE  IInv(Events)
<1>1. sent \in Seq(Events)
  BY DEF BusInit
<1>2. \A s \in Subscribers : sub[s] = Away
  BY DEF BusInit
<1>3. RecordOK(Away)
  BY <1>1, AwayIsOK
<1> QED
  BY <1>1, <1>2, <1>3 DEF BusInit, IInv, BusTypeOK, OnlyOverwrittenAreLost, RecordOK

\* One record changes, into one that is in order.
LEMMA OneRecordIInv ==
  ASSUME NEW Events, IInv(Events), NEW s \in Subscribers, NEW r, RecordOK(r),
         sub' = [sub EXCEPT ![s] = r], UNCHANGED sent
  PROVE  IInv(Events)'
<1>1. \A t \in Subscribers : RecordOK(sub'[t])
  BY RecordsOK
<1>2. sub' \in [Subscribers -> SubRecord]
  BY RecordsOK DEF RecordOK
<1> QED
  BY <1>1, <1>2 DEF IInv, BusTypeOK, OnlyOverwrittenAreLost, RecordOK

LEMMA PublishIInv ==
  ASSUME NEW Events, IInv(Events), NEW events \in Seq(Events), Publish(events), UNCHANGED sub
  PROVE  IInv(Events)'
<1>1. sent' \in Seq(Events) /\ Len(sent') = Len(sent) + Len(events)
  BY DEF IInv, Publish
<1>2. Len(sent) \in Nat /\ Len(events) \in Nat
  BY DEF IInv
<1>3. sub' \in [Subscribers -> SubRecord]
  BY DEF IInv, BusTypeOK
<1>4. ASSUME NEW s \in Subscribers
      PROVE  /\ sub'[s].next <= Len(sent') + 1
             /\ sub'[s].gap >= sub'[s].from => sub'[s].gap + RingSize <= Len(sent')
  <2>1. sub[s] \in SubRecord /\ RecordOK(sub[s])
    BY RecordsOK
  <2> QED
    BY <1>1, <1>2, <2>1, BusAssumption DEF RecordOK, SubRecord
<1> QED
  BY <1>1, <1>3, <1>4 DEF IInv, BusTypeOK, OnlyOverwrittenAreLost

LEMMA SubscriberIInv ==
  ASSUME NEW Events, IInv(Events), NEW s \in Subscribers, SubscriberStep(s)
  PROVE  IInv(Events)'
<1>1. sub[s] \in SubRecord /\ RecordOK(sub[s])
  BY RecordsOK
<1>2. sent \in Seq(Events)
  BY DEF IInv
<1>3. CASE Subscribe(s)
  <2> DEFINE r == [live |-> TRUE, from |-> Len(sent) + 1, next |-> Len(sent) + 1,
                   last |-> 0, gap |-> 0]
  <2>1. RecordOK(r)
    BY <1>2, OldestFacts, BusAssumption DEF RecordOK, SubRecord
  <2> QED
    BY <1>3, <2>1, OneRecordIInv DEF Subscribe
<1>4. CASE Hear(s)
  <2> DEFINE r == [sub[s] EXCEPT !.last = sub[s].next, !.next = @ + 1]
  <2>1. RecordOK(r)
    <3>1. /\ r.from = sub[s].from /\ r.next = sub[s].next + 1
          /\ r.last = sub[s].next /\ r.gap = sub[s].gap
      BY <1>1 DEF SubRecord
    <3>2. /\ sub[s].from \in Nat \ {0} /\ sub[s].next \in Nat \ {0}
          /\ sub[s].gap \in Nat /\ Len(sent) \in Nat /\ RingSize \in Nat
      BY <1>1, <1>2, BusAssumption DEF SubRecord
    <3>3. sub[s].next <= Len(sent)
      BY <1>2, <1>4, OldestFacts DEF Hear
    <3>4. r \in SubRecord
      <4>1. sub[s].next \in Nat /\ sub[s].next + 1 \in Nat \ {0}
        BY <3>2
      <4> QED
        BY <1>1, <4>1, CursorMoves
    <3> HIDE DEF r
    <3> QED
      BY <1>1, <3>1, <3>2, <3>3, <3>4 DEF RecordOK
  <2>2. sub' = [sub EXCEPT ![s] = r]
    BY <1>4, RecordsOK DEF Hear
  <2> QED
    BY <1>4, <2>1, <2>2, OneRecordIInv DEF Hear
<1>5. CASE Lag(s)
  <2> DEFINE r == [sub[s] EXCEPT !.next = Oldest, !.gap = Oldest - 1]
  <2>1. RecordOK(r)
    <3>1. /\ r.from = sub[s].from /\ r.next = Oldest
          /\ r.last = sub[s].last /\ r.gap = Oldest - 1
      BY <1>1 DEF SubRecord
    <3>2. /\ sub[s].from \in Nat \ {0} /\ sub[s].next \in Nat \ {0}
          /\ sub[s].last \in Nat /\ RingSize \in Nat
      BY <1>1, BusAssumption DEF SubRecord
    <3>3. /\ sub[s].next < Oldest /\ Oldest \in Nat \ {0} /\ Len(sent) \in Nat
          /\ Oldest <= Len(sent) + 1 /\ Oldest - 1 + RingSize = Len(sent)
      BY <1>2, <1>5, <3>2, OldestFacts DEF Lag
    <3>4. r \in SubRecord
      <4>1. Oldest - 1 \in Nat
        BY <3>3
      <4> QED
        BY <1>1, <3>3, <4>1, CursorMoves
    <3> HIDE DEF r
    <3> QED
      BY <1>1, <3>1, <3>2, <3>3, <3>4 DEF RecordOK
  <2>2. sub' = [sub EXCEPT ![s] = r]
    BY <1>5, RecordsOK DEF Lag
  <2> QED
    BY <1>5, <2>1, <2>2, OneRecordIInv DEF Lag
<1>6. CASE Unsubscribe(s)
  BY <1>2, <1>6, AwayIsOK, OneRecordIInv DEF Unsubscribe
<1> QED
  BY <1>3, <1>4, <1>5, <1>6 DEF SubscriberStep, Poll

THEOREM BusInvariant ==
  ASSUME NEW Events
  PROVE  BusSpec(Events) => []IInv(Events)
<1>1. BusInit => IInv(Events)
  BY InitIInv
<1>2. IInv(Events) /\ [BusNext(Events)]_busVars => IInv(Events)'
  <2> SUFFICES ASSUME IInv(Events), [BusNext(Events)]_busVars
               PROVE  IInv(Events)'
    OBVIOUS
  <2>1. ASSUME NEW events \in Seq(Events), Publish(events), UNCHANGED sub
        PROVE  IInv(Events)'
    BY <2>1, PublishIInv
  <2>2. ASSUME NEW s \in Subscribers, SubscriberStep(s)
        PROVE  IInv(Events)'
    BY <2>2, SubscriberIInv
  <2>3. CASE UNCHANGED busVars
    BY <2>3 DEF busVars, IInv, BusTypeOK, OnlyOverwrittenAreLost
  <2> QED
    BY <2>1, <2>2, <2>3 DEF BusNext
<1> QED
  BY <1>1, <1>2, PTL DEF BusSpec

\* Every cursor stands behind the last event that was yielded or passed over, or
\* where the subscription began, for any publishers (BusTypeOK).
THEOREM BusTypeCorrect ==
  ASSUME NEW Events
  PROVE  BusSpec(Events) => []BusTypeOK
<1>1. IInv(Events) => BusTypeOK
  BY DEF IInv
<1> QED
  BY <1>1, BusInvariant, PTL

\* No ring size, no rhythm of publishing and no lag makes a stream pass over an
\* event of its time before RingSize newer ones were published.
THEOREM LossIsOverwriting ==
  ASSUME NEW Events
  PROVE  BusSpec(Events) => []OnlyOverwrittenAreLost
<1>1. IInv(Events) => OnlyOverwrittenAreLost
  BY DEF IInv
<1> QED
  BY <1>1, BusInvariant, PTL

-----------------------------------------------------------------------------
(* The refinement: a lag is a stutter of the lossy stream.                 *)

LEMMA HeardUpToFacts ==
  ASSUME NEW s \in Subscribers
  PROVE  HeardUpTo[s] = IF ~sub[s].live THEN -1
                        ELSE IF sub[s].last = 0 THEN sub[s].from - 1
                        ELSE sub[s].last
  BY DEF HeardUpTo

\* A step that changes one record changes one position.
LEMMA OnePosition ==
  ASSUME NEW s \in Subscribers, NEW r, sub \in [Subscribers -> SubRecord],
         sub' = [sub EXCEPT ![s] = r]
  PROVE  HeardUpTo' = [HeardUpTo EXCEPT ![s] =
           IF ~r.live THEN -1 ELSE IF r.last = 0 THEN r.from - 1 ELSE r.last]
  BY DEF HeardUpTo

LEMMA PublishMaps ==
  ASSUME NEW Events, IInv(Events), NEW events \in Seq(Events) \ {<< >>},
         Publish(events), UNCHANGED sub
  PROVE  Stream!Publish
<1>1. sent \in Seq(Events) /\ events \in Seq(Events) /\ sent' = sent \o events
  BY DEF IInv, Publish
<1>2. Len(sent) \in Nat /\ Len(events) \in Nat \ {0} /\ Len(sent') = Len(sent) + Len(events)
  BY <1>1
<1>3. SubSeq(sent', 1, Len(sent)) = sent
  <2>1. SubSeq(sent \o events, 1, Len(sent)) = SubSeq(sent, 1, Len(sent))
    BY <1>1, <1>2, SubSeqOfConcat1
  <2> QED
    BY <1>1, <2>1, SubSeqFull
<1>4. HeardUpTo' = HeardUpTo
  BY DEF HeardUpTo
<1> QED
  BY <1>2, <1>3, <1>4 DEF Stream!Publish

LEMMA SubscriberMaps ==
  ASSUME NEW Events, IInv(Events), NEW s \in Subscribers, SubscriberStep(s)
  PROVE  \/ Stream!Join(s) \/ Stream!Deliver(s) \/ Stream!Leave(s)
         \/ UNCHANGED <<sent, HeardUpTo>>
<1>1. sub \in [Subscribers -> SubRecord] /\ RecordOK(sub[s]) /\ sub[s] \in SubRecord
  BY RecordsOK
<1>2. Len(sent) \in Nat /\ Oldest \in Nat \ {0}
  BY OldestFacts DEF IInv
<1>3. CASE Subscribe(s)
  <2> DEFINE r == [live |-> TRUE, from |-> Len(sent) + 1, next |-> Len(sent) + 1,
                   last |-> 0, gap |-> 0]
  <2>1. HeardUpTo' = [HeardUpTo EXCEPT ![s] = Len(sent) + 1 - 1]
    <3>1. sub' = [sub EXCEPT ![s] = r]
      BY <1>3 DEF Subscribe
    <3>2. (IF ~r.live THEN -1 ELSE IF r.last = 0 THEN r.from - 1 ELSE r.last) = Len(sent) + 1 - 1
      OBVIOUS
    <3> HIDE DEF r
    <3>3. HeardUpTo' = [HeardUpTo EXCEPT ![s] =
            IF ~r.live THEN -1 ELSE IF r.last = 0 THEN r.from - 1 ELSE r.last]
      BY <1>1, <3>1, OnePosition
    <3> QED
      BY <3>2, <3>3
  <2>2. HeardUpTo[s] = -1
    BY <1>3, HeardUpToFacts DEF Subscribe, Away
  <2> QED
    BY <1>2, <1>3, <2>1, <2>2 DEF Stream!Join, Stream!Away, Subscribe
<1>4. CASE Hear(s)
  <2> DEFINE r == [sub[s] EXCEPT !.last = sub[s].next, !.next = @ + 1]
  <2>1. HeardUpTo' = [HeardUpTo EXCEPT ![s] = sub[s].next]
    <3>1. sub' = [sub EXCEPT ![s] = r]
      BY <1>1, <1>4 DEF Hear
    <3>2. r.live /\ r.last = sub[s].next /\ r.last # 0
      BY <1>1, <1>4 DEF Hear, SubRecord
    <3> HIDE DEF r
    <3> QED
      BY <1>1, <3>1, <3>2, OnePosition
  <2>2. HeardUpTo[s] # -1 /\ sub[s].next \in (HeardUpTo[s] + 1)..Len(sent)
    <3>1. /\ sub[s].live /\ sub[s].next \in Nat /\ sub[s].next <= Len(sent)
          /\ sub[s].from \in Nat \ {0} /\ sub[s].last \in Nat
          /\ sub[s].from <= sub[s].next /\ sub[s].last < sub[s].next
      BY <1>1, <1>2, <1>4 DEF Hear, SubRecord, RecordOK
    <3>2. HeardUpTo[s] \in {sub[s].from - 1, sub[s].last}
      BY <3>1, HeardUpToFacts
    <3> QED
      BY <1>2, <3>1, <3>2
  <2> QED
    BY <1>4, <2>1, <2>2 DEF Stream!Deliver, Stream!Away, Hear
<1>5. CASE Lag(s)
  <2>1. HeardUpTo' = HeardUpTo
    BY <1>1, <1>5 DEF Lag, HeardUpTo, SubRecord
  <2> QED
    BY <1>5, <2>1 DEF Lag
<1>6. CASE Unsubscribe(s)
  <2>1. HeardUpTo' = [HeardUpTo EXCEPT ![s] = -1]
    BY <1>1, <1>6, OnePosition DEF Unsubscribe, Away
  <2> QED
    BY <1>6, <2>1 DEF Stream!Leave, Stream!Away, Unsubscribe
<1> QED
  BY <1>3, <1>4, <1>5, <1>6 DEF SubscriberStep, Poll

\* The broadcast channel with its ring and its lags implements the lossy stream:
\* in order, nothing twice, nothing from before (ImplementsLossyStream).
THEOREM BusIsALossyStream ==
  ASSUME NEW Events
  PROVE  BusSpec(Events) => ImplementsLossyStream
<1>1. BusInit => Stream!Init
  BY DEF BusInit, Stream!Init, Stream!Away, HeardUpTo, Away
<1>2. IInv(Events) /\ [BusNext(Events)]_busVars => [Stream!Next]_<<sent, HeardUpTo>>
  <2> SUFFICES ASSUME IInv(Events), [BusNext(Events)]_busVars
               PROVE  Stream!Next \/ UNCHANGED <<sent, HeardUpTo>>
    OBVIOUS
  <2>1. ASSUME NEW events \in Seq(Events) \ {<< >>}, Publish(events), UNCHANGED sub
        PROVE  Stream!Next
    BY <2>1, PublishMaps DEF Stream!Next
  <2>2. ASSUME NEW s \in Subscribers, SubscriberStep(s)
        PROVE  Stream!Next \/ UNCHANGED <<sent, HeardUpTo>>
    BY <2>2, SubscriberMaps DEF Stream!Next
  <2>3. CASE UNCHANGED busVars
    BY <2>3 DEF busVars, HeardUpTo
  <2> QED
    BY <2>1, <2>2, <2>3 DEF BusNext
<1> QED
  BY <1>1, <1>2, BusInvariant, PTL DEF BusSpec, ImplementsLossyStream, Stream!Spec
=============================================================================
