------------------------------- MODULE EventBus -------------------------------
(***************************************************************************)
(* BroadcastEventSink (validatorforge-infra/src/events.rs) and the stream  *)
(* behind the opsEvents subscription.  The channel of tokio keeps the last *)
(* RingSize events in a ring; a publisher overwrites the oldest and never  *)
(* waits.  Each subscriber reads at its own cursor; one whose cursor fell  *)
(* off the ring is told Lagged once and goes on at the oldest event that   *)
(* is left, and the stream filters the Lagged out.                         *)
(*                                                                         *)
(* sent keeps the whole history, of which the ring is the end.  An event   *)
(* published while nobody is subscribed is dropped by the channel, which   *)
(* no subscriber can tell from an event before its time.                   *)
(***************************************************************************)
EXTENDS Integers, Sequences

CONSTANTS Subscribers,   \* one stream each
          RingSize       \* capacity.max(1), as the channel rounds it up

ASSUME BusAssumption == RingSize \in Nat \ {0}

VARIABLES sent,   \* every published event, oldest first
          sub     \* [Subscribers -> SubRecord]

busVars == <<sent, sub>>

\* from is the position of the first event after the subscription, next the
\* cursor of the receiver, last the position of the event yielded last and gap
\* that of the last one passed over (0: none).
SubRecord == [live : BOOLEAN, from : Nat \ {0}, next : Nat \ {0}, last : Nat, gap : Nat]

\* A client without a stream.  It may open one later, or open another.
Away == [live |-> FALSE, from |-> 1, next |-> 1, last |-> 0, gap |-> 0]

\* The oldest position that is still in the ring.
Oldest == IF Len(sent) > RingSize THEN Len(sent) - RingSize + 1 ELSE 1

CaughtUp(s) == sub[s].next = Len(sent) + 1

-----------------------------------------------------------------------------
\* tx.send: no subscriber, or a slow one, makes no difference.
Publish(events) == sent' = sent \o events

\* Mutated form of Subscribe: the stream starts at the oldest event in the ring.
SubscribeAtOldest(s) ==
  /\ sub[s] = Away
  /\ sub' = [sub EXCEPT ![s] = [live |-> TRUE, from |-> Len(sent) + 1,
                                next |-> Oldest, last |-> 0, gap |-> 0]]
  /\ UNCHANGED sent

\* A stream starts behind the newest event.
Subscribe(s) ==
  /\ sub[s] = Away
  /\ sub' = [sub EXCEPT ![s] = [live |-> TRUE, from |-> Len(sent) + 1,
                                next |-> Len(sent) + 1, last |-> 0, gap |-> 0]]
  /\ UNCHANGED sent

Hear(s) ==
  /\ sub[s].live /\ sub[s].next \in Oldest..Len(sent)
  /\ sub' = [sub EXCEPT ![s].last = sub[s].next, ![s].next = @ + 1]
  /\ UNCHANGED sent

\* Mutated forms of Lag: the backlog in the ring is given up too; the cursor
\* ends up one short of the ring.
LagToTheEnd(s) ==
  /\ sub[s].live /\ sub[s].next < Oldest
  /\ sub' = [sub EXCEPT ![s].next = Len(sent), ![s].gap = Len(sent) - 1]
  /\ UNCHANGED sent

LagOneShort(s) ==
  /\ sub[s].live /\ sub[s].next < Oldest
  /\ sub' = [sub EXCEPT ![s].next = Oldest - 1, ![s].gap = Oldest - 2]
  /\ UNCHANGED sent

\* Err(Lagged) moves the cursor, and filter_map drops it.
Lag(s) ==
  /\ sub[s].live /\ sub[s].next < Oldest
  /\ sub' = [sub EXCEPT ![s].next = Oldest, ![s].gap = Oldest - 1]
  /\ UNCHANGED sent

\* The client closes its stream: the receiver is dropped, cursor and all.
Unsubscribe(s) ==
  /\ sub[s].live
  /\ sub' = [sub EXCEPT ![s] = Away]
  /\ UNCHANGED sent

Poll(s) == Hear(s) \/ Lag(s)

BusInit ==
  /\ sent = << >>
  /\ sub = [s \in Subscribers |-> Away]

SubscriberStep(s) == Subscribe(s) \/ Poll(s) \/ Unsubscribe(s)

\* The bus alone, with publishers of any events, several of them at a time.
BusNext(Events) ==
  \/ \E events \in Seq(Events) \ {<< >>} : Publish(events) /\ UNCHANGED sub
  \/ \E s \in Subscribers : SubscriberStep(s)

BusSpec(Events) == BusInit /\ [][BusNext(Events)]_busVars

-----------------------------------------------------------------------------
\* The cursor stands right behind the last event that was yielded or passed
\* over, or where the subscription began.
BusTypeOK ==
  /\ sub \in [Subscribers -> SubRecord]
  /\ \A s \in Subscribers :
       LET r == sub[s] IN
       /\ r.from <= r.next /\ r.next <= Len(sent) + 1
       /\ r.last < r.next /\ r.gap < r.next
       /\ r.next > r.from => r.next - 1 \in {r.last, r.gap}

\* events.rs:15, "lossy under slow consumers", and subscription.rs:18, "only
\* drops its own backlog": what a subscriber has missed since it subscribed had
\* left the ring: RingSize newer events had been published by then.
OnlyOverwrittenAreLost ==
  \A s \in Subscribers : sub[s].gap >= sub[s].from => sub[s].gap + RingSize <= Len(sent)

\* A subscriber that stays and is polled hears, again and again, the newest
\* event there is, however often it has lagged: it is in the ring
\* (events.rs:58-62).
LastWordArrives ==
  \A s \in Subscribers :
    <>[](sub[s].live) => []<>(CaughtUp(s) /\ (Len(sent) >= sub[s].from => sub[s].last = Len(sent)))

\* The position after which a subscriber will hear something, if it hears more.
HeardUpTo ==
  [s \in Subscribers |-> IF ~sub[s].live THEN -1
                         ELSE IF sub[s].last = 0 THEN sub[s].from - 1
                         ELSE sub[s].last]

\* The stream is a lossy stream: in order, nothing twice, nothing from before.
Stream == INSTANCE LossyStream WITH newest <- HeardUpTo

\* events.rs:13-18: every behaviour of the broadcast channel is one of the lossy
\* stream.
ImplementsLossyStream == Stream!Spec
=============================================================================
