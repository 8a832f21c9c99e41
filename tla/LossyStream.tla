----------------------------- MODULE LossyStream -----------------------------
(***************************************************************************)
(* What the event stream promises a subscriber (events.rs:13-18): it hears *)
(* events in the order in which they were published, each at most once,    *)
(* only events published since it subscribed, and nobody waits for it.     *)
(* Any event may be missing.                                               *)
(***************************************************************************)
EXTENDS Integers, Sequences

CONSTANT Subscribers

VARIABLES sent,    \* every published event, oldest first
          newest   \* [Subscribers -> position]: it will hear nothing up to here

Away == -1   \* not subscribed

Init ==
  /\ sent = << >>
  /\ newest = [s \in Subscribers |-> Away]

\* History only grows.
Publish ==
  /\ Len(sent') > Len(sent)
  /\ SubSeq(sent', 1, Len(sent)) = sent
  /\ UNCHANGED newest

Join(s) ==
  /\ newest[s] = Away
  /\ newest' = [newest EXCEPT ![s] = Len(sent)]
  /\ UNCHANGED sent

Deliver(s) ==
  /\ newest[s] # Away
  /\ \E p \in (newest[s] + 1)..Len(sent) : newest' = [newest EXCEPT ![s] = p]
  /\ UNCHANGED sent

Leave(s) ==
  /\ newest' = [newest EXCEPT ![s] = Away]
  /\ UNCHANGED sent

Next == Publish \/ \E s \in Subscribers : Join(s) \/ Deliver(s) \/ Leave(s)

Spec == Init /\ [][Next]_<<sent, newest>>
=============================================================================
