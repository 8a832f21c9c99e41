------------------------------- MODULE RunLedger -------------------------------
(***************************************************************************)
(* What a store of runs promises (ports.rs:46-61, "the run audit trail"):  *)
(* every run that was saved has one entry of its own, which is opened as   *)
(* Running, gets its verdict at most once and is never replaced by another *)
(* run's.  A volatile ledger ends with its process.                        *)
(***************************************************************************)
EXTENDS Lifecycle

VARIABLES ledger,    \* the entries [run, status]
          volatile

Init == ledger = {} /\ volatile \in BOOLEAN

Open ==
  \E run \in {e.run : e \in ledger'} \ {e.run : e \in ledger} :
    ledger' = ledger \cup {[run |-> run, status |-> "Running"]}

Close ==
  \E e \in ledger, v \in Verdicts :
    /\ e.status = "Running"
    /\ ledger' = (ledger \ {e}) \cup {[e EXCEPT !.status = v]}

Lose == volatile /\ ledger' = {}

Next == (Open \/ Close \/ Lose) /\ UNCHANGED volatile

Spec == Init /\ [][Next]_<<ledger, volatile>>
=============================================================================
