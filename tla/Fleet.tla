-------------------------------- MODULE Fleet --------------------------------
(***************************************************************************)
(* The hosts a NodeAgent acts on.  The agent itself is outside the program *)
(* (an implementation shells out to Terraform, Ansible, SSH); what a call  *)
(* does to a host is taken from the contract of the NodeAgent port, which  *)
(* is all that the saga steps rely on.                                     *)
(*                                                                         *)
(* A host is a record: infra, whether the infrastructure exists; version,  *)
(* the validator version that runs on it; key, the staked identity the     *)
(* validator votes with (the key of host h is h itself), or Junk when it   *)
(* does not vote.  tune_host and await_catchup change none of these.       *)
(***************************************************************************)
EXTENDS Lifecycle

CONSTANTS Hosts,      \* the host addresses
          Voters,     \* those of nodes in the voting role; the others are hot spares
          Versions,   \* validator versions
          Junk,       \* the junk identity of a drained host
          NoVersion   \* no validator process

ASSUME FleetAssumption ==
  Voters \subseteq Hosts /\ Junk \notin Hosts /\ NoVersion \notin Versions

HostRecord == [infra   : BOOLEAN,
               version : Versions \cup {NoVersion},
               key     : Hosts \cup {Junk}]

Absent == [infra |-> FALSE, version |-> NoVersion, key |-> Junk]
OwnKey(h) == IF h \in Voters THEN h ELSE Junk
Serving(h, v) == [infra |-> TRUE, version |-> v, key |-> OwnKey(h)]

\* A call that reaches a host without infrastructure changes nothing there.
OnHost(f, h, r) == IF f[h].infra THEN [f EXCEPT ![h] = r] ELSE f

Apply(f, h)    == [f EXCEPT ![h].infra = TRUE]
Start(f, h, v) == OnHost(f, h, Serving(h, v))
Drained(f, h)  == OnHost(f, h, [f[h] EXCEPT !.key = Junk])
Destroy(f, h)  == [f EXCEPT ![h] = Absent]

\* The staked key a swap moves away from a host: the one it votes with or,
\* once it is drained, its own.
StakedKey(f, h) == IF f[h].key = Junk THEN OwnKey(h) ELSE f[h].key

Receive(f, h, k) == OnHost(f, h, [f[h] EXCEPT !.key = k])
Swap(f, from, to) ==
  Receive(IF from = to THEN f ELSE Drained(f, from), to, StakedKey(f, from))

(***************************************************************************)
(* The fleet after a call that succeeded, and the fleets a call that       *)
(* failed may leave behind: the call did nothing, all of it (a timeout, a  *)
(* lost answer, the simulator's log-then-fail) or, for a swap, only its    *)
(* first half, the key copied to the target and not yet removed.           *)
(***************************************************************************)
Forward(step, f, h, sp, v) ==
  CASE step = "ApplyInfra"     -> Apply(f, h)
    [] step = "StartValidator" -> Start(f, h, v)
    [] step = "Drain"          -> Drained(f, h)
    [] step = "SwapIdentity"   -> Swap(f, h, sp)
    [] step = "DestroyInfra"   -> Destroy(f, h)
    [] step \in {"TuneHost", "AwaitCatchup"} -> f

\* Mutated form of Backward: ApplyInfra keeps the default compensation.
BackwardKeepsInfra(step, f, h, sp) ==
  CASE step = "StartValidator" -> Drained(f, h)
    [] step = "SwapIdentity"   -> Swap(f, sp, h)
    [] OTHER                   -> f

Backward(step, f, h, sp) ==
  CASE step = "ApplyInfra"     -> Destroy(f, h)
    [] step = "StartValidator" -> Drained(f, h)
    [] step = "SwapIdentity"   -> Swap(f, sp, h)
    [] OTHER                   -> f

HalfSwap(step, f, from, to) ==
  IF step = "SwapIdentity" THEN Receive(f, to, StakedKey(f, from)) ELSE f

\* Two hosts never vote with one staked key: a double vote is slashed.
NoDoubleVote(f) ==
  \A a, b \in Hosts : a # b /\ f[a].key # Junk => f[a].key # f[b].key
=============================================================================
