------------------------------- MODULE RunStore -------------------------------
(***************************************************************************)
(* The runs of the two repositories (validatorforge-infra/src/repo.rs and  *)
(* pg.rs), as the engine fills them: ids from a counter that starts again  *)
(* with the process, a first save as Running, a second with the verdict,   *)
(* and runs that never come to the second.  A restart empties the one      *)
(* repository and not the other.                                           *)
(*                                                                         *)
(* started_at is a coarse clock, so that runs may start at the same time;  *)
(* a restart takes longer than its unit.                                   *)
(***************************************************************************)
EXTENDS Lifecycle, FiniteSets

CONSTANTS Backends,   \* {"memory", "postgres"}
          MaxRuns,    \* bound: runs of one process
          MaxLives,   \* bound: processes
          MaxTime     \* bound: the clock

ASSUME StoreAssumption ==
  Backends \subseteq {"memory", "postgres"} /\ MaxRuns \in Nat /\ MaxLives \in Nat

VARIABLES backend,
          rows,      \* the stored runs, in the order of their first save
          pending,   \* the runs under way in this process
          nextRun,
          life,      \* which process it is
          clock

storeVars == <<backend, rows, pending, nextRun, life, clock>>

\* life tells apart the runs that share an id; no store has such a column.
Row(r, status) == [id |-> r.id, started |-> r.started, life |-> life, status |-> status]

-----------------------------------------------------------------------------
\* What save_run looks for: the same id, or the primary key (id, started_at).
\* Mutated form of SameRun: ON CONFLICT (id), as in the nodes table.
SameId(a, b) == a.id = b.id

SameRun(a, b) == a.id = b.id /\ (backend = "postgres" => a.started = b.started)

\* The first row found is replaced, or a new one is added.
Saved(row) ==
  LET found == {i \in DOMAIN rows : SameRun(rows[i], row)}
      first == CHOOSE i \in found : \A j \in found : i <= j
  IN  IF found = {} THEN Append(rows, row) ELSE [rows EXCEPT ![first] = row]

\* The sort is stable: of two runs that started together the one stored first
\* comes first, as in memory; Postgres may turn them round.
Newer(s, i, j) ==
  \/ s[i].started > s[j].started
  \/ s[i].started = s[j].started /\ i < j

Position(s, i) == Cardinality({j \in DOMAIN s : Newer(s, j, i)}) + 1

NewestFirst(s) == [p \in DOMAIN s |-> s[CHOOSE i \in DOMAIN s : Position(s, i) = p]]

\* Mutated form of ListRuns: LIMIT before ORDER BY.
ListFirst(limit) ==
  NewestFirst(SubSeq(rows, 1, IF limit < Len(rows) THEN limit ELSE Len(rows)))

\* list_runs: newest first, cut off at limit.
ListRuns(limit) ==
  SubSeq(NewestFirst(rows), 1, IF limit < Len(rows) THEN limit ELSE Len(rows))

\* The runs query: a negative limit is none.
RecentRuns(limit) == ListRuns(IF limit < 0 THEN 0 ELSE limit)

\* get_run: the in-memory store answers the first match, Postgres any.
GetRun(id) ==
  LET found == {i \in DOMAIN rows : rows[i].id = id} IN
  {rows[i] : i \in IF backend = "postgres" THEN found
                   ELSE {j \in found : \A k \in found : j <= k}}

-----------------------------------------------------------------------------
\* fetch_add and DeploymentRun::new.  The run is saved later, and others may be
\* saved before it.
CreateRun ==
  /\ nextRun <= MaxRuns
  /\ nextRun' = nextRun + 1
  /\ pending' = pending \cup {[id |-> nextRun, started |-> clock, stored |-> FALSE]}
  /\ UNCHANGED <<backend, rows, life, clock>>

StoreRun(r) ==
  /\ ~r.stored
  /\ rows' = Saved(Row(r, "Running"))
  /\ pending' = (pending \ {r}) \cup {[r EXCEPT !.stored = TRUE]}
  /\ UNCHANGED <<backend, nextRun, life, clock>>

CloseRun(r, v) ==
  /\ r.stored
  /\ rows' = Saved(Row(r, v))
  /\ pending' = pending \ {r}
  /\ UNCHANGED <<backend, nextRun, life, clock>>

\* A call that is refused by the lifecycle, fails in the repository or is
\* dropped never comes back to its run.
AbandonRun(r) ==
  /\ pending' = pending \ {r}
  /\ UNCHANGED <<backend, rows, nextRun, life, clock>>

\* The clock of the next process has moved on.
RestartStore ==
  /\ life < MaxLives
  /\ life' = life + 1 /\ clock' = clock + 1
  /\ nextRun' = 1 /\ pending' = {}
  /\ rows' = IF backend = "memory" THEN << >> ELSE rows
  /\ UNCHANGED backend

PassTime ==
  /\ clock < MaxTime
  /\ clock' = clock + 1
  /\ UNCHANGED <<backend, rows, pending, nextRun, life>>

StoreInit ==
  /\ backend \in Backends
  /\ rows = << >> /\ pending = {}
  /\ nextRun = 1 /\ life = 1 /\ clock = 0

StoreStep ==
  \/ CreateRun \/ PassTime
  \/ \E r \in pending : StoreRun(r) \/ AbandonRun(r) \/ \E v \in Verdicts : CloseRun(r, v)

-----------------------------------------------------------------------------
\* query.rs:52-61, "newest first, capped at limit", for a negative limit too:
\* the list has as many runs as it may, in order, and none that was left out is
\* newer than one that is there, though runs are saved out of order and share
\* the time they started at.
RecentRunsAreNewest ==
  \A limit \in -1..(Len(rows) + 1) :
    LET out  == RecentRuns(limit)
        kept == {out[i] : i \in DOMAIN out}
    IN  /\ Len(out) = IF limit < 0 THEN 0 ELSE IF limit < Len(rows) THEN limit ELSE Len(rows)
        /\ Cardinality(kept) = Len(out)
        /\ \A i, j \in DOMAIN out : i < j => out[i].started >= out[j].started
        /\ \A k \in DOMAIN rows : rows[k] \notin kept =>
             \A r \in kept : r.started >= rows[k].started

Ledger == INSTANCE RunLedger WITH
  ledger   <- {[run |-> <<rows[i].life, rows[i].id>>, status |-> rows[i].status] : i \in DOMAIN rows},
  volatile <- backend = "memory"

\* engine.rs:60 and 115: though ids repeat after a restart, no run in either
\* store ever replaces, or is replaced by, a run of another process.
ImplementsLedger == Ledger!Spec
=============================================================================
