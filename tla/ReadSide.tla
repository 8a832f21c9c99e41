------------------------------- MODULE ReadSide -------------------------------
(***************************************************************************)
(* The query root of the GraphQL API (validatorforge-api/src/query.rs)     *)
(* over the stored runs and the advisor, in a process that may restart.    *)
(***************************************************************************)
EXTENDS RunStore, Advisor

CONSTANT Width   \* bound: digits of a printed run id, 32 in the code

ASSUME WidthAssumption == Width \in Nat

readVars == <<backend, rows, pending, nextRun, life, clock, ask>>

Query(q) == AskAdvisor(q) /\ UNCHANGED storeVars

Advise == AdvisorMoves /\ UNCHANGED storeVars

Record == StoreStep /\ UNCHANGED ask

\* A request that is under way goes down with the process.
Restart == RestartStore /\ ask' = NoRequest

ReadInit == StoreInit /\ AdvisorInit

ReadNext == (\E q \in Questions : Query(q)) \/ Advise \/ Record \/ Restart

ReadSpec == ReadInit /\ [][ReadNext]_readVars

\* Attempts and sleeps come to an end.
ReadFairSpec == ReadSpec /\ WF_readVars(Advise)

-----------------------------------------------------------------------------
\* RunId is printed as hexadecimal digits, most significant first, and the run
\* query parses the decimal digits of its argument, or rejects it.
Printed(id) == [i \in 1..Width |-> (id \div 16 ^ (Width - i)) % 16]

IsDecimal(text) == \A i \in DOMAIN text : text[i] < 10

Parsed(text) ==
  LET value[i \in 0..Len(text)] == IF i = 0 THEN 0 ELSE 10 * value[i - 1] + text[i]
  IN  value[Len(text)]

RunQuery(text) == IF IsDecimal(text) THEN GetRun(Parsed(text)) ELSE {}

\* query.rs:39, "Fetch a single deployment run by id", with the id that the API
\* itself returns for the run (types.rs:50, "Run id."): the query for the
\* printed id of a stored run answers that run.
PrintedIdFindsTheRun ==
  \A i \in DOMAIN rows : rows[i] \in RunQuery(Printed(rows[i].id))
=============================================================================
