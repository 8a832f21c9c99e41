---------------------------- MODULE ReadSide_proofs ----------------------------
(***************************************************************************)
(* Proofs about ReadSide: the advice, for every rule context, attempt      *)
(* budget and timing, and the store of runs, for any number of runs and    *)
(* restarts.                                                               *)
(***************************************************************************)
EXTENDS ReadSide, FiniteSetTheorems, SequenceTheorems, TLAPS

-----------------------------------------------------------------------------
(***************************************************************************)
(* Time.  A request that is trying has behind it its earlier attempts and  *)
(* the sleeps between them; the rest is one more attempt.                  *)
(***************************************************************************)
Spent(tries, sleeps) == tries * CallTimeout + sleeps * MaxDelay

\* What is known of a request under way or answered.
OnTime ==
  /\ In("trying") => /\ ask.try \in 1..MaxTries /\ ask.elapsed \in Int
                     /\ ask.elapsed <= Spent(ask.try - 1, ask.try - 1)
  /\ In("sleeping") => /\ ask.try \in 1..MaxTries /\ ask.try < MaxTries /\ ask.elapsed \in Int
                       /\ ask.elapsed <= Spent(ask.try, ask.try - 1)
  /\ In("answered") => ask.elapsed \in Int /\ ask.elapsed <= TimeBound

LEMMA TriesType == MaxTries \in Nat \ {0}
  BY AdvisorAssumption DEF MaxTries

LEMMA SpentType ==
  ASSUME NEW m \in Nat, NEW n \in Nat
  PROVE  Spent(m, n) \in Nat
  BY AdvisorAssumption DEF Spent

LEMMA SpentGrows ==
  ASSUME NEW m \in Nat, NEW n \in Nat
  PROVE  /\ Spent(m + 1, n) = Spent(m, n) + CallTimeout
         /\ Spent(m, n + 1) = Spent(m, n) + MaxDelay
  BY AdvisorAssumption DEF Spent

LEMMA ProductMonotone ==
  ASSUME NEW a \in Nat, NEW b \in Nat, NEW k \in Nat, a <= b
  PROVE  a * k <= b * k
<1>1. PICK d \in Nat : b = a + d
  <2>1. b - a \in Nat /\ b = a + (b - a)
    OBVIOUS
  <2> QED
    BY <2>1
<1>2. b * k = a * k + d * k
  BY <1>1
<1>3. d * k \in Nat /\ a * k \in Nat
  OBVIOUS
<1> QED
  BY <1>2, <1>3

LEMMA SpentBounded ==
  ASSUME NEW m \in 1..MaxTries
  PROVE  Spent(m, m - 1) <= TimeBound /\ Spent(m, m - 1) \in Nat /\ TimeBound \in Nat
<1>1. m \in Nat /\ m - 1 \in Nat /\ MaxTries \in Nat /\ MaxTries - 1 \in Nat
      /\ m <= MaxTries /\ m - 1 <= MaxTries - 1
  BY TriesType
<1>2. m * CallTimeout <= MaxTries * CallTimeout
  BY <1>1, ProductMonotone, AdvisorAssumption
<1>3. (m - 1) * MaxDelay <= (MaxTries - 1) * MaxDelay
  BY <1>1, ProductMonotone, AdvisorAssumption
<1>4. /\ m * CallTimeout \in Nat /\ MaxTries * CallTimeout \in Nat
      /\ (m - 1) * MaxDelay \in Nat /\ (MaxTries - 1) * MaxDelay \in Nat
  BY <1>1, AdvisorAssumption
<1> QED
  BY <1>2, <1>3, <1>4 DEF Spent, TimeBound

LEMMA BackoffBounded ==
  ASSUME NEW i \in Nat, NEW d \in Backoffs(i)
  PROVE  d \in Int /\ d <= MaxDelay
<1>1. BaseDelay * 2 ^ i \in Int
  <2>1. 2 ^ i \in Int
    OBVIOUS
  <2> QED
    BY <2>1, AdvisorAssumption
<1>2. LongestBackoff(i) \in Int /\ LongestBackoff(i) <= MaxDelay
  BY <1>1, AdvisorAssumption DEF LongestBackoff
<1> QED
  BY <1>2, AdvisorAssumption DEF Backoffs

-----------------------------------------------------------------------------
(***************************************************************************)
(* The request, and the advice the rules gave.                             *)
(***************************************************************************)
\* What the rules answered is what they say of the question.
Ruled == In("answered") => ask.answer = TheModels \/ ask.answer = Recommend(ask.question)

AskRecord == [phase : {"trying", "sleeping", "answered"}, question : Questions, try : Nat,
              elapsed : Int, answer : {TheModels, NoRequest} \cup {Recommend(q) : q \in Questions}]

AInv == ask \in {NoRequest} \cup AskRecord /\ OnTime /\ Ruled

LEMMA InitAInv == ASSUME AdvisorInit PROVE AInv
  BY DEF AdvisorInit, AInv, OnTime, Ruled, In, NoRequest

LEMMA AskKeeps ==
  ASSUME AInv, NEW q \in Questions, AskAdvisor(q)
  PROVE  AInv'
<1>1. CASE HasKey
  <2>1. ask' = [phase |-> "trying", question |-> q, try |-> 1, elapsed |-> 0, answer |-> NoRequest]
    BY <1>1 DEF AskAdvisor, Request
  <2>2. ask' \in AskRecord
    BY <2>1 DEF AskRecord
  <2>3. OnTime'
    <3>1. Spent(0, 0) = 0 /\ 1 \in 1..MaxTries /\ 1 - 1 = 0
      BY TriesType, AdvisorAssumption DEF Spent
    <3>2. ask'.phase = "trying" /\ ask'.try = 1 /\ ask'.elapsed = 0
      BY <2>1
    <3>3. Spent(ask'.try - 1, ask'.try - 1) = 0
      BY <3>1, <3>2
    <3> QED
      BY <3>1, <3>2, <3>3 DEF OnTime, In, Spent
  <2> QED
    BY <2>1, <2>2, <2>3 DEF AInv, Ruled, In
<1>2. CASE ~HasKey
  <2>1. ask' = [phase |-> "answered", question |-> q, try |-> 0, elapsed |-> 0, answer |-> Recommend(q)]
    BY <1>2 DEF AskAdvisor, Request
  <2> DEFINE r == Recommend(q)
  <2>2. r \in {Recommend(p) : p \in Questions}
    OBVIOUS
  <2>3. ask' = [phase |-> "answered", question |-> q, try |-> 0, elapsed |-> 0, answer |-> r]
    BY <2>1
  <2> HIDE DEF r
  <2>4. ask' \in AskRecord /\ ask'.phase = "answered" /\ ask'.elapsed = 0
        /\ ask'.answer = r /\ ask'.question = q
    BY <2>2, <2>3 DEF AskRecord
  <2>5. TimeBound >= 0
    <3>1. 1 \in 1..MaxTries
      BY TriesType
    <3> QED
      BY <3>1, SpentBounded
  <2> QED
    BY <2>4, <2>5 DEF AInv, OnTime, Ruled, In, r
<1> QED
  BY <1>1, <1>2, AdvisorAssumption

LEMMA UnderWay ==
  ASSUME AInv, In("trying") \/ In("sleeping")
  PROVE  ask \in AskRecord /\ ask.try \in 1..MaxTries /\ ask.elapsed \in Int
         /\ ask.try \in Nat /\ ask.try - 1 \in Nat
<1>1. ask \in AskRecord
  BY DEF AInv, In, NoRequest
<1>2. ask.try \in 1..MaxTries /\ ask.elapsed \in Int
  BY DEF AInv, OnTime
<1> QED
  BY <1>1, <1>2, TriesType

\* An attempt ends within its timeout, and the request is answered or sleeps.
LEMMA AttemptKeeps ==
  ASSUME AInv, In("trying"), NEW d \in 0..CallTimeout, NEW r \in AskRecord, ask' = r,
         r.elapsed = ask.elapsed + d, r.try = ask.try,
         \/ r.phase = "answered" /\ r.answer \in {TheModels, Recommend(r.question)}
         \/ r.phase = "sleeping" /\ MayTryAgain
  PROVE  AInv'
<1>1. ask.try \in 1..MaxTries /\ ask.elapsed \in Int /\ ask.try \in Nat /\ ask.try - 1 \in Nat
  BY UnderWay
<1>2. ask.elapsed <= Spent(ask.try - 1, ask.try - 1)
  BY DEF AInv, OnTime
<1>3. Spent(ask.try, ask.try - 1) = Spent(ask.try - 1, ask.try - 1) + CallTimeout
  <2>1. (ask.try - 1) + 1 = ask.try
    BY <1>1
  <2> QED
    BY <1>1, <2>1, SpentGrows
<1>4. Spent(ask.try - 1, ask.try - 1) \in Nat /\ CallTimeout \in Nat
  BY <1>1, SpentType, AdvisorAssumption
<1>5. r.elapsed \in Int /\ r.elapsed <= Spent(r.try, r.try - 1)
  BY <1>1, <1>2, <1>3, <1>4
<1>6. CASE r.phase = "answered" /\ r.answer \in {TheModels, Recommend(r.question)}
  <2>1. r.elapsed <= TimeBound
    BY <1>1, <1>5, SpentBounded
  <2> QED
    BY <1>5, <1>6, <2>1 DEF AInv, OnTime, Ruled, In
<1>7. CASE r.phase = "sleeping" /\ MayTryAgain
  BY <1>1, <1>5, <1>7 DEF AInv, OnTime, Ruled, In, MayTryAgain
<1> QED
  BY <1>6, <1>7

LEMMA ModelAnswersKeeps == ASSUME AInv, ModelAnswers PROVE AInv'
<1>1. ask \in AskRecord /\ ask.elapsed \in Int /\ In("trying")
  BY UnderWay DEF ModelAnswers
<1>2. PICK d \in 0..CallTimeout :
        ask' = [ask EXCEPT !.phase = "answered", !.elapsed = @ + d, !.answer = TheModels]
  BY DEF ModelAnswers
<1>3. ask.elapsed + d \in Int
  BY <1>1, AdvisorAssumption
<1> DEFINE e == ask.elapsed + d
           r == [ask EXCEPT !.phase = "answered", !.elapsed = e, !.answer = TheModels]
<1>4. e \in Int
  BY <1>3
<1> HIDE DEF e
<1>5. r \in AskRecord /\ r.phase = "answered" /\ r.elapsed = e /\ r.answer = TheModels
      /\ r.try = ask.try
  BY <1>1, <1>4 DEF AskRecord
<1>6. ask' = r
  BY <1>2 DEF e
<1>7. ask'.elapsed = ask.elapsed + d /\ ask'.try = ask.try /\ ask' \in AskRecord
      /\ ask'.phase = "answered" /\ ask'.answer = TheModels
  BY <1>5, <1>6 DEF e
<1> QED
  BY <1>1, <1>7, AttemptKeeps

LEMMA ModelFailsKeeps == ASSUME AInv, ModelFails PROVE AInv'
<1>1. ask \in AskRecord /\ ask.elapsed \in Int /\ In("trying")
  BY UnderWay DEF ModelFails
<1>2. PICK d \in 0..CallTimeout :
        ask' = IF MayTryAgain
               THEN [ask EXCEPT !.phase = "sleeping", !.elapsed = @ + d]
               ELSE [ask EXCEPT !.phase = "answered", !.elapsed = @ + d,
                                !.answer = Recommend(ask.question)]
  BY DEF ModelFails
<1> DEFINE e == ask.elapsed + d
           a == Recommend(ask.question)
<1>3. e \in Int /\ a \in {Recommend(q) : q \in Questions} /\ ask.elapsed + d = e
  BY <1>1, AdvisorAssumption DEF AskRecord
<1> HIDE DEF e, a
<1>4. CASE MayTryAgain
  <2>1. ask' = [ask EXCEPT !.phase = "sleeping", !.elapsed = e]
    BY <1>2, <1>4 DEF e
  <2>2. ask' \in AskRecord /\ ask'.phase = "sleeping" /\ ask'.elapsed = e /\ ask'.try = ask.try
    BY <1>1, <1>3, <2>1 DEF AskRecord
  <2> QED
    BY <1>1, <1>3, <1>4, <2>2, AttemptKeeps
<1>5. CASE ~MayTryAgain
  <2>1. ask' = [ask EXCEPT !.phase = "answered", !.elapsed = e, !.answer = a]
    BY <1>2, <1>5 DEF e, a
  <2>2. ask' \in AskRecord /\ ask'.phase = "answered" /\ ask'.elapsed = e /\ ask'.try = ask.try
        /\ ask'.answer = a /\ ask'.question = ask.question
    BY <1>1, <1>3, <2>1 DEF AskRecord
  <2>3. ask'.answer = Recommend(ask'.question)
    BY <2>2 DEF a
  <2> QED
    BY <1>1, <1>3, <2>2, <2>3, AttemptKeeps
<1> QED
  BY <1>4, <1>5

LEMMA SleepOverKeeps == ASSUME AInv, SleepOver PROVE AInv'
<1>1. /\ ask \in AskRecord /\ ask.try \in 1..MaxTries /\ ask.elapsed \in Int
      /\ ask.try \in Nat /\ ask.try - 1 \in Nat
  BY UnderWay DEF SleepOver
<1>2. PICK d \in Backoffs(ask.try - 1) :
        ask' = [ask EXCEPT !.phase = "trying", !.try = @ + 1, !.elapsed = @ + d]
  BY DEF SleepOver
<1>3. d \in Int /\ d <= MaxDelay /\ MaxDelay \in Nat
  BY <1>1, BackoffBounded, AdvisorAssumption
<1>4. ask.try < MaxTries /\ ask.elapsed <= Spent(ask.try, ask.try - 1)
  BY DEF SleepOver, AInv, OnTime
<1> DEFINE e == ask.elapsed + d
           n == ask.try + 1
<1>5. e \in Int /\ n \in 1..MaxTries /\ n \in Nat /\ n - 1 = ask.try
  BY <1>1, <1>3, <1>4, TriesType
<1>6. e <= Spent(ask.try, ask.try)
  <2>1. Spent(ask.try, (ask.try - 1) + 1) = Spent(ask.try, ask.try - 1) + MaxDelay
    BY <1>1, SpentGrows
  <2>2. (ask.try - 1) + 1 = ask.try
    BY <1>1
  <2>3. Spent(ask.try, ask.try) = Spent(ask.try, ask.try - 1) + MaxDelay
    BY <2>1, <2>2
  <2>4. Spent(ask.try, ask.try - 1) \in Nat
    BY <1>1, SpentType
  <2> QED
    BY <1>1, <1>3, <1>4, <2>3, <2>4
<1>7. ask' = [ask EXCEPT !.phase = "trying", !.try = n, !.elapsed = e]
  BY <1>2
<1> HIDE DEF e, n
<1>8. ask' \in AskRecord /\ ask'.phase = "trying" /\ ask'.try = n /\ ask'.elapsed = e
  BY <1>1, <1>5, <1>7 DEF AskRecord
<1> QED
  BY <1>5, <1>6, <1>8 DEF AInv, OnTime, Ruled, In

LEMMA NextAInv == ASSUME AInv, [ReadNext]_readVars PROVE AInv'
<1>1. CASE UNCHANGED ask
  BY <1>1 DEF AInv, OnTime, Ruled, In
<1>2. CASE ask' = NoRequest
  BY <1>2 DEF AInv, OnTime, Ruled, In, NoRequest
<1> QED
  BY <1>1, <1>2, AskKeeps, ModelAnswersKeeps, ModelFailsKeeps, SleepOverKeeps
     DEF ReadNext, Query, Advise, AdvisorMoves, Record, Restart, readVars

LEMMA AlwaysAInv == ReadSpec => []AInv
<1>1. ReadInit => AInv
  BY InitAInv DEF ReadInit
<1> QED
  BY <1>1, NextAInv, PTL DEF ReadSpec

\* A dead or slow network delays the advice by no more than the attempts and the
\* capped backoffs between them, for every budget, timeout and delay
\* (AdviceInTime).
THEOREM AdviceIsInTime == ReadSpec => []AdviceInTime
<1>1. ASSUME AInv PROVE AdviceInTime
  <2>1. CASE In("answered")
    BY <1>1, <2>1 DEF AInv, OnTime, AdviceInTime
  <2>2. ASSUME In("trying") \/ In("sleeping")
        PROVE  ask.elapsed <= TimeBound
    <3>1. /\ ask.try \in 1..MaxTries /\ ask.elapsed \in Int
          /\ ask.try \in Nat /\ ask.try - 1 \in Nat
      BY <1>1, <2>2, UnderWay
    <3>2. /\ Spent(ask.try, ask.try - 1) \in Nat /\ Spent(ask.try, ask.try - 1) <= TimeBound
          /\ TimeBound \in Nat
      BY <3>1, SpentBounded
    <3>3. Spent(ask.try - 1, ask.try - 1) \in Nat
      BY <3>1, SpentType
    <3>4. Spent(ask.try, ask.try - 1) = Spent(ask.try - 1, ask.try - 1) + CallTimeout
      <4>1. (ask.try - 1) + 1 = ask.try
        BY <3>1
      <4> QED
        BY <3>1, <4>1, SpentGrows
    <3>5. CASE In("trying")
      BY <1>1, <3>1, <3>2, <3>3, <3>4, <3>5, AdvisorAssumption DEF AInv, OnTime
    <3>6. CASE In("sleeping")
      BY <1>1, <3>1, <3>2, <3>6 DEF AInv, OnTime
    <3> QED
      BY <2>2, <3>5, <3>6
  <2>3. In("none") \/ In("trying") \/ In("sleeping") \/ In("answered")
    BY <1>1 DEF AInv, AskRecord, NoRequest, In
  <2> QED
    BY <2>1, <2>2, <2>3 DEF AdviceInTime
<1> QED
  BY <1>1, AlwaysAInv, PTL

-----------------------------------------------------------------------------
LEMMA Ranks == Rank("Low") = 1 /\ Rank("Medium") = 2 /\ Rank("High") = 3
  BY DEF Rank, Urgencies

\* The rules about a voting node, with more signals in the note.
LEMMA MoreSignals ==
  ASSUME NEW q \in AllQuestions, q.role = "Voting", NEW p \in AllQuestions,
         p.state = q.state, p.role = q.role, q.signals \subseteq p.signals
  PROVE  Rank(Recommend(q).urgency) <= Rank(Recommend(p).urgency)
<1>1. CASE Recommend(p).urgency = "High"
  <2>1. Recommend(q).urgency \in {"Low", "Medium", "High"}
    BY DEF Recommend, Advice
  <2> QED
    BY <1>1, <2>1, Ranks
<1>2. CASE Recommend(p).urgency = "Medium"
  <2>1. Recommend(q).urgency \in {"Low", "Medium"}
    BY <1>2 DEF Recommend, Advice
  <2> QED
    BY <1>2, <2>1, Ranks
<1>3. CASE Recommend(p).urgency = "Low"
  <2>1. Recommend(q).urgency = "Low"
    BY <1>3 DEF Recommend, Advice
  <2> QED
    BY <1>3, <2>1, Ranks
<1>4. Recommend(p).urgency \in {"Low", "Medium", "High"}
  BY DEF Recommend, Advice
<1> QED
  BY <1>1, <1>2, <1>3, <1>4

\* Nothing else in the note makes the advice about a voting node less urgent
\* (MoreAlarmNeverCalms).
THEOREM RulesAreOrdered == ReadSpec => []MoreAlarmNeverCalms
<1>1. ASSUME AInv PROVE MoreAlarmNeverCalms
  <2> SUFFICES ASSUME In("answered"), ask.answer # TheModels, ask.question.role = "Voting",
                      NEW more \in SUBSET Signals
               PROVE  Rank(ask.answer.urgency) <=
                        Rank(Recommend([ask.question EXCEPT !.signals = @ \cup more]).urgency)
    BY DEF MoreAlarmNeverCalms
  <2> DEFINE q == ask.question
             p == [q EXCEPT !.signals = q.signals \cup more]
  <2>1. q \in AllQuestions /\ ask.answer = Recommend(q)
    BY <1>1, AdvisorAssumption DEF AInv, Ruled, In, AskRecord, NoRequest
  <2>2. p \in AllQuestions /\ p.state = q.state /\ p.role = q.role
        /\ p.signals = q.signals \cup more
    BY <2>1 DEF AllQuestions
  <2>3. q.role = "Voting"
    OBVIOUS
  <2> HIDE DEF p, q
  <2>4. Rank(Recommend(q).urgency) <= Rank(Recommend(p).urgency)
    BY <2>1, <2>2, <2>3, MoreSignals
  <2> QED
    BY <2>1, <2>4 DEF p, q
<1> QED
  BY <1>1, AlwaysAInv, PTL

-----------------------------------------------------------------------------
(***************************************************************************)
(* The store of runs.  The invariant says why ids may repeat after a       *)
(* restart: the rows of earlier processes started before every run of this *)
(* one, and the volatile store has none.                                   *)
(***************************************************************************)
RowRecord == [id : Nat, started : Nat, life : Nat, status : RunStatuses]
PendingRecord == [id : Nat, started : Nat, stored : BOOLEAN]

CountersOK ==
  /\ backend \in {"memory", "postgres"}
  /\ nextRun \in Nat /\ life \in Nat /\ clock \in Nat
  /\ rows \in Seq(RowRecord) /\ pending \subseteq PendingRecord

\* One row for each run of each process.
OneRowEach ==
  \A i, j \in DOMAIN rows : rows[i].life = rows[j].life /\ rows[i].id = rows[j].id => i = j

RowsAreOlder ==
  \A i \in DOMAIN rows :
    /\ rows[i].life <= life /\ rows[i].started <= clock
    /\ rows[i].life = life => rows[i].id < nextRun
    /\ rows[i].life # life => /\ backend = "postgres"
                             /\ rows[i].started < clock
                             /\ \A p \in pending : rows[i].started < p.started

\* A run under way has its Running row once it is stored, and none before.
PendingOK ==
  /\ \A p \in pending : p.id < nextRun /\ p.started <= clock
  /\ \A p, q \in pending : p.id = q.id => p = q
  /\ \A p \in pending : p.stored =>
       \E i \in DOMAIN rows : rows[i] = Row(p, "Running")
  /\ \A p \in pending : ~p.stored =>
       \A i \in DOMAIN rows : ~(rows[i].life = life /\ rows[i].id = p.id)

SInv == CountersOK /\ OneRowEach /\ RowsAreOlder /\ PendingOK

LEMMA InitSInv == ASSUME StoreInit PROVE SInv
  BY StoreAssumption DEF StoreInit, SInv, CountersOK, OneRowEach, RowsAreOlder, PendingOK

LEMMA RowTypes ==
  ASSUME SInv, NEW i \in DOMAIN rows
  PROVE  /\ rows[i] \in RowRecord /\ i \in 1..Len(rows) /\ Len(rows) \in Nat
         /\ rows[i].id \in Nat /\ rows[i].started \in Nat /\ rows[i].life \in Nat
<1>1. rows \in [1..Len(rows) -> RowRecord] /\ Len(rows) \in Nat
  BY DEF SInv, CountersOK
<1>2. rows[i] \in RowRecord /\ i \in 1..Len(rows)
  BY <1>1
<1> QED
  BY <1>1, <1>2 DEF RowRecord

LEMMA CreateKeeps == ASSUME SInv, CreateRun PROVE SInv'
<1> DEFINE r == [id |-> nextRun, started |-> clock, stored |-> FALSE]
<1>1. r \in PendingRecord /\ r.id = nextRun /\ r.started = clock /\ r.stored = FALSE
  BY DEF SInv, CountersOK, PendingRecord
<1>2. pending' = pending \cup {r} /\ nextRun' = nextRun + 1 /\ UNCHANGED <<backend, rows, life, clock>>
  BY DEF CreateRun
<1> HIDE DEF r
<1>3. nextRun \in Nat /\ clock \in Nat /\ life \in Nat /\ rows \in Seq(RowRecord)
      /\ pending \subseteq PendingRecord
  BY DEF SInv, CountersOK
<1>4. \A i \in DOMAIN rows : rows[i].id \in Nat /\ rows[i].started \in Nat /\ rows[i].life \in Nat
  BY RowTypes
<1>5. CountersOK'
  BY <1>1, <1>2, <1>3 DEF SInv, CountersOK
<1>6. OneRowEach'
  BY <1>2 DEF SInv, OneRowEach
<1>7. RowsAreOlder'
  BY <1>1, <1>2, <1>3, <1>4 DEF SInv, RowsAreOlder
<1>8. PendingOK'
  <2>1. \A p \in pending : p.id \in Nat /\ p.id < nextRun /\ p.started <= clock
    BY <1>3 DEF SInv, PendingOK, PendingRecord
  <2>2. \A p \in pending' : p.id < nextRun' /\ p.started <= clock'
    BY <1>1, <1>2, <1>3, <2>1
  <2>3. \A p, q \in pending' : p.id = q.id => p = q
    BY <1>1, <1>2, <1>3, <2>1 DEF SInv, PendingOK
  <2>4. \A p \in pending' : p.stored => \E i \in DOMAIN rows' : rows'[i] = Row(p, "Running")'
    BY <1>1, <1>2 DEF SInv, PendingOK, Row
  <2>5. \A p \in pending' : ~p.stored =>
          \A i \in DOMAIN rows' : ~(rows'[i].life = life' /\ rows'[i].id = p.id)
    BY <1>1, <1>2, <1>3, <1>4 DEF SInv, PendingOK, RowsAreOlder
  <2> QED
    BY <2>2, <2>3, <2>4, <2>5 DEF PendingOK, Row
<1> QED
  BY <1>5, <1>6, <1>7, <1>8 DEF SInv

\* Runs leave, the clock moves on.
LEMMA AbandonKeeps == ASSUME SInv, NEW r \in pending, AbandonRun(r) PROVE SInv'
  BY DEF SInv, AbandonRun, CountersOK, OneRowEach, RowsAreOlder, PendingOK, Row

LEMMA PassTimeKeeps == ASSUME SInv, PassTime PROVE SInv'
<1>1. clock \in Nat /\ clock' = clock + 1 /\ UNCHANGED <<backend, rows, pending, nextRun, life>>
  BY DEF SInv, CountersOK, PassTime
<1>2. \A i \in DOMAIN rows : rows[i].started \in Nat
  BY RowTypes
<1>3. \A p \in pending : p.started \in Nat
  BY DEF SInv, CountersOK, PendingRecord
<1>4. CountersOK' /\ OneRowEach'
  BY <1>1 DEF SInv, CountersOK, OneRowEach
<1>5. RowsAreOlder'
  BY <1>1, <1>2 DEF SInv, RowsAreOlder
<1>6. PendingOK'
  BY <1>1, <1>3 DEF SInv, PendingOK, Row
<1> QED
  BY <1>4, <1>5, <1>6 DEF SInv

LEMMA RestartKeeps == ASSUME SInv, RestartStore PROVE SInv'
<1>1. /\ clock \in Nat /\ clock' = clock + 1 /\ life \in Nat /\ life' = life + 1
      /\ nextRun' = 1 /\ pending' = {} /\ backend' = backend
      /\ rows' = IF backend = "memory" THEN << >> ELSE rows
  BY DEF SInv, CountersOK, RestartStore
<1>2. \A i \in DOMAIN rows : rows[i].started \in Nat /\ rows[i].life \in Nat
  BY RowTypes
<1>3. CountersOK' /\ PendingOK'
  BY <1>1 DEF SInv, CountersOK, PendingOK
<1>4. CASE backend = "memory"
  BY <1>1, <1>3, <1>4 DEF SInv, OneRowEach, RowsAreOlder
<1>5. CASE backend = "postgres"
  <2>1. OneRowEach'
    BY <1>1, <1>5 DEF SInv, OneRowEach
  <2>2. RowsAreOlder'
    BY <1>1, <1>2, <1>5 DEF SInv, RowsAreOlder
  <2> QED
    BY <1>3, <2>1, <2>2 DEF SInv
<1> QED
  BY <1>4, <1>5 DEF SInv, CountersOK

-----------------------------------------------------------------------------
(* The two saves of a run.                                                 *)

\* The first save finds no row: rows of the same id are of earlier processes and
\* started before.
LEMMA FirstSaveAppends ==
  ASSUME SInv, NEW r \in pending, ~r.stored
  PROVE  Saved(Row(r, "Running")) = Append(rows, Row(r, "Running"))
<1> DEFINE row == Row(r, "Running")
           found == {i \in DOMAIN rows : SameRun(rows[i], row)}
<1>1. row.id = r.id /\ row.started = r.started
  BY DEF Row
<1>2. r.started \in Nat
  BY DEF SInv, CountersOK, PendingRecord
<1>3. ASSUME NEW i \in DOMAIN rows PROVE ~SameRun(rows[i], row)
  <2>1. rows[i].started \in Nat
    BY RowTypes
  <2>2. CASE rows[i].life = life
    BY <1>1, <2>2 DEF SInv, PendingOK, SameRun
  <2>3. CASE rows[i].life # life
    <3>1. backend = "postgres" /\ rows[i].started < r.started
      BY <2>3 DEF SInv, RowsAreOlder
    <3> QED
      BY <1>1, <1>2, <2>1, <3>1 DEF SameRun
  <2> QED
    BY <2>2, <2>3
<1>4. found = {}
  BY <1>3
<1> QED
  BY <1>4 DEF Saved

\* The second save finds the row of the first, and only that.
LEMMA SecondSaveReplaces ==
  ASSUME SInv, NEW r \in pending, r.stored, NEW v
  PROVE  \E k \in DOMAIN rows : /\ rows[k] = Row(r, "Running")
                               /\ Saved(Row(r, v)) = [rows EXCEPT ![k] = Row(r, v)]
<1> DEFINE row == Row(r, v)
           found == {i \in DOMAIN rows : SameRun(rows[i], row)}
<1>1. PICK k \in DOMAIN rows : rows[k] = Row(r, "Running")
  BY DEF SInv, PendingOK
<1>2. /\ row.id = r.id /\ row.started = r.started
      /\ rows[k].id = r.id /\ rows[k].started = r.started /\ rows[k].life = life
  BY <1>1 DEF Row
<1>3. r.started \in Nat
  BY DEF SInv, CountersOK, PendingRecord
<1>4. ASSUME NEW i \in DOMAIN rows, SameRun(rows[i], row) PROVE i = k
  <2>1. rows[i].started \in Nat
    BY RowTypes
  <2>2. CASE rows[i].life = life
    BY <1>2, <1>4, <2>2 DEF SInv, OneRowEach, SameRun
  <2>3. CASE rows[i].life # life
    <3>1. backend = "postgres" /\ rows[i].started < r.started
      BY <2>3 DEF SInv, RowsAreOlder
    <3> QED
      BY <1>2, <1>3, <1>4, <2>1, <3>1 DEF SameRun
  <2> QED
    BY <2>2, <2>3
<1>5. found = {k}
  BY <1>2, <1>4 DEF SameRun
<1>6. k \in Nat
  BY <1>1, RowTypes
<1>7. (CHOOSE i \in found : \A j \in found : i <= j) = k
  BY <1>5, <1>6
<1>8. Saved(row) = [rows EXCEPT ![k] = row]
  BY <1>5, <1>7 DEF Saved
<1> QED
  BY <1>1, <1>8

LEMMA StoreKeeps == ASSUME SInv, NEW r \in pending, StoreRun(r) PROVE SInv'
<1> DEFINE row == Row(r, "Running")
           s == [r EXCEPT !.stored = TRUE]
           n == Len(rows) + 1
<1>1. /\ ~r.stored /\ pending' = (pending \ {r}) \cup {s}
      /\ rows' = Append(rows, row) /\ UNCHANGED <<backend, nextRun, life, clock>>
  BY FirstSaveAppends DEF StoreRun
<1>2. r \in PendingRecord /\ r.id \in Nat /\ r.started \in Nat /\ r.id < nextRun /\ r.started <= clock
  BY DEF SInv, CountersOK, PendingRecord, PendingOK
<1>3. s \in PendingRecord /\ s.id = r.id /\ s.started = r.started /\ s.stored
  BY <1>2 DEF PendingRecord
<1>4. row \in RowRecord /\ row.id = r.id /\ row.started = r.started /\ row.life = life
      /\ row = Row(s, "Running")
  BY <1>2, <1>3 DEF Row, RowRecord, RunStatuses, SInv, CountersOK
<1> HIDE DEF row, s
<1>5. rows \in Seq(RowRecord) /\ Len(rows) \in Nat /\ life \in Nat
  BY DEF SInv, CountersOK
<1>6. /\ DOMAIN rows' = DOMAIN rows \cup {n} /\ n \notin DOMAIN rows /\ rows'[n] = row
      /\ \A i \in DOMAIN rows : rows'[i] = rows[i]
  BY <1>1, <1>4, <1>5
<1> HIDE DEF n
<1>7. CountersOK'
  BY <1>1, <1>3, <1>4, <1>5 DEF SInv, CountersOK
<1>8. \A i \in DOMAIN rows : ~(rows[i].life = life /\ rows[i].id = r.id)
  BY <1>1 DEF SInv, PendingOK
<1>9. OneRowEach'
  BY <1>4, <1>6, <1>8 DEF SInv, OneRowEach
<1>10. RowsAreOlder'
  <2>1. \A p \in pending' : \E q \in pending : p.started = q.started
    BY <1>1, <1>3
  <2>2. ASSUME NEW i \in DOMAIN rows
        PROVE  /\ rows[i].life <= life /\ rows[i].started <= clock
               /\ rows[i].life = life => rows[i].id < nextRun
               /\ rows[i].life # life => /\ backend = "postgres"
                                        /\ rows[i].started < clock
                                        /\ \A p \in pending' : rows[i].started < p.started
    BY <2>1 DEF SInv, RowsAreOlder
  <2>3. /\ row.life <= life /\ row.started <= clock /\ row.life = life /\ row.id < nextRun
    BY <1>2, <1>4, <1>5
  <2>4. ASSUME NEW i \in DOMAIN rows'
        PROVE  /\ rows'[i].life <= life /\ rows'[i].started <= clock
               /\ rows'[i].life = life => rows'[i].id < nextRun
               /\ rows'[i].life # life => /\ backend = "postgres"
                                         /\ rows'[i].started < clock
                                         /\ \A p \in pending' : rows'[i].started < p.started
    <3>1. CASE i = n
      BY <1>6, <2>3, <3>1
    <3>2. CASE i \in DOMAIN rows
      BY <1>6, <2>2, <3>2
    <3> QED
      BY <1>6, <3>1, <3>2
  <2> QED
    BY <1>1, <2>4 DEF RowsAreOlder
<1>11. PendingOK'
  <2>1. \A p \in pending' : p.id < nextRun' /\ p.started <= clock'
    BY <1>1, <1>2, <1>3 DEF SInv, PendingOK
  <2>2. \A p, q \in pending' : p.id = q.id => p = q
    BY <1>1, <1>3 DEF SInv, PendingOK
  <2>3. \A p \in pending' : p.stored => \E i \in DOMAIN rows' : rows'[i] = Row(p, "Running")
    BY <1>1, <1>4, <1>6 DEF SInv, PendingOK
  <2>4. ASSUME NEW p \in pending', ~p.stored, NEW i \in DOMAIN rows',
               rows'[i].life = life, rows'[i].id = p.id
        PROVE  FALSE
    <3>1. p \in pending /\ p # r
      BY <1>1, <1>3, <2>4
    <3>2. p.id # r.id
      BY <3>1 DEF SInv, PendingOK
    <3> QED
      BY <1>4, <1>6, <2>4, <3>1, <3>2 DEF SInv, PendingOK
  <2> QED
    BY <1>1, <2>1, <2>2, <2>3, <2>4 DEF PendingOK, Row
<1> QED
  BY <1>7, <1>9, <1>10, <1>11 DEF SInv

LEMMA CloseKeeps ==
  ASSUME SInv, NEW r \in pending, NEW v \in Verdicts, CloseRun(r, v)
  PROVE  SInv'
<1> DEFINE row == Row(r, v)
<1>1. PICK k \in DOMAIN rows : rows[k] = Row(r, "Running") /\ rows' = [rows EXCEPT ![k] = row]
  BY SecondSaveReplaces DEF CloseRun
<1>2. r.stored /\ pending' = pending \ {r} /\ UNCHANGED <<backend, nextRun, life, clock>>
  BY DEF CloseRun
<1>3. r \in PendingRecord
  BY DEF SInv, CountersOK
<1>4. row \in RowRecord /\ row.id = rows[k].id /\ row.started = rows[k].started
      /\ row.life = rows[k].life /\ row.id = r.id /\ row.life = life
  BY <1>1, <1>3 DEF Row, RowRecord, PendingRecord, Verdicts, SInv, CountersOK
<1> HIDE DEF row
<1>5. rows \in Seq(RowRecord)
  BY DEF SInv, CountersOK
<1>6. /\ DOMAIN rows' = DOMAIN rows /\ rows' \in Seq(RowRecord) /\ rows'[k] = row
      /\ \A i \in DOMAIN rows : i # k => rows'[i] = rows[i]
  BY <1>1, <1>4, <1>5
<1>7. \A i \in DOMAIN rows : /\ rows'[i].id = rows[i].id /\ rows'[i].life = rows[i].life
                             /\ rows'[i].started = rows[i].started
  BY <1>4, <1>6
<1>8. CountersOK'
  BY <1>2, <1>6 DEF SInv, CountersOK
<1>9. OneRowEach'
  BY <1>6, <1>7 DEF SInv, OneRowEach
<1>10. RowsAreOlder'
  BY <1>2, <1>6, <1>7 DEF SInv, RowsAreOlder
<1>11. PendingOK'
  <2>1. \A p \in pending' : p.id < nextRun' /\ p.started <= clock'
    BY <1>2 DEF SInv, PendingOK
  <2>2. \A p, q \in pending' : p.id = q.id => p = q
    BY <1>2 DEF SInv, PendingOK
  <2>3. ASSUME NEW p \in pending', p.stored
        PROVE  \E i \in DOMAIN rows' : rows'[i] = Row(p, "Running")
    <3>1. p \in pending /\ p # r
      BY <1>2
    <3>2. p.id # r.id
      BY <3>1 DEF SInv, PendingOK
    <3>3. PICK i \in DOMAIN rows : rows[i] = Row(p, "Running")
      BY <2>3, <3>1 DEF SInv, PendingOK
    <3>4. rows[i].id = p.id
      BY <3>3 DEF Row
    <3>5. i # k
      BY <1>4, <3>2, <3>4
    <3> QED
      BY <1>6, <3>3, <3>5
  <2>4. \A p \in pending' : ~p.stored =>
          \A i \in DOMAIN rows' : ~(rows'[i].life = life' /\ rows'[i].id = p.id)
    BY <1>2, <1>6, <1>7 DEF SInv, PendingOK
  <2> QED
    BY <1>2, <2>1, <2>2, <2>3, <2>4 DEF PendingOK, Row
<1> QED
  BY <1>8, <1>9, <1>10, <1>11 DEF SInv

LEMMA NextSInv == ASSUME SInv, [ReadNext]_readVars PROVE SInv'
<1>1. CASE UNCHANGED storeVars
  BY <1>1 DEF storeVars, SInv, CountersOK, OneRowEach, RowsAreOlder, PendingOK, Row
<1>2. CASE StoreStep
  BY <1>2, CreateKeeps, PassTimeKeeps, StoreKeeps, AbandonKeeps, CloseKeeps DEF StoreStep
<1>3. CASE RestartStore
  BY <1>3, RestartKeeps
<1> QED
  BY <1>1, <1>2, <1>3 DEF ReadNext, Query, Advise, Record, Restart, readVars, storeVars

LEMMA AlwaysSInv == ReadSpec => []SInv
<1>1. ReadInit => SInv
  BY InitSInv DEF ReadInit
<1> QED
  BY <1>1, NextSInv, PTL DEF ReadSpec
-----------------------------------------------------------------------------
(* The rows as a ledger.                                                   *)
Entry(row) == [run |-> <<row.life, row.id>>, status |-> row.status]

Book == {Entry(rows[i]) : i \in DOMAIN rows}

\* The first save opens an entry.
LEMMA StoreOpens == ASSUME SInv, NEW r \in pending, StoreRun(r) PROVE Ledger!Open
<1> DEFINE row == Row(r, "Running")
           run == <<life, r.id>>
           n == Len(rows) + 1
<1>1. ~r.stored /\ rows' = Append(rows, row)
  BY FirstSaveAppends DEF StoreRun
<1>2. Entry(row) = [run |-> run, status |-> "Running"]
  BY DEF Entry, Row
<1>3. rows \in Seq(RowRecord) /\ Len(rows) \in Nat
  BY DEF SInv, CountersOK
<1> HIDE DEF row
<1>4. /\ DOMAIN rows' = DOMAIN rows \cup {n} /\ n \notin DOMAIN rows /\ rows'[n] = row
      /\ \A i \in DOMAIN rows : rows'[i] = rows[i]
  BY <1>1, <1>3
<1> HIDE DEF n
<1>5. Book' = Book \cup {[run |-> run, status |-> "Running"]}
  <2>1. Book' = {Entry(rows'[i]) : i \in DOMAIN rows'}
    BY DEF Book, Entry
  <2>2. {Entry(rows'[i]) : i \in DOMAIN rows'} = {Entry(rows'[i]) : i \in DOMAIN rows} \cup {Entry(rows'[n])}
    BY <1>4
  <2>3. {Entry(rows'[i]) : i \in DOMAIN rows} = Book
    BY <1>4 DEF Book
  <2> QED
    BY <1>2, <1>4, <2>1, <2>2, <2>3
<1>6. run \notin {e.run : e \in Book}
  <2>1. \A i \in DOMAIN rows : ~(rows[i].life = life /\ rows[i].id = r.id)
    BY <1>1 DEF SInv, PendingOK
  <2>2. \A i \in DOMAIN rows : Entry(rows[i]).run = <<rows[i].life, rows[i].id>>
    BY DEF Entry
  <2> QED
    BY <2>1, <2>2 DEF Book
<1>7. run \in {e.run : e \in Book'}
  <2>1. [run |-> run, status |-> "Running"] \in Book'
    BY <1>5
  <2>2. [run |-> run, status |-> "Running"].run = run
    OBVIOUS
  <2> QED
    BY <2>1, <2>2
<1> HIDE DEF run
<1> QED
  BY <1>5, <1>6, <1>7 DEF Ledger!Open, Book, Entry

\* The second save gives that entry its verdict, and only that entry.
LEMMA CloseCloses ==
  ASSUME SInv, NEW r \in pending, NEW v \in Verdicts, CloseRun(r, v)
  PROVE  Ledger!Close
<1> DEFINE row == Row(r, v)
<1>1. PICK k \in DOMAIN rows : rows[k] = Row(r, "Running") /\ rows' = [rows EXCEPT ![k] = row]
  BY SecondSaveReplaces DEF CloseRun
<1> DEFINE e == Entry(rows[k])
<1>2. /\ e.status = "Running" /\ e \in Book
      /\ Entry(row) = [e EXCEPT !.status = v]
  <2>1. e.status = "Running" /\ e \in Book
    <3>1. rows[k].status = "Running"
      BY <1>1 DEF Row
    <3>2. e \in Book
      BY <1>1 DEF Book
    <3> QED
      BY <3>1, <3>2 DEF Entry
  <2>2. e = [run |-> <<life, r.id>>, status |-> "Running"]
    BY <1>1 DEF Entry, Row
  <2>3. Entry(row) = [run |-> <<life, r.id>>, status |-> v]
    BY DEF Entry, Row
  <2>4. [e EXCEPT !.status = v] = [run |-> <<life, r.id>>, status |-> v]
    BY <2>2
  <2> QED
    BY <2>1, <2>3, <2>4
<1>3. rows \in Seq(RowRecord)
  BY DEF SInv, CountersOK
<1> HIDE DEF row
<1>4. /\ DOMAIN rows' = DOMAIN rows /\ rows'[k] = row
      /\ \A i \in DOMAIN rows : i # k => rows'[i] = rows[i]
  BY <1>1, <1>3
<1>5. \A i \in DOMAIN rows : Entry(rows[i]) = e => i = k
  BY DEF SInv, OneRowEach, Entry
<1>6. Book' = (Book \ {e}) \cup {Entry(row)}
  <2>1. Book' = {Entry(rows'[i]) : i \in DOMAIN rows}
    BY <1>4 DEF Book, Entry
  <2>2. {Entry(rows'[i]) : i \in DOMAIN rows} = {Entry(rows[i]) : i \in DOMAIN rows \ {k}} \cup {Entry(row)}
    BY <1>4
  <2>3. {Entry(rows[i]) : i \in DOMAIN rows \ {k}} = Book \ {e}
    BY <1>5 DEF Book
  <2> QED
    BY <2>1, <2>2, <2>3
<1>7. Book' = (Book \ {e}) \cup {[e EXCEPT !.status = v]}
  BY <1>2, <1>6
<1> HIDE DEF e
<1>8. \E f \in Book, w \in Verdicts :
        f.status = "Running" /\ Book' = (Book \ {f}) \cup {[f EXCEPT !.status = w]}
  BY <1>2, <1>7
<1>9. Ledger!Verdicts = Verdicts
  BY DEF Ledger!Verdicts, Verdicts, Ledger!RunStatuses, RunStatuses
<1> DEFINE L == {[run |-> <<rows[i].life, rows[i].id>>, status |-> rows[i].status] : i \in DOMAIN rows}
<1>10. L = Book /\ L' = Book'
  BY DEF Book, Entry
<1> HIDE DEF L
<1>11. \E f \in L, w \in Ledger!Verdicts :
         f.status = "Running" /\ L' = (L \ {f}) \cup {[f EXCEPT !.status = w]}
  BY <1>8, <1>9, <1>10
<1> QED
  BY <1>11, Zenon DEF Ledger!Close, L

\* A restart takes the volatile ledger with it and leaves the other alone.
LEMMA RestartLoses ==
  ASSUME SInv, RestartStore
  PROVE  Ledger!Lose \/ Book' = Book
<1>1. CASE backend = "memory"
  BY <1>1 DEF RestartStore, Ledger!Lose
<1>2. CASE backend # "memory"
  BY <1>2 DEF RestartStore, Book, Entry
<1> QED
  BY <1>1, <1>2

LEMMA StepKeepsLedger ==
  ASSUME SInv, [ReadNext]_readVars
  PROVE  [Ledger!Next]_<<Book, backend = "memory">>
<1>1. backend' = backend
  BY DEF ReadNext, Query, Advise, Record, Restart, StoreStep, CreateRun, PassTime, StoreRun,
         AbandonRun, CloseRun, RestartStore, readVars, storeVars
<1>2. CASE UNCHANGED rows
  BY <1>1, <1>2 DEF Book, Entry
<1>3. ASSUME NEW r \in pending, StoreRun(r) PROVE Ledger!Next
  BY <1>1, <1>3, StoreOpens DEF Ledger!Next
<1>4. ASSUME NEW r \in pending, NEW v \in Verdicts, CloseRun(r, v) PROVE Ledger!Next
  BY <1>1, <1>4, CloseCloses DEF Ledger!Next
<1>5. CASE RestartStore
  BY <1>1, <1>5, RestartLoses DEF Ledger!Next
<1> QED
  BY <1>2, <1>3, <1>4, <1>5
  DEF ReadNext, Query, Advise, Record, Restart, StoreStep, CreateRun, PassTime, AbandonRun,
      readVars, storeVars

\* engine.rs:60 and 115: though the counter starts again with the process, the
\* store keeps an entry of its own for every run it was given, opened once and
\* closed at most once (ImplementsLedger).
THEOREM LedgerIsKept == ReadSpec => ImplementsLedger
<1>1. ReadInit => Ledger!Init
  BY DEF ReadInit, StoreInit, Ledger!Init
<1>2. ASSUME SInv, [ReadNext]_readVars
      PROVE  [Ledger!Next]_<<{[run |-> <<rows[i].life, rows[i].id>>, status |-> rows[i].status] :
                                i \in DOMAIN rows}, backend = "memory">>
  BY <1>2, StepKeepsLedger DEF Book, Entry
<1> QED
  BY <1>1, <1>2, AlwaysSInv, PTL DEF ReadSpec, ImplementsLedger, Ledger!Spec

-----------------------------------------------------------------------------
(***************************************************************************)
(* The list of recent runs.  Newer is a strict total order of the rows, so *)
(* Position numbers them from 1 to their number, each once, and NewestFirst*)
(* puts every row at its position.                                         *)
(***************************************************************************)
Ahead(s, i) == {j \in DOMAIN s : Newer(s, j, i)}

LEMMA RowsInOrder ==
  ASSUME NEW s \in Seq(RowRecord), NEW i \in DOMAIN s, NEW j \in DOMAIN s
  PROVE  /\ i \in 1..Len(s) /\ Len(s) \in Nat /\ s[i].started \in Nat
         /\ ~Newer(s, i, i)
         /\ i # j => Newer(s, i, j) \/ Newer(s, j, i)
         /\ \A k \in DOMAIN s : Newer(s, k, i) /\ Newer(s, i, j) => Newer(s, k, j)
<1>1. s \in [1..Len(s) -> RowRecord] /\ Len(s) \in Nat
  OBVIOUS
<1>2. \A k \in DOMAIN s : k \in Int /\ s[k].started \in Nat
  BY <1>1 DEF RowRecord
<1> QED
  BY <1>1, <1>2 DEF Newer

LEMMA NotNewer ==
  ASSUME NEW s \in Seq(RowRecord), NEW i \in DOMAIN s, NEW j \in DOMAIN s, ~Newer(s, i, j)
  PROVE  s[j].started >= s[i].started
<1>1. s[i].started \in Nat /\ s[j].started \in Nat
  BY RowsInOrder
<1> QED
  BY <1>1 DEF Newer

LEMMA PositionRange ==
  ASSUME NEW s \in Seq(RowRecord), NEW i \in DOMAIN s
  PROVE  /\ IsFiniteSet(Ahead(s, i)) /\ Cardinality(Ahead(s, i)) \in Nat
         /\ Position(s, i) = Cardinality(Ahead(s, i)) + 1
         /\ Position(s, i) \in 1..Len(s)
<1>1. PICK n \in Nat : n = Len(s)
  OBVIOUS
<1>2. DOMAIN s = 1..n /\ i \in 1..n /\ n >= 1
  BY <1>1
<1>3. IsFiniteSet(1..n) /\ Cardinality(1..n) = n
  BY <1>2, FS_Interval
<1>4. IsFiniteSet((1..n) \ {i}) /\ Cardinality((1..n) \ {i}) = n - 1
  BY <1>2, <1>3, FS_RemoveElement
<1>5. Ahead(s, i) \in SUBSET ((1..n) \ {i})
  BY <1>2, RowsInOrder DEF Ahead
<1>6. IsFiniteSet(Ahead(s, i)) /\ Cardinality(Ahead(s, i)) <= n - 1
  BY <1>4, <1>5, FS_Subset
<1>7. Cardinality(Ahead(s, i)) \in Nat
  BY <1>6, FS_CardinalityType
<1>8. Position(s, i) = Cardinality(Ahead(s, i)) + 1
  BY DEF Position, Ahead
<1> QED
  BY <1>1, <1>6, <1>7, <1>8

\* A newer row has fewer rows ahead of it.
LEMMA PositionIsMonotone ==
  ASSUME NEW s \in Seq(RowRecord), NEW i \in DOMAIN s, NEW j \in DOMAIN s, Newer(s, i, j)
  PROVE  Position(s, i) < Position(s, j)
<1>1. Ahead(s, i) \in SUBSET Ahead(s, j)
  BY RowsInOrder DEF Ahead
<1>2. i \in Ahead(s, j) /\ i \notin Ahead(s, i)
  BY RowsInOrder DEF Ahead
<1>3. Cardinality(Ahead(s, i)) <= Cardinality(Ahead(s, j)) /\ Cardinality(Ahead(s, i)) # Cardinality(Ahead(s, j))
  BY <1>1, <1>2, PositionRange, FS_Subset
<1> QED
  BY <1>3, PositionRange

LEMMA PositionsAreDistinct ==
  ASSUME NEW s \in Seq(RowRecord), NEW i \in DOMAIN s, NEW j \in DOMAIN s, i # j
  PROVE  Position(s, i) # Position(s, j)
<1>1. Position(s, i) \in Int /\ Position(s, j) \in Int
  BY PositionRange
<1>2. Newer(s, i, j) \/ Newer(s, j, i)
  BY RowsInOrder
<1> QED
  BY <1>1, <1>2, PositionIsMonotone

\* The index of the row that is put at position p.
Placed(s, p) == CHOOSE i \in DOMAIN s : Position(s, i) = p

LEMMA EveryPositionIsTaken ==
  ASSUME NEW s \in Seq(RowRecord), NEW p \in 1..Len(s)
  PROVE  Placed(s, p) \in DOMAIN s /\ Position(s, Placed(s, p)) = p
<1> DEFINE D == 1..Len(s)
           f == [i \in D |-> Position(s, i)]
<1>1. DOMAIN s = D /\ Len(s) \in Nat
  OBVIOUS
<1>2. IsFiniteSet(D)
  BY <1>1, FS_Interval
<1>3. f \in Injection(D, D)
  <2>1. f \in [D -> D]
    BY <1>1, PositionRange
  <2>2. \A i, j \in D : f[i] = f[j] => i = j
    BY <1>1, PositionsAreDistinct
  <2> HIDE DEF f
  <2> QED
    BY <2>1, <2>2 DEF Injection, IsInjective
<1>4. f \in Surjection(D, D)
  <2> HIDE DEF f, D
  <2> QED
    BY <1>2, <1>3, FS_Injection
<1>5. \E i \in D : f[i] = p
  <2> HIDE DEF f
  <2> QED
    BY <1>4 DEF Surjection
<1> QED
  BY <1>1, <1>5 DEF Placed

LEMMA NewestFirstFacts ==
  ASSUME NEW s \in Seq(RowRecord)
  PROVE  /\ NewestFirst(s) = [p \in 1..Len(s) |-> s[Placed(s, p)]]
         /\ \A p \in 1..Len(s) : NewestFirst(s)[p] \in RowRecord
<1>1. DOMAIN s = 1..Len(s) /\ \A i \in DOMAIN s : s[i] \in RowRecord
  OBVIOUS
<1>2. NewestFirst(s) = [p \in 1..Len(s) |-> s[Placed(s, p)]]
  BY <1>1 DEF NewestFirst, Placed
<1> QED
  BY <1>1, <1>2, EveryPositionIsTaken

\* What RecentRunsAreNewest says of a list of m of the rows in s.
NewestAmong(s, out, kept, m) ==
  /\ Len(out) = m
  /\ Cardinality(kept) = m
  /\ \A i, j \in DOMAIN out : i < j => out[i].started >= out[j].started
  /\ \A k \in DOMAIN s : s[k] \notin kept => \A r \in kept : r.started >= s[k].started

\* A prefix of the sorted rows, of any length.
LEMMA NewestOf ==
  ASSUME NEW s \in Seq(RowRecord), \A i, j \in DOMAIN s : s[i] = s[j] => i = j,
         NEW m \in 0..Len(s), NEW out, out = SubSeq(NewestFirst(s), 1, m),
         NEW kept, kept = {out[i] : i \in DOMAIN out}
  PROVE  NewestAmong(s, out, kept, m)
<1>0. Len(s) \in Nat /\ m \in Nat /\ m <= Len(s) /\ DOMAIN s = 1..Len(s)
  OBVIOUS
<1>1. out \in Seq(RowRecord) /\ Len(out) = m /\ \A i \in 1..m : out[i] = s[Placed(s, i)]
  <2>1. \A i \in 1..m : NewestFirst(s)[i] \in RowRecord
    BY <1>0, NewestFirstFacts
  <2>2. /\ out \in Seq(RowRecord) /\ Len(out) = IF 1 <= m THEN m - 1 + 1 ELSE 0
        /\ \A i \in 1..(m - 1 + 1) : out[i] = NewestFirst(s)[1 + i - 1]
    BY <1>0, <2>1, SubSeqProperties
  <2>3. Len(out) = m
    BY <1>0, <2>2
  <2>4. ASSUME NEW i \in 1..m PROVE out[i] = s[Placed(s, i)]
    <3>1. i \in 1..(m - 1 + 1) /\ 1 + i - 1 = i /\ i \in 1..Len(s)
      BY <1>0
    <3>2. out[i] = NewestFirst(s)[i]
      BY <2>2, <3>1
    <3> QED
      BY <3>1, <3>2, NewestFirstFacts
  <2> QED
    BY <2>2, <2>3, <2>4
<1>2. DOMAIN out = 1..m
  BY <1>1
<1>3. \A i \in 1..m : Placed(s, i) \in DOMAIN s /\ Position(s, Placed(s, i)) = i
  BY <1>0, EveryPositionIsTaken
<1>4. \A i, j \in 1..m : out[i] = out[j] => i = j
  BY <1>1, <1>3
<1>5. Cardinality(kept) = m
  <2>1. out \in [1..m -> kept]
    <3>1. out = [i \in 1..m |-> out[i]]
      BY <1>1, <1>2
    <3>2. \A i \in 1..m : out[i] \in kept
      BY <1>2
    <3> QED
      BY <3>1, <3>2
  <2>2. \A r \in kept : \E i \in 1..m : out[i] = r
    BY <1>2
  <2>3. out \in Surjection(1..m, kept) /\ out \in Injection(1..m, kept)
    BY <1>4, <2>1, <2>2 DEF Surjection, Injection, IsInjective
  <2>4. IsFiniteSet(1..m) /\ Cardinality(1..m) = m
    BY <1>0, FS_Interval
  <2>5. ASSUME NEW S, IsFiniteSet(S), NEW T, NEW f \in Surjection(S, T), f \in Injection(S, T)
        PROVE  Cardinality(T) = Cardinality(S)
    <3>1. Cardinality(T) = Cardinality(S) <=> f \in Injection(S, T)
      BY <2>5, FS_Surjection, Zenon
    <3> QED
      BY <2>5, <3>1, Zenon
  <2>6. Cardinality(kept) = Cardinality(1..m)
    BY <2>3, <2>4, <2>5, Zenon
  <2> QED
    BY <2>4, <2>6
<1>6. ASSUME NEW i \in DOMAIN out, NEW j \in DOMAIN out, i < j
      PROVE  out[i].started >= out[j].started
  <2>1. ~Newer(s, Placed(s, j), Placed(s, i))
    <3>1. ~(j < i)
      BY <1>2, <1>6
    <3> QED
      BY <1>2, <1>3, <3>1, PositionIsMonotone
  <2> QED
    BY <1>1, <1>2, <1>3, <2>1, NotNewer
<1>7. ASSUME NEW k \in DOMAIN s, s[k] \notin kept, NEW r \in kept
      PROVE  r.started >= s[k].started
  <2>1. PICK i \in 1..m : r = out[i]
    BY <1>2
  <2>2. Position(s, k) \notin 1..m
    <3> SUFFICES ASSUME Position(s, k) \in 1..m PROVE FALSE
      OBVIOUS
    <3>1. Placed(s, Position(s, k)) = k
      BY <1>3, PositionsAreDistinct
    <3> QED
      BY <1>1, <1>2, <1>7, <3>1
  <2>3. ~Newer(s, k, Placed(s, i))
    <3>1. ~(Position(s, k) < i)
      BY <1>0, <2>2, PositionRange
    <3> QED
      BY <1>3, <3>1, PositionIsMonotone
  <2> QED
    <3>1. r = s[Placed(s, i)] /\ Placed(s, i) \in DOMAIN s
      BY <1>1, <1>3, <2>1
    <3> QED
      BY <2>3, <3>1, NotNewer
<1> QED
  BY <1>1, <1>5, <1>6, <1>7 DEF NewestAmong

\* query.rs:52-61, "newest first, capped at limit": whatever was saved in which
\* order, by however many processes, and whichever runs started together, the
\* list has as many runs as it may and none that was left out is newer than one
\* that is there (RecentRunsAreNewest).
THEOREM RecentRunsNewest == ReadSpec => []RecentRunsAreNewest
<1>1. ASSUME SInv PROVE RecentRunsAreNewest
  <2>1. rows \in Seq(RowRecord) /\ \A i, j \in DOMAIN rows : rows[i] = rows[j] => i = j
    BY <1>1 DEF SInv, CountersOK, OneRowEach
  <2>2. ASSUME NEW limit \in -1..(Len(rows) + 1)
        PROVE  LET out  == RecentRuns(limit)
                   kept == {out[i] : i \in DOMAIN out}
               IN  /\ Len(out) = IF limit < 0 THEN 0 ELSE IF limit < Len(rows) THEN limit ELSE Len(rows)
                   /\ Cardinality(kept) = Len(out)
                   /\ \A i, j \in DOMAIN out : i < j => out[i].started >= out[j].started
                   /\ \A k \in DOMAIN rows : rows[k] \notin kept =>
                        \A r \in kept : r.started >= rows[k].started
    <3> DEFINE m == IF limit < 0 THEN 0 ELSE IF limit < Len(rows) THEN limit ELSE Len(rows)
               out == RecentRuns(limit)
               kept == {out[i] : i \in DOMAIN out}
    <3>1. Len(rows) \in Nat /\ m \in 0..Len(rows)
      BY <2>1
    <3>2. out = SubSeq(NewestFirst(rows), 1, m)
      BY <3>1 DEF RecentRuns, ListRuns
    <3>3. SUFFICES /\ Len(out) = m
                   /\ Cardinality(kept) = Len(out)
                   /\ \A i, j \in DOMAIN out : i < j => out[i].started >= out[j].started
                   /\ \A k \in DOMAIN rows : rows[k] \notin kept =>
                        \A r \in kept : r.started >= rows[k].started
      OBVIOUS
    <3>4. PICK o, q : o = out /\ q = kept
      OBVIOUS
    <3> HIDE DEF m, out, kept
    <3>5. q = {o[i] : i \in DOMAIN o} /\ o = SubSeq(NewestFirst(rows), 1, m)
      BY <3>2, <3>4 DEF kept
    <3>6. NewestAmong(rows, o, q, m)
      BY <2>1, <3>1, <3>5, NewestOf
    <3> QED
      BY <3>4, <3>6 DEF NewestAmong
  <2> QED
    BY <2>2 DEF RecentRunsAreNewest
<1> QED
  BY <1>1, AlwaysSInv, PTL
=============================================================================
