------------------------------- MODULE Advisor -------------------------------
(***************************************************************************)
(* The advisors of validatorforge-ai: the rule table of HeuristicAdvisor   *)
(* (advisor.rs), and LlmAdvisor (llm.rs), which asks a model over the      *)
(* network first, with attempts and backoffs (retry.rs), and falls back to *)
(* the rules on any failure.                                               *)
(*                                                                         *)
(* A context note is the set of the signals the rules look for in it; the  *)
(* words with one meaning ("not voting"; "new version"; "behind", "slow")  *)
(* are one signal.  Time is counted in ticks within one request.           *)
(***************************************************************************)
EXTENDS Lifecycle

CONSTANTS Questions,     \* [state, role, signals]: the nodes and notes asked about
          HasKey,        \* is api_key not empty?
          MaxRetries,    \* max_retries, in all
          CallTimeout,   \* per attempt
          BaseDelay, MaxDelay

Signals == {"delinquent", "upgrade", "cve", "lag"}
Roles == {"Voting", "Rpc", "HotSpare"}

AllQuestions == [state : NodeStates, role : Roles, signals : SUBSET Signals]

ASSUME AdvisorAssumption ==
  /\ Questions \subseteq AllQuestions
  /\ HasKey \in BOOLEAN
  /\ MaxRetries \in Nat /\ CallTimeout \in Nat /\ BaseDelay \in Nat /\ MaxDelay \in Nat

Urgencies == <<"Low", "Medium", "High">>
Rank(urgency) == CHOOSE i \in DOMAIN Urgencies : Urgencies[i] = urgency

Advice(action, urgency) == [action |-> action, urgency |-> urgency]

\* Mutated form of Recommend: the upgrade is looked at before the delinquency.
RecommendUpgradeFirst(q) ==
  LET has(signal) == signal \in q.signals IN
  CASE q.state = "Failed" -> Advice("Investigate", "High")
    [] q.state # "Failed" /\ (has("upgrade") \/ has("cve")) ->
         Advice("Upgrade", IF has("cve") THEN "High" ELSE "Medium")
    [] OTHER ->
         IF q.state = "Delinquent" \/ has("delinquent")
         THEN IF q.role = "Voting" THEN Advice("Failover", "High")
                                   ELSE Advice("Investigate", "Medium")
         ELSE IF has("lag") /\ q.state = "Active" THEN Advice("TuneHost", "Medium")
         ELSE Advice("Hold", "Low")

\* The rules, in the order of the code.
Recommend(q) ==
  LET has(signal) == signal \in q.signals IN
  IF q.state = "Failed" THEN Advice("Investigate", "High")
  ELSE IF q.state = "Delinquent" \/ has("delinquent")
  THEN IF q.role = "Voting" THEN Advice("Failover", "High")
                            ELSE Advice("Investigate", "Medium")
  ELSE IF has("upgrade") \/ has("cve")
  THEN Advice("Upgrade", IF has("cve") THEN "High" ELSE "Medium")
  ELSE IF has("lag") /\ q.state = "Active" THEN Advice("TuneHost", "Medium")
  ELSE Advice("Hold", "Low")

-----------------------------------------------------------------------------
\* RetryPolicy::new.
MaxTries == IF MaxRetries > 1 THEN MaxRetries ELSE 1

\* Mutated form of LongestBackoff: without the cap.
LongestBackoffUncapped(i) == BaseDelay * 2 ^ i

\* backoff_for: half of the capped delay and a jitter of up to the other half.
LongestBackoff(i) ==
  IF BaseDelay * 2 ^ i < MaxDelay THEN BaseDelay * 2 ^ i ELSE MaxDelay

Backoffs(i) == (LongestBackoff(i) \div 2)..LongestBackoff(i)

(***************************************************************************)
(* One request of advise.  try counts the attempts begun, elapsed the time *)
(* since the first; answer is the advice of the rules, or what the model   *)
(* said.                                                                   *)
(***************************************************************************)
VARIABLE ask

TheModels == [action |-> "the model's", urgency |-> "the model's"]

NoRequest == [phase |-> "none"]

Request(q, phase, try) ==
  [phase |-> phase, question |-> q, try |-> try, elapsed |-> 0, answer |-> NoRequest]

In(p) == ask.phase = p

\* advise, about a node that is there.  A request that is under way keeps the
\* model; without a key nobody is asked.
AskAdvisor(q) ==
  /\ ~In("trying") /\ ~In("sleeping")
  /\ ask' = IF HasKey THEN Request(q, "trying", 1)
            ELSE [Request(q, "answered", 0) EXCEPT !.answer = Recommend(q)]

\* A response within the deadline, with a choice that is not blank.
ModelAnswers ==
  /\ In("trying")
  /\ \E d \in 0..CallTimeout :
       ask' = [ask EXCEPT !.phase = "answered", !.elapsed = @ + d, !.answer = TheModels]

MayTryAgain == ask.try < MaxTries

\* A transport error, a bad status, a blank completion or the timeout: all are
\* retried, and after the last one the rules answer.
ModelFails ==
  /\ In("trying")
  /\ \E d \in 0..CallTimeout :
       ask' = IF MayTryAgain
              THEN [ask EXCEPT !.phase = "sleeping", !.elapsed = @ + d]
              ELSE [ask EXCEPT !.phase = "answered", !.elapsed = @ + d,
                               !.answer = Recommend(ask.question)]

\* Mutated form of SleepOver: the attempts are not counted.
SleepOverUncounted ==
  /\ In("sleeping")
  /\ ask' = [ask EXCEPT !.phase = "trying"]

SleepOver ==
  /\ In("sleeping")
  /\ \E d \in Backoffs(ask.try - 1) :
       ask' = [ask EXCEPT !.phase = "trying", !.try = @ + 1, !.elapsed = @ + d]

AdvisorInit == ask = NoRequest

AdvisorMoves == ModelAnswers \/ ModelFails \/ SleepOver

AdvisorStep == AdvisorMoves \/ \E q \in Questions : AskAdvisor(q)

-----------------------------------------------------------------------------
\* Whatever else stands in the note, it never makes the advice about a voting
\* node less urgent: the rules are "ordered by severity" (advisor.rs:78-81).
\* For other roles a delinquency overrides a CVE, and it does.
MoreAlarmNeverCalms ==
  In("answered") /\ ask.answer # TheModels /\ ask.question.role = "Voting" =>
    \A more \in SUBSET Signals :
      Rank(ask.answer.urgency) <=
        Rank(Recommend([ask.question EXCEPT !.signals = @ \cup more]).urgency)

\* A dead or slow network delays the advice by no more than the attempts and the
\* backoffs between them, each cut off at MaxDelay (llm.rs:98-113, retry.rs:50-56).
TimeBound ==
  MaxTries * CallTimeout + (MaxTries - 1) * MaxDelay

AdviceInTime == ~In("none") => ask.elapsed <= TimeBound

\* Who asks is answered: by the model, or by the rules when it cannot be reached
\* (llm.rs:5-8), unless the process ends.
AdviceIsGiven == In("trying") ~> (In("answered") \/ In("none"))
=============================================================================
