-------------------------------- MODULE Health --------------------------------
(***************************************************************************)
(* HealthSnapshot and its classification (validatorforge-types/src/        *)
(* health.rs).  Pure: no variables, no constants.                          *)
(*                                                                         *)
(* A snapshot is [tip, node : slots, skip : percent, at : time].  Times    *)
(* are in halves of a second, so that the truncation to whole seconds      *)
(* shows; skip_rate is in percent, as all the code does with the f64 is    *)
(* to clamp it and to compare it (a NaN, which no reporter sends, is left  *)
(* out, and so is cpu_load, which nothing reads).                          *)
(***************************************************************************)
EXTENDS Integers

HealthStatuses == {"Healthy", "Lagging", "Delinquent", "Unknown"}

SecondHalves == 2

\* HealthSnapshot::new clamps skip_rate to 0.0..=1.0.
Clamped(skip) == IF skip < 0 THEN 0 ELSE IF skip > 100 THEN 100 ELSE skip

Snapshot(tip, node, skip, at) == [tip |-> tip, node |-> node, skip |-> Clamped(skip), at |-> at]

\* slot_lag: saturating_sub on u64.
SlotLag(s) == IF s.tip > s.node THEN s.tip - s.node ELSE 0

\* num_seconds truncates toward zero, also the negative age of a snapshot that
\* is stamped later than now.
Seconds(d) == IF d >= 0 THEN d \div SecondHalves ELSE -((-d) \div SecondHalves)

\* The defaults of OpsConfig, in the units above.
DefaultThresholds == [lagWarn |-> 32, lagCrit |-> 128, skipCrit |-> 50, freshness |-> 60]

\* Mutated form of Classify: the age of a snapshot is taken without its sign.
ClassifyAbsoluteAge(s, now, t) ==
  IF Seconds(IF now > s.at THEN now - s.at ELSE s.at - now) > t.freshness THEN "Unknown"
  ELSE IF SlotLag(s) >= t.lagCrit \/ s.skip >= t.skipCrit THEN "Delinquent"
  ELSE IF SlotLag(s) >= t.lagWarn THEN "Lagging"
  ELSE "Healthy"

Classify(s, now, t) ==
  IF Seconds(now - s.at) > t.freshness THEN "Unknown"
  ELSE IF SlotLag(s) >= t.lagCrit \/ s.skip >= t.skipCrit THEN "Delinquent"
  ELSE IF SlotLag(s) >= t.lagWarn THEN "Lagging"
  ELSE "Healthy"
=============================================================================
