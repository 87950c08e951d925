--------------------------- MODULE ReviewMetrics ----------------------------
(***************************************************************************)
(* What the Review Center is read through: the staff queue, the reviews a  *)
(* client is shown, and the analytics.  Nothing here is stored; every      *)
(* figure is derived from the items and the decision log on each call, so  *)
(* the question is whether figures derived along different paths agree.    *)
(* Time spent and counts of modified fields are left out: the model keeps  *)
(* no clock, and the log no field names.                                   *)
(***************************************************************************)
EXTENDS ReviewCenter, FiniteSetsExt

\* The queue is filtered by state and by type; "any" filters nothing.
StaffReviewQueue(state, type) ==
  {i \in 1..count : /\ state \in {"any", items[i].state}
                    /\ type \in {"any", TypeOf[items[i].artifact]}}

\* What the client who owns these artifacts is shown.  The time stamp of the
\* publication is written with the state.
ClientPublishedReviews(owned) ==
  {[review |-> i, artifact |-> items[i].artifact, outcome |-> items[i].outcome] :
     i \in {j \in 1..count : items[j].artifact \in owned /\ items[j].state = "published"}}

\* The rows of the decision log, over all items.
DecisionRows == UNION {{i} \X DOMAIN decisions[i] : i \in 1..count}

RowOf(d) == decisions[d[1]][d[2]]

\* A rate is its two parts, or nothing where there is nothing to divide by.
Rate(numerator, denominator) ==
  IF denominator = 0 THEN << >> ELSE <<numerator, denominator>>

DecisionMix(rows) ==
  LET Number(kinds) == Quantify(rows, LAMBDA d : RowOf(d).decision \in kinds)
  IN  [total |-> Cardinality(rows),
       of |-> [x \in REVIEW_DECISIONS |-> Number({x})],
       approvalRate |-> Rate(Number(Approvals), Cardinality(rows)),
       editRate |-> Rate(Number({"approved_with_edits"}), Number(Approvals)),
       rejectionRate |-> Rate(Number({"rejected"}), Cardinality(rows))]

\* The rows grouped by the value of a key, one mix for each group.
MixBy(key) ==
  [k \in {key[d] : d \in DecisionRows} |-> DecisionMix({d \in DecisionRows : key[d] = k})]

ReviewMetricsFor ==
  [overall |-> DecisionMix(DecisionRows),
   byArtifactType |-> MixBy([d \in DecisionRows |-> TypeOf[items[d[1]].artifact]]),
   staffProfiles |-> MixBy([d \in DecisionRows |-> RowOf(d).by]),
   escalationVolume |-> Quantify(DecisionRows, LAMBDA d : RowOf(d).decision = "escalated"),
   awaitingReviewCount |-> Cardinality(StaffReviewQueue("awaiting_review", "any"))]

-----------------------------------------------------------------------------
\* The analytics are derived from the decision log, the items from their own
\* writes, and both tell one story: every announced decision is counted once
\* overall, once for its type and once for its reviewer; a decision that closes
\* an item is counted once, for the item it closed, so the approval rate is one
\* of items and not of attempts; and every item a client is shown is among
\* those approvals.
MetricsAgree ==
  LET m == ReviewMetricsFor
      SumOf(mixes, x) == MapThenSumSet(LAMBDA k : mixes[k].of[x], DOMAIN mixes)
      Latest(x) == {i \in 1..count : items[i].latest = x}
  IN  /\ m.overall.total =
           MapThenSumSet(LAMBDA i : Cardinality(EventsOf(i, "ReviewDecisionRecorded")), 1..count)
      /\ \A x \in REVIEW_DECISIONS :
           /\ SumOf(m.byArtifactType, x) = m.overall.of[x]
           /\ SumOf(m.staffProfiles, x) = m.overall.of[x]
           /\ x # "escalated" => m.overall.of[x] = Cardinality(Latest(x))
      /\ m.overall.of["escalated"] = m.escalationVolume
      /\ \A view \in ClientPublishedReviews(Artifacts) : items[view.review].latest \in Approvals

\* The whole story: heads, logs, outbox and analytics.
ReadsAgree == HeadAgreesWithLogAndOutbox /\ MetricsAgree

=============================================================================
