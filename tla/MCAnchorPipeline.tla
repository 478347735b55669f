-------------------------- MODULE MCAnchorPipeline --------------------------
EXTENDS AnchorPipeline, TLC

CONSTANTS r1, r2, degree, web1, web2, cron1, cron2, sweep1

OneRecord == {r1}
TwoRecords == {r1, r2}
OneCredential == {degree}
SameCredential == [r \in Record |-> degree]
TwoRequests == {web1, web2}
OneRequest == {web1}
OneRetrier == {cron1}
TwoRetriers == {cron1, cron2}
OneSweeper == {sweep1}
Nobody == {}

\* Requests differ only in their names.
AnyRequest == Permutations({web1, web2})
=============================================================================
