------------------------------ MODULE MCRunRecord ------------------------------
EXTENDS RunRecord
CONSTANTS r1, r2
MCReviewers == {r1, r2}
\* One passes, and the other one finds something or fails to review: no run of
\* this instance may ever be reported as passed.
MCVerdicts == {[r \in MCReviewers |-> IF r = r1 THEN "pass" ELSE v] :
                 v \in {"fail", "incomplete"}}
================================================================================
