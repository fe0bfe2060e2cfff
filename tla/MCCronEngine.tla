---------------------------- MODULE MCCronEngine ----------------------------
(***************************************************************************)
(* Small instances of CronEngine for TLC: two processes and one job for    *)
(* what leadership, locks and retries do to each other, one process and    *)
(* three jobs of two companies for the concurrency limits.                 *)
(***************************************************************************)
EXTENDS CronEngine, TLC

OneJob == {1}
OneCompany == {"a"}
OneCompanyOf == [j \in OneJob |-> "a"]
OnePriority == [j \in OneJob |-> 0]
OnePeriod == [j \in OneJob |-> 2]
CatchUpPolicy == [j \in OneJob |-> "catch_up"]
OneRetry == [j \in OneJob |-> 1]
RetryDelayOne == [j \in OneJob |-> 1]
TimeoutOne == [j \in OneJob |-> 1]

ThreeJobs == 1..3
TwoCompanies == {"a", "b"}
ThreeCompanyOf == <<"a", "a", "b">>
ThreePriority == <<1, 0, 0>>
ThreePeriod == <<1, 1, 1>>
ThreePolicy == <<"run_once", "catch_up", "skip">>
ThreeRetries == <<0, 0, 1>>
ThreeOnes == <<1, 1, 1>>

ServerSymmetry == Permutations(Server)
=============================================================================
