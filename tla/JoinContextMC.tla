------------------------------ MODULE JoinContextMC ------------------------------
(***************************************************************************)
(* Values for the data of events that a configuration cannot write down.   *)
(***************************************************************************)
EXTENDS JoinContext

\* A task whose last job has no commit.
MCTaskData ==
  {[verdict |-> "pass", trace |-> <<[role |-> "worker", ref |-> "r1"],
                                    [role |-> "evaluator", ref |-> ""]>>]}

\* A job id whose last segment is no role.
MCJobData == {[segments |-> <<"t", "worker", "2">>, ref |-> "r2"]}
================================================================================
