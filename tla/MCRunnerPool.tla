---------------------------- MODULE MCRunnerPool -----------------------------
(* Instances of RunnerPool for TLC.                                        *)
EXTENDS RunnerPool

CONSTANTS m1, m2, m3,  \* machines
          linux, gpu,  \* labels
          tpu          \* one that no runner has

MCMachines == {m1, m2, m3}
MCLabels   == [m \in MCMachines |-> IF m = m3 THEN {linux} ELSE {linux, gpu}]

Expect(count, labels) ==
  [min_count |-> count, min_online_with_labels |-> labels]

(* Counts that gate and ones that do not, no numbers, labels of all runners*)
(* of some and of none, mixed lists, no lists, and no labels at all.       *)
MCExpectations ==
  {Expect(2, {linux, gpu, None, NotAString}), Expect(1, {linux, tpu}),
   Expect(0, {tpu}), Expect(NotAString, {gpu}), Expect(3, NotAList),
   [min_count |-> 1]}

TwoLinux == {Expect(2, {linux})}
=============================================================================
