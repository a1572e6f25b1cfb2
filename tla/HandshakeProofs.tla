--------------------------- MODULE HandshakeProofs ---------------------------
(***************************************************************************)
(* What the describe handshake is worth, for any cores, pods, versions,    *)
(* manifests and environments.                                             *)
(***************************************************************************)
EXTENDS Handshake, LifecycleProofs

(* The environment of a pod does not change: what a core has found out     *)
(* stays found out.                                                        *)
LEMMA SettingsStay ==
  ASSUME NEW p \in Pods, PodNext(p)
  PROVE  settings' = settings
BY DEF PodNext, Start, Configure, Run, ProbesListen, ProbesFail, Signal,
       RunStops, RunFails, Shutdown, Fatal, End

(* What a core knows where, whatever the pods have done since: the         *)
(* inductive invariant.                                                    *)
StepInv ==
  /\ TypeOK
  /\ PodInv
  /\ \A c \in Cores :
       /\ stage[c] \in {"checked", "executed"} => Checked(c)
       /\ Executed(c) => /\ pod[c] \in Pods
                         /\ Listens(settings[pod[c]]) = manifest[c].transport

(* Nothing has begun.                                                      *)
LEMMA StepInvInit == Init => StepInv
<1> SUFFICES ASSUME Init PROVE StepInv
  OBVIOUS
<1>1. PodInv
  BY PodInvInit DEF Init
<1>2. TypeOK
  BY <1>1 DEF Init, TypeOK, PodInv
<1>3. QED
  BY <1>1, <1>2 DEF Init, StepInv, Executed

(* A step of a pod.                                                        *)
LEMMA PodsKeepStepInv ==
  ASSUME StepInv, NEW p \in Pods, PodNext(p), UNCHANGED coreVars
  PROVE  StepInv'
<1>1. PodInv'
  BY PodStep DEF StepInv
<1>2. settings' = settings
  BY SettingsStay
<1>3. TypeOK'
  BY <1>1 DEF StepInv, PodInv, TypeOK, coreVars
<1>4. QED
  BY <1>1, <1>2, <1>3 DEF StepInv, Checked, Version, Expects, Executed, coreVars

(* A core begins a step.                                                   *)
LEMMA BeginKeepsStepInv ==
  ASSUME StepInv, NEW c \in Cores, Begin(c)
  PROVE  StepInv'
<1>1. PodInv'
  BY PodStutter DEF StepInv, Begin
<1>2. TypeOK'
  BY <1>1 DEF StepInv, PodInv, TypeOK, Begin
<1>3. settings' = settings
  BY DEF Begin, podVars
<1>4. QED
  BY <1>1, <1>2, <1>3 DEF StepInv, TypeOK, Checked, Version, Expects,
                               Executed, Begin

(* A refusal has one of two codes.                                         *)
LEMMA RefusalType ==
  ASSUME NEW m, NEW p
  PROVE  Refusal(m, p) \in Codes \cup {None}
BY DEF Refusal, Codes

(* A pod answers, and the core believes it only if it was not refused.     *)
LEMMA DescribeKeepsStepInv ==
  ASSUME StepInv, NEW c \in Cores, NEW p \in Pods, Describe(c, p)
  PROVE  StepInv'
<1>1. PodInv'
  BY PodStutter DEF StepInv, Describe
<1>2. TypeOK'
  BY <1>1, RefusalType DEF StepInv, PodInv, TypeOK, Describe
<1>3. settings' = settings /\ manifest' = manifest /\ pod' = pod
  BY DEF Describe, podVars
<1>4. transport[p] = Listens(settings[p])
  BY DEF StepInv, PodInv, Describe
<1>5. ASSUME stage'[c] \in {"checked", "executed"}
      PROVE  Checked(c)'
  <2>1. Refusal(manifest[c], p) = None
    BY <1>5 DEF StepInv, TypeOK, Describe
  <2>2. manifest[c].provider \in {"github", None}
    BY <2>1, HandshakeAssumption DEF Refusal, OtherProvider, Codes
  <2>3. manifest[c].version \in {Version(p), None}
    BY <2>1, HandshakeAssumption DEF Refusal, Codes
  <2>4. answerer'[c] = p /\ refusal'[c] = None
    BY <2>1 DEF StepInv, TypeOK, Describe
  <2>5. QED
    BY <1>3, <1>4, <2>2, <2>3, <2>4 DEF Checked, Version, Expects, Describe,
                                        Reaches
<1>6. \A d \in Cores : d # c => /\ stage'[d] = stage[d]
                                /\ answerer'[d] = answerer[d]
                                /\ refusal'[d] = refusal[d]
  BY DEF StepInv, TypeOK, Describe
<1>7. stage'[c] # "executed"
  BY DEF StepInv, TypeOK, Describe
<1>8. \A d \in Cores : d # c /\ Checked(d) => Checked(d)'
  BY <1>3, <1>6 DEF Checked, Version, Expects
<1>9. QED
  BY <1>1, <1>2, <1>3, <1>5, <1>6, <1>7, <1>8 DEF StepInv, Executed

(* A pod that listens on the transport of the manifest executes.           *)
LEMMA ExecuteKeepsStepInv ==
  ASSUME StepInv, NEW c \in Cores, NEW p \in Pods, Execute(c, p)
  PROVE  StepInv'
<1>1. PodInv'
  BY PodStutter DEF StepInv, Execute
<1>2. TypeOK'
  BY <1>1 DEF StepInv, PodInv, TypeOK, Execute
<1>3. settings' = settings /\ manifest' = manifest
  BY DEF Execute, podVars
<1>4. Listens(settings[p]) = manifest[c].transport
  BY DEF StepInv, PodInv, Execute, Reaches
<1>5. \A d \in Cores : Checked(d) => Checked(d)'
  BY <1>3 DEF Checked, Version, Expects, Execute
<1>6. QED
  BY <1>1, <1>2, <1>3, <1>4, <1>5 DEF StepInv, TypeOK, Executed, Execute

(* The invariant holds.                                                    *)
THEOREM StepInvariant == Spec => []StepInv
<1>1. ASSUME StepInv, Next PROVE StepInv'
  BY <1>1, PodsKeepStepInv, BeginKeepsStepInv, DescribeKeepsStepInv,
     ExecuteKeepsStepInv DEF Next
<1>2. ASSUME StepInv, UNCHANGED vars PROVE StepInv'
  <2>1. PodInv'
    BY <1>2, PodStutter DEF StepInv, vars
  <2>2. QED
    BY <1>2, <2>1 DEF StepInv, TypeOK, PodInv, Checked, Version, Expects,
                      Executed, vars, coreVars, podVars
<1>3. QED
  BY StepInvInit, <1>1, <1>2, PTL DEF Spec

(* Type correctness.                                                       *)
THEOREM TypeCorrect == Spec => []TypeOK
<1>1. StepInv => TypeOK
  BY DEF StepInv
<1>2. QED
  BY <1>1, StepInvariant, PTL

(* A step is executed only after a pod of its transport that has the       *)
(* expected version has answered for it, and never for another provider    *)
(* (describe.go:29-34).                                                    *)
THEOREM ExecutedWasChecked == Spec => []SomePodMatched
<1>1. StepInv => SomePodMatched
  BY DEF StepInv, SomePodMatched, Executed
<1>2. QED
  BY <1>1, StepInvariant, PTL

(* The version that executes is the expected one, while the pods of a      *)
(* transport have one version.                                             *)
THEOREM CheckedVersionExecutes == Spec => []VerifiedIsExecuted
<1>1. StepInv => VerifiedIsExecuted
  <2> SUFFICES ASSUME StepInv, NEW c \in Cores, Executed(c), Expects(c),
                      OneVersion(manifest[c].transport)
               PROVE  manifest[c].version = Version(pod[c])
    BY DEF VerifiedIsExecuted
  <2>1. Checked(c)
    BY DEF StepInv, Executed
  <2>2. pod[c] \in Pods /\ Listens(settings[pod[c]]) = manifest[c].transport
    BY DEF StepInv
  <2>3. QED
    BY <2>1, <2>2 DEF Checked, OneVersion
<1>2. QED
  BY <1>1, StepInvariant, PTL
=============================================================================
