--------------------------- MODULE LifecycleProofs ---------------------------
(***************************************************************************)
(* What holds of the processes of Lifecycle for any pods, any environments *)
(* and any number of starts.                                               *)
(***************************************************************************)
EXTENDS Lifecycle, TLAPS

(* The transport main listens on is one of two, or it does not start.      *)
LEMMA ListensType ==
  ASSUME NEW env
  PROVE  Listens(env) \in {"http_json", "rabbitmq", None}
BY DEF Listens

(* Before the first start.                                                 *)
LEMMA PodInvInit == PodInit => PodInv
BY LifecycleAssumption DEF PodInit, PodInv, PodTypeOK, Phases

(* Ending by a signal is sound, and so is ending well once main has been   *)
(* told to stop.                                                           *)
LEMMA EndKeepsPodInv ==
  ASSUME PodInv, NEW p \in Pods, phase[p] # "off",
         NEW how \in {"ok", "killed"},
         End(p, how), UNCHANGED failed, how = "ok" => phase[p] = "stopping"
  PROVE  PodInv'
<1>1. PodTypeOK'
  BY DEF PodInv, PodTypeOK, End, Phases
<1>2. QED
  BY <1>1, LifecycleAssumption DEF PodInv, PodTypeOK, End, Phases

(* So is log.Fatal.                                                        *)
LEMMA FatalKeepsPodInv ==
  ASSUME PodInv, NEW p \in Pods, Fatal(p)
  PROVE  PodInv'
<1>1. PodTypeOK'
  BY DEF PodInv, PodTypeOK, Fatal, End, Phases
<1>2. QED
  BY <1>1, LifecycleAssumption DEF PodInv, PodTypeOK, Fatal, End, Phases

(* Every step of a process keeps the invariant.                            *)
LEMMA PodStep ==
  ASSUME PodInv, NEW p \in Pods, PodNext(p)
  PROVE  PodInv'
<1> USE LifecycleAssumption DEF Phases
<1>1. CASE Start(p)
  BY <1>1 DEF PodInv, PodTypeOK, Start
<1>2. CASE Configure(p)
  <2>1. CASE Listens(settings[p]) = None
    BY <1>2, <2>1, FatalKeepsPodInv DEF Configure
  <2>2. CASE Listens(settings[p]) # None
    <3>1. PodTypeOK'
      BY <1>2, <2>2, ListensType DEF PodInv, PodTypeOK, Configure
    <3>2. QED
      BY <1>2, <2>2, <3>1 DEF PodInv, PodTypeOK, Configure
  <2>3. QED
    BY <2>1, <2>2
<1>3. CASE Run(p)
  BY <1>3 DEF PodInv, PodTypeOK, Run
<1>4. CASE ProbesListen(p)
  BY <1>4 DEF PodInv, PodTypeOK, ProbesListen
<1>5. CASE ProbesFail(p)
  BY <1>5, FatalKeepsPodInv DEF ProbesFail
<1>6. CASE Signal(p)
  <2>1. CASE /\ phase[p] \in {"starting", "configured"}
             /\ End(p, "killed") /\ UNCHANGED failed
    BY <2>1, EndKeepsPodInv
  <2>2. CASE /\ phase[p] \in {"running", "stopping"}
             /\ signalled' = [signalled EXCEPT ![p] = TRUE]
             /\ UNCHANGED <<settings, phase, transport, probes, failed, exit,
                            starts>>
    BY <2>2 DEF PodInv, PodTypeOK
  <2>3. QED
    BY <1>6, <2>1, <2>2 DEF Signal
<1>7. CASE RunStops(p)
  BY <1>7 DEF PodInv, PodTypeOK, RunStops
<1>8. CASE RunFails(p)
  BY <1>8, FatalKeepsPodInv DEF RunFails
<1>9. CASE Shutdown(p)
  BY <1>9, EndKeepsPodInv DEF Shutdown, PodInv
<1>10. QED
  BY <1>1, <1>2, <1>3, <1>4, <1>5, <1>6, <1>7, <1>8, <1>9 DEF PodNext

(* A step that leaves the pods alone keeps it too.                         *)
LEMMA PodStutter ==
  ASSUME PodInv, UNCHANGED podVars
  PROVE  PodInv'
BY DEF PodInv, PodTypeOK, podVars

(* The invariant holds.                                                    *)
THEOREM PodInvariant == PodSpec => []PodInv
<1>1. PodInv /\ [\E p \in Pods : PodNext(p)]_podVars => PodInv'
  BY PodStep, PodStutter
<1>2. QED
  BY PodInvInit, <1>1, PTL DEF PodSpec

(* Where main starts, Describe makes the same of the environment.          *)
LEMMA SwitchesAgree ==
  ASSUME NEW env, Listens(env) # None
  PROVE  Describes(env) = Listens(env)
BY DEF Listens, Describes

(* A pod describes the transport it listens on (main.go:43, spec.go:61),   *)
(* whatever YGGDRASIL_TRANSPORT says.                                      *)
THEOREM TransportIsDescribed == PodSpec => []DescribesItsTransport
<1>1. PodInv => DescribesItsTransport
  BY SwitchesAgree DEF PodInv, DescribesItsTransport
<1>2. QED
  BY <1>1, PodInvariant, PTL

(* A process that has failed ends with status 1, and one that ends with    *)
(* status 0 was told to stop and has not failed.                           *)
THEOREM FailuresAreSeen == PodSpec => []FailuresShow
<1>1. PodInv => FailuresShow
  BY DEF PodInv, FailuresShow
<1>2. QED
  BY <1>1, PodInvariant, PTL

(* While Run runs, the probes only end with the process (main.go:78-82).   *)
THEOREM ProbesStayUp == PodSpec => ProbesOutliveTheAdapter
<1> DEFINE Stays(p) == phase[p] = "running" /\ probes[p] = "up" =>
                         probes'[p] = "up" \/ phase'[p] = "off"
<1>1. ASSUME PodInv, NEW p \in Pods, NEW q \in Pods, PodNext(q)
      PROVE  Stays(p)
  BY <1>1 DEF PodInv, PodTypeOK, PodNext, Start, Configure, Run, ProbesListen,
              ProbesFail, Signal, RunStops, RunFails, Shutdown, Fatal, End
<1>2. PodInv /\ [\E p \in Pods : PodNext(p)]_podVars =>
        [\A p \in Pods : Stays(p)]_podVars
  BY <1>1
<1>3. QED
  BY <1>2, PodInvariant, PTL DEF PodSpec, ProbesOutliveTheAdapter
=============================================================================
