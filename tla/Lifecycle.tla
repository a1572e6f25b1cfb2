------------------------------ MODULE Lifecycle ------------------------------
(***************************************************************************)
(* The process of the adapter (main.go), in pods that are started, killed  *)
(* and started again.  A process has two threads of its own: main, which   *)
(* chooses a transport, runs the adapter until a signal and shuts the      *)
(* health server down, and the goroutine of the health server.  Fatal, in  *)
(* either, ends the process at once.                                       *)
(*                                                                         *)
(* The SDK (external) serves the transport while Run runs, and Run returns *)
(* nil only after a signal.                                                *)
(***************************************************************************)
EXTENDS Integers

CONSTANTS
  Pods,
  Settings,   \* what a pod may be made of: [transport, broker, version],
              \* YGGDRASIL_TRANSPORT, whether BROKER_URL is set, and the
              \* AdapterVersion of its build
  None,
  MaxStarts   \* bound: how often a pod is started

VARIABLES
  settings,   \* pod -> its environment and build
  phase,      \* pod -> where main is; "off" without a process
  transport,  \* pod -> the transport it listens on, None before it has one
  probes,     \* pod -> the health server: "off", "starting", "up"
  signalled,  \* pod -> main has been told to stop
  failed,     \* pod -> its process could not start, serve or go on serving
  exit,       \* pod -> how the last process ended
  starts      \* pod -> how often it was started

podVars == <<settings, phase, transport, probes, signalled, failed, exit,
             starts>>

ASSUME LifecycleAssumption ==
  /\ MaxStarts \in Nat \ {0}
  /\ None \notin {"http_json", "rabbitmq", "ok", "fatal", "killed"}

Phases == {"off", "starting", "configured", "running", "stopping"}

PodTypeOK ==
  /\ settings  \in [Pods -> Settings]
  /\ phase     \in [Pods -> Phases]
  /\ transport \in [Pods -> {"http_json", "rabbitmq", None}]
  /\ probes    \in [Pods -> {"off", "starting", "up"}]
  /\ signalled \in [Pods -> BOOLEAN]
  /\ failed    \in [Pods -> BOOLEAN]
  /\ exit      \in [Pods -> {"ok", "fatal", "killed", None}]
  /\ starts    \in [Pods -> 0..MaxStarts]

PodInit ==
  /\ settings  \in [Pods -> Settings]
  /\ phase     = [p \in Pods |-> "off"]
  /\ transport = [p \in Pods |-> None]
  /\ probes    = [p \in Pods |-> "off"]
  /\ signalled = [p \in Pods |-> FALSE]
  /\ failed    = [p \in Pods |-> FALSE]
  /\ exit      = [p \in Pods |-> None]
  /\ starts    = [p \in Pods |-> 0]
-----------------------------------------------------------------------------
(* What main makes of its environment; None if it does not start.          *)
Listens(env) ==
  CASE env.transport \in {"", "http", "http_json"}          -> "http_json"
    [] env.transport \in {"amqp", "rabbitmq"} /\ env.broker -> "rabbitmq"
    [] OTHER                                                -> None

(* Mutant: the second name of AMQP is forgotten.                           *)
Describes_OneName(env) ==
  IF env.transport = "amqp" THEN "rabbitmq" ELSE "http_json"

(* What Describe makes of it, on its own.                                  *)
Describes(env) ==
  IF env.transport \in {"amqp", "rabbitmq"} THEN "rabbitmq" ELSE "http_json"

End(p, how) ==
  /\ phase'     = [phase EXCEPT ![p] = "off"]
  /\ transport' = [transport EXCEPT ![p] = None]
  /\ probes'    = [probes EXCEPT ![p] = "off"]
  /\ exit'      = [exit EXCEPT ![p] = how]
  /\ UNCHANGED <<settings, signalled, starts>>

(* log.Fatal: the process ends with status 1, whatever else it is doing.   *)
Fatal(p) == End(p, "fatal") /\ failed' = [failed EXCEPT ![p] = TRUE]

Start(p) ==
  /\ phase[p] = "off"
  /\ starts[p] < MaxStarts
  /\ starts'    = [starts EXCEPT ![p] = @ + 1]
  /\ phase'     = [phase EXCEPT ![p] = "starting"]
  /\ signalled' = [signalled EXCEPT ![p] = FALSE]
  /\ failed'    = [failed EXCEPT ![p] = FALSE]
  /\ exit'      = [exit EXCEPT ![p] = None]
  /\ UNCHANGED <<settings, transport, probes>>

(* The transport is chosen, and the health server's goroutine started.     *)
Configure(p) ==
  /\ phase[p] = "starting"
  /\ IF Listens(settings[p]) = None
     THEN Fatal(p)
     ELSE /\ transport' = [transport EXCEPT ![p] = Listens(settings[p])]
          /\ phase'     = [phase EXCEPT ![p] = "configured"]
          /\ probes'    = [probes EXCEPT ![p] = "starting"]
          /\ UNCHANGED <<settings, signalled, failed, exit, starts>>

(* The signal handler is installed, and Run serves the transport.          *)
Run(p) ==
  /\ phase[p] = "configured"
  /\ phase' = [phase EXCEPT ![p] = "running"]
  /\ UNCHANGED <<settings, transport, probes, signalled, failed, exit, starts>>

ProbesListen(p) ==
  /\ probes[p] = "starting"
  /\ probes' = [probes EXCEPT ![p] = "up"]
  /\ UNCHANGED <<settings, phase, transport, signalled, failed, exit, starts>>

(* Mutant: the error of the health server is only logged.                  *)
ProbesFail_Logged(p) ==
  /\ probes[p] # "off"
  /\ probes' = [probes EXCEPT ![p] = "off"]
  /\ failed' = [failed EXCEPT ![p] = TRUE]
  /\ UNCHANGED <<settings, phase, transport, signalled, exit, starts>>

(* The port is taken, or accepting connections fails later.                *)
ProbesFail(p) == probes[p] # "off" /\ Fatal(p)

(* Mutant: the signal stops the health server first.                       *)
Signal_ProbesFirst(p) ==
  /\ phase[p] \in {"running", "stopping"}
  /\ signalled' = [signalled EXCEPT ![p] = TRUE]
  /\ probes'    = [probes EXCEPT ![p] = "off"]
  /\ UNCHANGED <<settings, phase, transport, failed, exit, starts>>

(* A signal kills a process that has not installed its handler yet.        *)
Signal(p) ==
  \/ /\ phase[p] \in {"starting", "configured"}
     /\ End(p, "killed") /\ UNCHANGED failed
  \/ /\ phase[p] \in {"running", "stopping"}
     /\ signalled' = [signalled EXCEPT ![p] = TRUE]
     /\ UNCHANGED <<settings, phase, transport, probes, failed, exit, starts>>

(* Mutant: Run is not given the context of the signal handler.             *)
RunStops_Background(p) == FALSE /\ UNCHANGED podVars

(* Run returns nil, and the transport is served no more.                   *)
RunStops(p) ==
  /\ phase[p] = "running"
  /\ signalled[p]
  /\ phase'     = [phase EXCEPT ![p] = "stopping"]
  /\ transport' = [transport EXCEPT ![p] = None]
  /\ UNCHANGED <<settings, probes, signalled, failed, exit, starts>>

(* Mutant: the error of Run is only logged.                                *)
RunFails_Logged(p) ==
  /\ phase[p] = "running"
  /\ phase'     = [phase EXCEPT ![p] = "stopping"]
  /\ transport' = [transport EXCEPT ![p] = None]
  /\ failed'    = [failed EXCEPT ![p] = TRUE]
  /\ UNCHANGED <<settings, probes, signalled, exit, starts>>

(* Run returns an error: the port is taken, the broker is gone.            *)
RunFails(p) == phase[p] = "running" /\ Fatal(p)

(* The health server gets ten seconds; that it needs more is only logged.  *)
Shutdown(p) == phase[p] = "stopping" /\ End(p, "ok") /\ UNCHANGED failed

PodNext(p) ==
  \/ Start(p) \/ Configure(p) \/ Run(p)
  \/ ProbesListen(p) \/ ProbesFail(p)
  \/ Signal(p) \/ RunStops(p) \/ RunFails(p) \/ Shutdown(p)

PodSpec == PodInit /\ [][\E p \in Pods : PodNext(p)]_podVars

(* Both threads go on, and Run ends after a signal (the SDK); nothing      *)
(* fails, starts or is killed because it has to.                           *)
PodFairness ==
  \A p \in Pods : /\ WF_podVars(Configure(p))
                  /\ WF_podVars(Run(p))
                  /\ WF_podVars(ProbesListen(p))
                  /\ WF_podVars(RunStops(p))
                  /\ WF_podVars(Shutdown(p))
-----------------------------------------------------------------------------
(* What a pod says of its transport is the transport it listens on: the    *)
(* two switches (main.go:43, spec.go:61) take the same names for the same. *)
DescribesItsTransport ==
  \A p \in Pods : transport[p] # None => Describes(settings[p]) = transport[p]

(* What main knows where: it runs on the transport its environment names,  *)
(* and stops, and ends well, only when told to.  An inductive invariant.   *)
PodInv ==
  /\ PodTypeOK
  /\ \A p \in Pods :
       /\ transport[p] \in {Listens(settings[p]), None}
       /\ phase[p] \in {"configured", "running"} =>
            transport[p] = Listens(settings[p])
       /\ phase[p] = "stopping" \/ exit[p] = "ok" =>
            signalled[p] /\ ~failed[p]
       /\ failed[p] => phase[p] = "off" /\ exit[p] = "fatal"

(* "so they stay reachable even when the RPC transport is degraded"        *)
(* (main.go:78): while Run runs, the probes only end with the process.     *)
ProbesOutliveTheAdapter ==
  [][\A p \in Pods : phase[p] = "running" /\ probes[p] = "up" =>
       probes'[p] = "up" \/ phase'[p] = "off"]_podVars

(* Whoever restarts pods sees every failure: a process whose main thread   *)
(* or health server has failed ends at once, with status 1, and only one   *)
(* that was told to stop, and has not failed, ends with status 0.          *)
FailuresShow ==
  \A p \in Pods :
    /\ failed[p] => phase[p] = "off" /\ exit[p] = "fatal"
    /\ exit[p] = "ok" => signalled[p] /\ ~failed[p]

(* A pod that is started comes to serve, with its probes up, or ends, or   *)
(* is told to stop.                                                        *)
EveryStartSettles ==
  \A p \in Pods : phase[p] = "starting" ~>
    \/ phase[p] = "off" \/ signalled[p]
    \/ phase[p] = "running" /\ probes[p] = "up"

(* A pod that is told to stop ends.                                        *)
SignalEndsThePod == \A p \in Pods : signalled[p] ~> phase[p] = "off"
=============================================================================
