------------------------------ MODULE Handshake ------------------------------
(***************************************************************************)
(* The describe handshake (controllers/message/describe.go) between cores  *)
(* and pods of several versions, while pods come and go (Lifecycle).  A    *)
(* step of a core asks the pods of a transport to describe themselves and, *)
(* if the answer agrees with the manifest it has stored, sends an execute  *)
(* to the pods of that transport: whichever takes it from the queue, or is *)
(* behind the address.  The core is external, as describe.go:16-19 and     *)
(* spec.go:46-51 speak of it.                                              *)
(***************************************************************************)
EXTENDS Lifecycle

CONSTANTS
  Cores,      \* steps of workflows
  Manifests,  \* [provider, version, transport] of an integration_type
  NotAString  \* a provider or a version that is no JSON string

VARIABLES
  manifest,   \* core -> the manifest it goes by
  stage,      \* core -> "idle", "asking", "checked", "executed", "aborted"
  answerer,   \* core -> the pod that answered its describe
  refusal,    \* core -> the code of a describe that was refused
  pod         \* core -> the pod that executed its step

coreVars == <<manifest, stage, answerer, refusal, pod>>
vars     == <<podVars, coreVars>>

Codes == {"bad_request", "version_mismatch"}

Version(p) == settings[p].version

ASSUME HandshakeAssumption ==
  /\ \A env \in Settings : env.version \notin {None, NotAString}
  /\ None # NotAString /\ NotAString # "github"
  /\ None \notin Manifests /\ None \notin Codes /\ None \notin Pods

TypeOK ==
  /\ PodTypeOK
  /\ manifest \in [Cores -> Manifests \cup {None}]
  /\ stage    \in [Cores -> {"idle", "asking", "checked", "executed",
                             "aborted"}]
  /\ answerer \in [Cores -> Pods \cup {None}]
  /\ refusal  \in [Cores -> Codes \cup {None}]
  /\ pod      \in [Cores -> Pods \cup {None}]

Init ==
  /\ PodInit
  /\ manifest = [c \in Cores |-> None]
  /\ stage    = [c \in Cores |-> "idle"]
  /\ answerer = [c \in Cores |-> None]
  /\ refusal  = [c \in Cores |-> None]
  /\ pod      = [c \in Cores |-> None]
-----------------------------------------------------------------------------
Malformed(m)     == NotAString \in {m.provider, m.version}
OtherProvider(m) == m.provider \notin {"github", None}

(* Mutant: the expected version is not looked at.                          *)
Refusal_AnyVersion(m, p) ==
  IF Malformed(m) \/ OtherProvider(m) THEN "bad_request" ELSE None

(* Mutant: it is looked at only in a request that names the provider.      *)
Refusal_NamedOnly(m, p) ==
  IF Malformed(m) \/ OtherProvider(m) THEN "bad_request"
  ELSE IF m.provider # None /\ m.version \notin {Version(p), None}
       THEN "version_mismatch"
  ELSE None

(* Mutant: the code is the value that was not expected.                    *)
Refusal_Value(m, p) ==
  IF Malformed(m) \/ OtherProvider(m) THEN m.provider
  ELSE IF m.version \notin {Version(p), None} THEN m.version
  ELSE None

(* DescribeHandler of p: what the request does not say is not checked.     *)
Refusal(m, p) ==
  IF Malformed(m) \/ OtherProvider(m) THEN "bad_request"
  ELSE IF m.version \notin {Version(p), None} THEN "version_mismatch"
  ELSE None

Reaches(c, p) == transport[p] = manifest[c].transport

Begin(c) ==
  /\ stage[c] = "idle"
  /\ \E m \in Manifests : manifest' = [manifest EXCEPT ![c] = m]
  /\ stage' = [stage EXCEPT ![c] = "asking"]
  /\ UNCHANGED <<podVars, answerer, refusal, pod>>

(* One pod answers; the core compares the transport itself.                *)
Describe(c, p) ==
  /\ stage[c] = "asking"
  /\ phase[p] = "running"
  /\ Reaches(c, p)
  /\ LET refused == Refusal(manifest[c], p)
         agrees  == Describes(settings[p]) = manifest[c].transport
     IN  /\ answerer' = [answerer EXCEPT ![c] = p]
         /\ refusal'  = [refusal EXCEPT ![c] = refused]
         /\ stage'    = [stage EXCEPT ![c] = IF refused = None /\ agrees
                                             THEN "checked" ELSE "aborted"]
  /\ UNCHANGED <<podVars, manifest, pod>>

(* One pod, the same or another, takes the execute.                        *)
Execute(c, p) ==
  /\ stage[c] = "checked"
  /\ phase[p] = "running"
  /\ Reaches(c, p)
  /\ stage' = [stage EXCEPT ![c] = "executed"]
  /\ pod'   = [pod EXCEPT ![c] = p]
  /\ UNCHANGED <<podVars, manifest, answerer, refusal>>

Next ==
  \/ \E p \in Pods : PodNext(p) /\ UNCHANGED coreVars
  \/ \E c \in Cores : \/ Begin(c)
                      \/ \E p \in Pods : Describe(c, p) \/ Execute(c, p)

Spec == Init /\ [][Next]_vars

(* Cores need not do anything.                                             *)
FairSpec == Spec /\ PodFairness
-----------------------------------------------------------------------------
Executed(c) == stage[c] = "executed"
Expects(c)  == manifest[c].version # None

(* The version that executes is the one the manifest expects, as long as   *)
(* all pods of a transport have one version, however many others there are *)
(* and whichever pods start, fail and stop in between.                     *)
OneVersion(t) == \A p, q \in {p \in Pods : Listens(settings[p]) = t} :
                   Version(p) = Version(q)

VerifiedIsExecuted ==
  \A c \in Cores :
    Executed(c) /\ Expects(c) /\ OneVersion(manifest[c].transport) =>
      manifest[c].version = Version(pod[c])

(* What the answer to a describe has shown for good.                       *)
Checked(c) ==
  /\ answerer[c] \in Pods /\ refusal[c] = None
  /\ manifest[c].provider \in {"github", None}
  /\ Expects(c) => manifest[c].version = Version(answerer[c])
  /\ Listens(settings[answerer[c]]) = manifest[c].transport

(* Even in a rolling update a step is executed only after a pod of its     *)
(* transport that has the expected version has answered for it, and never  *)
(* for another provider.                                                   *)
SomePodMatched == \A c \in Cores : Executed(c) => Checked(c)

(* "mismatches abort execution before a dispatch crosses the wire"         *)
(* (spec.go:49-51).                                                        *)
MismatchesAbort ==
  \A c \in Cores : Executed(c) /\ Expects(c) =>
    manifest[c].version = Version(pod[c])
=============================================================================
