----------------------------- MODULE MCHandshake -----------------------------
(* Instances of Handshake for TLC.                                         *)
EXTENDS Handshake

CONSTANTS p1, p2, c1

Env(t, b, v) == [transport |-> t, broker |-> b, version |-> v]

(* The version of this source, and the one before.                         *)
Current == "1.2.0"
Old     == "1.1.0"

(* Two ways to HTTP, two to the queue, and two to nowhere; builds of one   *)
(* version and of two.                                                     *)
AnySettings == {Env("", FALSE, Old), Env("http_json", TRUE, Current),
                Env("rabbitmq", TRUE, Old), Env("rabbitmq", TRUE, Current),
                Env("amqp", TRUE, Current), Env("amqp", FALSE, Old),
                Env("kafka", TRUE, Current)}
OnQueue     == {Env("amqp", TRUE, v) : v \in {Old, Current}}

Manifest(provider, version, t) ==
  [provider |-> provider, version |-> version, transport |-> t]

(* Those of the two versions, without a version, without a provider, for   *)
(* another provider, for a version no pod has, and one that does not       *)
(* decode.                                                                 *)
MCManifests == {Manifest("github", v, t) : v \in {Old, Current, None},
                                           t \in {"http_json", "rabbitmq"}}
                 \cup {Manifest("github", "1.0.0", "rabbitmq"),
                       Manifest("gitlab", Current, "rabbitmq"),
                       Manifest(None, Old, "rabbitmq"),
                       Manifest("github", NotAString, "rabbitmq")}
NewManifest == {Manifest("github", Current, "rabbitmq")}
=============================================================================
