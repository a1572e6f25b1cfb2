----------------------------- MODULE MCDelivery ------------------------------
(* Instances of Delivery for TLC.                                          *)
EXTENDS Delivery, TLC

CONSTANTS acme, beta,            \* owners
          app,                   \* a repository name
          deploy, dev,           \* a workflow, a ref
          prod, ops, fix, main,  \* an environment, a team, branches
          t1, t2,                \* tokens
          one, two,              \* values of a setting
          d1, d2, d3             \* deliveries

App  == [owner |-> acme, name |-> app]
Bare == [owner |-> None, name |-> app]

MCNames == {app}

Body(operation, capability, workflow, input) ==
  [shape |-> "ok", operation |-> operation, capability |-> capability,
   workflow |-> workflow, auth |-> [token |-> t1], credentials |-> <<>>,
   config |-> [default_owner |-> acme], input |-> input]

Run(operation, input) == Body(operation, None, None, input)

Typed(repository, ref) ==
  Body(None, None,
       [repository |-> repository, workflow |-> deploy, ref |-> ref], <<>>)

Environment(timer) ==
  Run("upsert_environment",
      [repository |-> App, environment |-> prod, wait_timer |-> timer])

Access(permission) ==
  Run("grant_team_repository_access",
      [repository |-> App, team_slug |-> ops, permission |-> permission])

Repository1 == Run("create_repository", [name |-> app])
Proposal ==
  Run("create_pull_request",
      [repository |-> App, branch |-> fix, commit_message |-> one,
       files |-> <<[path |-> one, content |-> two]>>])
Token   == Run("create_runner_token", <<>>)
Runners == Run("list_runners", [scope |-> "repo", repository |-> App])
Catalog == Run("catalog_discover", [owner |-> beta, owner_type |-> "user"])
Garbage == [Token EXCEPT !.shape = "garbage"]

(* Dispatches: typed, with the repository and token of the instance, and   *)
(* without a token, or with one where only the generic form looks; generic,*)
(* with the ref of the instance.                                           *)
Dispatches ==
  {[Typed(None, dev) EXCEPT
      !.config = [default_repository |-> App],
      !.auth = <<>>, !.credentials = [github_token |-> t2]],
   [Typed(App, dev) EXCEPT !.auth = <<>>],
   [Typed(App, dev) EXCEPT !.auth = [github_token |-> t1]],
   [Run("dispatch_workflow", [repository |-> App, workflow |-> deploy])
      EXCEPT !.config = [default_ref |-> dev]]}

(* What the handler turns away: not JSON, not the right types, an unknown  *)
(* operation, a capability that is not an operation, and an unknown        *)
(* operation under a capability that is one.                               *)
Refused ==
  {Garbage,
   [Token EXCEPT !.shape = "mistyped"],
   Run("list_workflow_runs", <<>>),
   [Token EXCEPT !.capability = "execute"],
   [Token EXCEPT !.operation = "list_workflow_runs",
                 !.capability = "list_runners"],
   [Environment(one) EXCEPT !.input = [environment |-> prod]]}

AllBodies     == Dispatches \cup Refused
                   \cup {Environment(one), Access(one), Access(two),
                         Repository1, Proposal, Token, Runners, Catalog}
QueueBodies   == {Repository1, Environment(one), Garbage}
BareBodies    == {Run("dispatch_workflow",
                      [repository |-> Bare, workflow |-> deploy])}

MCDeliveries    == {d1, d2}
QueueDeliveries == {d1, d2, d3}

Symmetry == Permutations(MCDeliveries)

(* Delivery_queue takes states for one that differ only in who wrote what  *)
(* in which order, and in who was answered when: the two histories its     *)
(* properties do not read, and no guard either while every body makes one  *)
(* call only (CallLands looks at writers for a second call).               *)
QueueView == <<stage, body, done, result, answer, acked, hung, late, store,
               crashes, accepted>>
=============================================================================
