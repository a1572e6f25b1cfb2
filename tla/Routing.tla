------------------------------- MODULE Routing -------------------------------
(***************************************************************************)
(* From the body of an execute delivery to the calls the adapter makes to  *)
(* GitHub: ExecuteHandler (controllers/message/execute.go), Execute and    *)
(* the operations behind it (internal/adapter/spec.go, spec_extra.go).     *)
(* Constant definitions: the adapter keeps no state between deliveries.    *)
(*                                                                         *)
(* A body is a record: shape ("ok", "garbage" if it is not JSON, "mistyped"*)
(* if only the envelope decodes), operation, capability, workflow (the     *)
(* top-level "workflow" object [repository, workflow, ref], None without), *)
(* and the maps auth, credentials, config and input.                       *)
(***************************************************************************)
EXTENDS ProposalInput

DefaultRef == Main

SupportedExecuteOperations ==
  {"dispatch_workflow", "catalog_discover", "create_repository",
   "upsert_environment", "grant_team_repository_access",
   "create_runner_token", "list_runners", "create_pull_request"}

(* Mutant: create_runner_token is flagged as well.                         *)
IdempotentActions_Token ==
  {"catalog_discover", "upsert_environment", "grant_team_repository_access",
   "list_runners", "create_runner_token"}

(* The actions the catalog flags Idempotent.                               *)
IdempotentActions ==
  {"catalog_discover", "upsert_environment", "grant_team_repository_access",
   "list_runners"}

NormalizeExecuteOperation(operation, capability) ==
  operation ?? capability ?? "dispatch_workflow"

NormalizeExecuteCapability(capability, operation) ==
  capability ?? NormalizeExecuteOperation(operation, None)

(* Mutant: every capability passes.                                        *)
SupportsExecuteCapability_Any(c) == TRUE

SupportsExecuteCapability(c) == c \in SupportedExecuteOperations \cup {None}

Operation(b)  == NormalizeExecuteOperation(b.operation, b.capability)
Capability(b) == NormalizeExecuteCapability(b.capability, Operation(b))
-----------------------------------------------------------------------------
(* A call: how GitHub treats it (put: sets target to value; create: fails  *)
(* if target exists; post: starts something new each time; get: reads),    *)
(* its target (a kind of thing and which one), the body that is sent, and  *)
(* the statuses the adapter takes for success.                             *)
NewCall(kind, target, value, statuses) ==
  [kind |-> kind, target |-> target, value |-> value, statuses |-> statuses]

NoBody == [nothing |-> None]

(* One call; none at all if the request cannot be resolved.                *)
OneCall(resolved, call) == IF resolved THEN <<call>> ELSE <<>>

HasToken(b) == ResolveToken(b.auth, b.credentials) # None

(* DispatchWorkflow, for a workflow and a token of the request.            *)
DispatchCalls(workflow, token, b) ==
  LET repository == ResolveRepository(workflow.repository, None, b.config)
      name == workflow.workflow ?? FirstString(b.config, <<"default_workflow">>)
      ref  == workflow.ref ?? FirstString(b.config, <<"default_ref">>)
                ?? DefaultRef
      secret == token ?? FirstString(b.credentials, <<"token", "github_token">>)
  IN  OneCall(repository # None /\ name # None /\ secret # None,
              NewCall("post", <<"runs", repository, name, ref>>, NoBody, {204}))

(* The top-level "workflow" object; its auth block has a token field only. *)
TypedDispatchCalls(b) ==
  DispatchCalls(b.workflow, FirstString(b.auth, <<"token">>), b)

(* Mutant: the generic form does not read "ref".                           *)
GenericDispatchCalls_NoRef(b) ==
  DispatchCalls([repository |-> FirstString(b.input, <<"repository">>),
                 workflow   |-> FirstString(b.input, <<"workflow">>),
                 ref        |-> None],
                FirstString(b.auth, <<"token", "github_token">>), b)

(* The same request in the shape all other operations use.                 *)
GenericDispatchCalls(b) ==
  DispatchCalls([repository |-> FirstString(b.input, <<"repository">>),
                 workflow   |-> FirstString(b.input, <<"workflow">>),
                 ref        |-> FirstString(b.input, <<"ref">>)],
                FirstString(b.auth, <<"token", "github_token">>), b)

RepositoryCalls(b) ==
  LET owner == FirstString(b.input, <<"owner">>)
                 ?? FirstString(b.config, <<"default_owner">>)
      given == FirstString(b.input, <<"repository">>)
      name  == FirstString(b.input, <<"name">>)
                 ?? (IF given = None THEN None ELSE given.name)
      visibility == FirstString(b.input, <<"visibility">>)
                      ?? FirstString(b.config, <<"default_visibility">>)
                      ?? "private"
  IN  OneCall(HasToken(b) /\ name # None,
              NewCall("create", <<"repository", owner, name>>,
                      [visibility |-> visibility], {201}))

(* Mutant: 201, for a new environment, is not expected.                    *)
EnvironmentStatuses_Only200 == {200}

(* An environment is updated, or created.                                  *)
EnvironmentStatuses == {200, 201}

(* Only the settings that are given are sent.                              *)
EnvironmentCalls(b) ==
  LET repository  == ResolveRepository(FirstString(b.input, <<"repository">>),
                                       FirstString(b.input, <<"owner">>), <<>>)
      environment == FirstString(b.input, <<"environment", "name">>)
      settings    == DOMAIN b.input \cap {"wait_timer", "reviewers",
                                          "deployment_branch_policy"}
  IN  OneCall(HasToken(b) /\ repository # None /\ environment # None,
              NewCall("put", <<"environment", repository, environment>>,
                      [k \in settings |-> b.input[k]], EnvironmentStatuses))

TeamCalls(b) ==
  LET repository   == ResolveRepository(
                        FirstString(b.input, <<"repository">>),
                        FirstString(b.input, <<"repository_owner">>), b.config)
      team         == FirstString(b.input, <<"team_slug">>)
      organization == FirstString(b.input, <<"organization", "owner">>)
                        ?? FirstString(b.config, <<"default_owner">>)
                        ?? (IF repository = None THEN None ELSE repository.owner)
  IN  OneCall(/\ HasToken(b)
              /\ repository # None
              /\ team # None
              /\ organization # None,
              NewCall("put", <<"team", organization, team, repository>>,
                      [permission |-> FirstString(b.input, <<"permission">>)
                                        ?? "push"], {204}))

(* The organization or the repository runners are registered with; None if *)
(* the scope is not one of the two or nothing is found for it.             *)
RunnerScope(b) ==
  LET scope == FirstString(b.input, <<"scope">>) ?? "org"
  IN  CASE scope = "org" ->
             FirstString(b.input, <<"org", "organization">>)
               ?? FirstString(b.config, <<"org", "default_owner">>)
        [] scope \in {"repo", "repository"} ->
             ResolveRepository(FirstString(b.input, <<"repository">>),
                               FirstString(b.input, <<"owner">>), b.config)
        [] OTHER -> None

RunnerTokenCalls(b) ==
  OneCall(HasToken(b) /\ RunnerScope(b) # None,
          NewCall("post", <<"token", RunnerScope(b)>>, NoBody, {201}))

RunnersCalls(b) ==
  OneCall(HasToken(b) /\ RunnerScope(b) # None,
          NewCall("get", <<"runners", RunnerScope(b)>>, NoBody, {200}))

CatalogCalls(b) ==
  LET owner == FirstString(b.input, <<"owner", "organization", "catalog_owner">>)
                 ?? FirstString(b.config, <<"catalog_owner", "default_owner">>)
      type  == FirstString(b.input, <<"owner_type", "catalog_owner_type">>)
                 ?? FirstString(b.config, <<"catalog_owner_type">>)
                 ?? "org"
  IN  OneCall(HasToken(b) /\ owner # None /\ type \in {"org", "user"},
              NewCall("get", <<type, owner>>, NoBody, {200}))

(* Of create_pull_request, what the rest of GitHub can see (module         *)
(* PullRequest has all of it): a branch, then a pull request.              *)
PullRequestCalls(b) ==
  IF Valid(b)
  THEN <<NewCall("create", <<"branch", Repository(b), Branch(b)>>, NoBody,
                 {201}),
         NewCall("create", <<"pull", Repository(b), Branch(b), Base(b)>>,
                 NoBody, {201})>>
  ELSE <<>>
-----------------------------------------------------------------------------
IsTyped(b) == Operation(b) = "dispatch_workflow" /\ b.workflow # None

(* The calls of a delivery that gets past the handler.                     *)
Execute(b) ==
  LET operation == Operation(b)
  IN  CASE operation = "dispatch_workflow"            -> GenericDispatchCalls(b)
        [] operation = "catalog_discover"             -> CatalogCalls(b)
        [] operation = "create_repository"            -> RepositoryCalls(b)
        [] operation = "upsert_environment"           -> EnvironmentCalls(b)
        [] operation = "grant_team_repository_access" -> TeamCalls(b)
        [] operation = "create_runner_token"          -> RunnerTokenCalls(b)
        [] operation = "list_runners"                 -> RunnersCalls(b)
        [] operation = "create_pull_request"          -> PullRequestCalls(b)
        [] OTHER                                      -> <<>>

Calls(b) == IF IsTyped(b) THEN TypedDispatchCalls(b) ELSE Execute(b)

(* Mutant: the operation is put where the code goes.                       *)
FailureCode_Operation(b) == Operation(b)

(* The code of an operation that fails, whenever it does.                  *)
FailureCode(b) == IF IsTyped(b) THEN "dispatch_failed" ELSE "execute_failed"

(* What ExecuteHandler answers without a call; None when it makes one.     *)
Refusal(b) ==
  IF b.shape = "garbage" THEN "bad_request"
  ELSE IF ~SupportsExecuteCapability(Capability(b)) THEN "unsupported_capability"
  ELSE IF b.shape = "mistyped" THEN "bad_request"
  ELSE IF Calls(b) = <<>> THEN FailureCode(b)
  ELSE None
=============================================================================
