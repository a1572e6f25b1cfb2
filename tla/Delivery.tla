------------------------------ MODULE Delivery -------------------------------
(***************************************************************************)
(* Execute deliveries from the caller to GitHub and back.  The adapter SDK *)
(* (external, used by main.go and controllers/message) takes deliveries    *)
(* off the queue, runs at most Concurrency handlers at a time, and replies *)
(* to and acknowledges each one; the handler routes the body and makes its *)
(* calls.  Deliveries of one queue and of several callers interleave       *)
(* between any two calls.                                                  *)
(*                                                                         *)
(* What can go wrong (Faults):                                             *)
(*   "refused"  GitHub or the network turns a call down                    *)
(*   "lost"     GitHub applies a call and the answer does not arrive, or   *)
(*              does not hold what the operation reads from it             *)
(*   "late"     the connection breaks, and GitHub applies the call later   *)
(*   "hang"     a call never ends                                          *)
(*   "timeout"  the caller gives up before it has a reply                  *)
(*   "crash"    a process stops or loses its connection to the broker:     *)
(*              what it has not acknowledged is delivered again (AMQP)     *)
(***************************************************************************)
EXTENDS Routing, FiniteSets

CONSTANTS
  Deliveries,   \* identifiers of deliveries
  Bodies,       \* the bodies callers send
  Names,        \* repository names
  Concurrency,  \* handlers that run at a time
  Faults,
  MaxHung,      \* bound: calls that hang at a time
  MaxCrashes    \* bound: how often that happens

VARIABLES
  stage,     \* delivery -> where it is
  body,      \* delivery -> its body
  done,      \* delivery -> calls GitHub has answered to this handler
  result,    \* delivery -> what this handler has returned
  answer,    \* delivery -> the first reply the caller got
  acked,     \* delivery -> acknowledged
  hung,      \* deliveries whose call hangs
  late,      \* delivery -> index -> how many times this call is in doubt
  store,     \* target -> value, None while it does not exist
  crashes,   \* how often deliveries were delivered again
  accepted,  \* history: delivery -> calls GitHub has applied
  writers,   \* history: target -> deliveries that wrote it, in order
  settled    \* history: delivery -> deliveries answered "ok" when it was sent

sdkVars == <<stage, result, answer, acked, crashes>>
hubVars == <<late, store, accepted, writers>>
vars    == <<sdkVars, hubVars, body, done, hung, settled>>

Stages  == {"unsent", "queued", "handling", "returned"}
Codes   == {"bad_request", "unsupported_capability", "dispatch_failed",
            "execute_failed", "timeout"}
Result  == [ok : BOOLEAN, code : Codes \cup {None}]

(* What Routing makes of each body, and of that of a delivery.             *)
CallTable    == [b \in Bodies |-> Calls(b)]
CallsOf(d)   == CallTable[body[d]]
RefusalTable == [b \in Bodies |-> Refusal(b)]
RefusalOf(d) == RefusalTable[body[d]]
Targets      == {c.target : c \in UNION {Range(Calls(b)) : b \in Bodies}}
Values       == {c.value  : c \in UNION {Range(Calls(b)) : b \in Bodies}}

ASSUME DeliveryAssumption ==
  /\ Concurrency \in Nat \ {0}
  /\ MaxCrashes \in Nat
  /\ MaxHung \in Nat
  /\ None \notin Bodies /\ None \notin Values /\ None \notin Result
  /\ None \notin Codes /\ None \notin SupportedExecuteOperations
  /\ \A b \in Bodies :
       /\ DOMAIN b = {"shape", "operation", "capability", "workflow", "auth",
                      "credentials", "config", "input"}
       /\ b.shape \in {"ok", "garbage", "mistyped"}
  /\ Faults \subseteq {"refused", "lost", "late", "hang", "timeout", "crash"}

TypeOK ==
  /\ stage    \in [Deliveries -> Stages]
  /\ body     \in [Deliveries -> Bodies \cup {None}]
  /\ done     \in [Deliveries -> Nat]
  /\ result   \in [Deliveries -> Result \cup {None}]
  /\ answer   \in [Deliveries -> Result \cup {None}]
  /\ acked    \in [Deliveries -> BOOLEAN]
  /\ hung     \in SUBSET Deliveries
  /\ late     \in [Deliveries -> [1..2 -> Nat]]
  /\ store    \in [Targets -> Values \cup {None}]
  /\ crashes  \in 0..MaxCrashes
  /\ accepted \in [Deliveries -> Nat]
  /\ writers  \in [Targets -> Seq(Deliveries)]
  /\ settled  \in [Deliveries -> SUBSET Deliveries]

Init ==
  /\ stage    = [d \in Deliveries |-> "unsent"]
  /\ body     = [d \in Deliveries |-> None]
  /\ done     = [d \in Deliveries |-> 0]
  /\ result   = [d \in Deliveries |-> None]
  /\ answer   = [d \in Deliveries |-> None]
  /\ acked    = [d \in Deliveries |-> FALSE]
  /\ hung     = {}
  /\ late     = [d \in Deliveries |-> [i \in 1..2 |-> 0]]
  /\ store    = [t \in Targets |-> None]
  /\ crashes  = 0
  /\ accepted = [d \in Deliveries |-> 0]
  /\ writers  = [t \in Targets |-> <<>>]
  /\ settled  = [d \in Deliveries |-> {}]
-----------------------------------------------------------------------------
(* GitHub (external).  It applies a call unless the name is taken or the   *)
(* path names a repository without its owner.                              *)
Ownerless == {[owner |-> None, name |-> n] : n \in Names}

Acceptable(call) ==
  /\ call.kind = "create" => store[call.target] = None
  /\ \A i \in 2..Len(call.target) : call.target[i] \notin Ownerless

(* The statuses it answers with then: an environment may be new or not.    *)
Statuses(call) ==
  CASE call.kind = "get"                   -> {200}
    [] call.kind = "create"                -> {201}
    [] call.target[1] = "token"            -> {201}
    [] call.target[1] \in {"runs", "team"} -> {204}
    [] call.target[1] = "environment"      -> {200, 201}

Apply(d, call) ==
  /\ Acceptable(call)
  /\ accepted' = [accepted EXCEPT ![d] = @ + 1]
  /\ store' = IF call.kind \in {"put", "create"}
              THEN [store EXCEPT ![call.target] = call.value] ELSE store
  /\ writers' = IF call.kind = "get" THEN writers
                ELSE [writers EXCEPT ![call.target] = Append(@, d)]
-----------------------------------------------------------------------------
(* A caller puts a request on the queue.                                   *)
Send(d) ==
  /\ stage[d] = "unsent"
  /\ \E b \in Bodies : body' = [body EXCEPT ![d] = b]
  /\ stage' = [stage EXCEPT ![d] = "queued"]
  /\ settled' = [settled EXCEPT ![d] =
                   {e \in Deliveries : answer[e] # None /\ answer[e].ok}]
  /\ UNCHANGED <<hubVars, done, hung, result, answer, acked, crashes>>

Success       == [ok |-> TRUE,  code |-> None]
Failure(code) == [ok |-> FALSE, code |-> code]

(* Mutant: a failure is returned as an error, and the delivery goes back.  *)
Return_Nack(d, r) ==
  /\ stage'  = [stage EXCEPT ![d] = IF r.ok THEN "returned" ELSE "queued"]
  /\ result' = [result EXCEPT ![d] = IF r.ok THEN r ELSE None]

(* The handler of d returns a reply body, and never an error: the SDK will *)
(* reply and acknowledge, not put the delivery back.                       *)
Return(d, r) ==
  /\ stage'  = [stage EXCEPT ![d] = "returned"]
  /\ result' = [result EXCEPT ![d] = r]

(* Mutant: what the handler refuses never gives its slot back.             *)
Handling_Leak ==
  {d \in Deliveries :
     \/ stage[d] = "handling"
     \/ stage[d] = "returned" /\ RefusalOf(d) # None}

(* The deliveries that have a slot.                                        *)
Handling == {d \in Deliveries : stage[d] = "handling"}

(* A free slot takes a delivery; what the handler refuses is returned at   *)
(* once.                                                                   *)
Receive(d) ==
  /\ stage[d] = "queued"
  /\ Cardinality(Handling) < Concurrency
  /\ IF RefusalOf(d) # None
     THEN Return(d, Failure(RefusalOf(d)))
     ELSE /\ stage' = [stage EXCEPT ![d] = "handling"]
          /\ UNCHANGED result
  /\ done' = [done EXCEPT ![d] = 0]
  /\ UNCHANGED <<hubVars, body, answer, acked, crashes, hung, settled>>

NextCall(d) == CallsOf(d)[done[d] + 1]
Calling(d)  == /\ stage[d] = "handling"
               /\ done[d] < Len(CallsOf(d))
               /\ d \notin hung

(* Call i of d is in doubt (once more): GitHub may still apply it.         *)
Doubt(d, i) == late' = [late EXCEPT ![d][i] = @ + 1]

(* Mutant: a call without answer is repeated at once.                      *)
CallApplied_Repeat(d) ==
  /\ Calling(d)
  /\ Apply(d, NextCall(d))
  /\ \/ done' = [done EXCEPT ![d] = @ + 1]
     \/ "lost" \in Faults /\ UNCHANGED done
  /\ UNCHANGED <<stage, result, late, body, answer, acked, crashes, hung,
                 settled>>

(* GitHub applies the next call.  The status of its answer decides whether *)
(* the handler goes on; an answer that does not come is an error.          *)
CallApplied(d) ==
  /\ Calling(d)
  /\ Apply(d, NextCall(d))
  /\ \/ /\ Statuses(NextCall(d)) \cap NextCall(d).statuses # {}
        /\ done' = [done EXCEPT ![d] = @ + 1]
        /\ UNCHANGED <<stage, result>>
     \/ /\ \/ Statuses(NextCall(d)) \ NextCall(d).statuses # {}
           \/ "lost" \in Faults
        /\ Return(d, Failure(FailureCode(body[d])))
        /\ UNCHANGED done
  /\ UNCHANGED <<late, body, answer, acked, crashes, hung, settled>>

(* Mutant: "already exists" counts as created.                             *)
CallFailed_Taken(d) ==
  /\ Calling(d)
  /\ "refused" \in Faults \/ ~Acceptable(NextCall(d))
  /\ Return(d, IF Acceptable(NextCall(d))
               THEN Failure(FailureCode(body[d])) ELSE Success)
  /\ UNCHANGED <<late, body, done, answer, acked, crashes, store, accepted,
                 writers, hung, settled>>

(* Mutant: the error of a broken connection is not looked at.              *)
CallFailed_Ignored(d) ==
  /\ Calling(d)
  /\ "late" \in Faults
  /\ Doubt(d, done[d] + 1)
  /\ Return(d, Success)
  /\ UNCHANGED <<body, done, answer, acked, crashes, store, accepted, writers,
                 hung, settled>>

(* The next call is turned down, or its connection breaks.                 *)
CallFailed(d) ==
  /\ Calling(d)
  /\ \/ /\ "refused" \in Faults \/ ~Acceptable(NextCall(d))
        /\ UNCHANGED late
     \/ /\ "late" \in Faults
        /\ Doubt(d, done[d] + 1)
  /\ Return(d, Failure(FailureCode(body[d])))
  /\ UNCHANGED <<body, done, answer, acked, crashes, store, accepted, writers,
                 hung, settled>>

(* The next call gets no answer and no error: its client has no timeout,   *)
(* and the handler does not look at its context.  GitHub may apply it.     *)
CallHangs(d) ==
  /\ Calling(d)
  /\ "hang" \in Faults
  /\ Cardinality(hung) < MaxHung
  /\ hung' = hung \cup {d}
  /\ Doubt(d, done[d] + 1)
  /\ UNCHANGED <<sdkVars, body, done, store, accepted, writers, settled>>

(* A call in doubt is applied after all.  It need not be, ever; and a      *)
(* handler makes its second call only after its first.                     *)
CallLands(d, i) ==
  /\ late[d][i] > 0
  /\ i = 2 => d \in Range(writers[CallsOf(d)[1].target])
  /\ late' = [late EXCEPT ![d][i] = @ - 1]
  /\ Apply(d, CallsOf(d)[i])
  /\ UNCHANGED <<sdkVars, body, done, hung, settled>>

(* Mutant: the first call is taken for the last.                           *)
Finish_First(d) ==
  /\ stage[d] = "handling"
  /\ done[d] >= 1
  /\ Return(d, Success)
  /\ UNCHANGED <<hubVars, body, done, answer, acked, crashes, hung, settled>>

(* All calls are answered.  list_runners still fails when fewer runners    *)
(* than expected are online.                                               *)
Finish(d) ==
  /\ stage[d] = "handling"
  /\ done[d] = Len(CallsOf(d))
  /\ \/ Return(d, Success)
     \/ /\ Operation(body[d]) = "list_runners"
        /\ Return(d, Failure("execute_failed"))
  /\ UNCHANGED <<hubVars, body, done, answer, acked, crashes, hung, settled>>

(* The SDK replies and acknowledges, in this order or the other.  A caller *)
(* takes the first reply.                                                  *)
Reply(d) ==
  /\ stage[d] = "returned"
  /\ result[d] # None
  /\ answer' = [answer EXCEPT ![d] = @ ?? result[d]]
  /\ result' = [result EXCEPT ![d] = None]
  /\ UNCHANGED <<hubVars, stage, body, done, acked, crashes, hung, settled>>

Ack(d) ==
  /\ stage[d] = "returned"
  /\ ~acked[d]
  /\ acked' = [acked EXCEPT ![d] = TRUE]
  /\ UNCHANGED <<hubVars, stage, body, done, result, answer, crashes, hung,
                 settled>>

(* The caller's 30 seconds are over; what comes later is not looked at.    *)
GiveUp(d) ==
  /\ "timeout" \in Faults
  /\ body[d] # None
  /\ answer[d] = None
  /\ answer' = [answer EXCEPT ![d] = Failure("timeout")]
  /\ UNCHANGED <<hubVars, stage, body, done, result, acked, crashes, hung,
                 settled>>

(* A process stops, with all the deliveries it holds or, if there are      *)
(* others, with some.  What it has not acknowledged goes back to the queue,*)
(* replied to or not, and what it has not replied is not replied; its call *)
(* in flight is in doubt.  Where it only loses its connection to the       *)
(* broker, handlers of what is delivered again go on (their replies have   *)
(* no channel): the calls they have not made yet are in doubt as well.     *)
Crash(gone) ==
  /\ "crash" \in Faults
  /\ crashes < MaxCrashes
  /\ crashes' = crashes + 1
  /\ stage' = [d \in Deliveries |-> IF d \in gone /\ ~acked[d]
                                    THEN "queued" ELSE stage[d]]
  /\ result' = [d \in Deliveries |-> IF d \in gone THEN None ELSE result[d]]
  /\ late' = [d \in Deliveries |-> [i \in 1..2 |->
                IF /\ d \in gone /\ Calling(d) /\ "late" \in Faults
                   /\ i \in (done[d] + 1)..Len(CallsOf(d))
                THEN late[d][i] + 1 ELSE late[d][i]]]
  /\ hung' = hung \ gone
  /\ UNCHANGED <<body, done, answer, acked, store, accepted, writers, settled>>

(* What processes hold: neither replied to and acknowledged, nor queued.   *)
Held == {d \in Deliveries :
           \/ stage[d] = "handling"
           \/ stage[d] = "returned" /\ (~acked[d] \/ result[d] # None)}

Work(d) == CallApplied(d) \/ CallFailed(d)

Next ==
  \/ \E d \in Deliveries :
       \/ Send(d)
       \/ Receive(d)
       \/ Work(d)
       \/ CallHangs(d)
       \/ Finish(d)
       \/ Reply(d)
       \/ Ack(d)
       \/ GiveUp(d)
       \/ \E i \in 1..2 : CallLands(d, i)
  \/ \E gone \in (SUBSET Held) \ {{}} : Crash(gone)

Spec == Init /\ [][Next]_vars

(* The SDK and the handlers go on: the queue is served, and every call that*)
(* does not hang ends.                                                     *)
Serve(d) == Receive(d) \/ Work(d) \/ Finish(d) \/ Reply(d) \/ Ack(d)

Fairness == WF_vars(\E d \in Deliveries : Serve(d))

FairSpec == Spec /\ Fairness
-----------------------------------------------------------------------------
Sent(d)     == body[d] # None
Ok(d)       == answer[d] # None /\ answer[d].ok
Failed(d)   == answer[d] # None /\ ~answer[d].ok
WritesTo(d, t) == Sent(d) /\ \E i \in DOMAIN CallsOf(d) :
                    /\ CallsOf(d)[i].target = t
                    /\ CallsOf(d)[i].kind = "put"

(* An "ok" reply is true: every call of the operation was applied for this *)
(* very delivery, through crashes, redelivery and concurrent duplicates,   *)
(* and what it should create or set exists.                                *)
OkIsTrue ==
  \A d \in Deliveries : Ok(d) =>
    \A i \in DOMAIN CallsOf(d) :
      LET call == CallsOf(d)[i]
      IN  /\ call.kind # "get" => d \in Range(writers[call.target])
          /\ call.kind \in {"put", "create"} => store[call.target] # None

(* The bodies that decode, and name a capability and an operation that are *)
(* supported.                                                              *)
SupportedBodies ==
  {b \in Bodies : /\ b.shape = "ok"
                  /\ {Operation(b), Capability(b)}
                       \subseteq SupportedExecuteOperations}

(* A body that does not decode, and one whose capability or operation is   *)
(* not supported, never reaches GitHub, whichever of the two it names, and *)
(* is not answered "ok".                                                   *)
UnsupportedStaysOut ==
  \A d \in Deliveries : accepted[d] > 0 \/ Ok(d) => body[d] \in SupportedBodies

(* An action the catalog flags Idempotent can be delivered again: while    *)
(* nobody else has written its target since, it changes nothing more.      *)
ReplayChangesNothing ==
  [][\A d \in Deliveries :
       /\ accepted[d] > 0
       /\ accepted'[d] > accepted[d]
       /\ Operation(body[d]) \in IdempotentActions
       /\ \A i \in DOMAIN CallsOf(d) :
            LET w == writers[CallsOf(d)[i].target]
            IN  w # <<>> => w[Len(w)] = d
       => /\ store' = store
          /\ \A t \in Targets : t[1] \in {"runs", "token"} =>
               writers'[t] = writers[t]]_vars

(* The adapter itself never repeats a call: it takes a crash for GitHub to *)
(* see a delivery twice, and a workflow is never run more often.           *)
NoRepeatWithoutCrash ==
  \A d \in Deliveries : Sent(d) =>
    accepted[d] <= (1 + crashes) * Len(CallsOf(d))

(* When no answer of GitHub is lost, a failure of an operation that makes  *)
(* one call means that nothing has changed: every status GitHub uses for   *)
(* success is taken for success.                                           *)
FailureMeansNothingDone ==
  \A d \in Deliveries :
    /\ Failed(d) /\ answer[d].code # "timeout"
    /\ Len(CallsOf(d)) = 1
    /\ CallsOf(d)[1].kind # "get"
    /\ crashes = 0
    => accepted[d] = 0

(* A caller who sends a request after every other one on the same setting  *)
(* was answered "ok" gets its own value, once it is answered "ok" as well: *)
(* nothing of an earlier delivery is still on its way to GitHub.  It takes *)
(* a crash, which delivers again what was answered and not acknowledged,   *)
(* to break this.                                                          *)
LastAnswerStands ==
  \A d \in Deliveries : \A t \in Targets :
    /\ crashes = 0
    /\ Ok(d) /\ WritesTo(d, t)
    /\ \A e \in Deliveries \ {d} : WritesTo(e, t) => e \in settled[d]
    => \E i \in DOMAIN CallsOf(d) : /\ CallsOf(d)[i].target = t
                                   /\ CallsOf(d)[i].value = store[t]

(* Of two deliveries that create the same thing at most one is told "ok".  *)
OneCreator ==
  \A d, e \in Deliveries : d # e /\ Ok(d) /\ Ok(e) =>
    \A i \in DOMAIN CallsOf(d), j \in DOMAIN CallsOf(e) :
      ~(/\ CallsOf(d)[i].kind = "create"
        /\ CallsOf(d)[i].target = CallsOf(e)[j].target)

(* A typed dispatch in the other of its two shapes.                        *)
Generic(b) ==
  [b EXCEPT !.workflow = None,
            !.input = [repository |-> b.workflow.repository,
                       workflow   |-> b.workflow.workflow,
                       ref        |-> b.workflow.ref]]

(* The shapes differ for a caller whose token is under "github_token" and  *)
(* not under "token": the generic form reads it (spec.go:620), the typed   *)
(* one goes on as if there were none.                                      *)
BodiesThatAgree ==
  {b \in Bodies :
     /\ IsTyped(b)
     /\ FirstString(b.auth, <<"github_token">>) # None =>
          FirstString(b.auth, <<"token">>) # None
     => Calls(b) = Calls(Generic(b))}

(* dispatch_workflow means the same in both of its shapes (execute.go:     *)
(* 16-20): the generic form of a typed body that is sent makes the same    *)
(* calls, for all but the callers named above.                             *)
ShapesAgree == \A d \in Deliveries : Sent(d) => body[d] \in BodiesThatAgree

(* Every delivery is acknowledged, and answered unless a crash came        *)
(* between the two, or its own call hangs, each time it is served: as long *)
(* as fewer calls hang than there are slots, the rest of the queue is      *)
(* served, no other slot stays taken, and nothing goes around the queue    *)
(* forever.                                                                *)
EveryDeliveryEnds ==
  \A d \in Deliveries :
    Sent(d) ~> \/ acked[d] /\ (answer[d] # None \/ crashes > 0)
               \/ d \in hung

(* "Default repository owner used when the request omits one" (spec.go:94, *)
(* on default_owner): no call names a repository without owner while the   *)
(* instance has a default one.                                             *)
DefaultOwnerIsUsed ==
  \A d \in Deliveries :
    Sent(d) /\ FirstString(body[d].config, <<"default_owner">>) # None =>
      \A i \in DOMAIN CallsOf(d) :
        LET target == CallsOf(d)[i].target
        IN  \A j \in 2..Len(target) : target[j] \notin Ownerless
=============================================================================
