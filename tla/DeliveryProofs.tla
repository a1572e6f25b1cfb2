---------------------------- MODULE DeliveryProofs ----------------------------
(***************************************************************************)
(* What replies are worth, for any bodies, names, slots, faults and number *)
(* of crashes.                                                             *)
(***************************************************************************)
EXTENDS Delivery, TLAPS

CreatedThings == {"repository", "branch", "pull"}

(* What every operation sees to in the calls it makes: only what is created*)
(* is a thing that others can have created, only settings are set, and     *)
(* every status GitHub uses for success is expected.  What creates nothing *)
(* is the only call of its operation.                                      *)
WellFormed(call) ==
  /\ call.kind \in {"put", "create", "post", "get"}
  /\ call.kind = "create" <=> call.target[1] \in CreatedThings
  /\ call.kind = "put" => call.target[1] \in {"environment", "team"}
  /\ Statuses(call) \subseteq call.statuses

AllWellFormed(calls) ==
  /\ Len(calls) \in 0..2
  /\ DOMAIN calls = 1..Len(calls)
  /\ \A i \in DOMAIN calls : /\ WellFormed(calls[i])
                             /\ calls[i].kind # "create" => Len(calls) = 1

LEMMA OneIsWellFormed ==
  /\ AllWellFormed(<<>>)
  /\ \A call : WellFormed(call) => AllWellFormed(<<call>>)
<1>1. AllWellFormed(<<>>)
  BY DEF AllWellFormed
<1>2. ASSUME NEW call, WellFormed(call) PROVE AllWellFormed(<<call>>)
  <2>1. Len(<<call>>) = 1 /\ DOMAIN <<call>> = 1..1 /\ <<call>>[1] = call
    OBVIOUS
  <2> QED
    BY <1>2, <2>1 DEF AllWellFormed
<1> QED
  BY <1>1, <1>2

LEMMA TwoAreWellFormed ==
  ASSUME NEW c1, NEW c2, WellFormed(c1), WellFormed(c2),
         c1.kind = "create", c2.kind = "create"
  PROVE  AllWellFormed(<<c1, c2>>)
<1>1. /\ Len(<<c1, c2>>) = 2 /\ DOMAIN <<c1, c2>> = 1..2
      /\ <<c1, c2>>[1] = c1 /\ <<c1, c2>>[2] = c2
  OBVIOUS
<1>2. \A i \in 1..2 : i = 1 \/ i = 2
  OBVIOUS
<1> QED
  BY <1>1, <1>2 DEF AllWellFormed

(* The calls of each operation.                                            *)
LEMMA DispatchIsWellFormed ==
  ASSUME NEW workflow, NEW token, NEW b
  PROVE  AllWellFormed(DispatchCalls(workflow, token, b))
<1>1. ASSUME NEW r, NEW n, NEW f
      PROVE  WellFormed(NewCall("post", <<"runs", r, n, f>>, NoBody, {204}))
  BY DEF WellFormed, NewCall, Statuses, CreatedThings
<1> QED
  BY <1>1, OneIsWellFormed DEF DispatchCalls, OneCall

LEMMA RepositoryIsWellFormed ==
  ASSUME NEW b
  PROVE  AllWellFormed(RepositoryCalls(b))
<1>1. ASSUME NEW o, NEW n, NEW v
      PROVE  WellFormed(NewCall("create", <<"repository", o, n>>, v, {201}))
  BY DEF WellFormed, NewCall, Statuses, CreatedThings
<1> QED
  BY <1>1, OneIsWellFormed DEF RepositoryCalls, OneCall

LEMMA EnvironmentIsWellFormed ==
  ASSUME NEW b
  PROVE  AllWellFormed(EnvironmentCalls(b))
<1>1. ASSUME NEW r, NEW e, NEW v
      PROVE  WellFormed(NewCall("put", <<"environment", r, e>>, v,
                                EnvironmentStatuses))
  BY DEF WellFormed, NewCall, Statuses, CreatedThings, EnvironmentStatuses
<1> QED
  BY <1>1, OneIsWellFormed DEF EnvironmentCalls, OneCall

LEMMA TeamIsWellFormed ==
  ASSUME NEW b
  PROVE  AllWellFormed(TeamCalls(b))
<1>1. ASSUME NEW o, NEW t, NEW r, NEW v
      PROVE  WellFormed(NewCall("put", <<"team", o, t, r>>, v, {204}))
  BY DEF WellFormed, NewCall, Statuses, CreatedThings
<1> QED
  BY <1>1, OneIsWellFormed DEF TeamCalls, OneCall

LEMMA RunnerTokenIsWellFormed ==
  ASSUME NEW b
  PROVE  AllWellFormed(RunnerTokenCalls(b))
<1>1. ASSUME NEW s
      PROVE  WellFormed(NewCall("post", <<"token", s>>, NoBody, {201}))
  BY DEF WellFormed, NewCall, Statuses, CreatedThings
<1> QED
  BY <1>1, OneIsWellFormed DEF RunnerTokenCalls, OneCall

LEMMA RunnersIsWellFormed ==
  ASSUME NEW b
  PROVE  AllWellFormed(RunnersCalls(b))
<1>1. ASSUME NEW s
      PROVE  WellFormed(NewCall("get", <<"runners", s>>, NoBody, {200}))
  BY DEF WellFormed, NewCall, Statuses, CreatedThings
<1> QED
  BY <1>1, OneIsWellFormed DEF RunnersCalls, OneCall

LEMMA CatalogIsWellFormed ==
  ASSUME NEW b
  PROVE  AllWellFormed(CatalogCalls(b))
<1>1. ASSUME NEW t \in {"org", "user"}, NEW o
      PROVE  WellFormed(NewCall("get", <<t, o>>, NoBody, {200}))
  BY DEF WellFormed, NewCall, Statuses, CreatedThings
<1> QED
  BY <1>1, OneIsWellFormed DEF CatalogCalls, OneCall

LEMMA PullRequestIsWellFormed ==
  ASSUME NEW b
  PROVE  AllWellFormed(PullRequestCalls(b))
<1>1. ASSUME NEW r, NEW h
      PROVE  LET call == NewCall("create", <<"branch", r, h>>, NoBody, {201})
             IN  WellFormed(call) /\ call.kind = "create"
  BY DEF WellFormed, NewCall, Statuses, CreatedThings
<1>2. ASSUME NEW r, NEW h, NEW t
      PROVE  LET call == NewCall("create", <<"pull", r, h, t>>, NoBody, {201})
             IN  WellFormed(call) /\ call.kind = "create"
  BY DEF WellFormed, NewCall, Statuses, CreatedThings
<1> QED
  BY <1>1, <1>2, OneIsWellFormed, TwoAreWellFormed DEF PullRequestCalls

LEMMA CallsAreWellFormed ==
  ASSUME NEW b
  PROVE  AllWellFormed(Calls(b))
BY OneIsWellFormed, DispatchIsWellFormed, RepositoryIsWellFormed,
   EnvironmentIsWellFormed, TeamIsWellFormed, RunnerTokenIsWellFormed,
   RunnersIsWellFormed, CatalogIsWellFormed, PullRequestIsWellFormed
   DEF Calls, Execute, TypedDispatchCalls, GenericDispatchCalls

(* What is not supported is refused, by the gate or for want of a case in  *)
(* the switch (execute.go:34, spec.go:258-298).                            *)
LEMMA UnsupportedIsRefused ==
  ASSUME NEW b \in Bodies,
         \/ b.shape # "ok"
         \/ {Operation(b), Capability(b)} \ SupportedExecuteOperations # {}
  PROVE  Refusal(b) # None
<1>1. None \notin {"bad_request", "unsupported_capability", "dispatch_failed",
                   "execute_failed"}
  BY DeliveryAssumption DEF Codes
<1>2. CASE b.shape # "ok"
  BY <1>1, <1>2, DeliveryAssumption DEF Refusal, FailureCode
<1>3. CASE Operation(b) \notin SupportedExecuteOperations
  <2>1. Calls(b) = <<>>
    BY <1>3 DEF Calls, IsTyped, Execute, SupportedExecuteOperations
  <2> QED
    BY <1>1, <2>1 DEF Refusal, FailureCode
<1>4. CASE /\ Operation(b) \in SupportedExecuteOperations
           /\ Capability(b) \notin SupportedExecuteOperations
  <2>1. Capability(b) # None
    BY <1>4, DeliveryAssumption
       DEF Capability, NormalizeExecuteCapability,
           NormalizeExecuteOperation, ??
  <2> QED
    BY <1>1, <1>4, <2>1 DEF Refusal, SupportsExecuteCapability
<1> QED
  BY <1>2, <1>3, <1>4
-----------------------------------------------------------------------------
(* The table of calls holds the calls of each body.                        *)
LEMMA CallsOfBody ==
  ASSUME NEW d, body[d] \in Bodies
  PROVE  CallsOf(d) = Calls(body[d])
BY DEF CallsOf, CallTable

(* The table of refusals does the same.                                    *)
LEMMA RefusalOfBody ==
  ASSUME NEW d, body[d] \in Bodies
  PROVE  RefusalOf(d) = Refusal(body[d])
BY DEF RefusalOf, RefusalTable

LEMMA CallFacts ==
  ASSUME NEW b \in Bodies
  PROVE  /\ Len(Calls(b)) \in 0..2
         /\ DOMAIN Calls(b) = 1..Len(Calls(b))
         /\ \A i \in 1..Len(Calls(b)) :
              /\ WellFormed(Calls(b)[i])
              /\ Calls(b)[i].kind # "create" => Len(Calls(b)) = 1
              /\ Calls(b)[i].target \in Targets
              /\ Calls(b)[i].value \in Values
BY CallsAreWellFormed DEF AllWellFormed, Targets, Values, Range

SaysOk(r) == r # None /\ r.ok
Blames(r) == r # None /\ ~r.ok /\ r.code # "timeout"

(* Call i of d has had its effect, and what it set is there.               *)
Applied(d, i) ==
  LET call == CallsOf(d)[i]
  IN  /\ call.kind # "get" => d \in Range(writers[call.target])
      /\ call.kind \in {"put", "create"} => store[call.target] # None

(* Calls of d that may be applied later, and those it may still make       *)
(* before the next crash.                                                  *)
Doubts(d) == late[d][1] + late[d][2]
Left(d) == IF stage[d] = "queued" THEN Len(CallsOf(d))
           ELSE IF stage[d] = "handling" /\ d \notin hung
                THEN Len(CallsOf(d)) - done[d]
                ELSE 0

(* Nothing is known of a delivery before it is sent.                       *)
Begun(d) ==
  /\ body[d] = None <=> stage[d] = "unsent"
  /\ body[d] = None => /\ accepted[d] = 0
                       /\ result[d] = None
                       /\ answer[d] = None
                       /\ \A i \in 1..2 : late[d][i] = 0

(* Where the handler can be, and what it does with results.                *)
InPlace(d) ==
  /\ stage[d] = "handling" => done[d] <= Len(CallsOf(d))
  /\ stage[d] # "returned" => result[d] = None
  /\ d \in hung => stage[d] = "handling" /\ done[d] < Len(CallsOf(d))
  /\ \A i \in 1..2 : late[d][i] > 0 => i <= Len(CallsOf(d))

(* Only what the handler does not refuse has any effect.                   *)
Admitted(d) ==
  \/ body[d] = None
  \/ Refusal(body[d]) = None
  \/ /\ stage[d] # "handling"
     /\ accepted[d] = 0
     /\ \A i \in 1..2 : late[d][i] = 0
     /\ ~SaysOk(result[d]) /\ ~SaysOk(answer[d])

(* What a handler has got done is done, and what has been answered.        *)
Proven(d) ==
  /\ stage[d] = "handling" => \A i \in 1..done[d] : Applied(d, i)
  /\ SaysOk(result[d]) \/ SaysOk(answer[d]) =>
       \A i \in DOMAIN CallsOf(d) : Applied(d, i)

(* Each process spends at most one round of calls on a delivery.           *)
Counted(d) ==
  body[d] # None =>
    accepted[d] + Doubts(d) + Left(d) <= (1 + crashes) * Len(CallsOf(d))

(* What one delivery has to do with the rest.                              *)
OneInv(d) == /\ Begun(d) /\ InPlace(d) /\ Admitted(d)
             /\ Proven(d) /\ Counted(d)

(* A thing is created by one delivery, and stays.                          *)
CreatedOnce ==
  \A t \in Targets : t[1] \in CreatedThings =>
    /\ Len(writers[t]) <= 1
    /\ store[t] = None => writers[t] = <<>>

(* An inductive invariant.                                                 *)
DeliveryInv == TypeOK /\ CreatedOnce /\ \A d \in Deliveries : OneInv(d)
-----------------------------------------------------------------------------
(* GitHub forgets nothing.                                                 *)
Grows == \A t \in Targets : /\ Range(writers[t]) \subseteq Range(writers'[t])
                            /\ store[t] # None => store'[t] # None

LEMMA AppliedStays ==
  ASSUME NEW d \in Deliveries, NEW i, body[d] \in Bodies,
         i \in 1..Len(CallsOf(d)),
         Grows, body'[d] = body[d], Applied(d, i)
  PROVE  Applied(d, i)'
<1>1. CallsOf(d)' = CallsOf(d)
  BY DEF CallsOf
<1>2. CallsOf(d)[i].target \in Targets
  BY CallFacts, CallsOfBody
<1> QED
  BY <1>1, <1>2 DEF Grows, Applied

(* What other deliveries do does not matter to d.                          *)
LEMMA OthersRest ==
  ASSUME TypeOK, NEW d \in Deliveries, OneInv(d), Grows, crashes' = crashes,
         body'[d] = body[d], stage'[d] = stage[d], done'[d] = done[d],
         result'[d] = result[d], answer'[d] = answer[d],
         accepted'[d] = accepted[d], d \in hung' <=> d \in hung,
         late'[d] = late[d]
  PROVE  OneInv(d)'
<1>1. Begun(d)'
  BY DEF OneInv, Begun
<1>2. InPlace(d)'
  BY DEF OneInv, InPlace, CallsOf
<1>3. Admitted(d)'
  BY DEF OneInv, Admitted, SaysOk
<1>4. Proven(d)'
  <2>1. CASE body[d] = None
    <3>1. stage[d] = "unsent" /\ result[d] = None /\ answer[d] = None
      BY <2>1 DEF OneInv, Begun
    <3> QED
      BY <3>1 DEF Proven, SaysOk
  <2>2. CASE body[d] \in Bodies
    <3>1. DOMAIN CallsOf(d) = 1..Len(CallsOf(d)) /\ Len(CallsOf(d)) \in Nat
      BY <2>2, CallFacts DEF CallsOf
    <3>2. CallsOf(d)' = CallsOf(d)
      BY DEF CallsOf
    <3>3. stage[d] = "handling" => done[d] \in 0..Len(CallsOf(d))
      BY DEF OneInv, InPlace, TypeOK
    <3>4. ASSUME NEW i \in 1..Len(CallsOf(d)), Applied(d, i)
          PROVE  Applied(d, i)'
      BY <2>2, <3>4, AppliedStays
    <3>5. SaysOk(result[d])' = SaysOk(result[d])
          /\ SaysOk(answer[d])' = SaysOk(answer[d])
      BY DEF SaysOk
    <3>6. ASSUME stage'[d] = "handling", NEW i \in 1..done'[d]
          PROVE  Applied(d, i)'
      BY <3>3, <3>4, <3>6 DEF OneInv, Proven
    <3>7. ASSUME SaysOk(result[d])' \/ SaysOk(answer[d])',
                 NEW i \in DOMAIN CallsOf(d)'
          PROVE  Applied(d, i)'
      BY <3>1, <3>2, <3>4, <3>5, <3>7 DEF OneInv, Proven
    <3> QED
      BY <3>6, <3>7 DEF Proven
  <2> QED
    BY <2>1, <2>2 DEF TypeOK
<1>5. Counted(d)'
  BY DEF OneInv, Counted, Doubts, Left, CallsOf
<1> QED
  BY <1>1, <1>2, <1>3, <1>4, <1>5 DEF OneInv

(* A call that GitHub applies.                                             *)
LEMMA ApplyGrows ==
  ASSUME TypeOK, CreatedOnce, NEW d \in Deliveries, body[d] \in Bodies,
         NEW i \in 1..Len(CallsOf(d)), Apply(d, CallsOf(d)[i]),
         body'[d] = body[d]
  PROVE  /\ Grows
         /\ CreatedOnce'
         /\ Applied(d, i)'
         /\ store' \in [Targets -> Values \cup {None}]
         /\ writers' \in [Targets -> Seq(Deliveries)]
         /\ accepted' = [accepted EXCEPT ![d] = @ + 1]
<1> DEFINE call == CallsOf(d)[i]
           t    == call.target
<1>1. WellFormed(call) /\ t \in Targets /\ call.value \in Values
  BY CallFacts, CallsOfBody
<1>2. call' = call
  BY DEF CallsOf
<1>3. call.value # None
  BY <1>1, DeliveryAssumption
<1> HIDE DEF call
<1>4. /\ accepted' = [accepted EXCEPT ![d] = @ + 1]
      /\ store' = IF call.kind \in {"put", "create"}
                  THEN [store EXCEPT ![t] = call.value] ELSE store
      /\ writers' = IF call.kind = "get" THEN writers
                    ELSE [writers EXCEPT ![t] = Append(@, d)]
      /\ call.kind = "create" => store[t] = None
  BY DEF Apply, Acceptable, call
<1>5. store' \in [Targets -> Values \cup {None}]
  BY <1>1, <1>4 DEF TypeOK
<1>6. \A s \in Seq(Deliveries) :
        /\ Append(s, d) \in Seq(Deliveries)
        /\ Range(s) \subseteq Range(Append(s, d))
        /\ d \in Range(Append(s, d))
        /\ s = <<>> => Len(Append(s, d)) = 1
  <2> SUFFICES ASSUME NEW s \in Seq(Deliveries)
               PROVE  /\ Append(s, d) \in Seq(Deliveries)
                      /\ Range(s) \subseteq Range(Append(s, d))
                      /\ d \in Range(Append(s, d))
                      /\ s = <<>> => Len(Append(s, d)) = 1
    OBVIOUS
  <2>1. /\ DOMAIN Append(s, d) = 1..(Len(s) + 1) /\ DOMAIN s = 1..Len(s)
        /\ \A j \in 1..Len(s) : Append(s, d)[j] = s[j]
        /\ Append(s, d)[Len(s) + 1] = d
        /\ Append(s, d) \in Seq(Deliveries)
        /\ Len(s) \in Nat
    OBVIOUS
  <2>2. Len(Append(s, d)) = Len(s) + 1
    OBVIOUS
  <2> QED
    BY <2>1, <2>2 DEF Range
<1>7. writers' \in [Targets -> Seq(Deliveries)]
  BY <1>1, <1>4, <1>6 DEF TypeOK
<1>8. \A u \in Targets : u # t => /\ writers'[u] = writers[u]
                                 /\ store'[u] = store[u]
  BY <1>1, <1>4 DEF TypeOK
<1>9. /\ Range(writers[t]) \subseteq Range(writers'[t])
      /\ store[t] # None => store'[t] # None
  BY <1>1, <1>3, <1>4, <1>6 DEF TypeOK
<1>10. Grows
  BY <1>8, <1>9 DEF Grows
<1>11. /\ call.kind # "get" => d \in Range(writers'[t])
       /\ call.kind \in {"put", "create"} => store'[t] # None
  BY <1>1, <1>3, <1>4, <1>6 DEF TypeOK
<1>12. Applied(d, i)'
  BY <1>2, <1>11 DEF Applied, call
<1>13. t[1] \in CreatedThings =>
         Len(writers'[t]) <= 1 /\ (store'[t] = None => writers'[t] = <<>>)
  BY <1>1, <1>3, <1>4, <1>6 DEF TypeOK, CreatedOnce, WellFormed
<1>14. CreatedOnce'
  BY <1>8, <1>13 DEF CreatedOnce
<1> QED
  BY <1>4, <1>5, <1>7, <1>10, <1>12, <1>14
-----------------------------------------------------------------------------
(* Nothing of the other deliveries changes.                                *)
Apart(d) ==
  /\ crashes' = crashes
  /\ \A e \in Deliveries \ {d} :
       /\ body'[e] = body[e] /\ stage'[e] = stage[e] /\ done'[e] = done[e]
       /\ result'[e] = result[e] /\ answer'[e] = answer[e]
       /\ accepted'[e] = accepted[e]
       /\ e \in hung' <=> e \in hung
       /\ late'[e] = late[e]

(* Counting the calls in doubt.                                            *)
LEMMA DoubtsCount ==
  ASSUME TypeOK, NEW d \in Deliveries
  PROVE  /\ late[d] \in [1..2 -> Nat]
         /\ late[d][1] \in Nat /\ late[d][2] \in Nat
         /\ Doubts(d) \in Nat
<1>1. late[d] \in [1..2 -> Nat]
  BY DEF TypeOK
<1>2. 1 \in 1..2 /\ 2 \in 1..2
  OBVIOUS
<1>3. late[d][1] \in Nat /\ late[d][2] \in Nat
  BY <1>1, <1>2
<1> QED
  BY <1>1, <1>3 DEF Doubts

LEMMA OneMoreDoubt ==
  ASSUME TypeOK, NEW d \in Deliveries, NEW i \in 1..2, Doubt(d, i)
  PROVE  /\ late' \in [Deliveries -> [1..2 -> Nat]]
         /\ \A e \in Deliveries \ {d} : late'[e] = late[e]
         /\ \A j \in 1..2 : j # i => late'[d][j] = late[d][j]
         /\ Doubts(d)' = Doubts(d) + 1
<1>1. late \in [Deliveries -> [1..2 -> Nat]]
  BY DEF TypeOK
<1>2. late' = [late EXCEPT ![d] = [late[d] EXCEPT ![i] = late[d][i] + 1]]
  BY <1>1 DEF Doubt
<1>3. [late[d] EXCEPT ![i] = late[d][i] + 1] \in [1..2 -> Nat]
  BY <1>1
<1>4. late'[d] = [late[d] EXCEPT ![i] = late[d][i] + 1]
  BY <1>1, <1>2
<1>5. i = 1 \/ i = 2
  OBVIOUS
<1>6. late[d][1] \in Nat /\ late[d][2] \in Nat /\ late[d] \in [1..2 -> Nat]
  BY DoubtsCount
<1>7. Doubts(d)' = Doubts(d) + 1
  BY <1>4, <1>5, <1>6 DEF Doubts
<1> QED
  BY <1>1, <1>2, <1>3, <1>4, <1>6, <1>7

LEMMA OneLessDoubt ==
  ASSUME TypeOK, NEW d \in Deliveries, NEW i \in 1..2, late[d][i] > 0,
         late' = [late EXCEPT ![d][i] = @ - 1]
  PROVE  /\ late' \in [Deliveries -> [1..2 -> Nat]]
         /\ \A e \in Deliveries \ {d} : late'[e] = late[e]
         /\ \A j \in 1..2 : late'[d][j] > 0 => late[d][j] > 0
         /\ \A j \in 1..2 : late[d][j] = 0 => late'[d][j] = 0
         /\ Doubts(d)' = Doubts(d) - 1
<1>1. late \in [Deliveries -> [1..2 -> Nat]]
  BY DEF TypeOK
<1>2. late' = [late EXCEPT ![d] = [late[d] EXCEPT ![i] = late[d][i] - 1]]
  BY <1>1
<1>3. late[d][i] \in Nat /\ late[d][i] - 1 \in Nat
  BY <1>1
<1>4. [late[d] EXCEPT ![i] = late[d][i] - 1] \in [1..2 -> Nat]
  BY <1>1, <1>3
<1>5. late'[d] = [late[d] EXCEPT ![i] = late[d][i] - 1]
  BY <1>1, <1>2
<1>6. i = 1 \/ i = 2
  OBVIOUS
<1>7. late[d][1] \in Nat /\ late[d][2] \in Nat /\ late[d] \in [1..2 -> Nat]
  BY DoubtsCount
<1>8. Doubts(d)' = Doubts(d) - 1
  BY <1>5, <1>6, <1>7 DEF Doubts
<1>9. \A j \in 1..2 : /\ late'[d][j] > 0 => late[d][j] > 0
                      /\ late[d][j] = 0 => late'[d][j] = 0
  BY <1>3, <1>5, <1>7
<1>10. \A e \in Deliveries \ {d} : late'[e] = late[e]
  BY <1>1, <1>2
<1>11. late' \in [Deliveries -> [1..2 -> Nat]]
  BY <1>1, <1>2, <1>4
<1> QED
  BY <1>8, <1>9, <1>10, <1>11

LEMMA OneByOne ==
  ASSUME DeliveryInv, NEW d \in Deliveries, Apart(d), Grows,
         TypeOK', CreatedOnce', OneInv(d)'
  PROVE  DeliveryInv'
<1>1. ASSUME NEW e \in Deliveries, e # d PROVE OneInv(e)'
  BY <1>1, OthersRest DEF DeliveryInv, Apart
<1> QED
  BY <1>1 DEF DeliveryInv

LEMMA HubRests ==
  ASSUME TypeOK, CreatedOnce, UNCHANGED <<store, writers>>
  PROVE  Grows /\ CreatedOnce'
BY DEF Grows, CreatedOnce

LEMMA Results ==
  /\ Success \in Result /\ SaysOk(Success)
  /\ \A code \in Codes : /\ Failure(code) \in Result
                         /\ ~SaysOk(Failure(code))
  /\ None \notin Result
<1>1. None \notin Result
  BY DeliveryAssumption
<1>2. Success \in Result /\ Success.ok
  BY DEF Success, Result
<1>3. ASSUME NEW code \in Codes
      PROVE  Failure(code) \in Result /\ ~Failure(code).ok
  BY DEF Failure, Result
<1> QED
  BY <1>1, <1>2, <1>3 DEF SaysOk

LEMMA CodesOfBodies ==
  ASSUME NEW b
  PROVE  /\ FailureCode(b) \in Codes
         /\ Refusal(b) \in Codes \cup {None}
BY DEF FailureCode, Refusal, Codes

LEMMA Rounds ==
  ASSUME NEW c \in Nat, NEW n \in Nat
  PROVE  /\ (1 + c) * n \in Nat
         /\ n <= (1 + c) * n
         /\ (1 + (c + 1)) * n = (1 + c) * n + n
OBVIOUS

(* What a sent delivery has.                                               *)
LEMMA SentFacts ==
  ASSUME DeliveryInv, NEW d \in Deliveries, stage[d] # "unsent"
  PROVE  /\ body[d] \in Bodies /\ body[d] # None
         /\ Len(CallsOf(d)) \in 0..2
         /\ DOMAIN CallsOf(d) = 1..Len(CallsOf(d))
         /\ \A i \in 1..Len(CallsOf(d)) :
              /\ WellFormed(CallsOf(d)[i])
              /\ CallsOf(d)[i].kind # "create" => Len(CallsOf(d)) = 1
              /\ CallsOf(d)[i].target \in Targets
              /\ CallsOf(d)[i].value \in Values
         /\ (1 + crashes) * Len(CallsOf(d)) \in Nat
<1>1. body[d] \in Bodies /\ body[d] # None
  BY DEF DeliveryInv, OneInv, Begun, TypeOK
<1>2. crashes \in Nat
  BY DeliveryAssumption DEF DeliveryInv, TypeOK
<1> QED
  BY <1>1, <1>2, CallFacts, CallsOfBody, Rounds
-----------------------------------------------------------------------------
LEMMA SendKeepsInv ==
  ASSUME DeliveryInv, NEW d \in Deliveries, Send(d)
  PROVE  DeliveryInv'
<1>1. PICK b \in Bodies : body' = [body EXCEPT ![d] = b]
  BY DEF Send
<1>2. /\ stage[d] = "unsent" /\ stage' = [stage EXCEPT ![d] = "queued"]
      /\ UNCHANGED <<hubVars, done, hung, result, answer, acked, crashes>>
      /\ settled' = [settled EXCEPT ![d] =
                       {e \in Deliveries : answer[e] # None /\ answer[e].ok}]
  BY DEF Send
<1>3. TypeOK'
  BY <1>1, <1>2 DEF DeliveryInv, TypeOK, hubVars, Stages
<1>4. Grows /\ CreatedOnce'
  BY <1>2, HubRests DEF DeliveryInv, hubVars
<1>5. Apart(d)
  BY <1>1, <1>2 DEF Apart, DeliveryInv, TypeOK, hubVars
<1>6. /\ body[d] = None /\ accepted'[d] = 0 /\ result'[d] = None
      /\ answer'[d] = None /\ d \notin hung'
      /\ \A i \in 1..2 : late'[d][i] = 0
      /\ stage'[d] = "queued" /\ body'[d] = b
  BY <1>1, <1>2 DEF DeliveryInv, OneInv, Begun, InPlace, TypeOK, hubVars
<1>7. b # None /\ Len(Calls(b)) \in Nat /\ crashes' \in Nat
  BY CallFacts, DeliveryAssumption, <1>2 DEF DeliveryInv, TypeOK
<1>8. Begun(d)' /\ InPlace(d)' /\ Admitted(d)' /\ Proven(d)'
  BY <1>6, <1>7 DEF Begun, InPlace, Admitted, Proven, SaysOk
<1>9. Counted(d)'
  BY <1>6, <1>7, Rounds DEF Counted, Doubts, Left, CallsOf
<1> QED
  BY <1>3, <1>4, <1>5, <1>8, <1>9, OneByOne DEF OneInv

(* The answers of the other steps are true if they were.                   *)
LEMMA ProvenStays ==
  ASSUME DeliveryInv, NEW d \in Deliveries, stage[d] # "unsent", Grows,
         body' = body, NEW i \in 1..Len(CallsOf(d)), Applied(d, i)
  PROVE  Applied(d, i)'
BY SentFacts, AppliedStays

LEMMA ReceiveKeepsInv ==
  ASSUME DeliveryInv, NEW d \in Deliveries, Receive(d)
  PROVE  DeliveryInv'
<1>1. /\ stage[d] = "queued"
      /\ \/ /\ Refusal(body[d]) # None
            /\ stage' = [stage EXCEPT ![d] = "returned"]
            /\ result' = [result EXCEPT ![d] = Failure(Refusal(body[d]))]
         \/ /\ Refusal(body[d]) = None
            /\ stage' = [stage EXCEPT ![d] = "handling"]
            /\ result' = result
      /\ done' = [done EXCEPT ![d] = 0]
      /\ UNCHANGED <<hubVars, body, answer, acked, crashes, hung, settled>>
  <2>1. stage[d] = "queued"
    BY DEF Receive
  <2>2. RefusalOf(d) = Refusal(body[d])
    BY <2>1, SentFacts, RefusalOfBody
  <2> QED
    BY <2>2 DEF Receive, Return
<1>2. Refusal(body[d]) # None => Failure(Refusal(body[d])) \in Result
                              /\ ~SaysOk(Failure(Refusal(body[d])))
  BY CodesOfBodies, Results
<1>3. TypeOK'
  <2>1. stage' \in [Deliveries -> Stages] /\ done' \in [Deliveries -> Nat]
    BY <1>1 DEF DeliveryInv, TypeOK, Stages
  <2>2. result' \in [Deliveries -> Result \cup {None}]
    BY <1>1, <1>2 DEF DeliveryInv, TypeOK
  <2> QED
    BY <1>1, <2>1, <2>2 DEF DeliveryInv, TypeOK, hubVars
<1>4. Grows /\ CreatedOnce'
  BY <1>1, HubRests DEF DeliveryInv, hubVars
<1>5. Apart(d)
  BY <1>1 DEF Apart, DeliveryInv, TypeOK, hubVars
<1>6. /\ body[d] \in Bodies /\ body[d] # None
      /\ Len(CallsOf(d)) \in 0..2 /\ DOMAIN CallsOf(d) = 1..Len(CallsOf(d))
      /\ d \notin hung /\ result[d] = None
  <2>1. stage[d] # "unsent" /\ stage[d] # "handling" /\ stage[d] # "returned"
    BY <1>1
  <2>2. d \notin hung /\ result[d] = None
    BY <2>1 DEF DeliveryInv, OneInv, InPlace
  <2> QED
    BY <2>1, <2>2, SentFacts
<1>7. CallsOf(d)' = CallsOf(d)
  BY <1>1 DEF CallsOf
<1>8. /\ done'[d] = 0 /\ stage'[d] \in {"returned", "handling"}
      /\ stage'[d] = "handling" => Refusal(body[d]) = None
                                   /\ result'[d] = None
      /\ ~SaysOk(result'[d])
  BY <1>1, <1>2, <1>6 DEF DeliveryInv, TypeOK, SaysOk
<1>9. Begun(d)' /\ InPlace(d)'
  BY <1>1, <1>6, <1>7, <1>8 DEF Begun, InPlace, DeliveryInv, OneInv, hubVars
<1>10. Admitted(d)'
  BY <1>1, <1>8 DEF Admitted, DeliveryInv, OneInv, hubVars, SaysOk
<1>11. Proven(d)'
  <2>1. ASSUME SaysOk(answer[d]), NEW i \in DOMAIN CallsOf(d)
        PROVE  Applied(d, i)'
    BY <1>1, <1>4, <1>6, <2>1, ProvenStays DEF DeliveryInv, OneInv, Proven
  <2> QED
    BY <1>1, <1>7, <1>8, <2>1 DEF Proven, SaysOk
<1>12. Counted(d)'
  <2>1. accepted[d] + Doubts(d) + Len(CallsOf(d))
          <= (1 + crashes) * Len(CallsOf(d))
    BY <1>1, <1>6 DEF Counted, Left, DeliveryInv, OneInv
  <2>2. Left(d)' <= Len(CallsOf(d)) /\ Left(d)' \in Nat
    BY <1>1, <1>6, <1>7, <1>8 DEF Left
  <2>3. /\ Doubts(d)' = Doubts(d) /\ Doubts(d) \in Nat
        /\ accepted'[d] = accepted[d]
        /\ accepted[d] \in Nat /\ crashes' = crashes
    BY <1>1, DoubtsCount DEF Doubts, hubVars, DeliveryInv, TypeOK
  <2>4. (1 + crashes) * Len(CallsOf(d)) \in Nat
    BY <1>1, SentFacts
  <2> QED
    BY <1>6, <1>7, <2>1, <2>2, <2>3, <2>4 DEF Counted
<1> QED
  BY <1>3, <1>4, <1>5, <1>9, <1>10, <1>11, <1>12, OneByOne DEF OneInv

(* A handler about to make a call.                                         *)
LEMMA CallingFacts ==
  ASSUME DeliveryInv, NEW d \in Deliveries, Calling(d)
  PROVE  /\ stage[d] = "handling" /\ d \notin hung /\ result[d] = None
         /\ body[d] \in Bodies /\ Refusal(body[d]) = None
         /\ done[d] \in Nat /\ done[d] + 1 \in 1..Len(CallsOf(d))
         /\ done[d] + 1 \in 1..2
         /\ Len(CallsOf(d)) \in 0..2
         /\ DOMAIN CallsOf(d) = 1..Len(CallsOf(d))
         /\ accepted[d] \in Nat /\ Doubts(d) \in Nat
         /\ (1 + crashes) * Len(CallsOf(d)) \in Nat
         /\ accepted[d] + Doubts(d) + (Len(CallsOf(d)) - done[d])
              <= (1 + crashes) * Len(CallsOf(d))
<1>1. stage[d] = "handling" /\ done[d] < Len(CallsOf(d)) /\ d \notin hung
  BY DEF Calling
<1>2. /\ body[d] \in Bodies /\ body[d] # None /\ Len(CallsOf(d)) \in 0..2
      /\ DOMAIN CallsOf(d) = 1..Len(CallsOf(d))
      /\ (1 + crashes) * Len(CallsOf(d)) \in Nat
  BY <1>1, SentFacts
<1>3. done[d] \in Nat /\ accepted[d] \in Nat
  BY DEF DeliveryInv, TypeOK
<1>4. Refusal(body[d]) = None
  BY <1>1, <1>2 DEF DeliveryInv, OneInv, Admitted
<1>5. result[d] = None
  BY <1>1 DEF DeliveryInv, OneInv, InPlace
<1>6. Left(d) = Len(CallsOf(d)) - done[d]
  BY <1>1 DEF Left
<1>7. accepted[d] + Doubts(d) + Left(d) <= (1 + crashes) * Len(CallsOf(d))
  BY <1>2 DEF DeliveryInv, OneInv, Counted
<1>8. Doubts(d) \in Nat
  BY DoubtsCount DEF DeliveryInv
<1>9. done[d] + 1 \in 1..Len(CallsOf(d)) /\ done[d] + 1 \in 1..2
  BY <1>1, <1>2, <1>3
<1>10. accepted[d] + Doubts(d) + (Len(CallsOf(d)) - done[d])
         <= (1 + crashes) * Len(CallsOf(d))
  BY <1>6, <1>7
<1> QED
  BY <1>1, <1>2, <1>3, <1>4, <1>5, <1>8, <1>9, <1>10

LEMMA CallAppliedKeepsInv ==
  ASSUME DeliveryInv, NEW d \in Deliveries, CallApplied(d)
  PROVE  DeliveryInv'
<1>0. PICK i : i = done[d] + 1
  OBVIOUS
<1> DEFINE r == Failure(FailureCode(body[d]))
<1>1. /\ Calling(d)
      /\ Apply(d, CallsOf(d)[i])
      /\ \/ /\ done' = [done EXCEPT ![d] = i]
            /\ UNCHANGED <<stage, result>>
         \/ /\ stage' = [stage EXCEPT ![d] = "returned"]
            /\ result' = [result EXCEPT ![d] = r]
            /\ done' = done
      /\ UNCHANGED <<late, body, answer, acked, crashes, hung, settled>>
  BY <1>0 DEF CallApplied, NextCall, Return
<1>2. r \in Result /\ ~SaysOk(r)
  BY CodesOfBodies, Results
<1>3. /\ stage[d] = "handling" /\ d \notin hung /\ result[d] = None
      /\ body[d] \in Bodies /\ Refusal(body[d]) = None
      /\ done[d] \in Nat /\ i \in 1..Len(CallsOf(d))
      /\ Len(CallsOf(d)) \in 0..2 /\ DOMAIN CallsOf(d) = 1..Len(CallsOf(d))
  BY <1>0, <1>1, CallingFacts
<1> HIDE DEF r
<1>4. /\ Grows /\ CreatedOnce' /\ Applied(d, i)'
      /\ store' \in [Targets -> Values \cup {None}]
      /\ writers' \in [Targets -> Seq(Deliveries)]
      /\ accepted' = [accepted EXCEPT ![d] = @ + 1]
  BY <1>1, <1>3, ApplyGrows DEF DeliveryInv
<1>5. TypeOK'
  <2>1. /\ stage \in [Deliveries -> Stages] /\ done \in [Deliveries -> Nat]
        /\ "returned" \in Stages /\ i \in Nat
    BY <1>0 DEF DeliveryInv, TypeOK, Stages
  <2>4. stage' \in [Deliveries -> Stages] /\ done' \in [Deliveries -> Nat]
    BY <1>1, <2>1
  <2>2. result' \in [Deliveries -> Result \cup {None}]
    BY <1>1, <1>2 DEF DeliveryInv, TypeOK
  <2>3. accepted' \in [Deliveries -> Nat]
    BY <1>4 DEF DeliveryInv, TypeOK
  <2> QED
    BY <1>1, <1>4, <2>2, <2>3, <2>4 DEF DeliveryInv, TypeOK
<1>6. Apart(d)
  BY <1>1, <1>4 DEF Apart, DeliveryInv, TypeOK
<1>7. CallsOf(d)' = CallsOf(d) /\ body'[d] = body[d] /\ body[d] # None
  BY <1>1, <1>3, DeliveryAssumption DEF CallsOf
<1>8. \/ stage'[d] = "handling" /\ done'[d] = i /\ result'[d] = None
      \/ stage'[d] = "returned" /\ done'[d] = done[d] /\ result'[d] = r
  <2>1. /\ d \in DOMAIN stage /\ d \in DOMAIN done /\ d \in DOMAIN result
        /\ stage[d] = "handling" /\ result[d] = None
    BY <1>3 DEF DeliveryInv, TypeOK
  <2> QED
    BY <1>1, <2>1
<1>9. Begun(d)' /\ InPlace(d)'
  BY <1>1, <1>3, <1>7, <1>8 DEF Begun, InPlace, DeliveryInv, OneInv
<1>10. Admitted(d)'
  BY <1>3, <1>7 DEF Admitted
<1>11. Proven(d)'
  <2>1. ASSUME NEW j \in 1..i PROVE Applied(d, j)' \/ stage'[d] # "handling"
    <3>1. CASE j = i
      BY <1>4, <3>1
    <3>2. CASE j \in 1..done[d]
      <4>1. Applied(d, j)
        BY <1>3, <3>2 DEF DeliveryInv, OneInv, Proven
      <4> QED
        BY <1>1, <1>3, <1>4, <3>2, <4>1, ProvenStays
    <3> QED
      BY <1>0, <1>3, <3>1, <3>2
  <2>2. ASSUME SaysOk(answer[d]), NEW j \in DOMAIN CallsOf(d)
        PROVE  Applied(d, j)'
    BY <1>1, <1>3, <1>4, <2>2, ProvenStays DEF DeliveryInv, OneInv, Proven
  <2>3. ~SaysOk(result'[d])
    BY <1>2, <1>8 DEF SaysOk
  <2>4. answer'[d] = answer[d]
    BY <1>1
  <2> QED
    BY <1>7, <1>8, <2>1, <2>2, <2>3, <2>4 DEF Proven, SaysOk
<1>12. Counted(d)'
  <2>1. accepted'[d] = accepted[d] + 1 /\ crashes' = crashes
    BY <1>1, <1>4 DEF DeliveryInv, TypeOK
  <2>2. Doubts(d)' = Doubts(d)
    BY <1>1 DEF Doubts
  <2>3. Left(d)' <= Len(CallsOf(d)) - done[d] - 1 /\ Left(d)' \in Int
    BY <1>0, <1>1, <1>3, <1>7, <1>8 DEF Left
  <2>4. /\ accepted[d] \in Nat /\ Doubts(d) \in Nat
        /\ (1 + crashes) * Len(CallsOf(d)) \in Nat
        /\ accepted[d] + Doubts(d) + (Len(CallsOf(d)) - done[d])
             <= (1 + crashes) * Len(CallsOf(d))
    BY <1>1, CallingFacts
  <2>5. ((1 + crashes) * Len(CallsOf(d)))' = (1 + crashes) * Len(CallsOf(d))
    BY <1>7, <2>1
  <2>6. ASSUME NEW a \in Nat, NEW q \in Nat, NEW l \in Int, NEW n \in Int,
               NEW limit \in Nat, l <= n - 1, a + q + n <= limit
        PROVE  (a + 1) + q + l <= limit
    BY <2>6
  <2>7. Len(CallsOf(d)) - done[d] \in Int
    BY <1>3
  <2>8. accepted'[d] + Doubts(d)' + Left(d)' <= (1 + crashes) * Len(CallsOf(d))
    BY <2>1, <2>2, <2>3, <2>4, <2>6, <2>7
  <2> QED
    BY <2>5, <2>8 DEF Counted
<1> QED
  BY <1>4, <1>5, <1>6, <1>9, <1>10, <1>11, <1>12, OneByOne DEF OneInv

(* A step of d that leaves GitHub alone, and the reason it gives.          *)
LEMMA CallFailedKeepsInv ==
  ASSUME DeliveryInv, NEW d \in Deliveries, CallFailed(d)
  PROVE  DeliveryInv'
<1> DEFINE i == done[d] + 1
           r == Failure(FailureCode(body[d]))
<1>1. /\ Calling(d)
      /\ late' = late \/ Doubt(d, i)
      /\ stage' = [stage EXCEPT ![d] = "returned"]
      /\ result' = [result EXCEPT ![d] = r]
      /\ UNCHANGED <<body, done, answer, acked, crashes, store, accepted,
                     writers, hung, settled>>
  BY DEF CallFailed, Return
<1>2. r \in Result /\ ~SaysOk(r)
  BY CodesOfBodies, Results
<1>3. /\ stage[d] = "handling" /\ d \notin hung /\ result[d] = None
      /\ body[d] \in Bodies /\ Refusal(body[d]) = None
      /\ done[d] \in Nat /\ i \in 1..Len(CallsOf(d)) /\ i \in 1..2
      /\ Len(CallsOf(d)) \in 0..2 /\ DOMAIN CallsOf(d) = 1..Len(CallsOf(d))
  BY <1>1, CallingFacts
<1> HIDE DEF r
<1>0. /\ late' \in [Deliveries -> [1..2 -> Nat]]
      /\ \A e \in Deliveries \ {d} : late'[e] = late[e]
      /\ \A j \in 1..2 : j # i => late'[d][j] = late[d][j]
      /\ Doubts(d)' = Doubts(d) \/ Doubts(d)' = Doubts(d) + 1
  <2>1. CASE late' = late
    BY <2>1 DEF Doubts, DeliveryInv, TypeOK
  <2>2. CASE Doubt(d, i)
    BY <1>3, <2>2, OneMoreDoubt DEF DeliveryInv
  <2> QED
    BY <1>1, <2>1, <2>2
<1>4. Grows /\ CreatedOnce'
  BY <1>1, HubRests DEF DeliveryInv
<1>5. TypeOK'
  <2>1. stage' \in [Deliveries -> Stages]
    BY <1>1 DEF DeliveryInv, TypeOK, Stages
  <2>2. result' \in [Deliveries -> Result \cup {None}]
    BY <1>1, <1>2 DEF DeliveryInv, TypeOK
  <2> QED
    BY <1>0, <1>1, <2>1, <2>2 DEF DeliveryInv, TypeOK
<1>6. Apart(d)
  BY <1>0, <1>1 DEF Apart, DeliveryInv, TypeOK
<1>7. CallsOf(d)' = CallsOf(d) /\ body'[d] = body[d] /\ body[d] # None
  BY <1>1, <1>3, DeliveryAssumption DEF CallsOf
<1>8. stage'[d] = "returned" /\ result'[d] = r
  BY <1>1 DEF DeliveryInv, TypeOK
<1>9. Begun(d)' /\ InPlace(d)'
  BY <1>0, <1>1, <1>3, <1>7, <1>8 DEF Begun, InPlace, DeliveryInv, OneInv
<1>10. Admitted(d)'
  BY <1>3, <1>7 DEF Admitted
<1>11. Proven(d)'
  <2>1. ASSUME SaysOk(answer[d]), NEW j \in DOMAIN CallsOf(d)
        PROVE  Applied(d, j)'
    BY <1>1, <1>3, <1>4, <2>1, ProvenStays DEF DeliveryInv, OneInv, Proven
  <2>2. answer'[d] = answer[d] /\ ~SaysOk(result'[d])
    BY <1>1, <1>2, <1>8
  <2> QED
    BY <1>7, <1>8, <2>1, <2>2 DEF Proven, SaysOk
<1>12. Counted(d)'
  <2>1. accepted'[d] = accepted[d] /\ crashes' = crashes
    BY <1>1
  <2>2. Doubts(d)' <= Doubts(d) + 1 /\ Doubts(d)' \in Nat
    BY <1>0, DoubtsCount DEF DeliveryInv
  <2>3. Left(d)' = 0
    BY <1>8 DEF Left
  <2> QED
    BY <1>1, <1>3, <1>7, <2>1, <2>2, <2>3, CallingFacts DEF Counted
<1> QED
  BY <1>4, <1>5, <1>6, <1>9, <1>10, <1>11, <1>12, OneByOne DEF OneInv

LEMMA CallHangsKeepsInv ==
  ASSUME DeliveryInv, NEW d \in Deliveries, CallHangs(d)
  PROVE  DeliveryInv'
<1> DEFINE i == done[d] + 1
<1>1. /\ Calling(d)
      /\ Doubt(d, i)
      /\ hung' = hung \cup {d}
      /\ UNCHANGED <<sdkVars, body, done, store, accepted, writers, settled>>
  BY DEF CallHangs
<1>2. /\ stage[d] = "handling" /\ d \notin hung /\ result[d] = None
      /\ body[d] \in Bodies /\ Refusal(body[d]) = None
      /\ done[d] \in Nat /\ i \in 1..Len(CallsOf(d)) /\ i \in 1..2
      /\ Len(CallsOf(d)) \in 0..2 /\ DOMAIN CallsOf(d) = 1..Len(CallsOf(d))
  BY <1>1, CallingFacts
<1>0. /\ late' \in [Deliveries -> [1..2 -> Nat]]
      /\ \A e \in Deliveries \ {d} : late'[e] = late[e]
      /\ \A j \in 1..2 : j # i => late'[d][j] = late[d][j]
      /\ Doubts(d)' = Doubts(d) + 1
  BY <1>1, <1>2, OneMoreDoubt DEF DeliveryInv
<1>3. Grows /\ CreatedOnce'
  BY <1>1, HubRests DEF DeliveryInv
<1>4. TypeOK'
  BY <1>0, <1>1 DEF DeliveryInv, TypeOK, sdkVars
<1>5. Apart(d)
  BY <1>0, <1>1 DEF Apart, DeliveryInv, TypeOK, sdkVars
<1>6. CallsOf(d)' = CallsOf(d) /\ body'[d] = body[d] /\ body[d] # None
  BY <1>1, <1>2, DeliveryAssumption DEF CallsOf
<1>7. Begun(d)' /\ InPlace(d)'
  BY <1>0, <1>1, <1>2, <1>6 DEF Begun, InPlace, DeliveryInv, OneInv, sdkVars
<1>8. Admitted(d)'
  BY <1>2, <1>6 DEF Admitted
<1>9. Proven(d)'
  <2>1. ASSUME NEW j \in 1..Len(CallsOf(d)), Applied(d, j)
        PROVE  Applied(d, j)'
    BY <1>1, <1>2, <1>3, <2>1, ProvenStays
  <2>2. ASSUME NEW j \in 1..done[d] PROVE Applied(d, j)'
    BY <1>2, <2>1 DEF DeliveryInv, OneInv, Proven
  <2>3. ASSUME SaysOk(result[d]) \/ SaysOk(answer[d]),
               NEW j \in DOMAIN CallsOf(d)
        PROVE  Applied(d, j)'
    BY <1>2, <2>1, <2>3 DEF DeliveryInv, OneInv, Proven
  <2> QED
    BY <1>1, <1>6, <2>2, <2>3 DEF Proven, SaysOk, sdkVars
<1>10. Counted(d)'
  <2>1. accepted'[d] = accepted[d] /\ crashes' = crashes
    BY <1>1 DEF sdkVars
  <2>2. Doubts(d)' <= Doubts(d) + 1 /\ Doubts(d)' \in Nat
    BY <1>0, DoubtsCount DEF DeliveryInv
  <2>3. Left(d)' = 0
    BY <1>1, <1>2 DEF Left, sdkVars
  <2> QED
    BY <1>1, <1>2, <1>6, <2>1, <2>2, <2>3, CallingFacts DEF Counted
<1> QED
  BY <1>3, <1>4, <1>5, <1>7, <1>8, <1>9, <1>10, OneByOne DEF OneInv

LEMMA CallLandsKeepsInv ==
  ASSUME DeliveryInv, NEW d \in Deliveries, NEW i \in 1..2, CallLands(d, i)
  PROVE  DeliveryInv'
<1>1. /\ late[d][i] > 0
      /\ late' = [late EXCEPT ![d][i] = @ - 1]
      /\ Apply(d, CallsOf(d)[i])
      /\ UNCHANGED <<sdkVars, body, done, hung, settled>>
  BY DEF CallLands
<1>2. stage[d] # "unsent" /\ i <= Len(CallsOf(d))
  BY <1>1 DEF DeliveryInv, OneInv, Begun, InPlace
<1>3. /\ body[d] \in Bodies /\ body[d] # None /\ i \in 1..Len(CallsOf(d))
      /\ Len(CallsOf(d)) \in 0..2 /\ DOMAIN CallsOf(d) = 1..Len(CallsOf(d))
  BY <1>2, SentFacts
<1>4. /\ Grows /\ CreatedOnce'
      /\ store' \in [Targets -> Values \cup {None}]
      /\ writers' \in [Targets -> Seq(Deliveries)]
      /\ accepted' = [accepted EXCEPT ![d] = @ + 1]
  BY <1>1, <1>3, ApplyGrows DEF DeliveryInv
<1>0. /\ late' \in [Deliveries -> [1..2 -> Nat]]
      /\ \A e \in Deliveries \ {d} : late'[e] = late[e]
      /\ \A j \in 1..2 : late'[d][j] > 0 => late[d][j] > 0
      /\ Doubts(d)' = Doubts(d) - 1
  BY <1>1, OneLessDoubt DEF DeliveryInv
<1>5. TypeOK'
  <2>1. accepted' \in [Deliveries -> Nat]
    BY <1>4 DEF DeliveryInv, TypeOK
  <2> QED
    BY <1>0, <1>1, <1>4, <2>1 DEF DeliveryInv, TypeOK, sdkVars
<1>6. Apart(d)
  BY <1>0, <1>1, <1>4 DEF Apart, DeliveryInv, TypeOK, sdkVars
<1>7. CallsOf(d)' = CallsOf(d)
  BY <1>1 DEF CallsOf
<1>8. Begun(d)' /\ InPlace(d)'
  BY <1>0, <1>1, <1>3, <1>7 DEF Begun, InPlace, DeliveryInv, OneInv, sdkVars
<1>9. Admitted(d)'
  BY <1>1, <1>3 DEF Admitted, DeliveryInv, OneInv
<1>10. Proven(d)'
  <2>1. ASSUME NEW j \in 1..Len(CallsOf(d)), Applied(d, j)
        PROVE  Applied(d, j)'
    BY <1>1, <1>2, <1>4, <2>1, ProvenStays
  <2>2. ASSUME stage[d] = "handling", NEW j \in 1..done[d]
        PROVE  Applied(d, j)'
    <3>1. done[d] \in Nat /\ done[d] <= Len(CallsOf(d))
      BY <2>2 DEF DeliveryInv, OneInv, InPlace, TypeOK
    <3>2. Applied(d, j)
      BY <2>2 DEF DeliveryInv, OneInv, Proven
    <3> QED
      BY <1>3, <2>1, <3>1, <3>2
  <2>3. ASSUME SaysOk(result[d]) \/ SaysOk(answer[d]),
               NEW j \in DOMAIN CallsOf(d)
        PROVE  Applied(d, j)'
    BY <1>3, <2>1, <2>3 DEF DeliveryInv, OneInv, Proven
  <2> QED
    BY <1>1, <1>7, <2>2, <2>3 DEF Proven, SaysOk, sdkVars
<1>11. Counted(d)'
  <2>1. accepted'[d] = accepted[d] + 1 /\ crashes' = crashes
        /\ accepted[d] \in Nat
    BY <1>1, <1>4 DEF DeliveryInv, TypeOK, sdkVars
  <2>2. Doubts(d)' = Doubts(d) - 1 /\ Doubts(d) \in Nat
    BY <1>0, DoubtsCount DEF DeliveryInv
  <2>3. Left(d)' = Left(d)
    BY <1>1, <1>7 DEF Left, sdkVars
  <2>4. Left(d) \in Int
    BY <1>3 DEF Left, DeliveryInv, TypeOK
  <2>5. accepted[d] + Doubts(d) + Left(d) <= (1 + crashes) * Len(CallsOf(d))
    BY <1>3 DEF DeliveryInv, OneInv, Counted
  <2>6. accepted'[d] + Doubts(d)' + Left(d)' = accepted[d] + Doubts(d) + Left(d)
    BY <2>1, <2>2, <2>3, <2>4
  <2> QED
    BY <1>7, <2>1, <2>5, <2>6 DEF Counted
<1> QED
  BY <1>4, <1>5, <1>6, <1>8, <1>9, <1>10, <1>11, OneByOne DEF OneInv

(* A step that touches nothing but what d has returned and been answered.  *)
LEMMA AnswersKeepInv ==
  ASSUME DeliveryInv, NEW d \in Deliveries, stage[d] # "unsent",
         UNCHANGED <<hubVars, body, done, crashes, hung, settled>>,
         TypeOK', Apart(d), InPlace(d)',
         stage'[d] = stage[d] \/ stage'[d] = "returned",
         SaysOk(result'[d]) \/ SaysOk(answer'[d]) =>
           \/ SaysOk(result[d]) \/ SaysOk(answer[d])
           \/ stage[d] = "handling" /\ done[d] = Len(CallsOf(d))
  PROVE  DeliveryInv'
<1>1. Grows /\ CreatedOnce'
  BY HubRests DEF DeliveryInv, hubVars
<1>2. /\ body[d] \in Bodies /\ body[d] # None
      /\ Len(CallsOf(d)) \in 0..2 /\ DOMAIN CallsOf(d) = 1..Len(CallsOf(d))
      /\ (1 + crashes) * Len(CallsOf(d)) \in Nat
  BY SentFacts
<1>3. CallsOf(d)' = CallsOf(d)
  BY DEF CallsOf
<1>4. Begun(d)'
  BY <1>2 DEF Begun, DeliveryInv, OneInv
<1>5. Admitted(d)'
  <2>1. \/ Refusal(body[d]) = None
        \/ /\ ~(SaysOk(result[d]) \/ SaysOk(answer[d]))
           /\ stage[d] # "handling"
    BY <1>2 DEF Admitted, DeliveryInv, OneInv
  <2>2. CASE Refusal(body[d]) = None
    BY <2>2 DEF Admitted
  <2>3. CASE Refusal(body[d]) # None
    <3>1. ~SaysOk(result'[d]) /\ ~SaysOk(answer'[d]) /\ stage'[d] # "handling"
      BY <2>1, <2>3
    <3> QED
      BY <2>3, <3>1, <1>2 DEF Admitted, DeliveryInv, OneInv, hubVars, SaysOk
  <2> QED
    BY <2>2, <2>3
<1>6. Proven(d)'
  <2>1. ASSUME NEW j \in 1..Len(CallsOf(d)), Applied(d, j)
        PROVE  Applied(d, j)'
    BY <1>1, <2>1, ProvenStays
  <2>2. ASSUME stage[d] = "handling", NEW j \in 1..done[d]
        PROVE  Applied(d, j)'
    BY <1>2, <2>1, <2>2 DEF DeliveryInv, OneInv, Proven, InPlace, TypeOK
  <2>3. ASSUME SaysOk(result[d]) \/ SaysOk(answer[d]),
               NEW j \in DOMAIN CallsOf(d)
        PROVE  Applied(d, j)'
    BY <1>2, <2>1, <2>3 DEF DeliveryInv, OneInv, Proven
  <2> QED
    BY <1>2, <1>3, <2>2, <2>3 DEF Proven, SaysOk
<1>7. Counted(d)'
  <2>1. /\ accepted'[d] = accepted[d] /\ accepted[d] \in Nat
        /\ Doubts(d)' = Doubts(d) /\ Doubts(d) \in Nat
    BY DoubtsCount DEF hubVars, Doubts, DeliveryInv, TypeOK
  <2>2. Left(d)' <= Left(d) /\ Left(d) \in Int /\ Left(d)' \in Int
    BY <1>2, <1>3 DEF Left, DeliveryInv, OneInv, InPlace, TypeOK
  <2>3. accepted[d] + Doubts(d) + Left(d) <= (1 + crashes) * Len(CallsOf(d))
    BY <1>2 DEF DeliveryInv, OneInv, Counted
  <2>4. accepted'[d] + Doubts(d)' + Left(d)' <= (1 + crashes) * Len(CallsOf(d))
    BY <1>2, <2>1, <2>2, <2>3
  <2> QED
    BY <1>3, <2>4 DEF Counted
<1> QED
  BY <1>1, <1>4, <1>5, <1>6, <1>7, OneByOne DEF OneInv

LEMMA FinishKeepsInv ==
  ASSUME DeliveryInv, NEW d \in Deliveries, Finish(d)
  PROVE  DeliveryInv'
<1>1. PICK r \in Result :
        /\ stage[d] = "handling" /\ done[d] = Len(CallsOf(d))
        /\ stage' = [stage EXCEPT ![d] = "returned"]
        /\ result' = [result EXCEPT ![d] = r]
        /\ UNCHANGED <<hubVars, body, done, answer, acked, crashes, hung,
                       settled>>
  BY Results DEF Finish, Return, Codes
<1>2. d \notin hung
  <2>1. Len(CallsOf(d)) \in Int
    BY <1>1, SentFacts
  <2> QED
    <3>1. InPlace(d)
      BY DEF DeliveryInv, OneInv
    <3>2. d \in hung => done[d] < Len(CallsOf(d))
      BY <3>1 DEF InPlace
    <3> QED
      BY <1>1, <2>1, <3>2
<1>3. TypeOK'
  <2>1. stage' \in [Deliveries -> Stages]
    BY <1>1 DEF DeliveryInv, TypeOK, Stages
  <2>2. result' \in [Deliveries -> Result \cup {None}]
    BY <1>1 DEF DeliveryInv, TypeOK
  <2> QED
    BY <1>1, <2>1, <2>2 DEF DeliveryInv, TypeOK, hubVars
<1>4. Apart(d)
  BY <1>1 DEF Apart, DeliveryInv, TypeOK, hubVars
<1>5. stage'[d] = "returned"
  BY <1>1 DEF DeliveryInv, TypeOK
<1>6. InPlace(d)'
  BY <1>1, <1>2, <1>5 DEF InPlace, DeliveryInv, OneInv, hubVars, CallsOf
<1> QED
  BY <1>1, <1>3, <1>4, <1>5, <1>6, AnswersKeepInv

LEMMA ReplyKeepsInv ==
  ASSUME DeliveryInv, NEW d \in Deliveries, Reply(d)
  PROVE  DeliveryInv'
<1>1. /\ stage[d] = "returned" /\ result[d] # None
      /\ \/ answer' = answer
         \/ answer' = [answer EXCEPT ![d] = result[d]]
      /\ result' = [result EXCEPT ![d] = None]
      /\ UNCHANGED <<hubVars, stage, body, done, acked, crashes, hung, settled>>
  <2>1. (answer[d] ?? result[d]) \in {answer[d], result[d]}
    BY DEF ??
  <2> QED
    BY <2>1 DEF Reply, DeliveryInv, TypeOK
<1>2. TypeOK'
  <2>1. /\ result' \in [Deliveries -> Result \cup {None}]
        /\ answer' \in [Deliveries -> Result \cup {None}]
    BY <1>1 DEF DeliveryInv, TypeOK
  <2> QED
    BY <1>1, <2>1 DEF DeliveryInv, TypeOK, hubVars
<1>3. Apart(d)
  BY <1>1 DEF Apart, DeliveryInv, TypeOK, hubVars
<1>4. InPlace(d)'
  BY <1>1 DEF InPlace, DeliveryInv, OneInv, hubVars, CallsOf
<1>5. result'[d] = None /\ answer'[d] \in {answer[d], result[d]}
  BY <1>1 DEF DeliveryInv, TypeOK
<1>6. SaysOk(result'[d]) \/ SaysOk(answer'[d]) =>
        SaysOk(result[d]) \/ SaysOk(answer[d])
  BY <1>5 DEF SaysOk
<1> QED
  BY <1>1, <1>2, <1>3, <1>4, <1>6, AnswersKeepInv

LEMMA AckKeepsInv ==
  ASSUME DeliveryInv, NEW d \in Deliveries, Ack(d)
  PROVE  DeliveryInv'
<1>1. /\ stage[d] = "returned"
      /\ acked' = [acked EXCEPT ![d] = TRUE]
      /\ UNCHANGED <<hubVars, stage, body, done, result, answer, crashes, hung,
                     settled>>
  BY DEF Ack
<1>2. TypeOK'
  BY <1>1 DEF DeliveryInv, TypeOK, hubVars
<1>3. Apart(d)
  BY <1>1 DEF Apart, hubVars
<1>4. InPlace(d)'
  BY <1>1 DEF InPlace, DeliveryInv, OneInv, hubVars, CallsOf
<1> QED
  BY <1>1, <1>2, <1>3, <1>4, AnswersKeepInv

LEMMA GiveUpKeepsInv ==
  ASSUME DeliveryInv, NEW d \in Deliveries, GiveUp(d)
  PROVE  DeliveryInv'
<1>1. /\ body[d] # None
      /\ answer' = [answer EXCEPT ![d] = Failure("timeout")]
      /\ UNCHANGED <<hubVars, stage, body, done, result, acked, crashes, hung,
                     settled>>
  BY DEF GiveUp
<1>2. stage[d] # "unsent"
  BY <1>1 DEF DeliveryInv, OneInv, Begun
<1>3. Failure("timeout") \in Result /\ ~SaysOk(Failure("timeout"))
  BY Results DEF Codes
<1>4. TypeOK'
  <2>1. answer' \in [Deliveries -> Result \cup {None}]
    BY <1>1, <1>3 DEF DeliveryInv, TypeOK
  <2> QED
    BY <1>1, <2>1 DEF DeliveryInv, TypeOK, hubVars
<1>5. Apart(d)
  BY <1>1 DEF Apart, DeliveryInv, TypeOK, hubVars
<1>6. InPlace(d)'
  BY <1>1 DEF InPlace, DeliveryInv, OneInv, hubVars, CallsOf
<1>7. answer'[d] = Failure("timeout") /\ result'[d] = result[d]
  BY <1>1 DEF DeliveryInv, TypeOK
<1>8. SaysOk(result'[d]) \/ SaysOk(answer'[d]) => SaysOk(result[d])
  BY <1>3, <1>7
<1> QED
  BY <1>1, <1>2, <1>4, <1>5, <1>6, <1>8, AnswersKeepInv

(* A process stops; whatever it has not acknowledged starts again.         *)
LEMMA CrashKeepsInv ==
  ASSUME DeliveryInv, NEW gone \in SUBSET Held, Crash(gone)
  PROVE  DeliveryInv'
<1> DEFINE new(d, i) == IF /\ d \in gone /\ Calling(d) /\ "late" \in Faults
                           /\ i \in (done[d] + 1)..Len(CallsOf(d))
                        THEN late[d][i] + 1 ELSE late[d][i]
<1>1. /\ crashes < MaxCrashes /\ crashes' = crashes + 1
      /\ stage' = [d \in Deliveries |-> IF d \in gone /\ ~acked[d]
                                        THEN "queued" ELSE stage[d]]
      /\ result' = [d \in Deliveries |-> IF d \in gone
                                         THEN None ELSE result[d]]
      /\ late' = [d \in Deliveries |-> [i \in 1..2 |-> new(d, i)]]
      /\ hung' = hung \ gone
      /\ UNCHANGED <<body, done, answer, acked, store, accepted, writers,
                     settled>>
  BY DEF Crash
<1>2. ASSUME NEW d \in Deliveries, NEW i \in 1..2
      PROVE  /\ new(d, i) \in Nat
             /\ \/ new(d, i) = late[d][i]
                \/ /\ new(d, i) = late[d][i] + 1 /\ d \in gone /\ Calling(d)
                   /\ i \in (done[d] + 1)..Len(CallsOf(d))
  <2>1. late[d][i] \in Nat
    BY <1>2 DEF DeliveryInv, TypeOK
  <2> QED
    BY <2>1
<1>3. \A d \in Deliveries, i \in 1..2 : late'[d][i] = new(d, i)
  BY <1>1
<1> HIDE DEF new
<1>4. crashes \in Nat /\ crashes' \in 0..MaxCrashes
  BY <1>1, DeliveryAssumption DEF DeliveryInv, TypeOK
<1>5. TypeOK'
  <2>1. stage' \in [Deliveries -> Stages]
    BY <1>1 DEF DeliveryInv, TypeOK, Stages
  <2>2. late' \in [Deliveries -> [1..2 -> Nat]]
    BY <1>1, <1>2
  <2>3. result' \in [Deliveries -> Result \cup {None}]
    BY <1>1 DEF DeliveryInv, TypeOK
  <2> QED
    BY <1>1, <1>4, <2>1, <2>2, <2>3 DEF DeliveryInv, TypeOK
<1>6. Grows /\ CreatedOnce'
  BY <1>1, HubRests DEF DeliveryInv
<1>7. ASSUME NEW d \in Deliveries PROVE OneInv(d)'
  <2>0. d \in gone => stage[d] \in {"handling", "returned"}
    BY DEF Held
  <2>1. CallsOf(d)' = CallsOf(d) /\ body'[d] = body[d] /\ answer'[d] = answer[d]
        /\ accepted'[d] = accepted[d] /\ done'[d] = done[d]
    BY <1>1 DEF CallsOf
  <2>2. /\ result'[d] \in {None, result[d]}
        /\ stage'[d] \in {stage[d], "queued"}
        /\ stage'[d] = "queued" => stage[d] = "queued" \/ d \in gone
        /\ stage'[d] = "queued" => result'[d] = None \/ stage[d] = "queued"
        /\ stage'[d] = "unsent" <=> stage[d] = "unsent"
        /\ d \in hung' <=> d \in hung /\ d \notin gone
    BY <1>1, <2>0
  <2>3. \A i \in 1..2 :
          \/ late'[d][i] = late[d][i]
          \/ /\ late'[d][i] = late[d][i] + 1 /\ d \in gone /\ Calling(d)
             /\ i \in (done[d] + 1)..Len(CallsOf(d))
    BY <1>2, <1>3
  <2>4. Begun(d)'
    BY <2>1, <2>2, <2>3 DEF Begun, DeliveryInv, OneInv, Calling
  <2>5. InPlace(d)'
    <3>1. InPlace(d)
      BY DEF DeliveryInv, OneInv
    <3>2. \A i \in 1..2 : late'[d][i] > 0 => i <= Len(CallsOf(d))
      BY <2>3, <3>1, CallingFacts DEF InPlace
    <3>3. stage'[d] # "returned" => result'[d] = None
      BY <2>2, <3>1 DEF InPlace
    <3>4. d \in hung' => stage'[d] = "handling" /\ done[d] < Len(CallsOf(d))
      BY <2>2, <3>1 DEF InPlace
    <3> QED
      BY <2>1, <2>2, <3>1, <3>2, <3>3, <3>4 DEF InPlace
  <2>6. Admitted(d)'
    BY <2>1, <2>2, <2>3, CallingFacts
       DEF Admitted, DeliveryInv, OneInv, SaysOk
  <2>7. Proven(d)'
    <3>1. CASE stage[d] = "unsent"
      BY <2>1, <2>2, <3>1 DEF Proven, DeliveryInv, OneInv, Begun, SaysOk
    <3>2. CASE stage[d] # "unsent"
      <4>1. ASSUME NEW j \in 1..Len(CallsOf(d)), Applied(d, j)
            PROVE  Applied(d, j)'
        BY <1>1, <1>6, <3>2, <4>1, ProvenStays
      <4>2. ASSUME stage[d] = "handling", NEW j \in 1..done[d]
            PROVE  Applied(d, j)'
        <5>1. done[d] \in Nat /\ done[d] <= Len(CallsOf(d))
          BY <4>2 DEF DeliveryInv, OneInv, InPlace, TypeOK
        <5>2. Applied(d, j)
          BY <4>2 DEF DeliveryInv, OneInv, Proven
        <5> QED
          BY <3>2, <4>1, <5>1, <5>2, SentFacts
      <4>3. ASSUME SaysOk(result[d]) \/ SaysOk(answer[d]),
                   NEW j \in DOMAIN CallsOf(d)
            PROVE  Applied(d, j)'
        BY <3>2, <4>1, <4>3, SentFacts DEF DeliveryInv, OneInv, Proven
      <4> QED
        BY <2>1, <2>2, <4>2, <4>3 DEF Proven, SaysOk
    <3> QED
      BY <3>1, <3>2
  <2>8. Counted(d)'
    <3>1. CASE body[d] = None
      BY <2>1, <3>1 DEF Counted
    <3>2. CASE body[d] # None
      <4>1. stage[d] # "unsent"
        BY <3>2 DEF DeliveryInv, OneInv, Begun
      <4>2. /\ Len(CallsOf(d)) \in 0..2 /\ accepted[d] \in Nat
            /\ (1 + crashes) * Len(CallsOf(d)) \in Nat
            /\ Doubts(d) \in Nat /\ Doubts(d)' \in Nat
        <5>1. Doubts(d)' \in Nat
          <6>1. late'[d] \in [1..2 -> Nat] /\ 1 \in 1..2 /\ 2 \in 1..2
            BY <1>5 DEF TypeOK
          <6> QED
            BY <6>1 DEF Doubts
        <5> QED
          BY <4>1, <5>1, SentFacts, DoubtsCount DEF DeliveryInv, TypeOK
      <4>7. stage[d] = "handling" => done[d] \in 0..Len(CallsOf(d))
        <5>1. InPlace(d) /\ done[d] \in Nat
          BY DEF DeliveryInv, OneInv, TypeOK
        <5> QED
          BY <4>2, <5>1 DEF InPlace
      <4>3. Left(d)' <= Len(CallsOf(d)) /\ Left(d)' \in Nat
        BY <2>1, <2>2, <4>2, <4>7 DEF Left
      <4>4. accepted[d] + Doubts(d)' <= (1 + crashes) * Len(CallsOf(d))
        <5>0. late[d][1] \in Nat /\ late[d][2] \in Nat
              /\ 1 \in 1..2 /\ 2 \in 1..2
          BY DoubtsCount DEF DeliveryInv
        <5>1. CASE Calling(d)
          <6>1. /\ done[d] \in 0..1 /\ done[d] < Len(CallsOf(d))
                /\ accepted[d] + Doubts(d) + (Len(CallsOf(d)) - done[d])
                     <= (1 + crashes) * Len(CallsOf(d))
            BY <4>2, <5>1, CallingFacts
          <6>2. /\ \/ late'[d][1] = late[d][1]
                   \/ late'[d][1] = late[d][1] + 1 /\ done[d] = 0
                /\ \/ late'[d][2] = late[d][2]
                   \/ late'[d][2] = late[d][2] + 1 /\ Len(CallsOf(d)) = 2
            <7>1. /\ 1 \in (done[d] + 1)..Len(CallsOf(d)) => done[d] = 0
                  /\ 2 \in (done[d] + 1)..Len(CallsOf(d)) =>
                       Len(CallsOf(d)) = 2
              <8>1. ASSUME NEW n \in 0..2, NEW k \in 0..1
                    PROVE  /\ 1 \in (k + 1)..n => k = 0
                           /\ 2 \in (k + 1)..n => n = 2
                BY <8>1
              <8> QED
                BY <4>2, <6>1, <8>1
            <7>2. /\ \/ late'[d][1] = late[d][1]
                     \/ /\ late'[d][1] = late[d][1] + 1
                        /\ 1 \in (done[d] + 1)..Len(CallsOf(d))
                  /\ \/ late'[d][2] = late[d][2]
                     \/ /\ late'[d][2] = late[d][2] + 1
                        /\ 2 \in (done[d] + 1)..Len(CallsOf(d))
              BY <2>3, <5>0
            <7> QED
              BY <7>1, <7>2
          <6>3. ASSUME NEW n \in 0..2, NEW k \in 0..1, k < n,
                       NEW u \in Nat, NEW v \in Nat, NEW x, NEW y,
                       x = u \/ (x = u + 1 /\ k = 0),
                       y = v \/ (y = v + 1 /\ n = 2)
                PROVE  x + y <= u + v + (n - k)
            <7>1. n = 2 \/ (n = 1 /\ k = 0)
              BY <6>3
            <7>2. x <= u + (1 - k) /\ x \in Nat
              BY <6>3
            <7>3. y <= v + (n - 1) /\ y \in Nat
              BY <6>3, <7>1
            <7> QED
              BY <7>1, <7>2, <7>3
          <6>4. Doubts(d)' <= Doubts(d) + (Len(CallsOf(d)) - done[d])
            <7>1. late'[d][1] + late'[d][2]
                    <= late[d][1] + late[d][2] + (Len(CallsOf(d)) - done[d])
              BY <4>2, <5>0, <6>1, <6>2, <6>3
            <7> QED
              BY <7>1 DEF Doubts
          <6>5. ASSUME NEW a \in Nat, NEW q \in Nat, NEW p \in Nat,
                       NEW n \in Int, NEW limit \in Nat,
                       p <= q + n, a + q + n <= limit
                PROVE  a + p <= limit
            BY <6>5
          <6>6. Len(CallsOf(d)) - done[d] \in Int
            BY <4>2, <6>1
          <6> QED
            BY <4>2, <6>1, <6>4, <6>5, <6>6
        <5>2. CASE ~Calling(d)
          <6>1. Doubts(d)' = Doubts(d)
            BY <2>3, <5>0, <5>2 DEF Doubts
          <6>2. Left(d) \in Nat
            BY <4>2, <4>7 DEF Left
          <6>3. accepted[d] + Doubts(d) + Left(d)
                  <= (1 + crashes) * Len(CallsOf(d))
            BY <3>2 DEF DeliveryInv, OneInv, Counted
          <6> QED
            BY <4>2, <6>1, <6>2, <6>3
        <5> QED
          BY <5>1, <5>2
      <4>5. (1 + crashes') * Len(CallsOf(d))
              = (1 + crashes) * Len(CallsOf(d)) + Len(CallsOf(d))
        BY <1>1, <1>4, <4>2, Rounds
      <4>6. accepted[d] + Doubts(d)' + Left(d)'
              <= (1 + crashes) * Len(CallsOf(d)) + Len(CallsOf(d))
        BY <4>2, <4>3, <4>4
      <4> QED
        BY <2>1, <4>5, <4>6 DEF Counted
    <3> QED
      BY <3>1, <3>2
  <2> QED
    BY <2>4, <2>5, <2>6, <2>7, <2>8 DEF OneInv
<1> QED
  BY <1>5, <1>6, <1>7 DEF DeliveryInv
-----------------------------------------------------------------------------
LEMMA InitHasInv == Init => DeliveryInv
<1> SUFFICES ASSUME Init PROVE DeliveryInv
  OBVIOUS
<1>1. TypeOK
  <2>1. 0 \in 0..MaxCrashes
    BY DeliveryAssumption
  <2> QED
    BY <2>1 DEF Init, TypeOK, Stages
<1>2. CreatedOnce
  BY DEF Init, CreatedOnce
<1>3. ASSUME NEW d \in Deliveries PROVE OneInv(d)
  BY DEF Init, OneInv, Begun, InPlace, Admitted, Proven, Counted, SaysOk
<1> QED
  BY <1>1, <1>2, <1>3 DEF DeliveryInv

(* A step that changes nothing.                                            *)
LEMMA StutterKeepsInv ==
  ASSUME DeliveryInv, UNCHANGED vars
  PROVE  DeliveryInv'
<1>1. TypeOK' /\ Grows /\ CreatedOnce'
  BY HubRests DEF DeliveryInv, TypeOK, vars, sdkVars, hubVars
<1>2. ASSUME NEW d \in Deliveries PROVE OneInv(d)'
  BY <1>1, OthersRest DEF DeliveryInv, vars, sdkVars, hubVars
<1> QED
  BY <1>1, <1>2 DEF DeliveryInv

(* Through every interleaving, fault and crash, replies, calls and what    *)
(* GitHub holds stay consistent (execute.go:22, rpc.go:41).                *)
THEOREM DeliveryInvariant == Spec => []DeliveryInv
<1>1. ASSUME DeliveryInv, Next PROVE DeliveryInv'
  <2>1. ASSUME NEW d \in Deliveries,
               \/ Send(d) \/ Receive(d) \/ Work(d) \/ CallHangs(d)
               \/ Finish(d) \/ Reply(d) \/ Ack(d) \/ GiveUp(d)
               \/ \E i \in 1..2 : CallLands(d, i)
        PROVE  DeliveryInv'
    BY <1>1, <2>1, SendKeepsInv, ReceiveKeepsInv, CallAppliedKeepsInv,
       CallFailedKeepsInv, CallHangsKeepsInv, FinishKeepsInv, ReplyKeepsInv,
       AckKeepsInv, GiveUpKeepsInv, CallLandsKeepsInv DEF Work
  <2> QED
    BY <1>1, <2>1, CrashKeepsInv DEF Next
<1> QED
  BY <1>1, InitHasInv, StutterKeepsInv, PTL DEF Spec

(* Every reply has one of the codes of execute.go:24-47 and the rest its   *)
(* type.                                                                   *)
THEOREM TypeCorrect == Spec => []TypeOK
<1>1. DeliveryInv => TypeOK
  BY DEF DeliveryInv
<1> QED
  BY <1>1, DeliveryInvariant, PTL

(* An "ok" reply (execute.go:47) is true: every call of the operation was  *)
(* applied for this delivery, and what it sets or creates is there.        *)
THEOREM OkRepliesAreTrue == Spec => []OkIsTrue
<1>1. ASSUME DeliveryInv PROVE OkIsTrue
  <2> SUFFICES ASSUME NEW d \in Deliveries, Ok(d), NEW i \in DOMAIN CallsOf(d)
               PROVE  Applied(d, i)
    BY DEF OkIsTrue, Applied
  <2>1. Proven(d) /\ SaysOk(answer[d])
    BY <1>1 DEF DeliveryInv, OneInv, Ok, SaysOk
  <2> QED
    BY <2>1 DEF Proven
<1> QED
  BY <1>1, DeliveryInvariant, PTL

(* What is not supported never reaches GitHub, neither by its capability   *)
(* (execute.go:34) nor by its operation (spec.go:258-298), and is never    *)
(* answered "ok".                                                          *)
THEOREM UnsupportedHasNoEffect == Spec => []UnsupportedStaysOut
<1>1. ASSUME DeliveryInv PROVE UnsupportedStaysOut
  <2> SUFFICES ASSUME NEW d \in Deliveries, accepted[d] > 0 \/ Ok(d),
                      body[d] \notin SupportedBodies
               PROVE  FALSE
    BY DEF UnsupportedStaysOut
  <2>1. body[d] \in Bodies /\ body[d] # None
    <3>1. body[d] = None => accepted[d] = 0 /\ ~Ok(d)
      BY <1>1 DEF DeliveryInv, OneInv, Begun, Ok
    <3>2. accepted[d] \in Nat /\ body[d] \in Bodies \cup {None}
      BY <1>1 DEF DeliveryInv, TypeOK
    <3> QED
      BY <3>1, <3>2
  <2>2. Refusal(body[d]) # None
    BY <2>1, UnsupportedIsRefused DEF SupportedBodies
  <2> QED
    BY <1>1, <2>1, <2>2 DEF DeliveryInv, OneInv, Admitted, Ok, SaysOk
<1> QED
  BY <1>1, DeliveryInvariant, PTL

(* The adapter repeats no call: each crash allows one more round of them,  *)
(* late ones included.                                                     *)
THEOREM OneRoundPerProcess == Spec => []NoRepeatWithoutCrash
<1>1. ASSUME DeliveryInv PROVE NoRepeatWithoutCrash
  <2> SUFFICES ASSUME NEW d \in Deliveries, Sent(d)
               PROVE  accepted[d] <= (1 + crashes) * Len(CallsOf(d))
    BY DEF NoRepeatWithoutCrash
  <2>1. body[d] # None /\ stage[d] # "unsent"
    BY <1>1 DEF Sent, DeliveryInv, OneInv, Begun
  <2>2. /\ Len(CallsOf(d)) \in Nat
        /\ (1 + crashes) * Len(CallsOf(d)) \in Nat
    BY <1>1, <2>1, SentFacts
  <2>3. accepted[d] + Doubts(d) + Left(d) <= (1 + crashes) * Len(CallsOf(d))
    BY <1>1, <2>1 DEF DeliveryInv, OneInv, Counted
  <2>4. accepted[d] \in Nat /\ Doubts(d) \in Nat
    BY <1>1, DoubtsCount DEF DeliveryInv, TypeOK
  <2>5. Left(d) \in Nat
    <3>1. InPlace(d) /\ done[d] \in Nat
      BY <1>1 DEF DeliveryInv, OneInv, TypeOK
    <3> QED
      BY <2>2, <3>1 DEF Left, InPlace
  <2> QED
    BY <2>2, <2>3, <2>4, <2>5
<1> QED
  BY <1>1, DeliveryInvariant, PTL

(* Of two deliveries that create the same repository, branch or pull       *)
(* request one at most is told "ok": GitHub takes one, and the other's     *)
(* answer is not among the expected statuses.                              *)
THEOREM OneIsTold == Spec => []OneCreator
<1>1. ASSUME DeliveryInv PROVE OneCreator
  <2> SUFFICES ASSUME NEW d \in Deliveries, NEW e \in Deliveries, d # e,
                      Ok(d), Ok(e),
                      NEW i \in DOMAIN CallsOf(d), NEW j \in DOMAIN CallsOf(e),
                      CallsOf(d)[i].kind = "create",
                      CallsOf(d)[i].target = CallsOf(e)[j].target
               PROVE  FALSE
    BY DEF OneCreator
  <2> DEFINE t == CallsOf(d)[i].target
  <2>1. stage[d] # "unsent" /\ stage[e] # "unsent"
    BY <1>1 DEF Ok, DeliveryInv, OneInv, Begun
  <2>2. /\ WellFormed(CallsOf(d)[i]) /\ WellFormed(CallsOf(e)[j])
        /\ t \in Targets
    BY <1>1, <2>1, SentFacts
  <2>3. Applied(d, i) /\ Applied(e, j)
    BY <1>1 DEF Ok, SaysOk, DeliveryInv, OneInv, Proven
  <2>4. t[1] \in CreatedThings /\ CallsOf(e)[j].kind = "create"
    BY <2>2 DEF WellFormed
  <2>5. d \in Range(writers[t]) /\ e \in Range(writers[t])
    BY <2>3, <2>4 DEF Applied
  <2>6. Len(writers[t]) <= 1 /\ writers[t] \in Seq(Deliveries)
    BY <1>1, <2>2, <2>4 DEF DeliveryInv, CreatedOnce, TypeOK
  <2> HIDE DEF t
  <2>7. \A k \in DOMAIN writers[t] : k = 1
    BY <2>6
  <2> QED
    BY <2>5, <2>7 DEF Range
<1> QED
  BY <1>1, DeliveryInvariant, PTL
-----------------------------------------------------------------------------
(* What a failure means, of one call that changes something: the handler   *)
(* has not given up while GitHub might still apply it.                     *)
Single(d) == /\ body[d] # None /\ Len(CallsOf(d)) = 1
             /\ CallsOf(d)[1].kind # "get"

NoDoubt(d) == \A i \in 1..2 : late[d][i] = 0

Blameless(d) ==
  /\ stage[d] = "queued" => accepted[d] = 0 /\ NoDoubt(d)
  /\ stage[d] = "handling" /\ d \notin hung =>
       accepted[d] = done[d] /\ NoDoubt(d)
  /\ stage[d] = "returned" => NoDoubt(d)
  /\ stage[d] # "returned" => ~Blames(answer[d])
  /\ Blames(result[d]) \/ Blames(answer[d]) => accepted[d] = 0

BlameInv ==
  \A d \in Deliveries : crashes = 0 /\ Single(d) => Blameless(d)

(* list_runners, which can fail after its call, only reads.                *)
LEMMA RunnersOnlyRead ==
  ASSUME NEW b, Operation(b) = "list_runners"
  PROVE  \A i \in DOMAIN Calls(b) : Calls(b)[i].kind = "get"
<1>1. Calls(b) = RunnersCalls(b)
  BY DEF Calls, Execute, IsTyped
<1>2. ASSUME NEW call, call.kind = "get"
      PROVE  \A i \in DOMAIN <<call>> : <<call>>[i].kind = "get"
  BY <1>2
<1>3. NewCall("get", <<"runners", RunnerScope(b)>>, NoBody, {200}).kind = "get"
  BY DEF NewCall
<1> QED
  BY <1>1, <1>2, <1>3 DEF RunnersCalls, OneCall

(* What happens to one delivery: every step but a crash.                   *)
Acts(d) ==
  \/ Send(d) \/ Receive(d) \/ CallApplied(d) \/ CallFailed(d)
  \/ CallHangs(d) \/ Finish(d) \/ Reply(d) \/ Ack(d) \/ GiveUp(d)
  \/ \E i \in 1..2 : CallLands(d, i)

LEMMA NextIsOneActs ==
  ASSUME Next
  PROVE  \/ \E gone \in SUBSET Held : Crash(gone)
         \/ \E d \in Deliveries : Acts(d)
BY DEF Next, Work, Acts

LEMMA ActsApart ==
  ASSUME DeliveryInv, NEW d \in Deliveries, Acts(d)
  PROVE  Apart(d)
<1> USE DEF DeliveryInv, TypeOK, Apart, hubVars, sdkVars
<1>1. CASE Send(d)
  BY <1>1 DEF Send
<1>2. CASE Receive(d)
  BY <1>2 DEF Receive, Return
<1>3. CASE CallApplied(d)
  BY <1>3 DEF CallApplied, Return, Apply
<1>4. CASE CallFailed(d)
  BY <1>4 DEF CallFailed, Return, Doubt
<1>5. CASE CallHangs(d)
  BY <1>5 DEF CallHangs, Doubt
<1>6. CASE Finish(d)
  BY <1>6 DEF Finish, Return
<1>7. CASE Reply(d)
  BY <1>7 DEF Reply
<1>8. CASE Ack(d)
  BY <1>8 DEF Ack
<1>9. CASE GiveUp(d)
  BY <1>9 DEF GiveUp
<1>10. ASSUME NEW i \in 1..2, CallLands(d, i) PROVE Apart(d)
  BY <1>10 DEF CallLands, Apply
<1> QED
  BY <1>1, <1>2, <1>3, <1>4, <1>5, <1>6, <1>7, <1>8, <1>9, <1>10 DEF Acts

LEMMA StepsKeepBlameless ==
  ASSUME DeliveryInv, NEW d \in Deliveries,
         "lost" \notin Faults, "late" \notin Faults, Acts(d),
         crashes' = 0, Single(d)', crashes = 0 /\ Single(d) => Blameless(d)
  PROVE  Blameless(d)'
<1> USE DEF Blameless, NoDoubt
<1>0. /\ stage \in [Deliveries -> Stages] /\ done \in [Deliveries -> Nat]
      /\ body \in [Deliveries -> Bodies \cup {None}]
      /\ result \in [Deliveries -> Result \cup {None}]
      /\ answer \in [Deliveries -> Result \cup {None}]
      /\ accepted \in [Deliveries -> Nat]
      /\ Begun(d) /\ InPlace(d)
  BY DEF DeliveryInv, TypeOK, OneInv
<1>1. CASE Send(d)
  <2>1. /\ stage'[d] = "queued" /\ accepted'[d] = 0 /\ result'[d] = None
        /\ answer'[d] = None /\ \A i \in 1..2 : late'[d][i] = 0
    BY <1>0, <1>1 DEF Send, Begun, hubVars
  <2> QED
    BY <2>1 DEF Blames
<1>2. ASSUME body' = body, crashes' = crashes
      PROVE  /\ crashes = 0 /\ Single(d) /\ Blameless(d)
             /\ CallsOf(d)' = CallsOf(d)
             /\ stage[d] # "unsent" /\ body[d] \in Bodies
  BY <1>0, <1>2 DEF Single, CallsOf, Begun
<1>3. CASE Receive(d)
  <2>1. /\ stage[d] = "queued" /\ done'[d] = 0
        /\ stage'[d] \in {"returned", "handling"}
        /\ UNCHANGED <<hubVars, body, answer, crashes, hung>>
    BY <1>0, <1>3 DEF Receive, Return
  <2> QED
    BY <1>2, <2>1 DEF hubVars
<1>4. CASE CallApplied(d)
  <2>1. /\ Calling(d) /\ Apply(d, CallsOf(d)[done[d] + 1])
        /\ UNCHANGED <<late, body, answer, crashes, hung>>
    BY <1>4 DEF CallApplied, NextCall
  <2>2. WellFormed(CallsOf(d)[done[d] + 1])
    BY <2>1, CallingFacts, SentFacts
  <2>3. done' = [done EXCEPT ![d] = @ + 1] /\ UNCHANGED <<stage, result>>
    BY <1>4, <2>2 DEF CallApplied, NextCall, WellFormed
  <2>4. accepted'[d] = accepted[d] + 1
    BY <1>0, <2>1 DEF Apply
  <2>5. stage[d] = "handling" /\ result[d] = None /\ d \notin hung
    BY <2>1, CallingFacts
  <2> QED
    BY <1>0, <1>2, <2>1, <2>3, <2>4, <2>5 DEF Blames
<1>5. CASE CallFailed(d)
  <2>1. /\ Calling(d) /\ stage'[d] = "returned"
        /\ UNCHANGED <<late, body, done, answer, crashes, accepted, hung>>
    BY <1>0, <1>5 DEF CallFailed, Return
  <2>2. /\ stage[d] = "handling" /\ d \notin hung
        /\ done[d] + 1 \in 1..Len(CallsOf(d)) /\ done[d] \in Nat
    BY <2>1, CallingFacts
  <2>3. done[d] = 0
    <3>1. Len(CallsOf(d)) = 1
      BY <1>2, <2>1 DEF Single
    <3> QED
      BY <2>2, <3>1
  <2> QED
    BY <1>2, <2>1, <2>2, <2>3
<1>6. CASE CallHangs(d)
  <2>1. /\ Calling(d) /\ hung' = hung \cup {d}
        /\ UNCHANGED <<stage, result, answer, crashes, body, accepted>>
    BY <1>6 DEF CallHangs, sdkVars
  <2>2. stage[d] = "handling"
    BY <2>1, CallingFacts
  <2> QED
    BY <1>2, <2>1, <2>2
<1>7. CASE Finish(d)
  <2>1. /\ stage[d] = "handling" /\ done[d] = Len(CallsOf(d))
        /\ stage'[d] = "returned"
        /\ UNCHANGED <<hubVars, body, done, answer, crashes, hung>>
    BY <1>0, <1>7 DEF Finish, Return
  <2>2. Operation(body[d]) # "list_runners"
    BY <1>2, <2>1, RunnersOnlyRead, CallFacts, CallsOfBody DEF Single
  <2>3. result'[d] = Success
    BY <1>0, <1>7, <2>2 DEF Finish, Return
  <2>4. ~Blames(result'[d])
    BY <2>3 DEF Blames, Success
  <2>5. d \notin hung
    BY <1>0, <1>2, <2>1 DEF InPlace, Single
  <2> QED
    BY <1>2, <2>1, <2>4, <2>5 DEF hubVars
<1>8. CASE Reply(d)
  <2>1. /\ stage[d] = "returned" /\ result'[d] = None
        /\ answer'[d] \in {answer[d], result[d]}
        /\ UNCHANGED <<hubVars, stage, body, done, crashes, hung>>
    BY <1>0, <1>8 DEF Reply, ??
  <2> QED
    BY <1>2, <2>1 DEF hubVars, Blames
<1>9. CASE Ack(d)
  BY <1>2, <1>9 DEF Ack, hubVars
<1>10. CASE GiveUp(d)
  <2>1. /\ answer'[d] = Failure("timeout")
        /\ UNCHANGED <<hubVars, stage, body, done, result, crashes, hung>>
    BY <1>0, <1>10 DEF GiveUp
  <2>2. ~Blames(answer'[d])
    BY <2>1 DEF Blames, Failure
  <2> QED
    BY <1>2, <2>1, <2>2 DEF hubVars
<1>11. ASSUME NEW i \in 1..2, CallLands(d, i) PROVE Blameless(d)'
  <2>1. /\ late[d][i] > 0
        /\ UNCHANGED <<stage, result, answer, crashes, body, done, hung>>
    BY <1>11 DEF CallLands, sdkVars
  <2>2. stage[d] = "handling" /\ d \in hung
    BY <1>0, <1>2, <2>1 DEF Stages
  <2>3. result[d] = None /\ ~Blames(answer[d])
    BY <1>0, <1>2, <2>1, <2>2 DEF InPlace
  <2> QED
    BY <2>1, <2>2, <2>3 DEF Blames
<1> QED
  BY <1>1, <1>3, <1>4, <1>5, <1>6, <1>7, <1>8, <1>9, <1>10, <1>11 DEF Acts

(* When no answer of GitHub is lost or late, a failure of an operation that*)
(* makes one call means that nothing has changed: the expected statuses    *)
(* (spec.go:448 and its like) are those GitHub uses for success, and only  *)
(* a caller who gave up cannot tell.                                       *)
THEOREM FailuresAreHonest ==
  ASSUME "lost" \notin Faults, "late" \notin Faults
  PROVE  Spec => []FailureMeansNothingDone
<1>1. Init => BlameInv
  BY DEF Init, BlameInv, Single
<1>2. ASSUME DeliveryInv, BlameInv, Next PROVE BlameInv'
  <2>1. ASSUME NEW d \in Deliveries, Acts(d) PROVE BlameInv'
    <3> SUFFICES ASSUME NEW e \in Deliveries, crashes' = 0, Single(e)'
                 PROVE  Blameless(e)'
      BY DEF BlameInv
    <3>1. Apart(d)
      BY <1>2, <2>1, ActsApart
    <3>2. CASE e = d
      BY <1>2, <2>1, <3>2, StepsKeepBlameless DEF BlameInv
    <3>3. CASE e # d
      <4>1. crashes = 0 /\ Single(e) /\ Blameless(e)
        BY <1>2, <3>1, <3>3 DEF BlameInv, Apart, Single, CallsOf
      <4> QED
        BY <3>1, <3>3, <4>1 DEF Apart, Blameless, NoDoubt, Blames
    <3> QED
      BY <3>2, <3>3
  <2>2. ASSUME NEW gone \in SUBSET Held, Crash(gone) PROVE BlameInv'
    <3>1. crashes' # 0
      BY <1>2, <2>2, DeliveryAssumption DEF Crash, DeliveryInv, TypeOK
    <3> QED
      BY <3>1 DEF BlameInv
  <2> QED
    BY <1>2, <2>1, <2>2, NextIsOneActs
<1>3. ASSUME BlameInv, UNCHANGED vars PROVE BlameInv'
  BY <1>3 DEF BlameInv, Single, Blameless, NoDoubt, Blames, CallsOf, vars,
              sdkVars, hubVars
<1>4. ASSUME DeliveryInv, BlameInv PROVE FailureMeansNothingDone
  <2> SUFFICES ASSUME NEW d \in Deliveries, Failed(d),
                      answer[d].code # "timeout", Len(CallsOf(d)) = 1,
                      CallsOf(d)[1].kind # "get", crashes = 0
               PROVE  accepted[d] = 0
    BY DEF FailureMeansNothingDone
  <2>1. Blames(answer[d]) /\ body[d] # None
    BY <1>4 DEF Blames, Failed, DeliveryInv, OneInv, Begun
  <2> QED
    BY <1>4, <2>1 DEF BlameInv, Single, Blameless
<1> QED
  BY <1>1, <1>2, <1>3, <1>4, DeliveryInvariant, PTL DEF Spec
-----------------------------------------------------------------------------
(* The first given of one key, and of two of which the first is given if   *)
(* the other is (spec.go:784-799).                                         *)
LEMMA FirstOfOne ==
  ASSUME NEW source, NEW key
  PROVE  FirstString(source, <<key>>) =
           IF key \in DOMAIN source /\ source[key] # None
           THEN source[key] ELSE None
<1> DEFINE given == {i \in DOMAIN <<key>> : /\ <<key>>[i] \in DOMAIN source
                                          /\ source[<<key>>[i]] # None}
<1>1. given = IF key \in DOMAIN source /\ source[key] # None THEN {1} ELSE {}
  OBVIOUS
<1>2. Min({1}) = 1
  BY DEF Min
<1>3. <<key>>[1] = key
  OBVIOUS
<1> QED
  BY <1>1, <1>2, <1>3 DEF FirstString

LEMMA FirstOfTwo ==
  ASSUME NEW source, NEW key, NEW other,
         FirstString(source, <<other>>) # None =>
           FirstString(source, <<key>>) # None
  PROVE  FirstString(source, <<key, other>>) = FirstString(source, <<key>>)
<1> DEFINE keys  == <<key, other>>
           Given(k) == k \in DOMAIN source /\ source[k] # None
           given == {i \in DOMAIN keys : Given(keys[i])}
<1>1. DOMAIN keys = {1, 2} /\ keys[1] = key /\ keys[2] = other
  OBVIOUS
<1>2. Given(other) => Given(key)
  BY FirstOfOne
<1>3. CASE ~Given(key)
  <2>1. given = {}
    BY <1>1, <1>2, <1>3
  <2> QED
    BY <1>3, <2>1, FirstOfOne DEF FirstString
<1>4. CASE Given(key)
  <2>1. 1 \in given /\ \A i \in given : i = 1 \/ i = 2
    BY <1>1, <1>4
  <2> HIDE DEF given
  <2>2. Min(given) = 1
    BY <2>1 DEF Min
  <2>3. given # {} /\ keys[Min(given)] = key
    BY <1>1, <2>1, <2>2
  <2>4. FirstString(source, keys) = source[key]
    BY <2>3 DEF FirstString, given
  <2> QED
    BY <1>4, <2>4, FirstOfOne
<1> QED
  BY <1>3, <1>4

(* dispatch_workflow makes the same calls in both of its shapes (spec.go:  *)
(* 615-682), for every body whose caller gives its token as "token", or in *)
(* no way at all.                                                          *)
LEMMA GenericMakesTheSameCalls ==
  ASSUME NEW b \in Bodies, IsTyped(b),
         FirstString(b.auth, <<"github_token">>) # None =>
           FirstString(b.auth, <<"token">>) # None
  PROVE  Calls(Generic(b)) = Calls(b)
<1> DEFINE g     == Generic(b)
           input == [repository |-> b.workflow.repository,
                     workflow   |-> b.workflow.workflow,
                     ref        |-> b.workflow.ref]
<1>1. /\ g.operation = b.operation /\ g.capability = b.capability
      /\ g.auth = b.auth /\ g.credentials = b.credentials
      /\ g.config = b.config /\ g.workflow = None /\ g.input = input
  BY DeliveryAssumption DEF Generic
<1> HIDE DEF g
<1>2. /\ FirstString(input, <<"repository">>) = b.workflow.repository
      /\ FirstString(input, <<"workflow">>) = b.workflow.workflow
      /\ FirstString(input, <<"ref">>) = b.workflow.ref
  BY FirstOfOne
<1> HIDE DEF input
<1>3. FirstString(b.auth, <<"token", "github_token">>)
        = FirstString(b.auth, <<"token">>)
  BY FirstOfTwo
<1>4. Calls(g) = GenericDispatchCalls(g)
  BY <1>1 DEF Calls, Execute, IsTyped, Operation
<1>5. GenericDispatchCalls(g) = TypedDispatchCalls(b)
  <2> DEFINE w == [repository |-> b.workflow.repository,
                   workflow   |-> b.workflow.workflow,
                   ref        |-> b.workflow.ref]
             token == FirstString(b.auth, <<"token">>)
  <2>1. GenericDispatchCalls(g) = DispatchCalls(w, token, g)
    BY <1>1, <1>2, <1>3 DEF GenericDispatchCalls
  <2>2. /\ w.repository = b.workflow.repository
        /\ w.workflow = b.workflow.workflow /\ w.ref = b.workflow.ref
    OBVIOUS
  <2> HIDE DEF w, token
  <2>3. DispatchCalls(w, token, g) = DispatchCalls(b.workflow, token, b)
    BY <1>1, <2>2 DEF DispatchCalls
  <2> QED
    BY <2>1, <2>3 DEF TypedDispatchCalls, token
<1> QED
  BY <1>4, <1>5 DEF Calls, g

(* The two shapes of dispatch_workflow make the same calls (execute.go:    *)
(* 16-20).                                                                 *)
THEOREM OneDispatchInTwoShapes == Spec => []ShapesAgree
<1>1. ASSUME DeliveryInv PROVE ShapesAgree
  <2> SUFFICES ASSUME NEW d \in Deliveries, Sent(d)
               PROVE  body[d] \in BodiesThatAgree
    BY DEF ShapesAgree
  <2>1. body[d] \in Bodies
    BY <1>1 DEF Sent, DeliveryInv, TypeOK
  <2> QED
    BY <2>1, GenericMakesTheSameCalls DEF BodiesThatAgree
<1> QED
  BY <1>1, DeliveryInvariant, PTL
-----------------------------------------------------------------------------
(* What a caller's own value is safe from, as long as nothing crashes.     *)

(* No call of d is in doubt unless it hangs or has failed, and "ok" is said*)
(* after the last call only.                                               *)
Clean(d) ==
  /\ stage[d] \in {"unsent", "queued"} => NoDoubt(d)
  /\ stage[d] = "handling" /\ d \notin hung => NoDoubt(d)
  /\ stage[d] = "returned" /\ done[d] = Len(CallsOf(d)) => NoDoubt(d)
  /\ SaysOk(result[d]) \/ SaysOk(answer[d]) =>
       stage[d] = "returned" /\ done[d] = Len(CallsOf(d))

(* Who was told "ok" when d was sent has been told so since.               *)
Settled(d) == \A e \in settled[d] : SaysOk(answer[e])

(* The others who set t were answered before d was sent.                   *)
Alone(d, t) == \A e \in Deliveries \ {d} : WritesTo(e, t) => e \in settled[d]

(* What d has set is there.                                                *)
InForce(d, t) ==
  /\ stage[d] \in {"handling", "returned"}
  /\ WritesTo(d, t) /\ done[d] = Len(CallsOf(d))
  /\ Alone(d, t)
  => CallsOf(d)[1].target = t /\ CallsOf(d)[1].value = store[t]

StandingInv ==
  /\ \A d \in Deliveries : Settled(d)
  /\ crashes = 0 => \A d \in Deliveries : Clean(d)
  /\ crashes = 0 => \A d \in Deliveries, t \in Targets : InForce(d, t)

(* What GitHub holds changes by a call of one delivery: its next, or one in*)
(* doubt.                                                                  *)
LEMMA WhoApplies ==
  ASSUME DeliveryInv, NEW d \in Deliveries, Acts(d)
  PROVE  \/ UNCHANGED <<store, writers, accepted>>
         \/ \E i \in 1..Len(CallsOf(d)) :
              /\ Apply(d, CallsOf(d)[i]) /\ stage[d] # "unsent"
              /\ Calling(d) \/ late[d][i] > 0
              /\ body' = body /\ crashes' = crashes
<1>1. CASE CallApplied(d)
  <2>1. /\ Calling(d) /\ Apply(d, CallsOf(d)[done[d] + 1])
        /\ UNCHANGED <<body, crashes>>
    BY <1>1 DEF CallApplied, NextCall
  <2> QED
    BY <2>1, CallingFacts
<1>2. ASSUME NEW i \in 1..2, CallLands(d, i)
      PROVE  /\ Apply(d, CallsOf(d)[i]) /\ late[d][i] > 0
             /\ i \in 1..Len(CallsOf(d)) /\ stage[d] # "unsent"
             /\ UNCHANGED <<body, crashes>>
  <2>1. /\ Apply(d, CallsOf(d)[i]) /\ late[d][i] > 0
        /\ UNCHANGED <<body, crashes>>
    BY <1>2 DEF CallLands, sdkVars
  <2>2. stage[d] # "unsent" /\ i <= Len(CallsOf(d))
    BY <2>1 DEF DeliveryInv, OneInv, Begun, InPlace
  <2>3. Len(CallsOf(d)) \in Int
    BY <2>2, SentFacts
  <2> QED
    BY <2>1, <2>2, <2>3
<1>3. CASE \/ Send(d) \/ Receive(d) \/ CallFailed(d) \/ CallHangs(d)
           \/ Finish(d) \/ Reply(d) \/ Ack(d) \/ GiveUp(d)
  BY <1>3 DEF Send, Receive, CallFailed, CallHangs, Finish, Reply, Ack,
              GiveUp, hubVars
<1> QED
  BY <1>1, <1>2, <1>3 DEF Acts

(* What an answer is, it stays.                                            *)
LEMMA AnswersStay ==
  ASSUME DeliveryInv, NEW d \in Deliveries, Acts(d)
  PROVE  \A e \in Deliveries : SaysOk(answer[e]) => answer'[e] = answer[e]
<1>1. Apart(d)
  BY ActsApart
<1>2. SaysOk(answer[d]) => answer'[d] = answer[d]
  <2>1. CASE Reply(d)
    BY <2>1 DEF Reply, SaysOk, ??, DeliveryInv, TypeOK
  <2>2. CASE GiveUp(d)
    BY <2>2 DEF GiveUp, SaysOk
  <2> QED
    BY <2>1, <2>2 DEF Acts, Send, Receive, CallApplied, CallFailed, CallHangs,
                      CallLands, Finish, Ack, sdkVars
<1> QED
  BY <1>1, <1>2 DEF Apart

LEMMA StepsKeepSettled ==
  ASSUME DeliveryInv, NEW d \in Deliveries, Acts(d),
         \A e \in Deliveries : Settled(e)
  PROVE  \A e \in Deliveries : Settled(e)'
<1>1. \A e \in Deliveries : SaysOk(answer[e]) => SaysOk(answer[e])'
  BY AnswersStay DEF SaysOk
<1>2. settled \in [Deliveries -> SUBSET Deliveries]
  BY DEF DeliveryInv, TypeOK
<1>3. CASE Send(d)
  <2>1. settled' = [settled EXCEPT ![d] =
                      {e \in Deliveries : SaysOk(answer[e])}]
    BY <1>3 DEF Send, SaysOk
  <2> QED
    BY <1>1, <1>2, <2>1 DEF Settled
<1>4. CASE ~Send(d)
  <2>1. settled' = settled
    BY <1>4 DEF Acts, Receive, CallApplied, CallFailed, CallHangs, CallLands,
                Finish, Reply, Ack, GiveUp
  <2> QED
    BY <1>1, <1>2, <2>1 DEF Settled
<1> QED
  BY <1>3, <1>4

LEMMA StepsKeepClean ==
  ASSUME DeliveryInv, NEW d \in Deliveries, Acts(d), Clean(d)
  PROVE  Clean(d)'
<1> USE DEF NoDoubt
<1>0. /\ stage \in [Deliveries -> Stages] /\ done \in [Deliveries -> Nat]
      /\ result \in [Deliveries -> Result \cup {None}]
      /\ answer \in [Deliveries -> Result \cup {None}]
      /\ Begun(d) /\ InPlace(d)
  BY DEF DeliveryInv, TypeOK, OneInv
<1>1. ASSUME body' = body
      PROVE  CallsOf(d)' = CallsOf(d)
  BY <1>1 DEF CallsOf
<1>2. CASE Send(d)
  <2>1. /\ stage'[d] = "queued" /\ result'[d] = None /\ answer'[d] = None
        /\ \A i \in 1..2 : late'[d][i] = 0
    BY <1>0, <1>2 DEF Send, Begun, hubVars
  <2> QED
    BY <2>1 DEF Clean, SaysOk
<1>3. CASE Receive(d)
  <2>1. /\ stage[d] = "queued" /\ UNCHANGED <<hubVars, body, answer, hung>>
        /\ stage'[d] \in {"returned", "handling"}
        /\ result'[d] \in {result[d], Failure(RefusalOf(d))}
    BY <1>0, <1>3 DEF Receive, Return
  <2>2. ~SaysOk(result[d]) /\ ~SaysOk(answer[d]) /\ NoDoubt(d)
    BY <2>1 DEF Clean
  <2>3. ~SaysOk(result'[d]) /\ ~SaysOk(answer'[d])
    BY <2>1, <2>2 DEF SaysOk, Failure
  <2> QED
    BY <2>1, <2>2, <2>3 DEF Clean, SaysOk, hubVars
<1>4. CASE CallApplied(d)
  <2>1. /\ Calling(d) /\ UNCHANGED <<late, body, answer, hung>>
        /\ \/ UNCHANGED <<stage, result>>
           \/ /\ stage'[d] = "returned"
              /\ result'[d] = Failure(FailureCode(body[d]))
    BY <1>0, <1>4 DEF CallApplied, Return
  <2>2. stage[d] = "handling" /\ d \notin hung
    BY <2>1, CallingFacts
  <2>3. ~SaysOk(result[d]) /\ ~SaysOk(answer[d]) /\ NoDoubt(d)
    BY <2>2 DEF Clean
  <2>4. ~SaysOk(result'[d]) /\ ~SaysOk(answer'[d])
    BY <2>1, <2>3 DEF SaysOk, Failure
  <2> QED
    BY <2>1, <2>2, <2>3, <2>4 DEF Clean, SaysOk
<1>5. CASE CallFailed(d)
  <2>1. /\ Calling(d) /\ stage'[d] = "returned"
        /\ result'[d] = Failure(FailureCode(body[d]))
        /\ UNCHANGED <<body, done, answer, hung>>
    BY <1>0, <1>5 DEF CallFailed, Return
  <2>2. /\ stage[d] = "handling" /\ done[d] # Len(CallsOf(d))
    BY <2>1, CallingFacts
  <2>3. ~SaysOk(answer[d])
    BY <2>2 DEF Clean
  <2>4. ~SaysOk(result'[d]) /\ ~SaysOk(answer'[d])
    BY <2>1, <2>3 DEF SaysOk, Failure
  <2> QED
    BY <1>1, <2>1, <2>2, <2>4 DEF Clean, SaysOk
<1>6. CASE CallHangs(d)
  <2>1. /\ Calling(d) /\ d \in hung' /\ UNCHANGED <<stage, result, answer>>
    BY <1>6 DEF CallHangs, sdkVars
  <2>2. stage[d] = "handling"
    BY <2>1, CallingFacts
  <2> QED
    BY <2>1, <2>2 DEF Clean, SaysOk
<1>7. CASE Finish(d)
  <2>1. /\ stage[d] = "handling" /\ done[d] = Len(CallsOf(d))
        /\ stage'[d] = "returned"
        /\ UNCHANGED <<hubVars, body, done, answer>>
    BY <1>0, <1>7 DEF Finish, Return
  <2>2. d \notin hung
    <3>1. Len(CallsOf(d)) \in Int
      BY <2>1, SentFacts
    <3> QED
      BY <1>0, <2>1, <3>1 DEF InPlace
  <2> QED
    BY <1>1, <2>1, <2>2 DEF Clean, hubVars
<1>8. CASE Reply(d)
  <2>1. /\ stage[d] = "returned" /\ result'[d] = None
        /\ answer'[d] \in {answer[d], result[d]}
        /\ UNCHANGED <<hubVars, stage, body, done>>
    BY <1>0, <1>8 DEF Reply, ??
  <2> QED
    BY <1>1, <2>1 DEF Clean, SaysOk, hubVars
<1>9. CASE Ack(d)
  BY <1>1, <1>9 DEF Ack, Clean, SaysOk, hubVars
<1>10. CASE GiveUp(d)
  <2>1. /\ answer'[d] = Failure("timeout")
        /\ UNCHANGED <<hubVars, stage, body, done, result, hung>>
    BY <1>0, <1>10 DEF GiveUp
  <2> QED
    BY <1>1, <2>1 DEF Clean, SaysOk, Failure, hubVars
<1>11. ASSUME NEW i \in 1..2, CallLands(d, i) PROVE Clean(d)'
  <2>1. /\ late[d][i] > 0 /\ late' = [late EXCEPT ![d][i] = @ - 1]
        /\ UNCHANGED <<stage, result, answer, body, done, hung>>
    BY <1>11 DEF CallLands, sdkVars
  <2>2. NoDoubt(d) => NoDoubt(d)'
    BY <2>1, OneLessDoubt DEF DeliveryInv
  <2> QED
    BY <1>1, <2>1, <2>2 DEF Clean, SaysOk
<1> QED
  BY <1>2, <1>3, <1>4, <1>5, <1>6, <1>7, <1>8, <1>9, <1>10, <1>11 DEF Acts

(* A setting is set by one call, and nothing creates what has settings.    *)
LEMMA WriterFacts ==
  ASSUME DeliveryInv, NEW d \in Deliveries, NEW t, WritesTo(d, t)
  PROVE  /\ body[d] \in Bodies /\ stage[d] # "unsent"
         /\ Len(CallsOf(d)) = 1 /\ DOMAIN CallsOf(d) = 1..1
         /\ CallsOf(d)[1].target = t /\ CallsOf(d)[1].kind = "put"
         /\ t \in Targets /\ t[1] \in {"environment", "team"}
<1>1. stage[d] # "unsent"
  BY DEF WritesTo, Sent, DeliveryInv, OneInv, Begun
<1>2. PICK i \in DOMAIN CallsOf(d) : /\ CallsOf(d)[i].target = t
                                     /\ CallsOf(d)[i].kind = "put"
  BY DEF WritesTo
<1>3. Len(CallsOf(d)) = 1 /\ WellFormed(CallsOf(d)[i]) /\ i \in 1..1
  BY <1>1, <1>2, SentFacts
<1> QED
  BY <1>1, <1>2, <1>3, SentFacts DEF WellFormed

(* A request, once sent, stays what it is.                                 *)
LEMMA BodiesStay ==
  ASSUME DeliveryInv, NEW d \in Deliveries, Acts(d)
  PROVE  /\ \A e \in Deliveries : body[e] # None => body'[e] = body[e]
         /\ \A e \in Deliveries : \A t : WritesTo(e, t) => WritesTo(e, t)'
         /\ Send(d) \/ UNCHANGED <<body, settled>>
<1>1. \A e \in Deliveries : body[e] # None => body'[e] = body[e]
  <2>1. CASE Send(d)
    BY <2>1 DEF Send, DeliveryInv, TypeOK, OneInv, Begun
  <2> QED
    BY <2>1 DEF Acts, Receive, CallApplied, CallFailed, CallHangs, CallLands,
                Finish, Reply, Ack, GiveUp
<1>2. Send(d) \/ UNCHANGED <<body, settled>>
  BY DEF Acts, Receive, CallApplied, CallFailed, CallHangs, CallLands,
         Finish, Reply, Ack, GiveUp
<1> QED
  BY <1>1, <1>2 DEF WritesTo, Sent, CallsOf

(* A call that sets t is made by somebody who is not done with it yet.     *)
LEMMA OnlyWritersSet ==
  ASSUME DeliveryInv, NEW d \in Deliveries, NEW i \in 1..Len(CallsOf(d)),
         stage[d] # "unsent", Apply(d, CallsOf(d)[i]),
         NEW t \in Targets, t[1] \in {"environment", "team"}
  PROVE  WritesTo(d, t) \/ store'[t] = store[t]
<1>1. WellFormed(CallsOf(d)[i]) /\ body[d] # None
      /\ DOMAIN CallsOf(d) = 1..Len(CallsOf(d))
  BY SentFacts
<1>2. CASE CallsOf(d)[i].kind = "put" /\ CallsOf(d)[i].target = t
  BY <1>1, <1>2 DEF WritesTo, Sent
<1>3. CASE CallsOf(d)[i].target # t
  BY <1>3 DEF Apply, DeliveryInv, TypeOK
<1>4. CASE CallsOf(d)[i].kind # "put" /\ CallsOf(d)[i].target = t
  <2>1. CallsOf(d)[i].kind \notin {"put", "create"}
    BY <1>1, <1>4 DEF WellFormed, CreatedThings
  <2> QED
    BY <2>1 DEF Apply
<1> QED
  BY <1>2, <1>3, <1>4

LEMMA OthersKeepInForce ==
  ASSUME DeliveryInv, StandingInv, crashes = 0,
         NEW d \in Deliveries, Acts(d),
         NEW e \in Deliveries, e # d, NEW t \in Targets
  PROVE  InForce(e, t)'
<1> SUFFICES ASSUME stage'[e] \in {"handling", "returned"}, WritesTo(e, t)',
                    (done[e] = Len(CallsOf(e)))', Alone(e, t)'
             PROVE  (/\ CallsOf(e)[1].target = t
                     /\ CallsOf(e)[1].value = store[t])'
  BY DEF InForce
<1>1. /\ stage'[e] = stage[e] /\ done'[e] = done[e] /\ body'[e] = body[e]
      /\ CallsOf(e)' = CallsOf(e)
  BY ActsApart DEF Apart, CallsOf
<1>2. settled'[e] = settled[e]
  BY BodiesStay DEF Send, DeliveryInv, TypeOK
<1>3. WritesTo(e, t) /\ Alone(e, t)
  BY <1>1, <1>2, BodiesStay DEF WritesTo, Sent, Alone
<1>4. CallsOf(e)[1].target = t /\ CallsOf(e)[1].value = store[t]
  BY <1>1, <1>3 DEF StandingInv, InForce
<1>5. t[1] \in {"environment", "team"}
  BY <1>3, WriterFacts
<1>6. store'[t] = store[t]
  <2> SUFFICES ASSUME NEW i \in 1..Len(CallsOf(d)), Apply(d, CallsOf(d)[i]),
                      Calling(d) \/ late[d][i] > 0, WritesTo(d, t)
               PROVE  FALSE
    BY <1>5, OnlyWritersSet, WhoApplies
  <2>1. d \in settled[e]
    BY <1>3 DEF Alone
  <2>2. SaysOk(answer[d]) /\ Clean(d)
    BY <2>1 DEF StandingInv, Settled
  <2>3. stage[d] = "returned" /\ NoDoubt(d)
    BY <2>2 DEF Clean
  <2>4. i \in 1..2
    BY WriterFacts
  <2> QED
    BY <2>3, <2>4 DEF Calling, NoDoubt
<1> QED
  BY <1>1, <1>4, <1>6

LEMMA OwnStepsKeepInForce ==
  ASSUME DeliveryInv, StandingInv, crashes = 0,
         NEW d \in Deliveries, Acts(d), NEW t \in Targets
  PROVE  InForce(d, t)'
<1> SUFFICES ASSUME stage'[d] \in {"handling", "returned"}, WritesTo(d, t)',
                    (done[d] = Len(CallsOf(d)))', Alone(d, t)'
             PROVE  (/\ CallsOf(d)[1].target = t
                     /\ CallsOf(d)[1].value = store[t])'
  BY DEF InForce
<1>1. ~Send(d)
  BY DEF Send, DeliveryInv, TypeOK
<1>2. UNCHANGED <<body, settled>>
  BY <1>1, BodiesStay
<1>3. CallsOf(d)' = CallsOf(d) /\ WritesTo(d, t) /\ Alone(d, t)
  <2>1. CallsOf(d)' = CallsOf(d)
    BY <1>2 DEF CallsOf
  <2>2. WritesTo(d, t)
    BY <1>2, <2>1 DEF WritesTo, Sent
  <2>3. Alone(d, t)
    BY <1>2, BodiesStay DEF Alone
  <2> QED
    BY <2>1, <2>2, <2>3
<1>4. /\ Len(CallsOf(d)) = 1 /\ CallsOf(d)[1].target = t
      /\ CallsOf(d)[1].kind = "put"
  BY <1>3, WriterFacts
<1>5. ASSUME NEW i \in 1..Len(CallsOf(d)), Apply(d, CallsOf(d)[i])
      PROVE  CallsOf(d)[1].value = store'[t]
  <2>1. i = 1
    BY <1>4
  <2> QED
    BY <1>4, <1>5, <2>1 DEF Apply, DeliveryInv, TypeOK
<1>6. CASE store' = store
  <2>1. CASE Receive(d)
    <3>1. done'[d] = 0
      BY <2>1 DEF Receive, DeliveryInv, TypeOK
    <3> QED
      BY <1>3, <1>4, <3>1
  <2>2. CASE CallApplied(d)
    <3>1. Calling(d) /\ Apply(d, CallsOf(d)[done[d] + 1])
      BY <2>2 DEF CallApplied, NextCall
    <3> QED
      BY <1>3, <1>4, <1>5, <3>1, CallingFacts
  <2>3. CASE ~Receive(d) /\ ~CallApplied(d)
    <3>1. done' = done
      BY <1>1, <2>3 DEF Acts, CallFailed, CallHangs, CallLands, Finish, Reply,
                        Ack, GiveUp
    <3>2. stage[d] \in {"handling", "returned"}
      <4>1. stage[d] = stage'[d] \/ stage[d] = "handling"
        BY <1>1, <2>3 DEF Acts, CallFailed, CallHangs, CallLands, Finish,
                          Reply, Ack, GiveUp, Calling, sdkVars
      <4> QED
        BY <4>1
    <3>3. InForce(d, t)
      BY DEF StandingInv
    <3> QED
      BY <1>3, <1>6, <3>1, <3>2, <3>3 DEF InForce
  <2> QED
    BY <2>1, <2>2, <2>3
<1> QED
  BY <1>3, <1>4, <1>5, <1>6, WhoApplies

(* A caller who sends a request after the others on the same setting were  *)
(* answered "ok" (execute.go:47) gets its own value, for any number of     *)
(* deliveries and with every fault but a crash: what was answered "ok" has *)
(* no call left that GitHub could still apply.                             *)
THEOREM TheLastOneStands == Spec => []LastAnswerStands
<1>1. Init => StandingInv
  BY DEF Init, StandingInv, Settled, Clean, SaysOk, NoDoubt, InForce
<1>2. ASSUME DeliveryInv, StandingInv, Next PROVE StandingInv'
  <2>1. ASSUME NEW d \in Deliveries, Acts(d) PROVE StandingInv'
    <3>1. \A e \in Deliveries : Settled(e)'
      BY <1>2, <2>1, StepsKeepSettled DEF StandingInv
    <3>2. crashes' = crashes /\ Apart(d)
      BY <1>2, <2>1, ActsApart DEF Apart
    <3>3. ASSUME crashes = 0, NEW e \in Deliveries PROVE Clean(e)'
      <4>1. Clean(e)
        BY <1>2, <3>3 DEF StandingInv
      <4>2. CASE e = d
        BY <1>2, <2>1, <4>1, <4>2, StepsKeepClean
      <4>3. CASE e # d
        BY <3>2, <4>1, <4>3 DEF Apart, Clean, NoDoubt, SaysOk, CallsOf
      <4> QED
        BY <4>2, <4>3
    <3>4. ASSUME crashes = 0, NEW e \in Deliveries, NEW t \in Targets
          PROVE  InForce(e, t)'
      BY <1>2, <2>1, <3>4, OwnStepsKeepInForce, OthersKeepInForce
    <3>5. Targets' = Targets
      BY DEF Targets
    <3> QED
      BY <3>1, <3>2, <3>3, <3>4, <3>5 DEF StandingInv
  <2>2. ASSUME NEW gone \in SUBSET Held, Crash(gone)
        PROVE  StandingInv'
    <3>1. crashes' # 0
      BY <1>2, <2>2, DeliveryAssumption DEF Crash, DeliveryInv, TypeOK
    <3> QED
      BY <1>2, <2>2, <3>1 DEF Crash, StandingInv, Settled, SaysOk
  <2> QED
    BY <1>2, <2>1, <2>2, NextIsOneActs
<1>3. ASSUME StandingInv, UNCHANGED vars PROVE StandingInv'
  BY <1>3 DEF StandingInv, Settled, Clean, InForce, NoDoubt, SaysOk, CallsOf,
              WritesTo, Sent, Alone, Targets, vars, sdkVars, hubVars
<1>4. ASSUME DeliveryInv, StandingInv PROVE LastAnswerStands
  <2> SUFFICES ASSUME NEW d \in Deliveries, NEW t \in Targets, crashes = 0,
                      Ok(d), WritesTo(d, t), Alone(d, t)
               PROVE  \E i \in DOMAIN CallsOf(d) :
                         /\ CallsOf(d)[i].target = t
                         /\ CallsOf(d)[i].value = store[t]
    BY DEF LastAnswerStands, Alone
  <2>1. Clean(d) /\ InForce(d, t) /\ SaysOk(answer[d])
    BY <1>4 DEF StandingInv, Ok, SaysOk
  <2>2. CallsOf(d)[1].target = t /\ CallsOf(d)[1].value = store[t]
    BY <2>1 DEF Clean, InForce
  <2> QED
    BY <1>4, <2>2, WriterFacts
<1> QED
  BY <1>1, <1>2, <1>3, <1>4, DeliveryInvariant, PTL DEF Spec
-----------------------------------------------------------------------------
(* What a repeated delivery can still change, through crashes as well.     *)

(* What the actions flagged Idempotent (spec.go:308-346) do to GitHub.     *)
LEMMA IdempotentPutsOrGets ==
  ASSUME NEW b, Operation(b) \in IdempotentActions, NEW i \in DOMAIN Calls(b)
  PROVE  Calls(b)[i].kind \in {"put", "get"}
<1>1. Calls(b) \in {CatalogCalls(b), EnvironmentCalls(b), TeamCalls(b),
                    RunnersCalls(b)}
  BY DEF Calls, Execute, IsTyped, IdempotentActions
<1>2. \/ Calls(b) = <<>>
      \/ \E target, value, statuses :
           \/ Calls(b) = <<NewCall("get", target, value, statuses)>>
           \/ Calls(b) = <<NewCall("put", target, value, statuses)>>
  <2>1. CASE Calls(b) = CatalogCalls(b)
    BY <2>1 DEF CatalogCalls, OneCall
  <2>2. CASE Calls(b) = EnvironmentCalls(b)
    BY <2>2 DEF EnvironmentCalls, OneCall
  <2>3. CASE Calls(b) = TeamCalls(b)
    BY <2>3 DEF TeamCalls, OneCall
  <2>4. CASE Calls(b) = RunnersCalls(b)
    BY <2>4 DEF RunnersCalls, OneCall
  <2> QED
    BY <1>1, <2>1, <2>2, <2>3, <2>4
<1>3. ASSUME NEW call, Calls(b) = <<call>> PROVE Calls(b)[i] = call
  BY <1>3
<1> QED
  BY <1>2, <1>3 DEF NewCall

(* What d sets has been written once a call of d is applied.               *)
Wrote(d) ==
  accepted[d] > 0 => \A t \in Targets : WritesTo(d, t) => writers[t] # <<>>

(* A setting has the value its last writer sets.                           *)
LastWriter(t) ==
  writers[t] # <<>> =>
    LET e == writers[t][Len(writers[t])]
    IN  /\ Sent(e)
        /\ WritesTo(e, t) => store[t] = CallsOf(e)[1].value

WriterInv == /\ \A d \in Deliveries : Wrote(d)
             /\ \A t \in Targets : LastWriter(t)

LEMMA Last ==
  ASSUME NEW s \in Seq(Deliveries), NEW d \in Deliveries
  PROVE  /\ Append(s, d) # <<>>
         /\ Append(s, d)[Len(Append(s, d))] = d
         /\ s # <<>> => s[Len(s)] \in Deliveries
OBVIOUS

(* A call of d is applied.                                                 *)
LEMMA ApplyKeepsWriterInv ==
  ASSUME DeliveryInv, WriterInv, NEW d \in Deliveries, Acts(d),
         NEW i \in 1..Len(CallsOf(d)), Apply(d, CallsOf(d)[i]),
         stage[d] # "unsent", body' = body
  PROVE  WriterInv'
<1> DEFINE call == CallsOf(d)[i]
<1>1. /\ call.target \in Targets /\ WellFormed(call) /\ Sent(d)
      /\ call.kind # "create" => Len(CallsOf(d)) = 1
  BY SentFacts DEF Sent
<1>2. \A e : CallsOf(e)' = CallsOf(e) /\ Sent(e)' = Sent(e)
  BY DEF CallsOf, Sent
<1>3. \A e, t : WritesTo(e, t)' = WritesTo(e, t)
  BY <1>2 DEF WritesTo
<1>4. \A t : WritesTo(d, t) =>
        call.target = t /\ call.kind = "put" /\ i = 1
  <2> SUFFICES ASSUME NEW t, WritesTo(d, t)
               PROVE  call.target = t /\ call.kind = "put" /\ i = 1
    OBVIOUS
  <2>1. Len(CallsOf(d)) = 1
    BY WriterFacts
  <2>2. i = 1
    BY <2>1
  <2> QED
    BY <2>2, WriterFacts
<1> HIDE DEF call
<1>5. /\ accepted' = [accepted EXCEPT ![d] = @ + 1]
      /\ store' = IF call.kind \in {"put", "create"}
                  THEN [store EXCEPT ![call.target] = call.value] ELSE store
      /\ writers' = IF call.kind = "get" THEN writers
                    ELSE [writers EXCEPT ![call.target] = Append(@, d)]
  BY DEF Apply, call
<1>6. /\ store \in [Targets -> Values \cup {None}]
      /\ writers \in [Targets -> Seq(Deliveries)]
      /\ accepted \in [Deliveries -> Nat]
  BY DEF DeliveryInv, TypeOK
<1>7. \A t \in Targets :
        \/ writers'[t] = writers[t] /\ store'[t] = store[t]
        \/ /\ t = call.target /\ call.kind # "get"
           /\ writers'[t] = Append(writers[t], d)
           /\ call.kind = "put" => store'[t] = call.value
  BY <1>1, <1>5, <1>6
<1>8. ASSUME NEW e \in Deliveries PROVE Wrote(e)'
  <2> SUFFICES ASSUME accepted'[e] > 0, NEW t \in Targets, WritesTo(e, t)
               PROVE  writers'[t] # <<>>
    BY <1>3 DEF Wrote, Targets
  <2>1. writers[t] # <<>> => writers'[t] # <<>>
    BY <1>6, <1>7, Last
  <2>2. CASE e = d
    <3>1. call.target = t /\ call.kind = "put"
      BY <1>4, <2>2
    <3> QED
      BY <1>5, <1>6, <3>1, Last
  <2>3. CASE e # d
    BY <1>5, <1>6, <2>1, <2>3 DEF WriterInv, Wrote
  <2> QED
    BY <2>2, <2>3
<1>9. ASSUME NEW t \in Targets PROVE LastWriter(t)'
  <2>1. CASE writers'[t] = writers[t] /\ store'[t] = store[t]
    BY <1>2, <1>3, <2>1 DEF WriterInv, LastWriter
  <2>2. CASE /\ t = call.target /\ call.kind # "get"
             /\ writers'[t] = Append(writers[t], d)
             /\ call.kind = "put" => store'[t] = call.value
    <3>1. writers'[t][Len(writers'[t])] = d
      BY <1>6, <2>2, Last
    <3>2. WritesTo(d, t) => store'[t] = CallsOf(d)[1].value
      BY <1>4, <2>2 DEF call
    <3> QED
      BY <1>1, <1>2, <1>3, <3>1, <3>2 DEF LastWriter
  <2> QED
    BY <1>7, <2>1, <2>2
<1>10. Targets' = Targets
  BY DEF Targets
<1> QED
  BY <1>8, <1>9, <1>10 DEF WriterInv

LEMMA RestKeepsWriterInv ==
  ASSUME DeliveryInv, WriterInv, UNCHANGED <<store, writers, accepted>>,
         \A e \in Deliveries : body[e] # None => body'[e] = body[e]
  PROVE  WriterInv'
<1>1. \A e \in Deliveries : body[e] # None =>
        /\ CallsOf(e)' = CallsOf(e) /\ Sent(e)'
        /\ \A t : WritesTo(e, t)' = WritesTo(e, t)
  BY DEF CallsOf, WritesTo, Sent
<1>2. ASSUME NEW e \in Deliveries PROVE Wrote(e)'
  <2> SUFFICES ASSUME accepted[e] > 0, NEW t \in Targets, WritesTo(e, t)'
               PROVE  writers[t] # <<>>
    BY DEF Wrote, Targets
  <2>1. body[e] # None
    <3>1. Begun(e) /\ accepted[e] \in Nat
      BY <1>2 DEF DeliveryInv, OneInv, TypeOK
    <3> QED
      BY <3>1 DEF Begun
  <2> QED
    BY <1>1, <1>2, <2>1 DEF WriterInv, Wrote
<1>3. ASSUME NEW t \in Targets PROVE LastWriter(t)'
  <2> DEFINE e == writers[t][Len(writers[t])]
  <2>1. writers[t] \in Seq(Deliveries)
    BY <1>3 DEF DeliveryInv, TypeOK
  <2>2. writers[t] # <<>> =>
          /\ e \in Deliveries /\ body[e] # None
          /\ WritesTo(e, t) => store[t] = CallsOf(e)[1].value
    BY <1>3, <2>1, Last DEF WriterInv, LastWriter, Sent
  <2>3. e' = e
    OBVIOUS
  <2> HIDE DEF e
  <2>4. writers'[t] # <<>> =>
          /\ Sent(e)'
          /\ WritesTo(e, t)' => store'[t] = CallsOf(e)'[1].value
    BY <1>1, <2>2, <2>3
  <2> QED
    BY <2>3, <2>4 DEF LastWriter, e
<1>4. Targets' = Targets
  BY DEF Targets
<1> QED
  BY <1>2, <1>3, <1>4 DEF WriterInv

LEMMA WriterInvHolds == Spec => []WriterInv
<1>1. Init => WriterInv
  BY DEF Init, WriterInv, Wrote, LastWriter
<1>2. ASSUME DeliveryInv, WriterInv, Next PROVE WriterInv'
  <2>1. ASSUME NEW d \in Deliveries, Acts(d) PROVE WriterInv'
    <3>1. CASE UNCHANGED <<store, writers, accepted>>
      BY <1>2, <2>1, <3>1, RestKeepsWriterInv, BodiesStay
    <3>2. ASSUME NEW i \in 1..Len(CallsOf(d)), Apply(d, CallsOf(d)[i]),
                 stage[d] # "unsent", body' = body
          PROVE  WriterInv'
      BY <1>2, <2>1, <3>2, ApplyKeepsWriterInv
    <3> QED
      BY <1>2, <2>1, <3>1, <3>2, WhoApplies
  <2>2. ASSUME NEW gone \in SUBSET Held, Crash(gone) PROVE WriterInv'
    BY <1>2, <2>2, RestKeepsWriterInv DEF Crash
  <2> QED
    BY <1>2, <2>1, <2>2, NextIsOneActs
<1>3. ASSUME DeliveryInv, WriterInv, UNCHANGED vars PROVE WriterInv'
  BY <1>3, RestKeepsWriterInv DEF vars, hubVars
<1> QED
  BY <1>1, <1>2, <1>3, DeliveryInvariant, PTL DEF Spec

(* A call of an idempotent action that follows an earlier one of the same  *)
(* delivery, with nobody else's in between, sets what is set.              *)
LEMMA ReplayIsSilent ==
  ASSUME DeliveryInv, WriterInv, NEW d \in Deliveries, Sent(d),
         Operation(body[d]) \in IdempotentActions, accepted[d] > 0,
         NEW i \in 1..Len(CallsOf(d)), Apply(d, CallsOf(d)[i]),
         LET w == writers[CallsOf(d)[i].target]
         IN  w # <<>> => w[Len(w)] = d
  PROVE  /\ store' = store
         /\ \A t \in Targets : t[1] \in {"runs", "token"} =>
              writers'[t] = writers[t]
<1> DEFINE call == CallsOf(d)[i]
           t    == call.target
<1>1. /\ body[d] \in Bodies /\ DOMAIN CallsOf(d) = 1..Len(CallsOf(d))
      /\ WellFormed(call) /\ t \in Targets
      /\ call.kind # "create" => Len(CallsOf(d)) = 1
  BY SentFacts DEF Sent, DeliveryInv, OneInv, Begun
<1>2. call.kind \in {"put", "get"}
  BY <1>1, IdempotentPutsOrGets, CallsOfBody
<1>3. CASE call.kind = "get"
  BY <1>3 DEF Apply
<1>4. CASE call.kind = "put"
  <2>1. WritesTo(d, t)
    BY <1>1, <1>4 DEF WritesTo
  <2>2. writers[t] # <<>>
    BY <1>1, <2>1 DEF WriterInv, Wrote
  <2>3. store[t] = CallsOf(d)[1].value /\ i = 1
    BY <1>1, <1>4, <2>1, <2>2 DEF WriterInv, LastWriter
  <2>4. store' = [store EXCEPT ![t] = store[t]]
    BY <1>4, <2>3 DEF Apply
  <2>5. store' = store
    BY <2>4 DEF DeliveryInv, TypeOK
  <2>6. writers' = [writers EXCEPT ![t] = Append(@, d)]
    BY <1>4 DEF Apply
  <2>7. t[1] \in {"environment", "team"}
    BY <1>1, <1>4 DEF WellFormed
  <2> QED
    BY <2>5, <2>6, <2>7 DEF DeliveryInv, TypeOK
<1> QED
  BY <1>2, <1>3, <1>4

(* An action the catalog flags Idempotent (spec.go:308-346) may be         *)
(* delivered again, after a crash or with a call that lands late: as long  *)
(* as nobody else has written to its target since, nothing changes once it *)
(* has been applied.                                                       *)
THEOREM ReplaysAreSilent == Spec => ReplayChangesNothing
<1> DEFINE Silent ==
      \A d \in Deliveries :
        /\ accepted[d] > 0
        /\ accepted'[d] > accepted[d]
        /\ Operation(body[d]) \in IdempotentActions
        /\ \A i \in DOMAIN CallsOf(d) :
             LET w == writers[CallsOf(d)[i].target]
             IN  w # <<>> => w[Len(w)] = d
        => /\ store' = store
           /\ \A t \in Targets : t[1] \in {"runs", "token"} =>
                writers'[t] = writers[t]
<1>1. ASSUME DeliveryInv, WriterInv, [Next]_vars PROVE Silent
  <2> SUFFICES ASSUME NEW d \in Deliveries,
                      accepted[d] > 0, accepted'[d] > accepted[d],
                      Operation(body[d]) \in IdempotentActions,
                      \A i \in DOMAIN CallsOf(d) :
                        LET w == writers[CallsOf(d)[i].target]
                        IN  w # <<>> => w[Len(w)] = d
               PROVE  /\ store' = store
                      /\ \A t \in Targets : t[1] \in {"runs", "token"} =>
                           writers'[t] = writers[t]
    OBVIOUS
  <2>1. accepted'[d] # accepted[d]
    BY <1>1 DEF DeliveryInv, TypeOK
  <2>2. Acts(d)
    <3>1. ASSUME NEW e \in Deliveries, Acts(e) PROVE e = d
      BY <1>1, <2>1, <3>1, ActsApart DEF Apart
    <3>2. (\A gone : ~Crash(gone)) /\ ~UNCHANGED vars
      BY <2>1 DEF Crash, vars, hubVars
    <3> QED
      BY <1>1, <3>1, <3>2, NextIsOneActs
  <2>3. PICK i \in 1..Len(CallsOf(d)) : Apply(d, CallsOf(d)[i])
    BY <1>1, <2>1, <2>2, WhoApplies
  <2>4. Sent(d)
    <3>1. accepted[d] \in Nat
      BY <1>1 DEF DeliveryInv, TypeOK
    <3> QED
      BY <1>1, <3>1 DEF Sent, DeliveryInv, OneInv, Begun
  <2>5. DOMAIN CallsOf(d) = 1..Len(CallsOf(d))
    BY <1>1, <2>4, SentFacts DEF Sent, DeliveryInv, OneInv, Begun
  <2> QED
    BY <1>1, <2>3, <2>4, <2>5, ReplayIsSilent
<1> QED
  BY <1>1, DeliveryInvariant, WriterInvHolds, PTL
     DEF Spec, ReplayChangesNothing
=============================================================================
