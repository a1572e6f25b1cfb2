-------------------------- MODULE PublicationProofs ---------------------------
(***************************************************************************)
(* create_pull_request, call by call, keeps the promise of Publication, if *)
(* no answer lacks the field the code reads: the initial states of         *)
(* PullRequest are initial states of Publication, and each of its steps is *)
(* one step there, or none.                                                *)
(***************************************************************************)
EXTENDS OutcomeProofs

view == <<req, Outcomes, Tips, Trees, Publishers, Openers, Doubts>>

(* The words of Publication are those of PullRequest.                      *)
LEMMA SameWords ==
  /\ \A r : Promise!Valid(r) <=> Valid(r)
  /\ \A r : Promise!Branch(r) = Branch(r)
  /\ \A r : Promise!Base(r) = Base(r)
  /\ \A r : Promise!Files(r) = Files(r)
  /\ \A base, list : Promise!Overlays(base, list) = Overlays(base, list)
  <1>1. ASSUME NEW source, NEW keys
        PROVE  Promise!FirstString(source, keys) = FirstString(source, keys)
    BY DEF Promise!FirstString, FirstString, Promise!Min, Min
  <1>2. ASSUME NEW a, NEW b PROVE Promise!??(a, b) = (a ?? b)
    BY DEF ??, Promise!??
  <1>3. \A r : Promise!Branch(r) = Branch(r)
    BY <1>1 DEF Promise!Branch, Branch
  <1>4. \A r : Promise!Base(r) = Base(r)
    BY <1>1, <1>2 DEF Promise!Base, Base
  <1>5. \A r : Promise!RawFiles(r) = RawFiles(r)
    BY DEF Promise!RawFiles, RawFiles
  <1>6. \A r : Promise!Files(r) = Files(r)
    BY <1>2, <1>5 DEF Promise!Files, Files
  <1>7. \A r : Promise!Valid(r) <=> Valid(r)
    BY <1>1, <1>2, <1>3, <1>5
       DEF Promise!Valid, Valid, Promise!Repository, Repository,
           Promise!Message, Message, Promise!ResolveToken, ResolveToken
  <1>8. \A base, list : Promise!Overlays(base, list) = Overlays(base, list)
    BY DEF Promise!Overlays, Overlays, Promise!Tree, Tree
  <1> QED
    BY <1>3, <1>4, <1>6, <1>7, <1>8

Stored(c) == commits[c] # None
NothingForgotten == \A c \in CommitIDs : Stored(c) => commits'[c] = commits[c]

(* What branches show stays while they do, and no stored commit changes.   *)
LEMMA BranchesStay ==
  ASSUME CommitInv, UNCHANGED <<refs, reflog>>, NothingForgotten
  PROVE  UNCHANGED <<Tips, Trees, Publishers>>
  <1>1. \A x \in Executions : Published(x)' <=> Published(x)
    BY HistoriesStay, SamePublished DEF NothingForgotten, Stored
  <1>2. Publishers' = Publishers
    BY <1>1 DEF Publishers
  <1>3. Tips' = Tips
    BY DEF Tips, CommitInv, HistoriesAreStored, TypeOK, RepoTypeOK,
           NothingForgotten, Stored
  <1>4. Trees' = Trees
    BY DEF Trees, CommitInv, HistoriesAreStored, TypeOK, RepoTypeOK,
           NothingForgotten, Stored
  <1> QED
    BY <1>2, <1>3, <1>4

LEMMA TreesOf ==
  ASSUME NEW S, NEW f, NEW g, NEW c, \A e \in S : g[e] = f[e]
  PROVE  /\ {g[e].tree : e \in S} = {f[e].tree : e \in S}
         /\ {g[e].tree : e \in S \cup {c}}
              = {f[e].tree : e \in S} \cup {g[c].tree}
  OBVIOUS

LEMMA BranchIsPut ==
  ASSUME CommitInv, NEW b \in Branches, NEW c \in CommitIDs, Point(b, c),
         NothingForgotten
  PROVE  Promise!Put(b, commits'[c].tree, commits'[c].by)
  <1> USE DEF CommitInv, TypeOK, RepoTypeOK, HistoriesAreStored,
              NothingForgotten, Stored
  <1>1. /\ refs' = [refs EXCEPT ![b] = c]
        /\ reflog' = [reflog EXCEPT ![b] = @ \cup {c}]
        /\ c # None
    BY RepositoryAssumption DEF Point
  <1>2. Tips' = [Tips EXCEPT ![b] = [tree |-> commits'[c].tree,
                                     by   |-> commits'[c].by]]
    BY <1>1 DEF Tips
  <1>3. ASSUME NEW d \in Branches
        PROVE  Trees'[d] = IF d = b THEN Trees[d] \cup {commits'[c].tree}
                                    ELSE Trees[d]
    <2>1. reflog'[d] = IF d = b THEN reflog[d] \cup {c} ELSE reflog[d]
      BY <1>1
    <2>2. \A e \in reflog[d] : commits'[e] = commits[e]
      OBVIOUS
    <2>3. /\ Trees[d] = {commits[e].tree : e \in reflog[d]}
          /\ Trees'[d] = {commits'[e].tree : e \in reflog'[d]}
      BY DEF Trees
    <2>4. Trees'[d] = IF d = b THEN Trees[d] \cup {commits'[c].tree}
                                ELSE Trees[d]
      BY ONLY <2>1, <2>2, <2>3, TreesOf
    <2> QED
      BY <2>4
  <1>4. Trees' = [Trees EXCEPT ![b] = @ \cup {commits'[c].tree}]
    BY <1>3 DEF Trees
  <1> QED
    BY <1>2, <1>4 DEF Promise!Put

(* Where an execution is, as seen from outside.                            *)
LEMMA OutcomeFacts ==
  ASSUME OutcomeInv, NEW x \in Executions
  PROVE  /\ Promise!InFlight(x) <=> pc[x] \in CallSteps
         /\ pc[x] \in CallSteps => Outcomes[x] = "pending" /\ Doubts[x] = None
         /\ pc[x] = "pull" => x \in Publishers \ Openers
         /\ pc[x] \in CallSteps \ {"pull"} => x \notin Publishers
         /\ pc[x] = "validate" <=> req[x] = None
  <1>1. UnderWay(x)
    BY DEF OutcomeInv, OutcomeOf
  <1>2. /\ pc[x] \in Steps
        /\ reply[x] # None => reply[x].status \in {"succeeded", "failed"}
    BY DEF OutcomeInv, CommitInv, TypeOK, Reply
  <1>3. pc[x] \in CallSteps => Doubts[x] = None
    BY NothingInDoubt, FaultAssumption
       DEF OutcomeInv, Doubts, Steps, CallSteps
  <1>4. Outcomes[x] = Outcome(x)
    BY DEF Outcomes
  <1>5. Outcome(x) = "pending" <=> pc[x] \in {"validate"} \cup CallSteps
    BY <1>1, <1>2 DEF Outcome, UnderWay, Steps, CallSteps
  <1>6. Promise!InFlight(x) <=> pc[x] \in CallSteps
    BY <1>1, <1>4, <1>5 DEF Promise!InFlight, UnderWay, CallSteps
  <1>7. /\ pc[x] = "pull" => x \in Publishers \ Openers
        /\ pc[x] \in CallSteps \ {"pull"} => x \notin Publishers
    BY <1>1, DeliveredIsPublished DEF UnderWay, Publishers, Openers, CallSteps
  <1> QED
    BY <1>1, <1>3, <1>4, <1>5, <1>6, <1>7 DEF UnderWay

(* An execution goes on, or tells its caller how it ended.                 *)
LEMMA OutcomeStays ==
  ASSUME TypeOK, NEW x \in Executions, NEW step \in CallSteps, Goto(x, step),
         pc[x] # "crashed", UNCHANGED reply
  PROVE  Outcomes' = Outcomes
  <1>1. \A y \in Executions : pc'[y] = IF y = x THEN step ELSE pc[y]
    BY DEF TypeOK, Goto
  <1> QED
    BY <1>1 DEF Outcomes, Outcome, CallSteps

LEMMA OutcomeIsTold ==
  ASSUME TypeOK, NEW x \in Executions, Goto(x, "done"), NEW r \in Reply,
         reply' = [reply EXCEPT ![x] = r]
  PROVE  Outcomes' = [Outcomes EXCEPT ![x] = r.status]
  <1>1. \A y \in Executions : pc'[y] = IF y = x THEN "done" ELSE pc[y]
    BY DEF TypeOK, Goto
  <1>2. r # None
    BY FaultAssumption
  <1>3. Outcome(x)' = r.status
    BY <1>1, <1>2 DEF Outcome, TypeOK
  <1>4. \A y \in Executions \ {x} : Outcome(y)' = Outcome(y)
    BY <1>1 DEF Outcome, TypeOK
  <1> QED
    BY <1>3, <1>4 DEF Outcomes

LEMMA OutcomeIsFailed ==
  ASSUME TypeOK, NEW x \in Executions, NEW step \in Steps, Fail(x, step)
  PROVE  Outcomes' = [Outcomes EXCEPT ![x] = "failed"]
  <1> DEFINE r == [status |-> "failed", step |-> step, commit |-> None,
                   number |-> None]
  <1>1. r \in Reply
    BY DEF Reply
  <1>2. Goto(x, "done") /\ reply' = [reply EXCEPT ![x] = r]
    BY DEF Fail
  <1>3. Outcomes' = [Outcomes EXCEPT ![x] = r.status]
    BY <1>1, <1>2, OutcomeIsTold
  <1> QED
    BY <1>3

(* An error is seen as one, with its call in doubt or not.                 *)
LEMMA FailIsGiveUp ==
  ASSUME OutcomeInv, NEW x \in Executions, pc[x] \in CallSteps,
         Fail(x, pc[x]),
         UNCHANGED <<req, Tips, Trees, Publishers, Openers>>,
         \/ inDoubt' = inDoubt
         \/ pc[x] \in VisibleSteps /\ inDoubt' = [inDoubt EXCEPT ![x] = pc[x]]
  PROVE  Promise!GiveUp(x)
  <1> USE DEF OutcomeInv, CommitInv, TypeOK
  <1>3. Outcomes' = [Outcomes EXCEPT ![x] = "failed"]
    BY OutcomeIsFailed DEF Steps
  <1>4. Promise!InFlight(x) /\ Doubts[x] = None
    BY OutcomeFacts
  <1>5. CASE inDoubt' = inDoubt
    <2>1. Doubts' = [Doubts EXCEPT ![x] = None]
      BY <1>4, <1>5 DEF Doubts
    <2> QED
      BY <1>3, <1>4, <2>1 DEF Promise!GiveUp
  <1>6. CASE /\ pc[x] \in VisibleSteps
             /\ inDoubt' = [inDoubt EXCEPT ![x] = pc[x]]
    <2>1. Doubts' = [Doubts EXCEPT ![x] = IF pc[x] = "pull" THEN "open"
                                                            ELSE "publish"]
      BY <1>6 DEF Doubts, VisibleSteps
    <2>2. Promise!NextStep(x) = IF pc[x] = "pull" THEN "open" ELSE "publish"
      BY OutcomeFacts DEF Promise!NextStep
    <2> QED
      BY <1>3, <1>4, <2>1, <2>2 DEF Promise!GiveUp
  <1> QED
    BY <1>5, <1>6
-----------------------------------------------------------------------------
(* The step that others see: the branch appears.                           *)
LEMMA RefIsBranch ==
  ASSUME OutcomeInv, "blank" \notin Faults, NEW x \in Executions,
         Requested(x), ~Published(x), RefIsCreated(x), UNCHANGED localVars
  PROVE  Promise!BranchAppears(x) /\ UNCHANGED <<req, Openers>>
  <1> DEFINE b == Branch(req[x])
             c == newCommit[x]
             base == commits[baseSHA[x]].tree
  <1> USE DEF OutcomeInv, CommitInv
  <1>1. /\ b \in Branches /\ Base(req[x]) \in Branches
        /\ c \in CommitIDs /\ commits[c].by = x /\ c \in CreatedBy(x)
        /\ commits' = commits /\ pulls' = pulls /\ Point(b, c)
        /\ UNCHANGED <<req, newCommit>>
    BY RequestType, OwnCommit DEF RefIsCreated, CommitIsMade, localVars
  <1>2. Tips[b] = None
    BY <1>1 DEF RefIsCreated, RefIsFree, Tips
  <1>3. base \in Trees[Base(req[x])]
    BY <1>1 DEF Trees, BaseWasRead, CommitIsMade
  <1>4. commits[c].tree \in Overlays(base, Files(req[x]))
    BY <1>1 DEF CommitIsMade
  <1>5. Promise!Put(b, commits[c].tree, x)
    BY <1>1, BranchIsPut DEF NothingForgotten
  <1>6. Publishers' = Publishers \cup {x}
    <2>1. Published(x)'
      BY <1>1, RefIsDelivered
    <2>2. \A y \in Executions \ {x} : Published(y)' <=> Published(y)
      BY RefIsCreatedOn, SamePublished
    <2> QED
      BY <2>1, <2>2 DEF Publishers
  <1>7. x \notin Publishers
    BY DEF Publishers
  <1>8. Openers' = Openers
    BY <1>1 DEF Openers
  <1> QED
    BY <1>1, <1>2, <1>3, <1>4, <1>5, <1>6, <1>7, <1>8, SameWords
       DEF Promise!BranchAppears

(* The pull request appears.                                               *)
LEMMA PullIsPromised ==
  ASSUME OutcomeInv, NEW x \in Executions, Delivered(x), pulls[x] = None,
         PullIsOpened(x), UNCHANGED localVars
  PROVE  Promise!PullAppears(x) /\ req' = req
  <1> USE DEF OutcomeInv, CommitInv
  <1>1. /\ UNCHANGED <<refs, reflog>> /\ NothingForgotten /\ req' = req
        /\ \A y \in Executions \ {x} : pulls'[y] = pulls[y]
    BY DEF PullIsOpened, NothingForgotten, localVars, TypeOK, RepoTypeOK
  <1>2. UNCHANGED <<Tips, Trees, Publishers>>
    BY <1>1, BranchesStay
  <1>3. Openers' = Openers \cup {x}
    BY <1>1, PullIsThere DEF Openers
  <1>4. x \in Publishers \ Openers
    BY DeliveredIsPublished DEF Publishers, Openers
  <1> QED
    BY <1>1, <1>2, <1>3, <1>4 DEF Promise!PullAppears
-----------------------------------------------------------------------------
LEMMA AcceptIsAsk ==
  ASSUME OutcomeInv, NEW x \in Executions, Accept(x)
  PROVE  Promise!Ask(x)
  <1> USE DEF OutcomeInv, CommitInv
  <1>1. PICK r \in Requests :
          /\ req' = [req EXCEPT ![x] = r]
          /\ IF Valid(r) THEN Goto(x, "base_ref") /\ UNCHANGED reply
                         ELSE Fail(x, "validate")
    BY DEF Accept
  <1>2. req[x] = None /\ pc[x] = "validate"
    BY OutcomeFacts DEF Accept
  <1>3. UNCHANGED <<Tips, Trees, Publishers, Openers, Doubts>>
    <2>1. UNCHANGED <<refs, reflog, commits, pulls, inDoubt>>
      BY DEF Accept, repoVars
    <2> QED
      BY <2>1, BranchesStay DEF NothingForgotten, Openers, Doubts
  <1>4. CASE Valid(r)
    <2>1. Outcomes' = Outcomes
      BY <1>1, <1>2, <1>4, OutcomeStays DEF CallSteps
    <2> QED
      BY <1>1, <1>2, <1>3, <1>4, <2>1, SameWords DEF Promise!Ask, Outcomes
  <1>5. CASE ~Valid(r)
    <2>1. Outcomes' = [Outcomes EXCEPT ![x] = "failed"]
      BY <1>1, <1>5, OutcomeIsFailed DEF Steps
    <2> QED
      BY <1>1, <1>2, <1>3, <1>5, <2>1, SameWords DEF Promise!Ask
  <1> QED
    BY <1>4, <1>5

(* The calls that build blobs, tree and commit do not show, unless they    *)
(* fail.                                                                   *)
LEMMA PrivateIsHidden ==
  ASSUME OutcomeInv, NEW x \in Executions,
         \/ GetRefSHA(x) \/ GetCommitTreeSHA(x) \/ CreateBlob(x)
         \/ CreateTree(x) \/ CreateCommit(x)
  PROVE  Promise!GiveUp(x) \/ UNCHANGED view
  <1> USE DEF OutcomeInv, CommitInv
  <1>1. /\ UNCHANGED <<refs, reflog, pulls, req, inDoubt>>
        /\ NothingForgotten
        /\ pc[x] \in CallSteps \ {"ref", "pull"}
    BY DEF GetRefSHA, GetCommitTreeSHA, CreateBlob, CreateTree, CreateCommit,
           StoreCommit, Unused, NothingForgotten, Stored, repoVars, CallSteps,
           TypeOK, RepoTypeOK
  <1>2. UNCHANGED <<req, Tips, Trees, Publishers, Openers, Doubts>>
    BY <1>1, BranchesStay DEF Openers, Doubts
  <1>3. \/ Fail(x, pc[x])
        \/ (\E step \in CallSteps : Goto(x, step)) /\ UNCHANGED reply
    BY DEF GetRefSHA, GetCommitTreeSHA, CreateBlob, CreateTree, CreateCommit,
           CallSteps
  <1>4. CASE Fail(x, pc[x])
    BY <1>1, <1>2, <1>4, FailIsGiveUp
  <1>5. CASE (\E step \in CallSteps : Goto(x, step)) /\ UNCHANGED reply
    BY <1>1, <1>2, <1>5, OutcomeStays DEF view, CallSteps
  <1> QED
    BY <1>3, <1>4, <1>5

LEMMA CreateRefIsPublish ==
  ASSUME OutcomeInv, "blank" \notin Faults, NEW x \in Executions, CreateRef(x)
  PROVE  Promise!Publish(x)
  <1> USE DEF OutcomeInv, CommitInv
  <1>1. /\ pc[x] = "ref" /\ RefIsCreated(x)
        /\ UNCHANGED <<localVars, inDoubt>> /\ Requested(x) /\ ~Published(x)
    BY DEF CreateRef, CallsInOrder, OutcomeOf, UnderWay, CallSteps
  <1>2. Promise!BranchAppears(x) /\ req' = req
    BY <1>1, RefIsBranch
  <1>3. Promise!InFlight(x) /\ Doubts' = Doubts
    BY <1>1, OutcomeFacts DEF Doubts, CallSteps
  <1>4. /\ Outcomes[x] = "pending"
        /\ Outcomes \in [Executions -> {Outcomes[y] : y \in Executions}]
    BY <1>1, OutcomeFacts DEF Outcomes, CallSteps
  <1>5. CASE Goto(x, "pull") /\ UNCHANGED reply
    <2>1. Outcomes' = [Outcomes EXCEPT ![x] = "pending"]
      BY <1>1, <1>4, <1>5, OutcomeStays DEF CallSteps
    <2> QED
      BY <1>2, <1>3, <2>1 DEF Promise!Publish
  <1>6. CASE Fail(x, "ref")
    <2>1. Outcomes' = [Outcomes EXCEPT ![x] = "failed"]
      BY <1>6, OutcomeIsFailed DEF Steps, CallSteps
    <2> QED
      BY <1>2, <1>3, <2>1 DEF Promise!Publish
  <1> QED
    BY <1>5, <1>6 DEF CreateRef

LEMMA OpenIsOpen ==
  ASSUME OutcomeInv, NEW x \in Executions, OpenPullRequest(x)
  PROVE  Promise!Open(x)
  <1> USE DEF OutcomeInv, CommitInv
  <1>1. /\ pc[x] = "pull" /\ PullIsOpened(x) /\ UNCHANGED <<localVars, inDoubt>>
        /\ Delivered(x) /\ pulls[x] = None
    BY DEF OpenPullRequest, OutcomeOf, UnderWay, CallSteps
  <1>2. Promise!PullAppears(x) /\ req' = req
    BY <1>1, PullIsPromised
  <1>3. Promise!InFlight(x) /\ Doubts' = Doubts
    BY <1>1, OutcomeFacts DEF Doubts, CallSteps
  <1>4. \E told \in {"succeeded", "failed"} :
          Outcomes' = [Outcomes EXCEPT ![x] = told]
    <2>1. CASE Fail(x, "pull")
      BY <2>1, OutcomeIsFailed DEF Steps, CallSteps
    <2>2. ASSUME NEW number \in Decoded(x), Goto(x, "done"),
                 reply' = [reply EXCEPT ![x] =
                             [status |-> "succeeded", step |-> "done",
                              commit |-> newCommit[x], number |-> number]]
          PROVE  Outcomes' = [Outcomes EXCEPT ![x] = "succeeded"]
      <3> DEFINE r == [status |-> "succeeded", step |-> "done",
                       commit |-> newCommit[x], number |-> number]
      <3>1. r \in Reply
        BY DEF Reply, Steps, Decoded, TypeOK
      <3> QED
        BY <2>2, <3>1, OutcomeIsTold
    <2> QED
      BY <2>1, <2>2 DEF OpenPullRequest
  <1> QED
    BY <1>2, <1>3, <1>4 DEF Promise!Open

LEMMA CallRefusedIsGiveUp ==
  ASSUME OutcomeInv, NEW x \in Executions, CallRefused(x)
  PROVE  Promise!GiveUp(x)
  <1>1. /\ UNCHANGED <<refs, reflog, commits, pulls, req>>
        /\ pc[x] \in CallSteps /\ Fail(x, pc[x])
        /\ \/ inDoubt' = inDoubt
           \/ pc[x] \in VisibleSteps /\ inDoubt' = [inDoubt EXCEPT ![x] = pc[x]]
    BY DEF CallRefused, repoVars, localVars
  <1>2. UNCHANGED <<Tips, Trees, Publishers, Openers>>
    BY <1>1, BranchesStay DEF OutcomeInv, NothingForgotten, Openers
  <1> QED
    BY <1>1, <1>2, FailIsGiveUp

LEMMA CallLandsIsFollow ==
  ASSUME OutcomeInv, "blank" \notin Faults, NEW x \in Executions, CallLands(x)
  PROVE  Promise!Follow(x)
  <1> USE DEF OutcomeInv, CommitInv
  <1>1. /\ UNCHANGED <<pc, localVars, reply>>
        /\ inDoubt' = [inDoubt EXCEPT ![x] = None]
        /\ inDoubt[x] # None /\ Requested(x) /\ pulls[x] = None
    BY FaultAssumption DEF CallLands, OutcomeOf, EndedInDoubt, CallsInOrder,
       Steps, CallSteps
  <1>2. Outcomes' = Outcomes
    BY <1>1 DEF Outcomes, Outcome
  <1>3. Doubts' = [Doubts EXCEPT ![x] = None]
    <2>1. \A y \in Executions : inDoubt'[y] = IF y = x THEN None ELSE inDoubt[y]
      BY <1>1 DEF TypeOK
    <2>2. None \notin {"ref", "pull"}
      BY FaultAssumption DEF Steps, CallSteps
    <2> QED
      BY <2>1, <2>2 DEF Doubts
  <1>4. CASE inDoubt[x] = "ref" /\ RefIsCreated(x)
    <2>1. Promise!BranchAppears(x) /\ req' = req
      BY <1>1, <1>4, RefIsBranch DEF OutcomeOf, EndedInDoubt
    <2>2. Doubts[x] = "publish"
      BY <1>4 DEF Doubts
    <2> QED
      BY <1>2, <1>3, <2>1, <2>2 DEF Promise!Follow
  <1>5. CASE inDoubt[x] = "pull" /\ PullIsOpened(x)
    <2>1. Promise!PullAppears(x) /\ req' = req
      BY <1>1, <1>5, PullIsPromised DEF OutcomeOf, EndedInDoubt
    <2>2. Doubts[x] = "open"
      BY <1>5 DEF Doubts
    <2> QED
      BY <1>2, <1>3, <2>1, <2>2 DEF Promise!Follow
  <1> QED
    BY <1>4, <1>5 DEF CallLands

LEMMA CrashIsCrash ==
  ASSUME OutcomeInv, Crash
  PROVE  Promise!Crash
  <1> USE DEF OutcomeInv, CommitInv
  <1>1. UNCHANGED <<refs, reflog, commits, pulls, req, reply>>
    BY DEF Crash, repoVars, localVars
  <1>2. PICK gone \in SUBSET Running,
             sent \in SUBSET {x \in Running : pc[x] \in VisibleSteps} :
          /\ sent \subseteq gone
          /\ pc' = [x \in Executions |-> IF x \in gone THEN "crashed"
                                         ELSE pc[x]]
          /\ inDoubt' = [x \in Executions |->
                           IF x \in sent THEN pc[x] ELSE inDoubt[x]]
    BY DEF Crash
  <1>3. UNCHANGED <<Tips, Trees, Publishers, Openers>>
    BY <1>1, BranchesStay DEF NothingForgotten, Openers
  <1>4. \A x \in Executions : Promise!InFlight(x) <=> x \in Running
    BY OutcomeFacts DEF Running
  <1>5. Outcomes' = [x \in Executions |-> IF x \in gone THEN "lost"
                                          ELSE Outcomes[x]]
    BY <1>1, <1>2 DEF Outcomes, Outcome
  <1>6. Doubts' = [x \in Executions |-> IF x \in sent THEN Promise!NextStep(x)
                                        ELSE Doubts[x]]
    <2>1. ASSUME NEW x \in Executions, x \in sent
          PROVE  Doubts'[x] = Promise!NextStep(x)
      <3>1. pc[x] \in {"ref", "pull"} /\ inDoubt'[x] = pc[x]
        BY <1>2, <2>1 DEF VisibleSteps
      <3>2. Doubts'[x] = IF pc[x] = "pull" THEN "open" ELSE "publish"
        BY <3>1 DEF Doubts
      <3>3. Promise!NextStep(x) = IF pc[x] = "pull" THEN "open" ELSE "publish"
        BY <3>1, OutcomeFacts DEF Promise!NextStep, CallSteps
      <3> QED
        BY <3>2, <3>3
    <2>2. ASSUME NEW x \in Executions, x \notin sent
          PROVE  Doubts'[x] = Doubts[x]
      BY <1>2, <2>2 DEF Doubts
    <2> QED
      BY <2>1, <2>2 DEF Doubts
  <1>7. /\ gone \in SUBSET {x \in Executions : Promise!InFlight(x)}
        /\ sent \in SUBSET gone
    BY <1>2, <1>4 DEF Running
  <1> QED
    BY <1>1, <1>3, <1>5, <1>6, <1>7 DEF Promise!Crash
-----------------------------------------------------------------------------
(* The other actors.                                                       *)
LEMMA PushIsPush ==
  ASSUME OutcomeInv, NEW b \in Branches, Push(b),
         UNCHANGED <<pc, localVars, reply, inDoubt>>
  PROVE  Promise!Push(b)
  <1> USE DEF OutcomeInv, CommitInv
  <1> DEFINE parent == refs[b] ?? refs[Main]
  <1>1. PICK c \in CommitIDs, p \in Paths, content \in Contents \cup {None} :
          /\ StoreCommit(c, [commits[parent].tree EXCEPT ![p] = content],
                         parent, None)
          /\ Point(b, c)
    BY DEF Push
  <1>2. parent \in CommitIDs /\ commits[parent] \in Commit
    BY RequestAssumption DEF ??, HistoriesAreStored, TypeOK, RepoTypeOK
  <1>3. [commits[parent].tree EXCEPT ![p] = content] \in Tree
    BY <1>2 DEF Commit, Tree
  <1>4. /\ NothingForgotten
        /\ commits'[c].tree = [commits[parent].tree EXCEPT ![p] = content]
        /\ commits'[c].by = None
    BY <1>1 DEF StoreCommit, Unused, NothingForgotten, Stored, TypeOK,
                RepoTypeOK
  <1>5. Promise!Put(b, commits'[c].tree, None)
    BY <1>1, <1>4, BranchIsPut
  <1>6. /\ Publishers' = Publishers
        /\ Openers' = Openers
        /\ UNCHANGED <<req, Outcomes, Doubts>>
        /\ b \in HumanBranches
    <2>1. \A x \in Executions : Published(x)' <=> Published(x)
      BY PushIsNotOurs, SamePublished
    <2> QED
      BY <2>1 DEF Push, Publishers, Openers, Outcomes, Outcome, Doubts,
                  localVars
  <1>7. \E tree \in Tree : Promise!Put(b, tree, None)
    BY <1>3, <1>4, <1>5
  <1> QED
    BY <1>6, <1>7 DEF Promise!Push, Promise!Tree, Tree

LEMMA DeleteIsDelete ==
  ASSUME OutcomeInv, NEW b \in Branches, DeleteBranch(b),
         UNCHANGED <<pc, localVars, reply, inDoubt>>
  PROVE  Promise!Delete(b)
  <1> USE DEF OutcomeInv, CommitInv
  <1>1. /\ b \in Deletable /\ UNCHANGED <<commits, reflog, req>>
        /\ refs' = [refs EXCEPT ![b] = None]
    BY DEF DeleteBranch, localVars
  <1>2. \A x \in Executions : pulls'[x] = None <=> pulls[x] = None
    BY ClosedType, RepositoryAssumption DEF DeleteBranch, TypeOK, RepoTypeOK
  <1>3. Tips' = [Tips EXCEPT ![b] = None]
    BY <1>1 DEF Tips, TypeOK, RepoTypeOK
  <1>4. Trees' = Trees /\ Publishers' = Publishers
    BY <1>1 DEF Trees, Publishers, Published, CreatedBy
  <1>5. Openers' = Openers
    BY <1>2 DEF Openers
  <1>6. UNCHANGED <<Outcomes, Doubts>>
    BY DEF Outcomes, Outcome, Doubts
  <1> QED
    BY <1>1, <1>3, <1>4, <1>5, <1>6 DEF Promise!Delete

LEMMA CloseIsHidden ==
  ASSUME OutcomeInv, NEW x \in Executions, ClosePull(x),
         UNCHANGED <<pc, localVars, reply, inDoubt>>
  PROVE  UNCHANGED view
  <1> USE DEF OutcomeInv, CommitInv
  <1>1. UNCHANGED <<refs, commits, reflog, req>>
    BY DEF ClosePull, localVars
  <1>2. \A y \in Executions : pulls'[y] = None <=> pulls[y] = None
    <2>1. pulls' = [pulls EXCEPT ![x] = [pulls[x] EXCEPT !.open = FALSE]]
      BY DEF ClosePull
    <2> QED
      BY <2>1, ClosedType, RepositoryAssumption
         DEF ClosePull, TypeOK, RepoTypeOK
  <1>3. Tips' = Tips /\ Trees' = Trees /\ Publishers' = Publishers
    BY <1>1 DEF Tips, Trees, Publishers, Published, CreatedBy
  <1>4. Openers' = Openers
    BY <1>2 DEF Openers
  <1>5. UNCHANGED <<Outcomes, Doubts>>
    BY DEF Outcomes, Outcome, Doubts
  <1> QED
    BY <1>1, <1>3, <1>4, <1>5 DEF view

LEMMA StutterIsHidden ==
  ASSUME UNCHANGED vars
  PROVE  UNCHANGED view
  BY DEF vars, view, Outcomes, Outcome, Tips, Trees, Publishers, Published,
         CreatedBy, Openers, Doubts
-----------------------------------------------------------------------------
LEMMA InitIsInit == Init => Promise!Init
  <1> SUFFICES ASSUME Init PROVE Promise!Init
    OBVIOUS
  <1>1. OutcomeInv
    BY InitOutcome
  <1>2. Outcomes = [x \in Executions |-> "pending"]
    BY FaultAssumption DEF Init, Outcomes, Outcome
  <1>3. Tips = [b \in Branches |->
                  IF b = Main THEN [tree |-> InitialFiles, by |-> None]
                  ELSE None]
    BY RepositoryAssumption DEF Init, RepoInit, Tips
  <1>4. Trees = [b \in Branches |-> IF b = Main THEN {InitialFiles} ELSE {}]
    BY RepositoryAssumption DEF Init, RepoInit, Trees
  <1>5. Publishers = {} /\ Openers = {}
    BY RepositoryAssumption DEF Init, RepoInit, Publishers, Published,
       CreatedBy, Openers
  <1>6. Doubts = [x \in Executions |-> None]
    <2>1. None \notin {"ref", "pull"}
      BY FaultAssumption DEF Steps, CallSteps
    <2> QED
      BY <2>1 DEF Init, Doubts
  <1> QED
    BY <1>2, <1>3, <1>4, <1>5, <1>6 DEF Init, Promise!Init

LEMMA NextIsNext ==
  ASSUME "blank" \notin Faults, OutcomeInv, [Next]_vars
  PROVE  Promise!Next \/ UNCHANGED view
  <1>1. ASSUME NEW x \in Executions, Accept(x) \/ Step(x) \/ CallLands(x)
        PROVE  Promise!Next \/ UNCHANGED view
    <2>1. CASE Accept(x)
      BY <2>1, AcceptIsAsk DEF Promise!Next
    <2>2. CASE \/ GetRefSHA(x) \/ GetCommitTreeSHA(x) \/ CreateBlob(x)
               \/ CreateTree(x) \/ CreateCommit(x)
      BY <2>2, PrivateIsHidden DEF Promise!Next
    <2>3. CASE CreateRef(x)
      BY <2>3, CreateRefIsPublish DEF Promise!Next
    <2>4. CASE OpenPullRequest(x)
      BY <2>4, OpenIsOpen DEF Promise!Next
    <2>5. CASE CallRefused(x)
      BY <2>5, CallRefusedIsGiveUp DEF Promise!Next
    <2>6. CASE CallLands(x)
      BY <2>6, CallLandsIsFollow DEF Promise!Next
    <2> QED
      BY <1>1, <2>1, <2>2, <2>3, <2>4, <2>5, <2>6 DEF Step
  <1>2. CASE Crash
    BY <1>2, CrashIsCrash DEF Promise!Next
  <1>3. CASE Humans /\ UNCHANGED <<pc, localVars, reply, inDoubt>>
    BY <1>3, PushIsPush, DeleteIsDelete, CloseIsHidden
       DEF Humans, Promise!Next
  <1>4. CASE UNCHANGED vars
    BY <1>4, StutterIsHidden
  <1> QED
    BY <1>1, <1>2, <1>3, <1>4 DEF Next

(* create_pull_request, however its calls and those of other executions    *)
(* and actors interleave, fail, arrive late or are cut off by a crash, is  *)
(* seen from outside as Publication: a branch that appears whole and at    *)
(* once, a pull request opened after it by its own execution, or neither,  *)
(* and an outcome that fits.                                               *)
THEOREM KeepsItsPromise ==
  ASSUME "blank" \notin Faults
  PROVE  Spec => PromiseKept
  <1>1. OutcomeInv /\ [Next]_vars => [Promise!Next]_(Promise!pubVars)
    BY NextIsNext DEF view, Promise!pubVars
  <1> QED
    BY InitIsInit, OutcomeInvariant, <1>1, PTL
       DEF Spec, PromiseKept, Promise!Spec
=============================================================================
