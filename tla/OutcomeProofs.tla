---------------------------- MODULE OutcomeProofs -----------------------------
(***************************************************************************)
(* What callers of create_pull_request are told, and what becomes of their *)
(* branches, for every set of requests, executions, branches, files and    *)
(* faults, and for any number of pushes by other actors.                   *)
(***************************************************************************)
EXTENDS PullRequestProofs

(* The commits of x that branch b has pointed at.                          *)
On(x, b) == CreatedBy(x) \cap reflog[b]

(* Commits of x are published on its own branch only.                      *)
KeepsToItsBranch(x) ==
  \A b \in Branches : On(x, b) # {} => b = Branch(req[x])

(* The commit of x has been on its branch.                                 *)
Delivered(x) == /\ Requested(x)
                /\ newCommit[x] \in On(x, Branch(req[x]))

(* What an execution that is under way has done, and has not done yet.     *)
UnderWay(x) ==
  /\ pc[x] = "validate" <=> req[x] = None
  /\ pc[x] = "done" <=> reply[x] # None
  /\ pc[x] \in {"validate"} \cup CallSteps => pulls[x] = None
  /\ pc[x] \in {"validate"} \cup (CallSteps \ {"pull"}) => ~Published(x)
  /\ pc[x] = "pull" => Delivered(x)

(* A call in doubt is the one at which the execution ended.                *)
EndedInDoubt(x) ==
  /\ inDoubt[x] # None => pulls[x] = None
  /\ inDoubt[x] = "ref"  => /\ ~Published(x)
                            /\ reply[x] # None => FailedAt(x, "ref")
  /\ inDoubt[x] = "pull" => /\ Delivered(x)
                            /\ reply[x] # None => FailedAt(x, "pull")

(* A pull request is opened for a commit that was delivered.               *)
OpenedAfter(x) ==
  pulls[x] # None => /\ Delivered(x)
                     /\ pulls[x].head = Branch(req[x])
                     /\ pulls[x].base = Base(req[x])

(* The replies are true.                                                   *)
ToldTheTruth(x) ==
  /\ \A step \in Steps : FailedAt(x, step) =>
       /\ step \notin {"ref", "pull"} => ~Published(x)
       /\ step # "pull" => pulls[x] = None
       /\ step = "pull" => Published(x)
  /\ Succeeded(x) => /\ pulls[x] # None
                     /\ reply[x].commit = newCommit[x]
                     /\ "blank" \notin Faults => reply[x].number = x

OutcomeOf(x) == /\ KeepsToItsBranch(x) /\ UnderWay(x) /\ EndedInDoubt(x)
                /\ OpenedAfter(x) /\ ToldTheTruth(x)

(* An inductive invariant.                                                 *)
OutcomeInv == CommitInv /\ \A x \in Executions : OutcomeOf(x)
-----------------------------------------------------------------------------
(* A step leaves the commits that y has published alone.                   *)
SameOn(y) == \A b \in Branches : On(y, b)' = On(y, b)

(* A step leaves y alone: others may at most close its pull request.       *)
SameFor(y) ==
  /\ SameOn(y)
  /\ pulls'[y] = None <=> pulls[y] = None
  /\ pulls[y] # None => /\ pulls'[y].head = pulls[y].head
                        /\ pulls'[y].base = pulls[y].base
  /\ pc'[y] = pc[y] /\ req'[y] = req[y] /\ newCommit'[y] = newCommit[y]
  /\ reply'[y] = reply[y] /\ inDoubt'[y] = inDoubt[y]

LEMMA PublishedIsOn ==
  ASSUME NEW x \in Executions
  PROVE  Published(x) <=> \E b \in Branches : On(x, b) # {}
  BY DEF Published, On

LEMMA SamePublished ==
  ASSUME NEW y \in Executions, SameOn(y)
  PROVE  Published(y)' <=> Published(y)
  BY DEF Published, SameOn, On

LEMMA DeliveredIsPublished ==
  ASSUME NEW x \in Executions, Delivered(x)
  PROVE  Published(x)
  BY RequestType DEF Delivered, Published, On

LEMMA StaysDelivered ==
  ASSUME NEW y \in Executions, SameOn(y), req'[y] = req[y],
         newCommit'[y] = newCommit[y], Delivered(y)
  PROVE  Delivered(y)'
  BY RequestType DEF Delivered, SameOn, Requested

LEMMA OutcomeRests ==
  ASSUME NEW y \in Executions, OutcomeOf(y), SameFor(y)
  PROVE  OutcomeOf(y)'
  <1>1. Published(y)' <=> Published(y)
    BY SamePublished DEF SameFor
  <1>2. Delivered(y) => Delivered(y)'
    BY StaysDelivered DEF SameFor
  <1>3. KeepsToItsBranch(y)'
    BY DEF OutcomeOf, KeepsToItsBranch, SameFor, SameOn
  <1>4. UnderWay(y)'
    BY <1>1, <1>2 DEF OutcomeOf, UnderWay, SameFor
  <1>5. EndedInDoubt(y)'
    BY <1>1, <1>2 DEF OutcomeOf, EndedInDoubt, SameFor, FailedAt
  <1>6. OpenedAfter(y)'
    BY <1>2 DEF OutcomeOf, OpenedAfter, SameFor
  <1>7. ToldTheTruth(y)'
    BY <1>1 DEF OutcomeOf, ToldTheTruth, SameFor, FailedAt, Succeeded
  <1> QED
    BY <1>3, <1>4, <1>5, <1>6, <1>7 DEF OutcomeOf

(* No branch shows it when commits are stored.                             *)
LEMMA HistoriesStay ==
  ASSUME CommitInv, reflog' = reflog, NEW y \in Executions,
         \A c \in CommitIDs : commits[c] # None => commits'[c] = commits[c]
  PROVE  SameOn(y)
  BY DEF CommitInv, HistoriesAreStored, SameOn, On, CreatedBy

(* Nor does a commit of somebody else.                                     *)
LEMMA OthersPublish ==
  ASSUME CommitInv, NEW y \in Executions, NEW b \in Branches,
         NEW c \in CommitIDs, Point(b, c),
         commits'[c].by # y,
         \A d \in CommitIDs : commits[d] # None => commits'[d] = commits[d]
  PROVE  SameOn(y)
  BY DEF CommitInv, TypeOK, RepoTypeOK, HistoriesAreStored, SameOn, On,
         CreatedBy, Point
-----------------------------------------------------------------------------
(* The commit an execution has made, and where it can be.                  *)
LEMMA OwnCommit ==
  ASSUME CommitInv, NEW x \in Executions, newCommit[x] # None
  PROVE  /\ newCommit[x] \in CommitIDs
         /\ commits[newCommit[x]] # None
         /\ commits[newCommit[x]].by = x
  BY DEF CommitInv, CommitIsMade, CreatedBy

LEMMA RefIsCreatedOn ==
  ASSUME CommitInv, NEW x \in Executions, Requested(x), RefIsCreated(x)
  PROVE  /\ \A y \in Executions \ {x} : SameOn(y)
         /\ \A b \in Branches \ {Branch(req[x])} : On(x, b)' = On(x, b)
         /\ newCommit[x] \in CreatedBy(x)' \cap reflog'[Branch(req[x])]
  <1>1. /\ newCommit[x] \in CommitIDs
        /\ commits[newCommit[x]] # None
        /\ commits[newCommit[x]].by = x
    BY OwnCommit DEF RefIsCreated
  <1>2. Branch(req[x]) \in Branches
    BY RequestType
  <1>3. commits' = commits /\ Point(Branch(req[x]), newCommit[x])
    BY DEF RefIsCreated
  <1>4. ASSUME NEW y \in Executions \ {x} PROVE SameOn(y)
    BY <1>1, <1>2, <1>3, OthersPublish
  <1>5. ASSUME NEW b \in Branches \ {Branch(req[x])} PROVE On(x, b)' = On(x, b)
    BY <1>3 DEF Point, On, CreatedBy, CommitInv, TypeOK, RepoTypeOK
  <1>6. newCommit[x] \in reflog'[Branch(req[x])]
    BY <1>2, <1>3 DEF Point, CommitInv, TypeOK, RepoTypeOK
  <1>7. newCommit[x] \in CreatedBy(x)'
    BY <1>1, <1>3 DEF CreatedBy
  <1> QED
    BY <1>4, <1>5, <1>6, <1>7

(* An execution that makes no call others can see goes on.                 *)
LEMMA GoesOn ==
  ASSUME CommitInv, NEW x \in Executions, OutcomeOf(x), SameOn(x),
         pc[x] \in CallSteps \ {"ref", "pull"},
         pc'[x] \in CallSteps \ {"pull"},
         pulls'[x] = pulls[x], req'[x] = req[x],
         reply'[x] = reply[x], inDoubt'[x] = inDoubt[x]
  PROVE  OutcomeOf(x)'
  <1>1. ~Published(x)'
    BY SamePublished DEF OutcomeOf, UnderWay, CallSteps
  <1>2. /\ inDoubt[x] = None /\ pulls[x] = None
        /\ reply[x] = None
    BY NothingInDoubt DEF OutcomeOf, UnderWay, CallSteps
  <1>3. KeepsToItsBranch(x)'
    BY DEF OutcomeOf, KeepsToItsBranch, SameOn
  <1> QED
    BY <1>1, <1>2, <1>3, FaultAssumption
       DEF OutcomeOf, UnderWay, EndedInDoubt, OpenedAfter, ToldTheTruth,
           FailedAt, Succeeded, CallSteps, Steps

(* An error at any call, which may be left in doubt.                       *)
LEMMA Fails ==
  ASSUME CommitInv, NEW x \in Executions, OutcomeOf(x), SameOn(x),
         pc[x] \in CallSteps, Fail(x, pc[x]),
         pulls'[x] = pulls[x], req'[x] = req[x],
         newCommit'[x] = newCommit[x],
         \/ inDoubt'[x] = inDoubt[x]
         \/ pc[x] \in VisibleSteps /\ inDoubt'[x] = pc[x]
  PROVE  OutcomeOf(x)'
  <1> DEFINE r == [status |-> "failed", step |-> pc[x], commit |-> None,
                   number |-> None]
  <1>1. pc'[x] = "done" /\ reply'[x] = r
    BY DEF Fail, Goto, CommitInv, TypeOK
  <1>2. r \in Reply /\ r # None
    BY FaultAssumption DEF Reply, Steps
  <1>3. \A step \in Steps : FailedAt(x, step)' <=> step = pc[x]
    BY <1>1, <1>2 DEF FailedAt
  <1>4. ~Succeeded(x)'
    BY <1>1 DEF Succeeded
  <1>5. Published(x)' <=> Published(x)
    BY SamePublished
  <1>6. Delivered(x) => Delivered(x)'
    BY StaysDelivered
  <1>7. /\ inDoubt[x] = None /\ pulls[x] = None
        /\ pc[x] = "pull" => Published(x) /\ Delivered(x)
        /\ pc[x] # "pull" => ~Published(x)
        /\ req[x] # None
    BY NothingInDoubt, DeliveredIsPublished DEF OutcomeOf, UnderWay, CallSteps
  <1>8. KeepsToItsBranch(x)'
    BY DEF OutcomeOf, KeepsToItsBranch, SameOn
  <1>9. UnderWay(x)'
    BY <1>1, <1>2, <1>7 DEF UnderWay, CallSteps
  <1>10. EndedInDoubt(x)'
    BY <1>3, <1>5, <1>6, <1>7, FaultAssumption
       DEF EndedInDoubt, VisibleSteps, Steps, CallSteps
  <1>11. OpenedAfter(x)' /\ ToldTheTruth(x)'
    BY <1>3, <1>4, <1>5, <1>7 DEF OpenedAfter, ToldTheTruth
  <1> QED
    BY <1>8, <1>9, <1>10, <1>11 DEF OutcomeOf
-----------------------------------------------------------------------------
LEMMA InitOutcome == Init => OutcomeInv
  <1> SUFFICES ASSUME Init, NEW x \in Executions PROVE OutcomeOf(x)
    BY InitInv DEF OutcomeInv
  <1>1. CreatedBy(x) = {}
    BY RepositoryAssumption DEF Init, RepoInit, CreatedBy
  <1>2. /\ pc[x] = "validate" /\ req[x] = None /\ reply[x] = None
        /\ pulls[x] = None /\ inDoubt[x] = None
    BY DEF Init, RepoInit
  <1> QED
    BY <1>1, <1>2, FaultAssumption
       DEF OutcomeOf, KeepsToItsBranch, UnderWay, EndedInDoubt, OpenedAfter,
           ToldTheTruth, Published, On, FailedAt, Succeeded, Steps, CallSteps

(* What an execution does is of no matter to the others.                   *)
LEMMA OthersOutcome ==
  ASSUME CommitInv, NEW x \in Executions, NEW y \in Executions \ {x},
         Accept(x) \/ Step(x) \/ CallLands(x)
  PROVE  SameFor(y)
  <1> USE DEF CommitInv, TypeOK, RepoTypeOK, SameFor, Goto, Fail, localVars,
              repoVars
  <1>1. CASE Accept(x)
    BY <1>1, HistoriesStay DEF Accept
  <1>2. CASE GetRefSHA(x)
    BY <1>2, HistoriesStay DEF GetRefSHA
  <1>3. CASE GetCommitTreeSHA(x)
    BY <1>3, HistoriesStay DEF GetCommitTreeSHA
  <1>4. CASE CreateBlob(x)
    BY <1>4, HistoriesStay DEF CreateBlob
  <1>5. CASE CreateTree(x)
    BY <1>5, HistoriesStay DEF CreateTree
  <1>6. CASE CreateCommit(x)
    BY <1>6, HistoriesStay DEF CreateCommit, StoreCommit, Unused
  <1>7. CASE CreateRef(x)
    <2>1. Requested(x)
      BY <1>7 DEF CreateRef, CallsInOrder, CallSteps
    <2> QED
      BY <1>7, <2>1, RefIsCreatedOn DEF CreateRef, RefIsCreated
  <1>8. CASE OpenPullRequest(x)
    BY <1>8, HistoriesStay DEF OpenPullRequest, PullIsOpened
  <1>9. CASE CallRefused(x)
    BY <1>9, HistoriesStay DEF CallRefused
  <1>10. CASE CallLands(x)
    <2>1. Requested(x)
      BY <1>10, FaultAssumption DEF CallLands, CallsInOrder, Steps, CallSteps
    <2>2. CASE RefIsCreated(x)
      BY <1>10, <2>1, <2>2, RefIsCreatedOn DEF CallLands, RefIsCreated
    <2>3. CASE PullIsOpened(x)
      BY <1>10, <2>3, HistoriesStay DEF CallLands, PullIsOpened
    <2> QED
      BY <1>10, <2>2, <2>3 DEF CallLands
  <1> QED
    BY <1>1, <1>2, <1>3, <1>4, <1>5, <1>6, <1>7, <1>8, <1>9, <1>10 DEF Step
-----------------------------------------------------------------------------
LEMMA AcceptOutcome ==
  ASSUME OutcomeInv, NEW x \in Executions, Accept(x)
  PROVE  OutcomeOf(x)'
  <1>1. /\ pc[x] = "validate" /\ pulls[x] = None /\ pulls' = pulls
        /\ ~Published(x) /\ inDoubt[x] = None /\ inDoubt' = inDoubt
        /\ reply[x] = None /\ SameOn(x)
    BY NothingInDoubt, HistoriesStay
       DEF OutcomeInv, OutcomeOf, UnderWay, Accept, repoVars
  <1>2. PICK r \in Requests :
          /\ req'[x] = r /\ r # None
          /\ IF Valid(r) THEN Goto(x, "base_ref") /\ UNCHANGED reply
                         ELSE Fail(x, "validate")
    BY RequestAssumption DEF Accept, OutcomeInv, CommitInv, TypeOK
  <1>3. ~Published(x)' /\ KeepsToItsBranch(x)'
    BY <1>1, SamePublished, PublishedIsOn DEF KeepsToItsBranch, SameOn
  <1>4. CASE Goto(x, "base_ref") /\ UNCHANGED reply
    <2>1. pc'[x] = "base_ref" /\ reply'[x] = None
      BY <1>1, <1>4 DEF Goto, OutcomeInv, CommitInv, TypeOK
    <2> QED
      BY <1>1, <1>2, <1>3, <2>1, FaultAssumption
         DEF OutcomeOf, UnderWay, EndedInDoubt, OpenedAfter, ToldTheTruth,
             FailedAt, Succeeded, CallSteps, Steps
  <1>5. CASE Fail(x, "validate")
    <2> DEFINE r1 == [status |-> "failed", step |-> "validate",
                      commit |-> None, number |-> None]
    <2>1. pc'[x] = "done" /\ reply'[x] = r1
      BY <1>5 DEF Fail, Goto, OutcomeInv, CommitInv, TypeOK
    <2>2. r1 \in Reply /\ r1 # None
      BY FaultAssumption DEF Reply, Steps
    <2>3. ~Succeeded(x)' /\ ~FailedAt(x, "pull")'
      BY <2>1 DEF Succeeded, FailedAt
    <2> QED
      BY <1>1, <1>2, <1>3, <2>1, <2>2, <2>3, FaultAssumption
         DEF OutcomeOf, UnderWay, EndedInDoubt, OpenedAfter, ToldTheTruth,
             CallSteps, Steps
  <1> QED
    BY <1>2, <1>4, <1>5

(* The calls nobody else can see.                                          *)
LEMMA PrivateOutcome ==
  ASSUME OutcomeInv, NEW x \in Executions,
         \/ GetRefSHA(x) \/ GetCommitTreeSHA(x) \/ CreateBlob(x)
         \/ CreateTree(x) \/ CreateCommit(x)
  PROVE  OutcomeOf(x)'
  <1> USE DEF OutcomeInv, CommitInv, TypeOK, RepoTypeOK, Goto, CallSteps
  <1>0. pc[x] \in CallSteps \ {"ref", "pull"}
    BY DEF GetRefSHA, GetCommitTreeSHA, CreateBlob, CreateTree, CreateCommit
  <1>1. /\ pulls' = pulls /\ req' = req /\ inDoubt' = inDoubt
        /\ SameOn(x)
    BY HistoriesStay DEF GetRefSHA, GetCommitTreeSHA, CreateBlob, CreateTree,
       CreateCommit, StoreCommit, Unused, repoVars
  <1>2. \/ pc'[x] \in CallSteps \ {"pull"} /\ reply' = reply
        \/ Fail(x, pc[x]) /\ newCommit' = newCommit
    BY DEF GetRefSHA, GetCommitTreeSHA, CreateBlob, CreateTree, CreateCommit
  <1> QED
    BY <1>0, <1>1, <1>2, GoesOn, Fails

LEMMA CallRefusedOutcome ==
  ASSUME OutcomeInv, NEW x \in Executions, CallRefused(x)
  PROVE  OutcomeOf(x)'
  <1>1. /\ SameOn(x) /\ pulls' = pulls /\ req' = req
        /\ newCommit' = newCommit /\ pc[x] \in CallSteps /\ Fail(x, pc[x])
    BY HistoriesStay DEF OutcomeInv, CallRefused, repoVars, localVars
  <1>2. \/ inDoubt'[x] = inDoubt[x]
        \/ pc[x] \in VisibleSteps /\ inDoubt'[x] = pc[x]
    BY DEF CallRefused, OutcomeInv, CommitInv, TypeOK
  <1> QED
    BY <1>1, <1>2, Fails DEF OutcomeInv

(* The branch is there.                                                    *)
LEMMA RefIsDelivered ==
  ASSUME OutcomeInv, NEW x \in Executions, Requested(x), RefIsCreated(x),
         UNCHANGED localVars
  PROVE  /\ Delivered(x)' /\ Published(x)' /\ KeepsToItsBranch(x)'
         /\ pulls' = pulls
  <1>1. /\ newCommit[x] \in CreatedBy(x)' \cap reflog'[Branch(req[x])]
        /\ \A b \in Branches \ {Branch(req[x])} : On(x, b)' = On(x, b)
    BY RefIsCreatedOn DEF OutcomeInv
  <1>2. req' = req /\ newCommit' = newCommit /\ pulls' = pulls
    BY DEF localVars, RefIsCreated
  <1>3. newCommit'[x] \in (CreatedBy(x) \cap reflog[Branch(req[x])])'
    BY <1>1, <1>2
  <1>4. Requested(x)'
    BY <1>2 DEF Requested
  <1>5. Delivered(x)'
    BY <1>3, <1>4 DEF Delivered, On
  <1>6. Published(x)'
    BY <1>1, RequestType DEF Published
  <1>7. KeepsToItsBranch(x)'
    BY <1>1, <1>2 DEF OutcomeInv, OutcomeOf, KeepsToItsBranch
  <1> QED
    BY <1>2, <1>5, <1>6, <1>7

LEMMA CreateRefOutcome ==
  ASSUME OutcomeInv, NEW x \in Executions, CreateRef(x)
  PROVE  OutcomeOf(x)'
  <1>1. /\ pc[x] = "ref" /\ Requested(x) /\ inDoubt[x] = None
        /\ reply[x] = None /\ pulls[x] = None /\ req[x] # None
    BY NothingInDoubt DEF CreateRef, OutcomeInv, OutcomeOf, UnderWay,
                          CommitInv, CallsInOrder, CallSteps
  <1>2. /\ Delivered(x)' /\ Published(x)' /\ KeepsToItsBranch(x)'
        /\ pulls' = pulls /\ req' = req /\ inDoubt' = inDoubt
    BY <1>1, RefIsDelivered DEF CreateRef, localVars
  <1>3. CASE Goto(x, "pull") /\ UNCHANGED reply
    <2>1. pc'[x] = "pull" /\ reply'[x] = None
      BY <1>1, <1>3 DEF Goto, OutcomeInv, CommitInv, TypeOK
    <2> QED
      BY <1>1, <1>2, <2>1, FaultAssumption
         DEF OutcomeOf, UnderWay, EndedInDoubt, OpenedAfter, ToldTheTruth,
             FailedAt, Succeeded, CallSteps, Steps
  <1>4. CASE Fail(x, "ref")
    <2> DEFINE r == [status |-> "failed", step |-> "ref",
                     commit |-> None, number |-> None]
    <2>1. pc'[x] = "done" /\ reply'[x] = r
      BY <1>4 DEF Fail, Goto, OutcomeInv, CommitInv, TypeOK
    <2>2. r \in Reply /\ r # None
      BY FaultAssumption DEF Reply, Steps, CallSteps
    <2>3. /\ ~Succeeded(x)'
          /\ \A step \in Steps : FailedAt(x, step)' => step = "ref"
      BY <2>1 DEF Succeeded, FailedAt
    <2> QED
      BY <1>1, <1>2, <2>1, <2>2, <2>3, FaultAssumption
         DEF OutcomeOf, UnderWay, EndedInDoubt, OpenedAfter, ToldTheTruth,
             CallSteps, Steps
  <1> QED
    BY <1>3, <1>4 DEF CreateRef

(* The pull request is there.                                              *)
LEMMA PullIsThere ==
  ASSUME OutcomeInv, NEW x \in Executions, Delivered(x), PullIsOpened(x),
         UNCHANGED localVars
  PROVE  /\ Delivered(x)' /\ Published(x)' /\ KeepsToItsBranch(x)'
         /\ OpenedAfter(x)' /\ pulls'[x] # None
  <1> DEFINE pull == [head |-> Branch(req[x]), base |-> Base(req[x]),
                      tip |-> refs[Branch(req[x])], open |-> TRUE]
  <1>1. SameOn(x) /\ req' = req /\ newCommit' = newCommit
    BY HistoriesStay DEF OutcomeInv, PullIsOpened, localVars
  <1>2. /\ Branch(req[x]) \in Branches
        /\ Base(req[x]) \in Branches
        /\ refs[Branch(req[x])] \in CommitIDs
    BY RequestType DEF PullIsOpened, PullIsAcceptable, Delivered, OutcomeInv,
                       CommitInv, TypeOK, RepoTypeOK
  <1>3. pull \in Pull
    BY <1>2 DEF Pull
  <1>4. pulls'[x] = pull /\ pull # None
    BY <1>3, RepositoryAssumption DEF PullIsOpened, OutcomeInv, CommitInv,
                                      TypeOK, RepoTypeOK
  <1>5. Delivered(x)' /\ Published(x)'
    BY <1>1, StaysDelivered, DeliveredIsPublished, SamePublished
  <1>6. KeepsToItsBranch(x)'
    BY <1>1 DEF OutcomeInv, OutcomeOf, KeepsToItsBranch, SameOn
  <1> QED
    BY <1>1, <1>4, <1>5, <1>6 DEF OpenedAfter

LEMMA OpenPullRequestOutcome ==
  ASSUME OutcomeInv, NEW x \in Executions, OpenPullRequest(x)
  PROVE  OutcomeOf(x)'
  <1>1. /\ pc[x] = "pull" /\ Delivered(x) /\ inDoubt[x] = None
        /\ req[x] # None
    BY NothingInDoubt DEF OpenPullRequest, OutcomeInv, OutcomeOf, UnderWay,
                          CallSteps
  <1>2. /\ Delivered(x)' /\ Published(x)' /\ KeepsToItsBranch(x)'
        /\ OpenedAfter(x)' /\ pulls'[x] # None
        /\ req' = req /\ inDoubt' = inDoubt /\ newCommit' = newCommit
    BY <1>1, PullIsThere DEF OpenPullRequest, localVars
  <1>3. CASE Fail(x, "pull")
    <2> DEFINE r == [status |-> "failed", step |-> "pull",
                     commit |-> None, number |-> None]
    <2>1. pc'[x] = "done" /\ reply'[x] = r
      BY <1>3 DEF Fail, Goto, OutcomeInv, CommitInv, TypeOK
    <2>2. r \in Reply /\ r # None
      BY FaultAssumption DEF Reply, Steps, CallSteps
    <2>3. /\ ~Succeeded(x)'
          /\ \A step \in Steps : FailedAt(x, step)' => step = "pull"
      BY <2>1 DEF Succeeded, FailedAt
    <2> QED
      BY <1>1, <1>2, <2>1, <2>2, <2>3, FaultAssumption
         DEF OutcomeOf, UnderWay, EndedInDoubt, ToldTheTruth, CallSteps, Steps
  <1>4. ASSUME Goto(x, "done"), NEW number \in Decoded(x),
               reply' = [reply EXCEPT ![x] =
                           [status |-> "succeeded", step |-> "done",
                            commit |-> newCommit[x], number |-> number]]
        PROVE  OutcomeOf(x)'
    <2> DEFINE r == [status |-> "succeeded", step |-> "done",
                     commit |-> newCommit[x], number |-> number]
    <2>1. pc'[x] = "done" /\ reply'[x] = r
      BY <1>4 DEF Goto, OutcomeInv, CommitInv, TypeOK
    <2>2. r \in Reply /\ r # None
      BY FaultAssumption DEF Reply, Steps, Decoded, OutcomeInv, CommitInv,
                             TypeOK
    <2>3. \A step \in Steps : ~FailedAt(x, step)'
      BY <2>1 DEF FailedAt
    <2>4. "blank" \notin Faults => number = x
      BY DEF Decoded
    <2> QED
      BY <1>1, <1>2, <2>1, <2>2, <2>3, <2>4, FaultAssumption
         DEF OutcomeOf, UnderWay, EndedInDoubt, ToldTheTruth, CallSteps, Steps
  <1> QED
    BY <1>3, <1>4 DEF OpenPullRequest

(* A call lands after its execution has ended.                             *)
LEMMA CallLandsOutcome ==
  ASSUME OutcomeInv, NEW x \in Executions, CallLands(x)
  PROVE  OutcomeOf(x)'
  <1>1. /\ pc[x] \in {"done", "crashed"} /\ Requested(x) /\ pulls[x] = None
        /\ inDoubt'[x] = None /\ inDoubt[x] # None
        /\ pc' = pc /\ reply' = reply /\ req' = req /\ newCommit' = newCommit
    BY FaultAssumption DEF CallLands, OutcomeInv, OutcomeOf, EndedInDoubt,
       CommitInv, CallsInOrder, Steps, CallSteps, TypeOK, localVars
  <1>2. ~Succeeded(x)
    BY <1>1 DEF OutcomeInv, OutcomeOf, ToldTheTruth
  <1>3. ~Succeeded(x)' /\ \A step : FailedAt(x, step)' <=> FailedAt(x, step)
    BY <1>1, <1>2 DEF Succeeded, FailedAt
  <1>4. CASE inDoubt[x] = "ref" /\ RefIsCreated(x)
    <2>1. /\ Delivered(x)' /\ Published(x)' /\ KeepsToItsBranch(x)'
          /\ pulls' = pulls
      BY <1>1, <1>4, RefIsDelivered DEF CallLands
    <2>2. reply[x] # None => FailedAt(x, "ref")
      BY <1>4 DEF OutcomeInv, OutcomeOf, EndedInDoubt
    <2>3. \A step \in Steps : FailedAt(x, step)' => step = "ref"
      BY <1>3, <2>2 DEF FailedAt
    <2> QED
      BY <1>1, <1>3, <2>1, <2>3, FaultAssumption
         DEF OutcomeInv, OutcomeOf, UnderWay, EndedInDoubt, OpenedAfter,
             ToldTheTruth, CallSteps, Steps
  <1>5. CASE inDoubt[x] = "pull" /\ PullIsOpened(x)
    <2>1. Delivered(x) /\ (reply[x] # None => FailedAt(x, "pull"))
      BY <1>5 DEF OutcomeInv, OutcomeOf, EndedInDoubt
    <2>2. /\ Delivered(x)' /\ Published(x)' /\ KeepsToItsBranch(x)'
          /\ OpenedAfter(x)' /\ pulls'[x] # None
      BY <1>5, <2>1, PullIsThere DEF CallLands
    <2>3. \A step \in Steps : FailedAt(x, step)' => step = "pull"
      BY <1>3, <2>1 DEF FailedAt
    <2> QED
      BY <1>1, <1>3, <2>2, <2>3, FaultAssumption
         DEF OutcomeInv, OutcomeOf, UnderWay, EndedInDoubt, ToldTheTruth,
             CallSteps, Steps
  <1> QED
    BY <1>4, <1>5 DEF CallLands

LEMMA CrashOutcome ==
  ASSUME OutcomeInv, NEW x \in Executions, Crash
  PROVE  OutcomeOf(x)'
  <1>1. /\ SameOn(x) /\ pulls' = pulls /\ req' = req
        /\ newCommit' = newCommit /\ reply' = reply
    BY HistoriesStay DEF OutcomeInv, Crash, repoVars, localVars
  <1>0. PICK gone \in SUBSET Running,
             sent \in SUBSET {y \in Running : pc[y] \in VisibleSteps} :
          /\ sent \subseteq gone
          /\ pc' = [y \in Executions |-> IF y \in gone THEN "crashed"
                                         ELSE pc[y]]
          /\ inDoubt' = [y \in Executions |->
                           IF y \in sent THEN pc[y] ELSE inDoubt[y]]
    BY DEF Crash
  <1>2. CASE x \notin gone
    BY <1>0, <1>1, <1>2, OutcomeRests DEF OutcomeInv, SameFor, Running
  <1>3. CASE x \in gone
    <2>1. /\ pc[x] \in CallSteps /\ pc'[x] = "crashed" /\ reply[x] = None
          /\ \/ inDoubt'[x] = inDoubt[x]
             \/ pc[x] \in VisibleSteps /\ inDoubt'[x] = pc[x]
          /\ inDoubt[x] = None /\ pulls[x] = None /\ req[x] # None
          /\ pc[x] = "pull" => Delivered(x)
          /\ pc[x] # "pull" => ~Published(x)
      BY <1>0, <1>1, <1>3, NothingInDoubt DEF Running, OutcomeInv, OutcomeOf,
         UnderWay, CallSteps
    <2>2. Published(x)' <=> Published(x)
      BY <1>1, SamePublished
    <2>3. Delivered(x) => Delivered(x)'
      BY <1>1, StaysDelivered
    <2>4. KeepsToItsBranch(x)'
      BY <1>1 DEF OutcomeInv, OutcomeOf, KeepsToItsBranch, SameOn
    <2> QED
      BY <1>1, <2>1, <2>2, <2>3, <2>4, FaultAssumption
         DEF OutcomeOf, UnderWay, EndedInDoubt, OpenedAfter, ToldTheTruth,
             FailedAt, Succeeded, CallSteps, Steps, VisibleSteps
  <1> QED
    BY <1>2, <1>3

(* What other actors push is nobody's.                                     *)
LEMMA PushIsNotOurs ==
  ASSUME CommitInv, NEW b \in Branches, Push(b)
  PROVE  /\ \A x \in Executions : SameOn(x)
         /\ \A c \in CommitIDs : commits[c] # None => commits'[c] = commits[c]
         /\ refs'[b] # None
         /\ \A d \in Branches \ {b} : /\ refs'[d] = refs[d]
                                      /\ reflog'[d] = reflog[d]
  <1> USE DEF CommitInv, TypeOK, RepoTypeOK
  <1>1. PICK c \in CommitIDs, p \in Paths, content \in Contents \cup {None} :
          /\ StoreCommit(c, [commits[refs[b] ?? refs[Main]].tree
                                EXCEPT ![p] = content],
                         refs[b] ?? refs[Main], None)
          /\ Point(b, c)
    BY DEF Push
  <1>2. \A d \in CommitIDs : commits[d] # None => commits'[d] = commits[d]
    BY <1>1 DEF StoreCommit, Unused
  <1>3. ASSUME NEW x \in Executions PROVE SameOn(x)
    <2>1. commits'[c].by # x
      BY <1>1, RepositoryAssumption DEF StoreCommit
    <2> QED
      BY <1>1, <1>2, <2>1, OthersPublish
  <1> QED
    BY <1>1, <1>2, <1>3, RepositoryAssumption DEF Point

(* Other actors push, delete and close.                                    *)
LEMMA HumansOutcome ==
  ASSUME OutcomeInv, NEW x \in Executions, Humans,
         UNCHANGED <<pc, localVars, reply, inDoubt>>
  PROVE  OutcomeOf(x)'
  <1> USE DEF OutcomeInv, CommitInv, TypeOK, RepoTypeOK
  <1>1. ASSUME NEW b \in Branches, Push(b) PROVE SameOn(x) /\ pulls' = pulls
    BY <1>1, PushIsNotOurs DEF Push
  <1>2. ASSUME NEW b \in Branches, DeleteBranch(b)
        PROVE  /\ SameOn(x)
               /\ pulls'[x] = None <=> pulls[x] = None
               /\ pulls[x] # None => /\ pulls'[x].head = pulls[x].head
                                     /\ pulls'[x].base = pulls[x].base
    <2>1. SameOn(x)
      BY <1>2, HistoriesStay DEF DeleteBranch
    <2>2. /\ pulls[x] = None => pulls'[x] = None
          /\ pulls[x] # None =>
               pulls'[x] \in {pulls[x], [pulls[x] EXCEPT !.open = FALSE]}
      BY <1>2 DEF DeleteBranch
    <2> QED
      BY <2>1, <2>2, ClosedType, RepositoryAssumption DEF Pull
  <1>3. ASSUME NEW y \in Executions, ClosePull(y)
        PROVE  /\ SameOn(x)
               /\ pulls'[x] = None <=> pulls[x] = None
               /\ pulls[x] # None => /\ pulls'[x].head = pulls[x].head
                                     /\ pulls'[x].base = pulls[x].base
    <2>1. SameOn(x)
      BY <1>3, HistoriesStay DEF ClosePull
    <2>2. /\ pulls[y] # None
          /\ pulls' = [pulls EXCEPT ![y] = [pulls[y] EXCEPT !.open = FALSE]]
      BY <1>3 DEF ClosePull
    <2> QED
      BY <2>1, <2>2, ClosedType, RepositoryAssumption DEF Pull
  <1>4. SameFor(x)
    BY <1>1, <1>2, <1>3 DEF Humans, SameFor, localVars
  <1> QED
    BY <1>4, OutcomeRests
-----------------------------------------------------------------------------
LEMMA NextOutcome == OutcomeInv /\ [Next]_vars => OutcomeInv'
  <1> SUFFICES ASSUME OutcomeInv, [Next]_vars PROVE OutcomeInv'
    OBVIOUS
  <1>1. CommitInv'
    BY NextInv DEF OutcomeInv
  <1>2. SUFFICES ASSUME NEW y \in Executions PROVE OutcomeOf(y)'
    BY <1>1 DEF OutcomeInv
  <1>3. ASSUME NEW x \in Executions, Accept(x) \/ Step(x) \/ CallLands(x)
        PROVE  OutcomeOf(y)'
    <2>1. CASE y = x
      BY <1>3, <2>1, AcceptOutcome, PrivateOutcome, CreateRefOutcome,
         OpenPullRequestOutcome, CallRefusedOutcome, CallLandsOutcome DEF Step
    <2>2. CASE y # x
      BY <1>3, <2>2, OthersOutcome, OutcomeRests DEF OutcomeInv
    <2> QED
      BY <2>1, <2>2
  <1>4. CASE UNCHANGED vars
    BY <1>4, HistoriesStay, OutcomeRests DEF OutcomeInv, vars, SameFor
  <1> QED
    BY <1>3, <1>4, CrashOutcome, HumansOutcome DEF Next

(* In every reachable state, each execution has published and told what    *)
(* its step, or the step it ended at, stands for.                          *)
THEOREM OutcomeInvariant == Spec => []OutcomeInv
  BY InitOutcome, NextOutcome, PTL DEF Spec

(* The step an error names tells what is left behind, whatever GitHub and  *)
(* the network do with the calls, in time or late.                         *)
THEOREM ErrorsTell == Spec => []ErrorTellsWhatIsLeft
  <1>1. OutcomeInv => ErrorTellsWhatIsLeft
    BY DEF OutcomeInv, OutcomeOf, ToldTheTruth, ErrorTellsWhatIsLeft
  <1> QED
    BY <1>1, OutcomeInvariant, PTL

(* "succeeded" is true of the branch, the commit and the pull request, when*)
(* no answer lacks the field the code reads.                               *)
THEOREM SuccessesArePublished ==
  ASSUME "blank" \notin Faults
  PROVE  Spec => []SuccessIsPublished
  <1>1. OutcomeInv => SuccessIsPublished
    BY DEF OutcomeInv, OutcomeOf, ToldTheTruth, OpenedAfter, Delivered, On,
           SuccessIsPublished
  <1> QED
    BY <1>1, OutcomeInvariant, PTL
-----------------------------------------------------------------------------
(* The steps that change a branch; all others leave each one as it is.     *)
LEMMA Moves ==
  ASSUME CommitInv, [Next]_vars
  PROVE  \/ /\ UNCHANGED <<refs, reflog>>
            /\ \A c \in CommitIDs :
                 commits[c] # None => commits'[c] = commits[c]
         \/ /\ \E x \in Executions : Requested(x) /\ RefIsCreated(x)
            /\ UNCHANGED localVars
         \/ (\E b \in Branches : Push(b)) /\ UNCHANGED localVars
         \/ (\E b \in Branches : DeleteBranch(b)) /\ UNCHANGED localVars
  <1>1. ASSUME NEW x \in Executions, Accept(x) \/ Step(x)
        PROVE  \/ /\ UNCHANGED <<refs, reflog>>
                  /\ \A c \in CommitIDs :
                       commits[c] # None => commits'[c] = commits[c]
               \/ CreateRef(x)
    BY <1>1 DEF Accept, Step, GetRefSHA, GetCommitTreeSHA, CreateBlob,
       CreateTree, CreateCommit, StoreCommit, Unused, OpenPullRequest,
       PullIsOpened, CallRefused, repoVars, CommitInv, TypeOK, RepoTypeOK
  <1>2. ASSUME NEW x \in Executions, CreateRef(x)
        PROVE  Requested(x) /\ RefIsCreated(x) /\ UNCHANGED localVars
    BY <1>2 DEF CreateRef, CommitInv, CallsInOrder, CallSteps
  <1>3. ASSUME NEW x \in Executions, CallLands(x)
        PROVE  \/ UNCHANGED <<refs, reflog, commits>>
               \/ Requested(x) /\ RefIsCreated(x) /\ UNCHANGED localVars
    BY <1>3, FaultAssumption DEF CallLands, PullIsOpened, CommitInv,
       CallsInOrder, Steps, CallSteps
  <1>4. ASSUME Crash \/ UNCHANGED vars PROVE UNCHANGED repoVars
    BY <1>4 DEF Crash, vars, repoVars
  <1>5. ASSUME Humans, UNCHANGED localVars
        PROVE  \/ UNCHANGED <<refs, reflog, commits>>
               \/ \E b \in Branches : Push(b) \/ DeleteBranch(b)
    BY <1>5 DEF Humans, ClosePull
  <1> QED
    BY <1>1, <1>2, <1>3, <1>4, <1>5 DEF Next, repoVars

(* A branch that is never deleted starts with its first commit, and no two *)
(* executions have published on it.                                        *)
WinnerInv ==
  \A b \in Branches \ Deletable :
    /\ refs[b] = None => reflog[b] = {}
    /\ \A x, y \in Executions : On(x, b) # {} /\ On(y, b) # {} => x = y

LEMMA InitWinner == Init => WinnerInv
  <1> SUFFICES ASSUME Init PROVE WinnerInv
    OBVIOUS
  <1>1. /\ refs[Main] # None
        /\ \A b \in Branches : refs[b] = None => reflog[b] = {}
    BY RepositoryAssumption, RequestAssumption DEF Init, RepoInit
  <1>2. \A x \in Executions : CreatedBy(x) = {}
    BY RepositoryAssumption DEF Init, RepoInit, CreatedBy
  <1> QED
    BY <1>1, <1>2 DEF WinnerInv, On

LEMMA NextWinner ==
  ASSUME OutcomeInv, WinnerInv, [Next]_vars
  PROVE  WinnerInv'
  <1> USE DEF OutcomeInv
  <1>1. ASSUME \A x \in Executions : SameOn(x),
               \A b \in Branches \ Deletable :
                 refs'[b] = None => reflog'[b] = {}
        PROVE  WinnerInv'
    BY <1>1 DEF WinnerInv, SameOn
  <1>2. CASE /\ UNCHANGED <<refs, reflog>>
             /\ \A c \in CommitIDs :
                  commits[c] # None => commits'[c] = commits[c]
    BY <1>1, <1>2, HistoriesStay DEF WinnerInv
  <1>3. ASSUME NEW x \in Executions, Requested(x), RefIsCreated(x)
        PROVE  WinnerInv'
    <2> DEFINE own == Branch(req[x])
    <2>1. /\ own \in Branches /\ refs[own] = None
          /\ refs' = [refs EXCEPT ![own] = newCommit[x]]
          /\ reflog' = [reflog EXCEPT ![own] = @ \cup {newCommit[x]}]
          /\ newCommit[x] # None
      BY <1>3, RequestType DEF RefIsCreated, RefIsFree, Point
    <2>2. /\ \A y \in Executions \ {x} : SameOn(y)
          /\ \A b \in Branches \ {own} : On(x, b)' = On(x, b)
      BY <1>3, RefIsCreatedOn
    <2> SUFFICES ASSUME NEW b \in Branches \ Deletable
                 PROVE  /\ refs'[b] = None => reflog'[b] = {}
                        /\ \A y, z \in Executions :
                             On(y, b)' # {} /\ On(z, b)' # {} => y = z
      BY DEF WinnerInv
    <2>3. refs'[b] = None => reflog'[b] = {}
      BY <2>1 DEF WinnerInv, CommitInv, TypeOK, RepoTypeOK
    <2>4. CASE b = own
      <3>1. reflog[b] = {}
        BY <2>1, <2>4 DEF WinnerInv
      <3>2. \A y \in Executions \ {x} : On(y, b)' = {}
        BY <2>2, <3>1 DEF SameOn, On
      <3> QED
        BY <2>3, <3>2
    <2>5. CASE b # own
      BY <2>2, <2>3, <2>5 DEF WinnerInv, SameOn
    <2> QED
      BY <2>4, <2>5
  <1>4. ASSUME NEW b \in Branches, Push(b) PROVE WinnerInv'
    BY <1>1, <1>4, PushIsNotOurs DEF WinnerInv
  <1>5. ASSUME NEW b \in Branches, DeleteBranch(b) PROVE WinnerInv'
    <2>1. /\ \A x \in Executions : SameOn(x)
          /\ reflog' = reflog
          /\ \A d \in Branches \ Deletable : refs'[d] = refs[d]
      BY <1>5, HistoriesStay DEF DeleteBranch, CommitInv, TypeOK, RepoTypeOK
    <2> QED
      BY <1>1, <2>1 DEF WinnerInv
  <1> QED
    BY <1>2, <1>3, <1>4, <1>5, Moves

(* While feature branches are not deleted, at most one execution publishes *)
(* on each, however many ask for it: the others lose at createRef.         *)
THEOREM OneWins ==
  ASSUME \A r \in Requests : Valid(r) => Branch(r) \notin Deletable
  PROVE  Spec => []OneWinnerPerBranch
  <1>1. OutcomeInv /\ WinnerInv => OneWinnerPerBranch
    <2> SUFFICES ASSUME OutcomeInv, WinnerInv,
                        NEW x \in Executions, NEW y \in Executions,
                        Published(x), Published(y),
                        Branch(req[x]) = Branch(req[y])
                 PROVE  x = y
      BY DEF OneWinnerPerBranch
    <2>1. ASSUME NEW z \in Executions, Published(z)
          PROVE  Requested(z) /\ On(z, Branch(req[z])) # {}
      <3>1. PICK b \in Branches : On(z, b) # {}
        BY <2>1, PublishedIsOn
      <3>2. b = Branch(req[z])
        BY <3>1 DEF OutcomeInv, OutcomeOf, KeepsToItsBranch
      <3>3. Requested(z)
        BY <3>1 DEF On, OutcomeInv, CommitInv, CommitIsMade, BaseWasRead
      <3> QED
        BY <3>1, <3>2, <3>3
    <2>2. Branch(req[x]) \in Branches \ Deletable
      BY <2>1, RequestType DEF Requested
    <2> QED
      BY <2>1, <2>2 DEF WinnerInv
  <1>2. OutcomeInv /\ WinnerInv /\ [Next]_vars => WinnerInv'
    BY NextWinner
  <1> QED
    BY <1>1, <1>2, InitWinner, OutcomeInvariant, PTL DEF Spec
-----------------------------------------------------------------------------
(* The branch of x is where x has put it.                                  *)
AtHead(x) == refs[Branch(req[x])] \in CreatedBy(x)

Opening(x) == pc[x] = "pull" \/ inDoubt[x] = "pull"

TipOf(x) ==
  /\ Opening(x) => AtHead(x)
  /\ pulls[x] # None => pulls[x].tip \in CreatedBy(x)

TipInv == \A x \in Executions : TipOf(x)

(* Nothing is forgotten of a stored commit.                                *)
LEMMA CreatedStays ==
  ASSUME CommitInv, [Next]_vars, NEW x \in Executions
  PROVE  CreatedBy(x) \subseteq CreatedBy(x)'
  <1>1. \A c \in CommitIDs : commits[c] # None => commits'[c] = commits[c]
    BY Moves, PushIsNotOurs DEF RefIsCreated, DeleteBranch
  <1> QED
    BY <1>1 DEF CreatedBy

(* Nor does anybody else move the branch: it is not free for executions,   *)
(* and not for humans to touch.                                            *)
LEMMA HeadStays ==
  ASSUME CommitInv, [Next]_vars, NEW x \in Executions, Requested(x),
         AtHead(x), req'[x] = req[x],
         Branch(req[x]) \notin HumanBranches \cup Deletable
  PROVE  AtHead(x)'
  <1> DEFINE own == Branch(req[x])
  <1>1. own \in Branches /\ refs[own] # None
    BY RequestType, RepositoryAssumption DEF AtHead, CreatedBy
  <1>2. ASSUME NEW y \in Executions, Requested(y), RefIsCreated(y)
        PROVE  refs'[own] = refs[own]
    BY <1>1, <1>2 DEF RefIsCreated, RefIsFree, Point, CommitInv, TypeOK,
                      RepoTypeOK
  <1>3. ASSUME NEW b \in Branches, Push(b) PROVE refs'[own] = refs[own]
    BY <1>1, <1>3, PushIsNotOurs DEF Push
  <1>4. ASSUME NEW b \in Branches, DeleteBranch(b)
        PROVE  refs'[own] = refs[own]
    BY <1>1, <1>4 DEF DeleteBranch, CommitInv, TypeOK, RepoTypeOK
  <1>5. refs'[own] = refs[own]
    BY <1>2, <1>3, <1>4, Moves
  <1> QED
    BY <1>5, CreatedStays DEF AtHead

(* How an execution comes to open its pull request.                        *)
LEMMA ReachesPull ==
  ASSUME CommitInv, [Next]_vars, NEW x \in Executions, Opening(x)'
  PROVE  \/ Opening(x) /\ req'[x] = req[x]
         \/ CreateRef(x)
  <1> USE DEF Opening, CommitInv, TypeOK, Goto, Fail, localVars
  <1>1. ASSUME NEW y \in Executions, Accept(y) \/ Step(y) \/ CallLands(y),
               ~CreateRef(x)
        PROVE  Opening(x) /\ req'[x] = req[x]
    <2>1. CASE Accept(y)
      <3>1. y # x
        BY <1>1, <2>1, NothingInDoubt, FaultAssumption
           DEF Accept, Steps, CallSteps
      <3> QED
        BY <1>1, <2>1, <3>1 DEF Accept
    <2>2. CASE CreateCommit(y)
      BY <1>1, <2>2 DEF CreateCommit
    <2>3. CASE CallRefused(y)
      BY <1>1, <2>3 DEF CallRefused
    <2>4. CASE CallLands(y)
      BY <1>1, <2>4, FaultAssumption DEF CallLands, Steps, CallSteps
    <2>5. CASE CreateRef(y)
      BY <1>1, <2>5 DEF CreateRef
    <2>6. CASE OpenPullRequest(y)
      BY <1>1, <2>6 DEF OpenPullRequest
    <2> QED
      BY <1>1, <2>1, <2>2, <2>3, <2>4, <2>5, <2>6
         DEF Step, GetRefSHA, GetCommitTreeSHA, CreateBlob, CreateTree
  <1>2. CASE Crash
    BY <1>2 DEF Crash, Running, CallSteps
  <1>3. CASE UNCHANGED <<pc, localVars, inDoubt>>
    BY <1>3
  <1> QED
    BY <1>1, <1>2, <1>3 DEF Next, vars

(* A pull request is opened on the head of its branch, and stays.          *)
LEMMA OpensAtHead ==
  ASSUME CommitInv, [Next]_vars, NEW x \in Executions, pulls'[x] # None
  PROVE  \/ pulls[x] # None /\ pulls'[x].tip = pulls[x].tip
         \/ Opening(x) /\ pulls'[x].tip = refs[Branch(req[x])]
  <1> USE DEF CommitInv, TypeOK, RepoTypeOK
  <1>1. ASSUME NEW y \in Executions, Accept(y) \/ Step(y) \/ CallLands(y)
        PROVE  \/ pulls' = pulls
               \/ Opening(y) /\ PullIsOpened(y)
    BY <1>1 DEF Accept, Step, GetRefSHA, GetCommitTreeSHA, CreateBlob,
       CreateTree, CreateCommit, CreateRef, RefIsCreated, OpenPullRequest,
       CallRefused, CallLands, repoVars, Opening
  <1>2. ASSUME NEW y \in Executions, PullIsOpened(y)
        PROVE  IF y = x THEN pulls'[x].tip = refs[Branch(req[x])]
                        ELSE pulls'[x] = pulls[x]
    BY <1>2 DEF PullIsOpened
  <1>3. ASSUME Humans
        PROVE  pulls[x] # None /\ pulls'[x].tip = pulls[x].tip
    <2>1. \/ pulls'[x] = pulls[x]
          \/ /\ pulls[x] # None
             /\ pulls'[x] = [pulls[x] EXCEPT !.open = FALSE]
      BY <1>3 DEF Humans, Push, DeleteBranch, ClosePull
    <2> QED
      BY <2>1 DEF Pull
  <1>4. ASSUME Crash \/ UNCHANGED vars PROVE pulls' = pulls
    BY <1>4 DEF Crash, vars, repoVars
  <1> QED
    BY <1>1, <1>2, <1>3, <1>4 DEF Next

(* While nobody else touches feature branches, what a pull request shows   *)
(* is the commit of the execution that opened it.                          *)
THEOREM PullsShowOwnCommits ==
  ASSUME \A r \in Requests :
           Valid(r) => Branch(r) \notin HumanBranches \cup Deletable
  PROVE  Spec => []PullShowsOwnCommit
  <1>1. Init => TipInv
    BY FaultAssumption DEF Init, RepoInit, TipInv, TipOf, Opening, Steps,
                           CallSteps
  <1>2. ASSUME OutcomeInv, TipInv, [Next]_vars PROVE TipInv'
    <2> SUFFICES ASSUME NEW x \in Executions PROVE TipOf(x)'
      BY DEF TipInv
    <2>1. CreatedBy(x) \subseteq CreatedBy(x)' /\ TipOf(x)
      BY <1>2, CreatedStays DEF OutcomeInv, TipInv
    <2>2. ASSUME Opening(x)' PROVE AtHead(x)'
      <3>1. CASE CreateRef(x)
        <4>1. /\ Requested(x) /\ RefIsCreated(x) /\ req' = req
          BY <1>2, <3>1 DEF CreateRef, localVars, OutcomeInv, CommitInv,
                            CallsInOrder, CallSteps
        <4>2. newCommit[x] \in CreatedBy(x)
          BY <1>2, <4>1 DEF RefIsCreated, OutcomeInv, CommitInv, CommitIsMade
        <4>3. refs'[Branch(req[x])] = newCommit[x]
          BY <1>2, <4>1, RequestType DEF RefIsCreated, Point, OutcomeInv,
                                         CommitInv, TypeOK, RepoTypeOK
        <4> QED
          BY <2>1, <4>1, <4>2, <4>3 DEF AtHead
      <3>2. CASE Opening(x) /\ req'[x] = req[x]
        <4>1. Requested(x)
          BY <1>2, <3>2, FaultAssumption DEF Opening, OutcomeInv, CommitInv,
             CallsInOrder, CallSteps, Steps
        <4> QED
          BY <1>2, <2>1, <3>2, <4>1, HeadStays DEF TipOf, OutcomeInv, Requested
      <3> QED
        BY <1>2, <2>2, <3>1, <3>2, ReachesPull DEF OutcomeInv
    <2>3. ASSUME pulls'[x] # None PROVE pulls'[x].tip \in CreatedBy(x)'
      BY <1>2, <2>1, <2>3, OpensAtHead DEF OutcomeInv, TipOf, AtHead
    <2> QED
      BY <2>2, <2>3 DEF TipOf
  <1>3. TipInv => PullShowsOwnCommit
    BY DEF TipInv, TipOf, CreatedBy, PullShowsOwnCommit
  <1> QED
    BY <1>1, <1>2, <1>3, OutcomeInvariant, PTL DEF Spec
=============================================================================
