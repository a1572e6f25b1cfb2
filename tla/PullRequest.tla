----------------------------- MODULE PullRequest -----------------------------
(***************************************************************************)
(* The create_pull_request operation (internal/adapter/pull_request.go):   *)
(* validate the request, read the head of the base branch and its tree,    *)
(* create one blob per file, a tree, a commit and a branch, and open the   *)
(* pull request.  Every execution runs on a worker of its own; executions  *)
(* interleave with each other and with the other actors of the repository  *)
(* between any two calls.                                                  *)
(*                                                                         *)
(* One action is one call to GitHub together with what the code does with  *)
(* the answer: doGitHubRequestHTTP sends one request and takes one answer, *)
(* and until the answer comes the execution touches nothing.  Faults says  *)
(* what can go wrong with a call:                                          *)
(*   "refused"  GitHub or the network turns the call down; nothing happens *)
(*   "lost"     GitHub applies the call, and the answer does not arrive or *)
(*              cannot be decoded                                          *)
(*   "blank"    GitHub applies the call, and the body of its answer does   *)
(*              not hold the field the code reads, which decodes to ""     *)
(*   "late"     the connection breaks and the code returns an error; GitHub *)
(*              applies the call at some later moment, or never            *)
(*   "crash"    a process stops between two calls, or during one           *)
(***************************************************************************)
EXTENDS GitRepository

CONSTANT Faults

FaultKinds == {"refused", "lost", "blank", "late", "crash"}

File == [path : Paths, sha : Contents \cup {None}]

(* The steps of an execution, in the order of the code.                    *)
CallSteps == {"base_ref", "base_tree", "blobs", "tree", "commit", "ref", "pull"}
Steps     == {"validate", "done", "crashed"} \cup CallSteps

(* The calls whose effect others can see.  A blob, a tree or a commit that *)
(* is made after the execution has ended is one nobody will ever name.     *)
VisibleSteps == {"ref", "pull"}

VARIABLES
  pc,         \* execution -> the step it is at
  req,        \* execution -> its request
  baseSHA,    \* execution -> head of the base branch, as read
  baseTree,   \* execution -> tree of that commit, as read
  entries,    \* execution -> tree entries of the blobs created so far
  newTree,    \* execution -> tree created
  newCommit,  \* execution -> commit created
  reply,      \* execution -> what the caller was told
  inDoubt     \* execution -> the call GitHub may still apply, if any

localVars == <<req, baseSHA, baseTree, entries, newTree, newCommit>>
vars == <<refs, commits, reflog, pulls, pc, req, baseSHA, baseTree, entries,
          newTree, newCommit, reply, inDoubt>>
-----------------------------------------------------------------------------
Reply == [status : {"succeeded", "failed"},
          step   : Steps,                         \* of a failure: where
          commit : CommitIDs \cup {None},         \* commit_sha
          number : Executions \cup {None}]        \* pr_number

ASSUME FaultAssumption == /\ Faults \subseteq FaultKinds
                          /\ None \notin Steps \cup Reply

TypeOK ==
  /\ RepoTypeOK
  /\ pc        \in [Executions -> Steps]
  /\ req       \in [Executions -> Requests \cup {None}]
  /\ baseSHA   \in [Executions -> CommitIDs \cup {None}]
  /\ baseTree  \in [Executions -> Tree \cup {None}]
  /\ entries   \in [Executions -> Seq(File)]
  /\ newTree   \in [Executions -> Tree \cup {None}]
  /\ newCommit \in [Executions -> CommitIDs \cup {None}]
  /\ reply     \in [Executions -> Reply \cup {None}]
  /\ inDoubt   \in [Executions -> VisibleSteps \cup {None}]

Init ==
  /\ RepoInit
  /\ pc        = [x \in Executions |-> "validate"]
  /\ req       = [x \in Executions |-> None]
  /\ baseSHA   = [x \in Executions |-> None]
  /\ baseTree  = [x \in Executions |-> None]
  /\ entries   = [x \in Executions |-> <<>>]
  /\ newTree   = [x \in Executions |-> None]
  /\ newCommit = [x \in Executions |-> None]
  /\ reply     = [x \in Executions |-> None]
  /\ inDoubt   = [x \in Executions |-> None]
-----------------------------------------------------------------------------
Goto(x, step) == pc' = [pc EXCEPT ![x] = step]

(* Every error returns at once, wrapped with the step it happened at.      *)
Fail(x, step) ==
  /\ Goto(x, "done")
  /\ reply' = [reply EXCEPT ![x] = [status |-> "failed", step |-> step,
                                    commit |-> None, number |-> None]]

(* What a decoded answer can hold in the place of value.                   *)
Decoded(value) == {value} \cup (IF "blank" \in Faults THEN {None} ELSE {})

(* A request arrives; one that is not valid fails before any call.         *)
Accept(x) ==
  /\ pc[x] = "validate"
  /\ \E r \in Requests :
       /\ req' = [req EXCEPT ![x] = r]
       /\ IF Valid(r)
          THEN Goto(x, "base_ref") /\ UNCHANGED reply
          ELSE Fail(x, "validate")
  /\ UNCHANGED <<repoVars, baseSHA, baseTree, entries, newTree, newCommit,
                 inDoubt>>

(* Mutant: the base of the request is not looked at.                       *)
GetRefSHA_Main(x) ==
  /\ pc[x] = "base_ref"
  /\ baseSHA' = [baseSHA EXCEPT ![x] = refs[Main]]
  /\ Goto(x, "base_tree")
  /\ UNCHANGED <<repoVars, req, baseTree, entries, newTree, newCommit, reply,
                 inDoubt>>

(* 1. The head of the base branch.  The one answer that is checked for "". *)
GetRefSHA(x) ==
  /\ pc[x] = "base_ref"
  /\ refs[Base(req[x])] # None
  /\ \E sha \in Decoded(refs[Base(req[x])]) :
       IF sha = None
       THEN Fail(x, "base_ref") /\ UNCHANGED baseSHA
       ELSE /\ baseSHA' = [baseSHA EXCEPT ![x] = sha]
            /\ Goto(x, "base_tree")
            /\ UNCHANGED reply
  /\ UNCHANGED <<repoVars, req, baseTree, entries, newTree, newCommit, inDoubt>>

(* Mutant: "sha" of the commit is decoded in the place of "tree.sha".      *)
GetCommitTreeSHA_Commit(x) ==
  /\ pc[x] = "base_tree"
  /\ baseTree' = [baseTree EXCEPT ![x] = baseSHA[x]]
  /\ Goto(x, "blobs")
  /\ UNCHANGED <<repoVars, req, baseSHA, entries, newTree, newCommit, reply,
                 inDoubt>>

(* 2. The tree of that commit.                                             *)
GetCommitTreeSHA(x) ==
  /\ pc[x] = "base_tree"
  /\ \E sha \in Decoded(commits[baseSHA[x]].tree) :
       baseTree' = [baseTree EXCEPT ![x] = sha]
  /\ Goto(x, "blobs")
  /\ UNCHANGED <<repoVars, req, baseSHA, entries, newTree, newCommit, reply,
                 inDoubt>>

(* Mutant: the loop over the files ends one file early.                    *)
CreateBlob_Short(x) ==
  LET file == Files(req[x])[Len(entries[x]) + 1]
  IN  /\ pc[x] = "blobs"
      /\ entries' = [entries EXCEPT ![x] = Append(@, file)]
      /\ Goto(x, IF Len(entries[x]) + 2 >= Len(Files(req[x]))
                 THEN "tree" ELSE "blobs")
      /\ UNCHANGED <<repoVars, req, baseSHA, baseTree, newTree, newCommit,
                     reply, inDoubt>>

(* 3. One blob, for the next file of the request.                          *)
CreateBlob(x) ==
  LET file == Files(req[x])[Len(entries[x]) + 1]
  IN  /\ pc[x] = "blobs"
      /\ \E sha \in Decoded(file.sha) :
           entries' = [entries EXCEPT ![x] =
                         Append(@, [path |-> file.path, sha |-> sha])]
      /\ Goto(x, IF Len(entries[x]) + 1 = Len(Files(req[x]))
                 THEN "tree" ELSE "blobs")
      /\ UNCHANGED <<repoVars, req, baseSHA, baseTree, newTree, newCommit,
                     reply, inDoubt>>

(* Mutant: base_tree is not sent.                                          *)
CreateTree_Alone(x) ==
  /\ pc[x] = "tree"
  /\ \E tree \in Overlays(EmptyTree, entries[x]) :
       newTree' = [newTree EXCEPT ![x] = tree]
  /\ Goto(x, "commit")
  /\ UNCHANGED <<repoVars, req, baseSHA, baseTree, entries, newCommit, reply,
                 inDoubt>>

(* 4. The tree.  With a base_tree of "" GitHub may build it from the       *)
(* entries alone, as it does when base_tree is not given.                  *)
CreateTree(x) ==
  /\ pc[x] = "tree"
  /\ \A i \in DOMAIN entries[x] : entries[x][i].sha # None
  /\ \E tree \in Overlays(baseTree[x] ?? EmptyTree, entries[x]) :
       \E sha \in Decoded(tree) : newTree' = [newTree EXCEPT ![x] = sha]
  /\ Goto(x, "commit")
  /\ UNCHANGED <<repoVars, req, baseSHA, baseTree, entries, newCommit, reply,
                 inDoubt>>

(* 5. The commit: the new tree, and the head read in step 1 as parent.     *)
CreateCommit(x) ==
  /\ pc[x] = "commit"
  /\ newTree[x] # None
  /\ \E c \in CommitIDs :
       /\ StoreCommit(c, newTree[x], baseSHA[x], x)
       /\ \/ /\ \E sha \in Decoded(c) :
                  newCommit' = [newCommit EXCEPT ![x] = sha]
             /\ Goto(x, "ref")
             /\ UNCHANGED reply
          \/ "lost" \in Faults /\ Fail(x, "commit") /\ UNCHANGED newCommit
  /\ UNCHANGED <<refs, reflog, pulls, req, baseSHA, baseTree, entries, newTree,
                 inDoubt>>

(* What GitHub does on POST git/refs and on POST pulls.                    *)
RefIsCreated(x) ==
  /\ newCommit[x] # None
  /\ RefIsFree(Branch(req[x]))
  /\ Point(Branch(req[x]), newCommit[x])
  /\ UNCHANGED <<commits, pulls>>

PullIsOpened(x) ==
  LET head == Branch(req[x])
      base == Base(req[x])
  IN  /\ PullIsAcceptable(head, base)
      /\ pulls' = [pulls EXCEPT ![x] = [head |-> head, base |-> base,
                                        tip |-> refs[head], open |-> TRUE]]
      /\ UNCHANGED <<refs, commits, reflog>>

(* Mutant: "already exists" counts as created, to make a retry succeed.    *)
CreateRef_Reuse(x) ==
  /\ pc[x] = "ref"
  /\ \/ RefIsCreated(x)
     \/ ~RefIsFree(Branch(req[x])) /\ UNCHANGED repoVars
  /\ Goto(x, "pull")
  /\ UNCHANGED <<localVars, reply, inDoubt>>

(* Mutant: a branch that exists is moved (PATCH git/refs).                 *)
CreateRef_Update(x) ==
  /\ pc[x] = "ref"
  /\ newCommit[x] # None
  /\ Point(Branch(req[x]), newCommit[x])
  /\ Goto(x, "pull")
  /\ UNCHANGED <<commits, pulls, localVars, reply, inDoubt>>

(* 6. The branch.  The body of the answer is not read.                     *)
CreateRef(x) ==
  /\ pc[x] = "ref"
  /\ RefIsCreated(x)
  /\ \/ Goto(x, "pull") /\ UNCHANGED reply
     \/ "lost" \in Faults /\ Fail(x, "ref")
  /\ UNCHANGED <<localVars, inDoubt>>

(* 7. The pull request, and the reply.                                     *)
OpenPullRequest(x) ==
  /\ pc[x] = "pull"
  /\ PullIsOpened(x)
  /\ \/ /\ Goto(x, "done")
        /\ \E number \in Decoded(x) :
             reply' = [reply EXCEPT ![x] =
                         [status |-> "succeeded", step |-> "done",
                          commit |-> newCommit[x], number |-> number]]
     \/ "lost" \in Faults /\ Fail(x, "pull")
  /\ UNCHANGED <<localVars, inDoubt>>

(* What GitHub has to turn down.                                           *)
Impossible(x) ==
  \/ pc[x] = "base_ref" /\ refs[Base(req[x])] = None
  \/ pc[x] = "tree"     /\ \E i \in DOMAIN entries[x] : entries[x][i].sha = None
  \/ pc[x] = "commit"   /\ newTree[x] = None
  \/ pc[x] = "ref"      /\ \/ newCommit[x] = None
                           \/ ~RefIsFree(Branch(req[x]))
  \/ pc[x] = "pull"     /\ ~PullIsAcceptable(Branch(req[x]), Base(req[x]))

(* Mutant: createRef is repeated until the branch is free.                 *)
CallRefused_Retry(x) ==
  /\ pc[x] \in CallSteps
  /\ "refused" \in Faults \/ Impossible(x)
  /\ IF pc[x] = "ref" THEN UNCHANGED <<pc, reply>> ELSE Fail(x, pc[x])
  /\ UNCHANGED <<repoVars, localVars, inDoubt>>

(* A call is turned down, or its connection breaks; the execution returns  *)
(* the error.                                                              *)
CallRefused(x) ==
  /\ pc[x] \in CallSteps
  /\ \/ /\ "refused" \in Faults \/ Impossible(x)
        /\ UNCHANGED inDoubt
     \/ /\ "late" \in Faults
        /\ pc[x] \in VisibleSteps
        /\ inDoubt' = [inDoubt EXCEPT ![x] = pc[x]]
  /\ Fail(x, pc[x])
  /\ UNCHANGED <<repoVars, localVars>>

(* GitHub applies a call whose connection broke, or whose caller stopped.  *)
CallLands(x) ==
  /\ \/ inDoubt[x] = "ref"  /\ RefIsCreated(x)
     \/ inDoubt[x] = "pull" /\ PullIsOpened(x)
  /\ inDoubt' = [inDoubt EXCEPT ![x] = None]
  /\ UNCHANGED <<pc, localVars, reply>>

Running == {x \in Executions : pc[x] \in CallSteps}

(* A process stops: the executions it has in flight are gone, without a    *)
(* reply; those of other processes go on.                                  *)
Crash ==
  /\ "crash" \in Faults
  /\ \E gone \in (SUBSET Running) \ {{}} :
       /\ pc' = [x \in Executions |-> IF x \in gone THEN "crashed" ELSE pc[x]]
       /\ \E sent \in SUBSET {x \in gone : /\ "late" \in Faults
                                           /\ pc[x] \in VisibleSteps} :
            inDoubt' = [x \in Executions |->
                          IF x \in sent THEN pc[x] ELSE inDoubt[x]]
  /\ UNCHANGED <<repoVars, localVars, reply>>

Step(x) ==
  \/ GetRefSHA(x)
  \/ GetCommitTreeSHA(x)
  \/ CreateBlob(x)
  \/ CreateTree(x)
  \/ CreateCommit(x)
  \/ CreateRef(x)
  \/ OpenPullRequest(x)
  \/ CallRefused(x)

Next ==
  \/ \E x \in Executions : Accept(x) \/ Step(x) \/ CallLands(x)
  \/ Crash
  \/ Humans /\ UNCHANGED <<pc, localVars, reply, inDoubt>>

Spec == Init /\ [][Next]_vars

(* A worker goes on as long as GitHub or the network answers its calls.    *)
Fairness == \A x \in Executions : WF_vars(Step(x))

FairSpec == Spec /\ Fairness
-----------------------------------------------------------------------------
CreatedBy(x) == {c \in CommitIDs : commits[c] # None /\ commits[c].by = x}

(* A branch has pointed at a commit of x.                                  *)
Published(x) == \E b \in Branches : CreatedBy(x) \cap reflog[b] # {}

Succeeded(x)      == reply[x] # None /\ reply[x].status = "succeeded"
FailedAt(x, step) == reply[x] # None /\ reply[x].status = "failed"
                                     /\ reply[x].step = step

(* Every commit the operation makes holds all the files of one request and *)
(* leaves the rest of its parent's tree alone: no interleaving of pushes   *)
(* and executions mixes the files of two requests, or loses a file that    *)
(* the base branch had ("4. Create tree referencing parent base tree + new *)
(* blobs", pull_request.go:106).                                           *)
CommitsAreWhole ==
  \A x \in Executions : \A c \in CreatedBy(x) :
    /\ commits[c].parent # None
    /\ commits[c].tree \in Overlays(commits[commits[c].parent].tree,
                                    Files(req[x]))

(* The parent of such a commit was once the head of the base branch that   *)
(* was asked for, however far the base has moved since (getRefSHA is read  *)
(* five or more calls before the pull request is opened).                  *)
CommitsBranchOffTheBase ==
  \A x \in Executions : \A c \in CreatedBy(x) :
    commits[c].parent \in reflog[Base(req[x])]

(* The adapter creates branches and never moves one: whenever a branch     *)
(* that exists points somewhere else, another actor pushed to it.  No work *)
(* of others is overwritten, and nothing reaches the base branch without a *)
(* human ("keeping a human-in-the-loop merge", spec.go:347).               *)
AdapterNeverMovesABranch ==
  [][\A b \in Branches :
       refs[b] # None /\ refs'[b] \notin {None, refs[b]} =>
         commits'[refs'[b]].by = None]_vars

(* The step named by an error tells the caller what is left behind: before *)
(* createRef nothing that anybody can see, at createRef no pull request,   *)
(* at openPullRequest a branch for sure.                                   *)
ErrorTellsWhatIsLeft ==
  \A x \in Executions : \A step \in Steps : FailedAt(x, step) =>
    /\ step \notin {"ref", "pull"} => ~Published(x)
    /\ step # "pull" => pulls[x] = None
    /\ step = "pull" => Published(x)

(* "succeeded" means that the pull request of the reply was opened, from   *)
(* the requested branch to the requested base, and that the commit of the  *)
(* reply has been on that branch.                                          *)
SuccessIsPublished ==
  \A x \in Executions : Succeeded(x) =>
    /\ reply[x].number = x
    /\ pulls[x] # None
    /\ pulls[x].head = Branch(req[x])
    /\ pulls[x].base = Base(req[x])
    /\ reply[x].commit \in CreatedBy(x) \cap reflog[Branch(req[x])]

(* While no other actor touches feature branches (HumanBranches and        *)
(* Deletable hold none), a pull request shows the commit of the execution  *)
(* that opened it, not that of a concurrent execution on the same branch.  *)
PullShowsOwnCommit ==
  \A x \in Executions : pulls[x] # None =>
    commits[pulls[x].tip].by = x

(* While branches are not deleted, at most one execution ever publishes on *)
(* a branch: duplicates and retries of a request lose at createRef.        *)
OneWinnerPerBranch ==
  \A x, y \in Executions :
    Published(x) /\ Published(y) /\ Branch(req[x]) = Branch(req[y]) => x = y

(* Every accepted request is answered, if the process does not crash and   *)
(* GitHub or the network ends every call.                                  *)
EveryExecutionAnswers ==
  \A x \in Executions : pc[x] \in CallSteps ~> reply[x] # None

(* What the action catalog says of the operation: it "atomically commit[s] *)
(* a set of files to a feature branch and open[s] a pull request"          *)
(* (spec.go:347): an execution that is over did both or neither.           *)
AtomicPullRequest ==
  \A x \in Executions :
    pc[x] \in {"done", "crashed"} => (Published(x) <=> pulls[x] # None)
-----------------------------------------------------------------------------
(* The inductive invariant behind TypeOK, CommitsAreWhole and              *)
(* CommitsBranchOffTheBase.                                                *)
Requested(x) == req[x] \in Requests /\ Valid(req[x])

(* A branch points at a commit of its history, histories are stored, and   *)
(* main is always there.                                                   *)
HistoriesAreStored ==
  /\ refs[Main] # None
  /\ \A b \in Branches :
       /\ refs[b] # None => refs[b] \in reflog[b]
       /\ \A c \in reflog[b] : commits[c] # None

(* The head an execution has read stays in the history of its base.        *)
BaseWasRead(x) ==
  baseSHA[x] # None =>
    /\ Requested(x)
    /\ commits[baseSHA[x]] # None
    /\ baseSHA[x] \in reflog[Base(req[x])]

(* What the code has in its variables when it makes a call.                *)
CallsInOrder(x) ==
  /\ pc[x] \in CallSteps => Requested(x)
  /\ pc[x] \in {"validate", "base_ref"} => baseSHA[x] = None
  /\ pc[x] \in CallSteps \ {"base_ref"} => baseSHA[x] # None
  /\ pc[x] \in {"validate", "base_ref", "base_tree"} => entries[x] = <<>>
  /\ pc[x] = "blobs" => Len(entries[x]) < Len(Files(req[x]))
  /\ inDoubt[x] # None => Requested(x) /\ pc[x] \in {"done", "crashed"}

(* If every answer holds the field the code reads, the tree is built on    *)
(* the tree of the head, from exactly the files of the request.            *)
TreeIsBuilt(x) ==
  "blank" \notin Faults =>
    /\ pc[x] \in {"blobs", "tree"} => baseTree[x] = commits[baseSHA[x]].tree
    /\ pc[x] = "blobs" => \A i \in DOMAIN entries[x] :
                            entries[x][i] = Files(req[x])[i]
    /\ pc[x] = "tree" => entries[x] = Files(req[x])
    /\ pc[x] = "commit" =>
         newTree[x] \in Overlays(commits[baseSHA[x]].tree, Files(req[x]))

(* A commit is made late, on the head that was read, and never changes.    *)
CommitIsMade(x) ==
  /\ newCommit[x] # None => newCommit[x] \in CreatedBy(x)
  /\ \A c \in CreatedBy(x) :
       /\ pc[x] \in {"ref", "pull", "done", "crashed"}
       /\ baseSHA[x] # None
       /\ commits[c].parent = baseSHA[x]
       /\ "blank" \notin Faults =>
            commits[c].tree \in Overlays(commits[baseSHA[x]].tree,
                                        Files(req[x]))

CommitInv ==
  /\ TypeOK
  /\ HistoriesAreStored
  /\ \A x \in Executions : /\ BaseWasRead(x)
                           /\ CallsInOrder(x)
                           /\ TreeIsBuilt(x)
                           /\ CommitIsMade(x)
-----------------------------------------------------------------------------
(* The repository and the replies, seen from outside, behave as the four   *)
(* visible steps of Publication: ask, publish, open, answer.               *)
Outcome(x) ==
  IF pc[x] = "crashed" THEN "lost"
  ELSE IF reply[x] = None THEN "pending" ELSE reply[x].status

Outcomes == [x \in Executions |-> Outcome(x)]

Tips == [b \in Branches |->
           IF refs[b] = None THEN None
           ELSE [tree |-> commits[refs[b]].tree, by |-> commits[refs[b]].by]]

Trees == [b \in Branches |-> {commits[c].tree : c \in reflog[b]}]

Publishers == {x \in Executions : Published(x)}
Openers    == {x \in Executions : pulls[x] # None}

Doubts == [x \in Executions |-> CASE inDoubt[x] = "ref"  -> "publish"
                                  [] inDoubt[x] = "pull" -> "open"
                                  [] OTHER               -> None]

Promise == INSTANCE Publication WITH
  asked <- req, outcome <- Outcomes, tip <- Tips, held <- Trees,
  published <- Publishers, opened <- Openers, doubt <- Doubts

PromiseKept == Promise!Spec
=============================================================================
