-------------------------- MODULE PullRequestProofs --------------------------
(***************************************************************************)
(* What is proved of create_pull_request, for every set of requests,       *)
(* executions, branches, files and faults, and for any number of pushes by *)
(* other actors.                                                           *)
(***************************************************************************)
EXTENDS PullRequest, TLAPS

(* The part of the inductive invariant that is about one execution.        *)
ExecutionInv(x) ==
  /\ BaseWasRead(x)
  /\ CallsInOrder(x)
  /\ TreeIsBuilt(x)
  /\ CommitIsMade(x)

(* A step keeps every stored commit and every history, and stores no       *)
(* commit of execution y.                                                  *)
RepositoryGrows(y) ==
  /\ \A c \in CommitIDs :
       /\ commits[c] # None => commits'[c] = commits[c]
       /\ commits[c] = None /\ commits'[c] # None => commits'[c].by # y
  /\ \A b \in Branches : reflog[b] \subseteq reflog'[b]

(* A step leaves the variables of execution y alone; it may end it, or     *)
(* take it from the branch to the pull request.                            *)
Rests(y) ==
  /\ \/ pc'[y] = pc[y]
     \/ pc'[y] \in {"done", "crashed"} /\ pc[y] \in CallSteps
     \/ pc'[y] = "pull" /\ pc[y] = "ref"
  /\ req'[y] = req[y]
  /\ baseSHA'[y] = baseSHA[y]
  /\ baseTree'[y] = baseTree[y]
  /\ entries'[y] = entries[y]
  /\ newTree'[y] = newTree[y]
  /\ newCommit'[y] = newCommit[y]
  /\ \/ inDoubt'[y] \in {inDoubt[y], None}
     \/ pc'[y] \in {"done", "crashed"} /\ pc[y] \in CallSteps
-----------------------------------------------------------------------------
LEMMA OverlaysType ==
  ASSUME NEW base, NEW list
  PROVE  Overlays(base, list) \subseteq Tree
  BY DEF Overlays

LEMMA LenType ==
  ASSUME NEW S, NEW s \in Seq(S)
  PROVE  Len(s) \in Nat
  OBVIOUS

LEMMA ElementType ==
  ASSUME NEW S, NEW s \in Seq(S), NEW i \in 1..Len(s)
  PROVE  s[i] \in S
  OBVIOUS

LEMMA RequestType ==
  ASSUME NEW x \in Executions, Requested(x)
  PROVE  /\ Branch(req[x]) \in Branches
         /\ Base(req[x]) \in Branches
         /\ Files(req[x]) \in Seq([path : Paths, sha : Contents])
  BY RequestAssumption DEF Requested

LEMMA FailType ==
  ASSUME NEW x \in Executions, NEW step \in Steps, TypeOK, Fail(x, step)
  PROVE  /\ pc' \in [Executions -> Steps]
         /\ reply' \in [Executions -> Reply \cup {None}]
  <1>1. "done" \in Steps
    BY DEF Steps
  <1>2. [status |-> "failed", step |-> step, commit |-> None, number |-> None]
          \in Reply
    BY DEF Reply
  <1> QED
    BY <1>1, <1>2 DEF TypeOK, Fail, Goto

(* What is true of an execution stays true when others move, and when it   *)
(* ends.                                                                   *)
LEMMA ExecutionRests ==
  ASSUME TypeOK, NEW y \in Executions,
         ExecutionInv(y), RepositoryGrows(y), Rests(y)
  PROVE  ExecutionInv(y)'
  <1>1. baseSHA[y] \in CommitIDs \cup {None} /\ y # None
    BY RepositoryAssumption DEF TypeOK
  <1>2. BaseWasRead(y)'
    <2> SUFFICES ASSUME baseSHA[y] # None
                 PROVE  /\ Requested(y)'
                        /\ commits'[baseSHA[y]] # None
                        /\ baseSHA[y] \in reflog'[Base(req[y])]
      BY DEF Rests, BaseWasRead
    <2>1. Requested(y) /\ Requested(y)'
      BY DEF ExecutionInv, BaseWasRead, Rests, Requested
    <2> QED
      BY <1>1, <2>1, RequestType
         DEF ExecutionInv, BaseWasRead, RepositoryGrows
  <1>3. CallsInOrder(y)'
    BY DEF ExecutionInv, CallsInOrder, Rests, Requested, CallSteps
  <1>4. TreeIsBuilt(y)'
    <2>1. baseSHA[y] # None => commits'[baseSHA[y]] = commits[baseSHA[y]]
      BY <1>1 DEF ExecutionInv, BaseWasRead, RepositoryGrows
    <2> QED
      BY <2>1 DEF ExecutionInv, TreeIsBuilt, CallsInOrder, Rests, CallSteps
  <1>5. CommitIsMade(y)'
    <2> SUFFICES ASSUME NEW c \in CommitIDs, commits'[c] # None,
                        commits'[c].by = y
                 PROVE  /\ pc'[y] \in {"ref", "pull", "done", "crashed"}
                        /\ baseSHA[y] # None
                        /\ commits'[c].parent = baseSHA[y]
                        /\ "blank" \notin Faults =>
                             commits'[c].tree \in
                               Overlays(commits'[baseSHA[y]].tree,
                                        Files(req[y]))
      <3>1. newCommit[y] # None => newCommit[y] \in CreatedBy(y)'
        BY DEF ExecutionInv, CommitIsMade, CreatedBy, RepositoryGrows
      <3> QED
        BY <3>1 DEF CommitIsMade, CreatedBy, Rests
    <2>1. commits[c] # None /\ commits'[c] = commits[c]
      BY DEF RepositoryGrows
    <2>2. c \in CreatedBy(y)
      BY <2>1 DEF CreatedBy
    <2>3. commits'[baseSHA[y]] = commits[baseSHA[y]]
      BY <1>1, <2>2 DEF ExecutionInv, CommitIsMade, BaseWasRead,
                        RepositoryGrows
    <2> QED
      BY <2>1, <2>2, <2>3 DEF ExecutionInv, CommitIsMade, Rests, CallSteps
  <1> QED
    BY <1>2, <1>3, <1>4, <1>5 DEF ExecutionInv

LEMMA OthersRest ==
  ASSUME CommitInv, NEW x \in Executions, ExecutionInv(x)',
         \A y \in Executions \ {x} : RepositoryGrows(y) /\ Rests(y)
  PROVE  \A y \in Executions : ExecutionInv(y)'
  BY ExecutionRests DEF CommitInv, ExecutionInv

(* While no commit has been made there is nothing to say of it.            *)
LEMMA NoCommitYet ==
  ASSUME CommitInv, NEW x \in Executions,
         pc[x] \notin {"ref", "pull", "done", "crashed"},
         UNCHANGED <<commits, newCommit>>
  PROVE  CommitIsMade(x)'
  BY DEF CommitInv, CommitIsMade, CreatedBy

(* Only an execution that has ended has a call in doubt.                   *)
LEMMA NothingInDoubt ==
  ASSUME CommitInv, NEW x \in Executions,
         pc[x] \in {"validate"} \cup CallSteps
  PROVE  inDoubt[x] = None
  BY DEF CommitInv, CallsInOrder, CallSteps
-----------------------------------------------------------------------------
LEMMA InitInv == Init => CommitInv
  <1> SUFFICES ASSUME Init PROVE CommitInv
    OBVIOUS
  <1>1. TypeOK
    BY RequestAssumption, RepositoryAssumption
       DEF Init, TypeOK, RepoInit, RepoTypeOK, Commit, Steps
  <1>2. HistoriesAreStored
    BY RequestAssumption, RepositoryAssumption
       DEF Init, RepoInit, HistoriesAreStored, Commit
  <1>3. ASSUME NEW x \in Executions PROVE ExecutionInv(x)
    BY <1>3, RepositoryAssumption
       DEF Init, RepoInit, ExecutionInv, BaseWasRead, CallsInOrder,
           TreeIsBuilt, CommitIsMade, CreatedBy, CallSteps
  <1> QED
    BY <1>1, <1>2, <1>3 DEF CommitInv, ExecutionInv

LEMMA AcceptInv ==
  ASSUME CommitInv, NEW x \in Executions, Accept(x)
  PROVE  CommitInv'
  <1>1. PICK r \in Requests :
          /\ req' = [req EXCEPT ![x] = r]
          /\ \/ Valid(r) /\ Goto(x, "base_ref") /\ UNCHANGED reply
             \/ ~Valid(r) /\ Fail(x, "validate")
    BY DEF Accept
  <1>2. TypeOK'
    <2>1. {"validate", "base_ref"} \subseteq Steps
      BY DEF Steps, CallSteps
    <2>2. /\ pc' \in [Executions -> Steps]
          /\ reply' \in [Executions -> Reply \cup {None}]
      BY <1>1, <2>1, FailType DEF CommitInv, TypeOK, Goto
    <2> QED
      BY <1>1, <2>2 DEF Accept, CommitInv, TypeOK, RepoTypeOK, repoVars
  <1>3. HistoriesAreStored'
    BY DEF CommitInv, HistoriesAreStored, Accept, repoVars
  <1>4. ASSUME NEW y \in Executions \ {x} PROVE RepositoryGrows(y) /\ Rests(y)
    BY <1>1, <1>4
       DEF RepositoryGrows, Rests, Accept, repoVars, Fail, Goto, CommitInv,
           TypeOK
  <1>5. ExecutionInv(x)'
    <2>1. /\ pc[x] = "validate" /\ pc'[x] \in {"base_ref", "done"}
          /\ pc'[x] = "base_ref" => Requested(x)'
          /\ baseSHA'[x] = None
          /\ entries'[x] = <<>>
          /\ inDoubt'[x] = None
      BY <1>1, NothingInDoubt DEF CommitInv, CallsInOrder, Accept, Fail, Goto,
                                  TypeOK, Requested
    <2>2. CommitIsMade(x)'
      BY <2>1, NoCommitYet DEF Accept, repoVars
    <2> QED
      BY <2>1, <2>2 DEF ExecutionInv, BaseWasRead, CallsInOrder, TreeIsBuilt,
                        CallSteps
  <1> QED
    BY <1>2, <1>3, <1>4, <1>5, OthersRest DEF CommitInv, ExecutionInv

LEMMA GetRefSHAInv ==
  ASSUME CommitInv, NEW x \in Executions, GetRefSHA(x)
  PROVE  CommitInv'
  <1>1. /\ pc[x] = "base_ref"
        /\ Requested(x)
        /\ Base(req[x]) \in Branches
        /\ refs[Base(req[x])] \in CommitIDs
        /\ refs[Base(req[x])] # None
    BY RequestType
       DEF CommitInv, CallsInOrder, GetRefSHA, TypeOK, RepoTypeOK, CallSteps
  <1>2. \/ Fail(x, "base_ref") /\ UNCHANGED baseSHA
        \/ /\ baseSHA' = [baseSHA EXCEPT ![x] = refs[Base(req[x])]]
           /\ Goto(x, "base_tree")
           /\ UNCHANGED reply
    BY <1>1 DEF GetRefSHA, Decoded
  <1>3. TypeOK'
    <2>1. {"base_ref", "base_tree"} \subseteq Steps
      BY DEF Steps, CallSteps
    <2>2. /\ pc' \in [Executions -> Steps]
          /\ reply' \in [Executions -> Reply \cup {None}]
      BY <1>2, <2>1, FailType DEF CommitInv, TypeOK, Goto
    <2> QED
      BY <1>1, <1>2, <2>2 DEF GetRefSHA, CommitInv, TypeOK, RepoTypeOK, repoVars
  <1>4. HistoriesAreStored'
    BY DEF CommitInv, HistoriesAreStored, GetRefSHA, repoVars
  <1>5. ASSUME NEW y \in Executions \ {x} PROVE RepositoryGrows(y) /\ Rests(y)
    BY <1>2, <1>5
       DEF RepositoryGrows, Rests, GetRefSHA, repoVars, Fail, Goto, CommitInv,
           TypeOK
  <1>6. ExecutionInv(x)'
    <2>1. CommitIsMade(x)' /\ inDoubt'[x] = None
      BY <1>1, NoCommitYet, NothingInDoubt DEF GetRefSHA, repoVars, CallSteps
    <2>2. CASE Fail(x, "base_ref") /\ UNCHANGED baseSHA
      <3>1. pc'[x] = "done" /\ baseSHA'[x] = None
        BY <1>1, <2>2 DEF CommitInv, CallsInOrder, Fail, Goto, TypeOK
      <3> QED
        BY <2>1, <3>1 DEF ExecutionInv, BaseWasRead, CallsInOrder, TreeIsBuilt,
                          CallSteps
    <2>3. CASE /\ baseSHA' = [baseSHA EXCEPT ![x] = refs[Base(req[x])]]
               /\ Goto(x, "base_tree")
      <3>1. /\ pc'[x] = "base_tree"
            /\ baseSHA'[x] = refs[Base(req[x])]
            /\ Requested(x)'
            /\ entries'[x] = <<>>
        BY <1>1, <2>3 DEF CommitInv, CallsInOrder, Goto, TypeOK, GetRefSHA,
                          Requested
      <3>2. BaseWasRead(x)'
        BY <1>1, <3>1 DEF BaseWasRead, GetRefSHA, repoVars, CommitInv,
                          HistoriesAreStored
      <3> QED
        BY <1>1, <2>1, <3>1, <3>2 DEF ExecutionInv, CallsInOrder, TreeIsBuilt,
                                      CallSteps
    <2> QED
      BY <1>2, <2>2, <2>3
  <1> QED
    BY <1>3, <1>4, <1>5, <1>6, OthersRest DEF CommitInv, ExecutionInv

LEMMA GetCommitTreeSHAInv ==
  ASSUME CommitInv, NEW x \in Executions, GetCommitTreeSHA(x)
  PROVE  CommitInv'
  <1>1. /\ pc[x] = "base_tree"
        /\ Requested(x)
        /\ baseSHA[x] \in CommitIDs
        /\ commits[baseSHA[x]] \in Commit
    BY DEF CommitInv, CallsInOrder, BaseWasRead, GetCommitTreeSHA, TypeOK,
           RepoTypeOK, CallSteps
  <1>2. PICK sha \in Decoded(commits[baseSHA[x]].tree) :
          baseTree' = [baseTree EXCEPT ![x] = sha]
    BY DEF GetCommitTreeSHA
  <1>3. sha \in Tree \cup {None}
    BY <1>1 DEF Decoded, Commit
  <1>4. TypeOK'
    <2>1. "blobs" \in Steps
      BY DEF Steps, CallSteps
    <2> QED
      BY <1>2, <1>3, <2>1
         DEF GetCommitTreeSHA, CommitInv, TypeOK, RepoTypeOK, repoVars, Goto
  <1>5. HistoriesAreStored'
    BY DEF CommitInv, HistoriesAreStored, GetCommitTreeSHA, repoVars
  <1>6. ASSUME NEW y \in Executions \ {x} PROVE RepositoryGrows(y) /\ Rests(y)
    BY <1>2, <1>6
       DEF RepositoryGrows, Rests, GetCommitTreeSHA, repoVars, Goto, CommitInv,
           TypeOK
  <1>7. ExecutionInv(x)'
    <2>1. /\ pc'[x] = "blobs"
          /\ baseTree'[x] = sha
          /\ entries'[x] = <<>>
          /\ Requested(x)'
          /\ baseSHA'[x] = baseSHA[x]
          /\ baseSHA[x] # None
          /\ inDoubt'[x] = None
      BY <1>1, <1>2, NothingInDoubt
         DEF GetCommitTreeSHA, CommitInv, CallsInOrder, TypeOK, Goto,
                        Requested, CallSteps
    <2>2. BaseWasRead(x)'
      BY <2>1 DEF CommitInv, BaseWasRead, GetCommitTreeSHA, repoVars
    <2>3. Len(entries'[x]) < Len(Files(req'[x]))
      BY <2>1, RequestAssumption DEF Requested
    <2>4. CommitIsMade(x)'
      BY <1>1, NoCommitYet DEF GetCommitTreeSHA, repoVars
    <2>5. TreeIsBuilt(x)'
      BY <2>1 DEF TreeIsBuilt, GetCommitTreeSHA, repoVars, Decoded
    <2> QED
      BY <2>1, <2>2, <2>3, <2>4, <2>5 DEF ExecutionInv, CallsInOrder, CallSteps
  <1> QED
    BY <1>4, <1>5, <1>6, <1>7, OthersRest DEF CommitInv, ExecutionInv

LEMMA CreateBlobInv ==
  ASSUME CommitInv, NEW x \in Executions, CreateBlob(x)
  PROVE  CommitInv'
  <1> DEFINE n    == Len(entries[x])
             file == Files(req[x])[n + 1]
  <1>1. /\ pc[x] = "blobs"
        /\ Requested(x)
        /\ entries[x] \in Seq(File)
        /\ Files(req[x]) \in Seq([path : Paths, sha : Contents])
        /\ n \in Nat /\ Len(Files(req[x])) \in Nat
        /\ n < Len(Files(req[x]))
    <2>1. /\ pc[x] = "blobs"
          /\ Requested(x)
          /\ entries[x] \in Seq(File)
          /\ n < Len(Files(req[x]))
      BY DEF CommitInv, CallsInOrder, CreateBlob, TypeOK, CallSteps
    <2>2. Files(req[x]) \in Seq([path : Paths, sha : Contents])
      BY <2>1, RequestType
    <2> QED
      BY <2>1, <2>2, LenType
  <1>2. PICK sha \in Decoded(file.sha) :
          entries' = [entries EXCEPT ![x] =
                        Append(@, [path |-> file.path, sha |-> sha])]
    BY DEF CreateBlob
  <1>3. file \in [path : Paths, sha : Contents]
    <2>1. n + 1 \in 1..Len(Files(req[x]))
      BY <1>1
    <2> QED
      BY <1>1, <2>1, ElementType
  <1>4. [path |-> file.path, sha |-> sha] \in File
    BY <1>3 DEF Decoded, File
  <1>5. /\ entries'[x] = Append(entries[x], [path |-> file.path, sha |-> sha])
        /\ entries'[x] \in Seq(File)
        /\ Len(entries'[x]) = n + 1
    BY <1>1, <1>2, <1>4 DEF CommitInv, TypeOK
  <1>6. /\ pc'[x] = IF n + 1 = Len(Files(req[x])) THEN "tree" ELSE "blobs"
        /\ pc' \in {[pc EXCEPT ![x] = "tree"], [pc EXCEPT ![x] = "blobs"]}
    BY DEF CreateBlob, Goto, CommitInv, TypeOK
  <1>7. TypeOK'
    <2>1. {"blobs", "tree"} \subseteq Steps
      BY DEF Steps, CallSteps
    <2>2. pc' \in [Executions -> Steps]
      BY <1>6, <2>1 DEF CommitInv, TypeOK
    <2>3. entries' \in [Executions -> Seq(File)]
      BY <1>2, <1>5 DEF CommitInv, TypeOK
    <2> QED
      BY <2>2, <2>3 DEF CreateBlob, CommitInv, TypeOK, RepoTypeOK, repoVars
  <1>8. HistoriesAreStored'
    BY DEF CommitInv, HistoriesAreStored, CreateBlob, repoVars
  <1>9. ASSUME NEW y \in Executions \ {x} PROVE RepositoryGrows(y) /\ Rests(y)
    BY <1>2, <1>6, <1>9
       DEF RepositoryGrows, Rests, CreateBlob, repoVars, CommitInv, TypeOK
  <1>10. ExecutionInv(x)'
    <2>1. BaseWasRead(x)'
      BY DEF CommitInv, BaseWasRead, CreateBlob, repoVars, Requested
    <2>2. CommitIsMade(x)'
      BY <1>1, NoCommitYet DEF CreateBlob, repoVars
    <2>3. CallsInOrder(x)'
      BY <1>1, <1>5, <1>6
         DEF CallsInOrder, CreateBlob, CommitInv, CallSteps, Requested
    <2>4. TreeIsBuilt(x)'
      <3> SUFFICES ASSUME "blank" \notin Faults PROVE TreeIsBuilt(x)'
        BY DEF TreeIsBuilt
      <3>1. entries'[x] = Append(entries[x], file)
        BY <1>3, <1>5 DEF Decoded
      <3>2. \A i \in 1..n : entries[x][i] = Files(req[x])[i]
        BY <1>1 DEF CommitInv, TreeIsBuilt
      <3>3. \A i \in DOMAIN entries'[x] : entries'[x][i] = Files(req[x])[i]
        BY <1>1, <1>5, <3>1, <3>2
      <3>4. CASE n + 1 = Len(Files(req[x]))
        <4>1. entries'[x] = Files(req[x])
          BY <1>1, <1>5, <3>3, <3>4
        <4> QED
          BY <1>1, <1>6, <3>4, <4>1
             DEF TreeIsBuilt, CommitInv, CreateBlob, repoVars
      <3>5. CASE n + 1 # Len(Files(req[x]))
        BY <1>1, <1>6, <3>3, <3>5
           DEF TreeIsBuilt, CommitInv, CreateBlob, repoVars
      <3> QED
        BY <3>4, <3>5
    <2> QED
      BY <2>1, <2>2, <2>3, <2>4 DEF ExecutionInv
  <1> QED
    BY <1>7, <1>8, <1>9, <1>10, OthersRest DEF CommitInv, ExecutionInv

LEMMA CreateTreeInv ==
  ASSUME CommitInv, NEW x \in Executions, CreateTree(x)
  PROVE  CommitInv'
  <1>1. /\ pc[x] = "tree"
        /\ Requested(x)
        /\ baseSHA[x] # None
    BY DEF CommitInv, CallsInOrder, CreateTree, CallSteps
  <1>2. PICK tree \in Overlays(baseTree[x] ?? EmptyTree, entries[x]) :
          \E sha \in Decoded(tree) : newTree' = [newTree EXCEPT ![x] = sha]
    BY DEF CreateTree
  <1>3. PICK sha \in Decoded(tree) : newTree' = [newTree EXCEPT ![x] = sha]
    BY <1>2
  <1>4. tree \in Tree /\ sha \in Tree \cup {None}
    BY <1>2, OverlaysType DEF Decoded
  <1>5. TypeOK'
    <2>1. "commit" \in Steps
      BY DEF Steps, CallSteps
    <2> QED
      BY <1>3, <1>4, <2>1
         DEF CreateTree, CommitInv, TypeOK, RepoTypeOK, repoVars, Goto
  <1>6. HistoriesAreStored'
    BY DEF CommitInv, HistoriesAreStored, CreateTree, repoVars
  <1>7. ASSUME NEW y \in Executions \ {x} PROVE RepositoryGrows(y) /\ Rests(y)
    BY <1>3, <1>7
       DEF RepositoryGrows, Rests, CreateTree, repoVars, Goto, CommitInv, TypeOK
  <1>8. ExecutionInv(x)'
    <2>1. /\ pc'[x] = "commit"
          /\ newTree'[x] = sha
      BY <1>3 DEF CreateTree, CommitInv, TypeOK, Goto
    <2>2. BaseWasRead(x)'
      BY DEF CommitInv, BaseWasRead, CreateTree, repoVars, Requested
    <2>3. CommitIsMade(x)'
      BY <1>1, NoCommitYet DEF CreateTree, repoVars
    <2>4. CallsInOrder(x)'
      BY <1>1, <2>1, NothingInDoubt
         DEF CallsInOrder, CreateTree, CallSteps, Requested
    <2>5. TreeIsBuilt(x)'
      <3> SUFFICES ASSUME "blank" \notin Faults PROVE TreeIsBuilt(x)'
        BY DEF TreeIsBuilt
      <3>1. /\ baseTree[x] = commits[baseSHA[x]].tree
            /\ entries[x] = Files(req[x])
            /\ sha = tree
        BY <1>1 DEF CommitInv, TreeIsBuilt, Decoded
      <3>2. commits[baseSHA[x]] \in Commit
        BY <1>1 DEF CommitInv, BaseWasRead, TypeOK, RepoTypeOK
      <3>3. baseTree[x] # None
        BY <3>1, <3>2, RequestAssumption DEF Commit
      <3>4. tree \in Overlays(commits[baseSHA[x]].tree, Files(req[x]))
        BY <1>2, <3>1, <3>3 DEF ??
      <3> QED
        BY <2>1, <3>1, <3>4 DEF TreeIsBuilt, CreateTree, repoVars
    <2> QED
      BY <2>2, <2>3, <2>4, <2>5 DEF ExecutionInv
  <1> QED
    BY <1>5, <1>6, <1>7, <1>8, OthersRest DEF CommitInv, ExecutionInv

LEMMA CreateCommitInv ==
  ASSUME CommitInv, NEW x \in Executions, CreateCommit(x)
  PROVE  CommitInv'
  <1>1. /\ pc[x] = "commit"
        /\ Requested(x)
        /\ baseSHA[x] \in CommitIDs
        /\ baseSHA[x] # None
        /\ commits[baseSHA[x]] # None
        /\ newTree[x] \in Tree
        /\ x # None
    BY RepositoryAssumption
       DEF CommitInv, CallsInOrder, BaseWasRead, CreateCommit, TypeOK, CallSteps
  <1>2. PICK c \in CommitIDs :
          /\ StoreCommit(c, newTree[x], baseSHA[x], x)
          /\ \/ /\ \E sha \in Decoded(c) :
                     newCommit' = [newCommit EXCEPT ![x] = sha]
                /\ Goto(x, "ref")
                /\ UNCHANGED reply
             \/ Fail(x, "commit") /\ UNCHANGED newCommit
    BY DEF CreateCommit
  <1> DEFINE made == [tree |-> newTree[x], parent |-> baseSHA[x], by |-> x]
  <1>3. /\ commits[c] = None
        /\ commits' = [commits EXCEPT ![c] = made]
        /\ commits'[c] = made
        /\ made \in Commit /\ made # None
    BY <1>1, <1>2, RepositoryAssumption
       DEF StoreCommit, Unused, CommitInv, TypeOK, RepoTypeOK, Commit
  <1>4. /\ pc'[x] \in {"ref", "done"}
        /\ \A y \in Executions \ {x} : pc'[y] = pc[y]
    BY <1>2 DEF Fail, Goto, CommitInv, TypeOK
  <1>5. TypeOK'
    <2>1. {"commit", "ref"} \subseteq Steps
      BY DEF Steps, CallSteps
    <2>2. /\ pc' \in [Executions -> Steps]
          /\ reply' \in [Executions -> Reply \cup {None}]
      BY <1>2, <2>1, FailType DEF CommitInv, TypeOK, Goto
    <2>3. newCommit' \in [Executions -> CommitIDs \cup {None}]
      <3>1. newCommit \in [Executions -> CommitIDs \cup {None}]
        BY DEF CommitInv, TypeOK
      <3>2. Decoded(c) \subseteq CommitIDs \cup {None}
        BY DEF Decoded
      <3>3. \/ newCommit' = newCommit
            \/ \E sha \in CommitIDs \cup {None} :
                 newCommit' = [newCommit EXCEPT ![x] = sha]
        BY <1>2, <3>2
      <3> QED
        BY <3>1, <3>3
    <2>4. commits' \in [CommitIDs -> Commit \cup {None}]
      BY <1>3 DEF CommitInv, TypeOK, RepoTypeOK
    <2>5. UNCHANGED <<refs, reflog, pulls, req, baseSHA, baseTree, entries,
                      newTree, inDoubt>>
      BY DEF CreateCommit
    <2>6. RepoTypeOK'
      BY <2>4, <2>5 DEF CommitInv, TypeOK, RepoTypeOK
    <2> QED
      BY <2>2, <2>3, <2>5, <2>6 DEF CommitInv, TypeOK
  <1>6. HistoriesAreStored'
    BY <1>3 DEF CommitInv, HistoriesAreStored, CreateCommit, TypeOK, RepoTypeOK
  <1>7. \A d \in CommitIDs : commits[d] # None => commits'[d] = commits[d]
    BY <1>3 DEF CommitInv, TypeOK, RepoTypeOK
  <1>8. ASSUME NEW y \in Executions \ {x} PROVE RepositoryGrows(y) /\ Rests(y)
    <2>1. \A d \in CommitIDs :
            commits[d] = None /\ commits'[d] # None => commits'[d].by # y
      BY <1>3, <1>8 DEF CommitInv, TypeOK, RepoTypeOK
    <2>2. newCommit'[y] = newCommit[y]
      BY <1>2, <1>8 DEF Decoded, CommitInv, TypeOK
    <2> QED
      BY <1>4, <1>7, <1>8, <2>1, <2>2 DEF RepositoryGrows, Rests, CreateCommit
  <1>9. ExecutionInv(x)'
    <2>1. BaseWasRead(x)'
      BY <1>1, <1>7 DEF CommitInv, BaseWasRead, CreateCommit, Requested
    <2>2. CallsInOrder(x)'
      BY <1>1, <1>4, NothingInDoubt
         DEF CallsInOrder, CreateCommit, CallSteps, Requested
    <2>3. TreeIsBuilt(x)'
      BY <1>4 DEF TreeIsBuilt
    <2>4. CommitIsMade(x)'
      <3> SUFFICES ASSUME NEW d \in CommitIDs, commits'[d] # None,
                          commits'[d].by = x
                   PROVE  /\ commits'[d].parent = baseSHA[x]
                          /\ "blank" \notin Faults =>
                               commits'[d].tree \in
                                 Overlays(commits'[baseSHA[x]].tree,
                                          Files(req[x]))
        <4>1. newCommit'[x] # None => newCommit'[x] \in CreatedBy(x)'
          <5>1. newCommit[x] = None
            BY <1>1 DEF CommitInv, CommitIsMade
          <5>2. newCommit'[x] \in {None, c}
            BY <1>2, <5>1 DEF Decoded, CommitInv, TypeOK
          <5> QED
            BY <1>1, <1>3, <5>2 DEF CreatedBy
        <4> QED
          BY <1>1, <1>4, <4>1 DEF CommitIsMade, CreatedBy, CreateCommit
      <3>1. d = c
        <4> SUFFICES ASSUME d # c PROVE FALSE
          OBVIOUS
        <4>1. commits[d] = commits'[d]
          BY <1>3 DEF CommitInv, TypeOK, RepoTypeOK
        <4>2. d \in CreatedBy(x)
          BY <4>1 DEF CreatedBy
        <4> QED
          BY <1>1, <4>2 DEF CommitInv, CommitIsMade
      <3>2. "blank" \notin Faults =>
              newTree[x] \in Overlays(commits[baseSHA[x]].tree, Files(req[x]))
        BY <1>1 DEF CommitInv, TreeIsBuilt
      <3> QED
        BY <1>1, <1>3, <1>7, <3>1, <3>2
    <2> QED
      BY <2>1, <2>2, <2>3, <2>4 DEF ExecutionInv
  <1> QED
    BY <1>5, <1>6, <1>8, <1>9, OthersRest DEF CommitInv, ExecutionInv

(* The steps after the commit, and those of the other actors: every        *)
(* execution rests.                                                        *)
LEMMA RestInv ==
  ASSUME CommitInv, TypeOK', HistoriesAreStored',
         \A y \in Executions : RepositoryGrows(y) /\ Rests(y)
  PROVE  CommitInv'
  BY ExecutionRests DEF CommitInv, ExecutionInv

(* What GitHub does on the two calls that others can see, made in time or  *)
(* applied late.                                                           *)
LEMMA RefIsCreatedGrows ==
  ASSUME CommitInv, NEW x \in Executions, Requested(x), RefIsCreated(x)
  PROVE  /\ RepoTypeOK'
         /\ HistoriesAreStored'
         /\ \A y \in Executions : RepositoryGrows(y)
  <1>1. Branch(req[x]) \in Branches
    BY RequestType
  <1>2. newCommit[x] \in CommitIDs /\ commits[newCommit[x]] # None
    BY DEF CommitInv, CommitIsMade, CreatedBy, RefIsCreated
  <1>3. /\ refs' = [refs EXCEPT ![Branch(req[x])] = newCommit[x]]
        /\ reflog' = [reflog EXCEPT ![Branch(req[x])] = @ \cup {newCommit[x]}]
        /\ UNCHANGED <<commits, pulls>>
    BY DEF RefIsCreated, Point
  <1>4. RepoTypeOK'
    BY <1>1, <1>2, <1>3 DEF CommitInv, TypeOK, RepoTypeOK
  <1>5. HistoriesAreStored'
    BY <1>1, <1>2, <1>3, RepositoryAssumption
       DEF CommitInv, HistoriesAreStored, TypeOK, RepoTypeOK
  <1>6. ASSUME NEW y \in Executions PROVE RepositoryGrows(y)
    BY <1>3 DEF RepositoryGrows, CommitInv, TypeOK, RepoTypeOK
  <1> QED
    BY <1>4, <1>5, <1>6

LEMMA PullIsOpenedGrows ==
  ASSUME CommitInv, NEW x \in Executions, Requested(x), PullIsOpened(x)
  PROVE  /\ RepoTypeOK'
         /\ HistoriesAreStored'
         /\ \A y \in Executions : RepositoryGrows(y)
  <1> DEFINE head == Branch(req[x])
             base == Base(req[x])
             pull == [head |-> head, base |-> base,
                      tip |-> refs[head], open |-> TRUE]
  <1>1. head \in Branches /\ base \in Branches
    BY RequestType
  <1>2. pull \in Pull
    BY <1>1 DEF PullIsOpened, PullIsAcceptable, Pull, CommitInv, TypeOK,
                RepoTypeOK
  <1>3. RepoTypeOK'
    BY <1>2 DEF PullIsOpened, CommitInv, TypeOK, RepoTypeOK
  <1>4. HistoriesAreStored'
    BY DEF CommitInv, HistoriesAreStored, PullIsOpened
  <1>5. ASSUME NEW y \in Executions PROVE RepositoryGrows(y)
    BY DEF RepositoryGrows, PullIsOpened
  <1> QED
    BY <1>3, <1>4, <1>5

LEMMA CreateRefInv ==
  ASSUME CommitInv, NEW x \in Executions, CreateRef(x)
  PROVE  CommitInv'
  <1>1. pc[x] = "ref" /\ Requested(x)
    BY DEF CommitInv, CallsInOrder, CreateRef, CallSteps
  <1>2. /\ RepoTypeOK'
        /\ HistoriesAreStored'
        /\ \A y \in Executions : RepositoryGrows(y)
    BY <1>1, RefIsCreatedGrows DEF CreateRef
  <1>3. /\ pc'[x] \in {"pull", "done"}
        /\ \A y \in Executions \ {x} : pc'[y] = pc[y]
    BY DEF CreateRef, Fail, Goto, CommitInv, TypeOK
  <1>4. TypeOK'
    <2>1. {"ref", "pull"} \subseteq Steps
      BY DEF Steps, CallSteps
    <2>2. /\ pc' \in [Executions -> Steps]
          /\ reply' \in [Executions -> Reply \cup {None}]
      BY <2>1, FailType DEF CreateRef, CommitInv, TypeOK, Goto
    <2> QED
      BY <1>2, <2>2 DEF CreateRef, CommitInv, TypeOK, localVars
  <1>5. ASSUME NEW y \in Executions PROVE Rests(y)
    BY <1>1, <1>3, <1>5 DEF Rests, CreateRef, localVars, CallSteps
  <1> QED
    BY <1>2, <1>4, <1>5, RestInv

LEMMA OpenPullRequestInv ==
  ASSUME CommitInv, NEW x \in Executions, OpenPullRequest(x)
  PROVE  CommitInv'
  <1>1. pc[x] = "pull" /\ Requested(x)
    BY DEF CommitInv, CallsInOrder, OpenPullRequest, CallSteps
  <1>2. /\ RepoTypeOK'
        /\ HistoriesAreStored'
        /\ \A y \in Executions : RepositoryGrows(y)
    BY <1>1, PullIsOpenedGrows DEF OpenPullRequest
  <1>3. /\ pc' = [pc EXCEPT ![x] = "done"]
        /\ reply' \in [Executions -> Reply \cup {None}]
    <2>1. {"pull", "done"} \subseteq Steps
      BY DEF Steps, CallSteps
    <2>2. CASE Fail(x, "pull")
      BY <2>1, <2>2, FailType DEF CommitInv, Fail, Goto
    <2>3. CASE /\ Goto(x, "done")
               /\ \E number \in Decoded(x) :
                    reply' = [reply EXCEPT ![x] =
                                [status |-> "succeeded", step |-> "done",
                                 commit |-> newCommit[x], number |-> number]]
      <3>1. PICK number \in Decoded(x) :
              reply' = [reply EXCEPT ![x] =
                          [status |-> "succeeded", step |-> "done",
                           commit |-> newCommit[x], number |-> number]]
        BY <2>3
      <3>2. [status |-> "succeeded", step |-> "done",
             commit |-> newCommit[x], number |-> number] \in Reply
        BY <2>1 DEF Decoded, Reply, CommitInv, TypeOK
      <3> QED
        BY <2>3, <3>1, <3>2 DEF Goto, CommitInv, TypeOK
    <2> QED
      BY <2>2, <2>3 DEF OpenPullRequest
  <1>4. TypeOK'
    <2>1. pc' \in [Executions -> Steps]
      BY <1>3 DEF Steps, CommitInv, TypeOK
    <2> QED
      BY <1>2, <1>3, <2>1 DEF OpenPullRequest, CommitInv, TypeOK, localVars
  <1>5. ASSUME NEW y \in Executions PROVE Rests(y)
    BY <1>1, <1>3, <1>5 DEF Rests, OpenPullRequest, localVars, CommitInv,
                            TypeOK, CallSteps
  <1> QED
    BY <1>2, <1>4, <1>5, RestInv

LEMMA CallRefusedInv ==
  ASSUME CommitInv, NEW x \in Executions, CallRefused(x)
  PROVE  CommitInv'
  <1>1. pc[x] \in CallSteps /\ pc[x] \in Steps
    BY DEF CallRefused, CommitInv, TypeOK
  <1>2. /\ pc' = [pc EXCEPT ![x] = "done"]
        /\ pc' \in [Executions -> Steps]
        /\ reply' \in [Executions -> Reply \cup {None}]
    BY <1>1, FailType DEF CallRefused, CommitInv, Fail, Goto
  <1>3. /\ inDoubt' \in [Executions -> VisibleSteps \cup {None}]
        /\ \A y \in Executions \ {x} : inDoubt'[y] = inDoubt[y]
    BY DEF CallRefused, CommitInv, TypeOK
  <1>4. TypeOK'
    BY <1>2, <1>3 DEF CallRefused, CommitInv, TypeOK, RepoTypeOK, repoVars,
                      localVars
  <1>5. HistoriesAreStored'
    BY DEF CommitInv, HistoriesAreStored, CallRefused, repoVars
  <1>6. ASSUME NEW y \in Executions PROVE RepositoryGrows(y) /\ Rests(y)
    BY <1>1, <1>2, <1>3, <1>6
       DEF RepositoryGrows, Rests, CallRefused, repoVars, localVars, CommitInv,
           TypeOK
  <1> QED
    BY <1>4, <1>5, <1>6, RestInv

LEMMA CallLandsInv ==
  ASSUME CommitInv, NEW x \in Executions, CallLands(x)
  PROVE  CommitInv'
  <1>1. inDoubt[x] # None
    BY FaultAssumption DEF CallLands, Steps, CallSteps
  <1>2. Requested(x)
    BY <1>1 DEF CommitInv, CallsInOrder
  <1>3. /\ RepoTypeOK'
        /\ HistoriesAreStored'
        /\ \A y \in Executions : RepositoryGrows(y)
    BY <1>2, RefIsCreatedGrows, PullIsOpenedGrows DEF CallLands
  <1>4. TypeOK'
    BY <1>3 DEF CallLands, CommitInv, TypeOK, localVars
  <1>5. ASSUME NEW y \in Executions PROVE Rests(y)
    BY <1>5 DEF Rests, CallLands, localVars, CommitInv, TypeOK
  <1> QED
    BY <1>3, <1>4, <1>5, RestInv

LEMMA CrashInv ==
  ASSUME CommitInv, Crash
  PROVE  CommitInv'
  <1>1. "crashed" \in Steps
    BY DEF Steps
  <1>2. PICK gone \in SUBSET Running,
             sent \in SUBSET {x \in Running : pc[x] \in VisibleSteps} :
          /\ sent \subseteq gone
          /\ pc' = [x \in Executions |-> IF x \in gone THEN "crashed"
                                         ELSE pc[x]]
          /\ inDoubt' = [x \in Executions |->
                           IF x \in sent THEN pc[x] ELSE inDoubt[x]]
    BY DEF Crash
  <1>3. TypeOK'
    BY <1>1, <1>2 DEF Crash, CommitInv, TypeOK, RepoTypeOK, repoVars, localVars
  <1>4. HistoriesAreStored'
    BY DEF CommitInv, HistoriesAreStored, Crash, repoVars
  <1>5. ASSUME NEW y \in Executions PROVE RepositoryGrows(y) /\ Rests(y)
    BY <1>2, <1>5
       DEF RepositoryGrows, Rests, Crash, Running, repoVars, localVars
  <1> QED
    BY <1>3, <1>4, <1>5, RestInv

LEMMA PushInv ==
  ASSUME CommitInv, NEW b \in Branches, Push(b),
         UNCHANGED <<pc, localVars, reply, inDoubt>>
  PROVE  CommitInv'
  <1> DEFINE parent == refs[b] ?? refs[Main]
  <1>1. /\ parent \in CommitIDs
        /\ commits[parent] \in Commit
    BY RequestAssumption
       DEF CommitInv, HistoriesAreStored, TypeOK, RepoTypeOK, ??
  <1>2. PICK c \in CommitIDs, p \in Paths, content \in Contents \cup {None} :
          /\ StoreCommit(c, [commits[parent].tree EXCEPT ![p] = content],
                         parent, None)
          /\ Point(b, c)
    BY DEF Push
  <1> DEFINE made == [tree |-> [commits[parent].tree EXCEPT ![p] = content],
                      parent |-> parent, by |-> None]
  <1>3. made \in Commit /\ made # None
    BY <1>1, RepositoryAssumption DEF Commit, Tree
  <1>4. /\ commits[c] = None
        /\ commits' = [commits EXCEPT ![c] = made]
        /\ refs' = [refs EXCEPT ![b] = c]
        /\ reflog' = [reflog EXCEPT ![b] = @ \cup {c}]
        /\ pulls' = pulls
    BY <1>2 DEF StoreCommit, Unused, Point, Push
  <1>5. TypeOK'
    BY <1>3, <1>4 DEF CommitInv, TypeOK, RepoTypeOK, localVars
  <1>6. HistoriesAreStored'
    BY <1>3, <1>4, RepositoryAssumption
       DEF CommitInv, HistoriesAreStored, TypeOK, RepoTypeOK
  <1>7. ASSUME NEW y \in Executions PROVE RepositoryGrows(y) /\ Rests(y)
    <2>1. None # y
      BY <1>7, RepositoryAssumption
    <2>2. RepositoryGrows(y)
      BY <1>4, <2>1 DEF RepositoryGrows, CommitInv, TypeOK, RepoTypeOK
    <2> QED
      BY <2>2 DEF Rests, localVars
  <1> QED
    BY <1>5, <1>6, <1>7, RestInv

LEMMA ClosedType ==
  ASSUME NEW p \in Pull
  PROVE  [p EXCEPT !.open = FALSE] \in Pull
  BY DEF Pull

LEMMA DeleteBranchInv ==
  ASSUME CommitInv, NEW b \in Branches, DeleteBranch(b),
         UNCHANGED <<pc, localVars, reply, inDoubt>>
  PROVE  CommitInv'
  <1>1. b # Main
    BY RepositoryAssumption DEF DeleteBranch
  <1>2. pulls' \in [Executions -> Pull \cup {None}]
    BY ClosedType DEF DeleteBranch, CommitInv, TypeOK, RepoTypeOK
  <1>3. TypeOK'
    BY <1>2 DEF DeleteBranch, CommitInv, TypeOK, RepoTypeOK, localVars
  <1>4. HistoriesAreStored'
    BY <1>1 DEF DeleteBranch, CommitInv, HistoriesAreStored, TypeOK, RepoTypeOK
  <1>5. ASSUME NEW y \in Executions PROVE RepositoryGrows(y) /\ Rests(y)
    BY DEF RepositoryGrows, Rests, DeleteBranch, localVars
  <1> QED
    BY <1>3, <1>4, <1>5, RestInv

LEMMA ClosePullInv ==
  ASSUME CommitInv, NEW x \in Executions, ClosePull(x),
         UNCHANGED <<pc, localVars, reply, inDoubt>>
  PROVE  CommitInv'
  <1>1. pulls' \in [Executions -> Pull \cup {None}]
    <2>1. pulls' = [pulls EXCEPT ![x] = [pulls[x] EXCEPT !.open = FALSE]]
      BY DEF ClosePull
    <2> QED
      BY <2>1, ClosedType DEF ClosePull, CommitInv, TypeOK, RepoTypeOK
  <1>2. TypeOK'
    BY <1>1 DEF ClosePull, CommitInv, TypeOK, RepoTypeOK, localVars
  <1>3. HistoriesAreStored'
    BY DEF ClosePull, CommitInv, HistoriesAreStored
  <1>4. ASSUME NEW y \in Executions PROVE RepositoryGrows(y) /\ Rests(y)
    BY DEF RepositoryGrows, Rests, ClosePull, localVars
  <1> QED
    BY <1>2, <1>3, <1>4, RestInv

LEMMA StutterInv ==
  ASSUME CommitInv, UNCHANGED vars
  PROVE  CommitInv'
  <1>1. TypeOK'
    BY DEF vars, CommitInv, TypeOK, RepoTypeOK
  <1>2. HistoriesAreStored'
    BY DEF vars, CommitInv, HistoriesAreStored
  <1>3. ASSUME NEW y \in Executions PROVE RepositoryGrows(y) /\ Rests(y)
    BY DEF RepositoryGrows, Rests, vars
  <1> QED
    BY <1>1, <1>2, <1>3, RestInv

LEMMA NextInv == CommitInv /\ [Next]_vars => CommitInv'
  <1> SUFFICES ASSUME CommitInv, [Next]_vars PROVE CommitInv'
    OBVIOUS
  <1>1. ASSUME NEW x \in Executions, Accept(x) \/ Step(x) PROVE CommitInv'
    BY <1>1, AcceptInv, GetRefSHAInv, GetCommitTreeSHAInv, CreateBlobInv,
       CreateTreeInv, CreateCommitInv, CreateRefInv, OpenPullRequestInv,
       CallRefusedInv
       DEF Step
  <1>2. CASE Crash \/ \E x \in Executions : CallLands(x)
    BY <1>2, CrashInv, CallLandsInv
  <1>3. CASE Humans /\ UNCHANGED <<pc, localVars, reply, inDoubt>>
    BY <1>3, PushInv, DeleteBranchInv, ClosePullInv DEF Humans
  <1>4. CASE UNCHANGED vars
    BY <1>4, StutterInv
  <1> QED
    BY <1>1, <1>2, <1>3, <1>4 DEF Next

(* The variables of the code and of the repository keep the invariant that *)
(* everything below rests on.                                              *)
THEOREM CommitInvariant == Spec => []CommitInv
  BY InitInv, NextInv, PTL DEF Spec
-----------------------------------------------------------------------------
(* Every value has its type, whatever GitHub answers: a SHA that is sent   *)
(* is one that was received, and every call is made for a valid request.   *)
THEOREM TypeCorrect == Spec => []TypeOK
  <1>1. CommitInv => TypeOK
    BY DEF CommitInv
  <1> QED
    BY <1>1, CommitInvariant, PTL

(* However far the base moves, and whoever else pushes or publishes, the   *)
(* parent of a commit of the operation has been the head of the base       *)
(* branch of its request.                                                  *)
THEOREM CommitsHaveABase == Spec => []CommitsBranchOffTheBase
  <1>1. CommitInv => CommitsBranchOffTheBase
    BY DEF CommitInv, CommitIsMade, BaseWasRead, CommitsBranchOffTheBase
  <1> QED
    BY <1>1, CommitInvariant, PTL

(* When no answer lacks the field the code reads, every commit holds all   *)
(* the files of its request over the tree of its parent.  The assumption   *)
(* is needed: a base_tree of "" drops every other file of the repository.  *)
THEOREM CommitsHoldEveryFile ==
  ASSUME "blank" \notin Faults
  PROVE  Spec => []CommitsAreWhole
  <1>1. CommitInv => CommitsAreWhole
    BY DEF CommitInv, CommitIsMade, CommitsAreWhole
  <1> QED
    BY <1>1, CommitInvariant, PTL
-----------------------------------------------------------------------------
LEMMA NeverMoves ==
  ASSUME CommitInv, [Next]_vars, NEW b \in Branches,
         refs[b] # None, refs'[b] \notin {None, refs[b]}
  PROVE  commits'[refs'[b]].by = None
  <1>1. ASSUME NEW x \in Executions, Accept(x) \/ Step(x) \/ CallLands(x)
        PROVE  FALSE
    <2>1. refs' = refs \/ RefIsCreated(x)
      BY <1>1 DEF Accept, Step, GetRefSHA, GetCommitTreeSHA, CreateBlob,
                  CreateTree, CreateCommit, CreateRef, OpenPullRequest,
                  CallRefused, CallLands, PullIsOpened, repoVars
    <2>2. CASE RefIsCreated(x)
      BY <2>2 DEF RefIsCreated, Point, RefIsFree, CommitInv, TypeOK, RepoTypeOK
    <2> QED
      BY <2>1, <2>2
  <1>2. ~Crash /\ ~UNCHANGED vars
    BY DEF Crash, vars, repoVars
  <1>3. ASSUME NEW d \in Branches, Push(d) PROVE commits'[refs'[b]].by = None
    <2> DEFINE parent == refs[d] ?? refs[Main]
    <2>1. PICK c \in CommitIDs, p \in Paths, content \in Contents \cup {None} :
            /\ StoreCommit(c, [commits[parent].tree EXCEPT ![p] = content],
                           parent, None)
            /\ Point(d, c)
      BY <1>3 DEF Push
    <2>2. refs'[b] = c
      BY <2>1 DEF Point, CommitInv, TypeOK, RepoTypeOK
    <2>3. commits'[c].by = None
      BY <2>1 DEF StoreCommit, CommitInv, TypeOK, RepoTypeOK
    <2> QED
      BY <2>2, <2>3
  <1>4. ASSUME NEW d \in Branches, DeleteBranch(d) PROVE FALSE
    BY <1>4 DEF DeleteBranch, CommitInv, TypeOK, RepoTypeOK
  <1>5. ASSUME NEW x \in Executions, ClosePull(x) PROVE FALSE
    BY <1>5 DEF ClosePull
  <1> QED
    BY <1>1, <1>2, <1>3, <1>4, <1>5 DEF Next, Humans

(* A branch that exists is only ever moved by another actor: the adapter   *)
(* overwrites nobody's work, and never reaches the base branch itself.     *)
THEOREM BranchesAreNotMoved == Spec => AdapterNeverMovesABranch
  <1>1. CommitInv /\ [Next]_vars =>
          [\A b \in Branches :
             refs[b] # None /\ refs'[b] \notin {None, refs[b]} =>
               commits'[refs'[b]].by = None]_vars
    BY NeverMoves
  <1> QED
    BY <1>1, CommitInvariant, PTL DEF Spec, AdapterNeverMovesABranch
=============================================================================
