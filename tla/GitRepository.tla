---------------------------- MODULE GitRepository ----------------------------
(***************************************************************************)
(* One GitHub repository, as far as the Git Data API and the pull request  *)
(* API let the adapter see it.  The repository is external to the adapter: *)
(* what it accepts and what it stores is modelled from the calls that      *)
(* internal/adapter/pull_request.go makes.                                 *)
(*                                                                         *)
(* A blob and a tree are their own SHA (Git is content addressed): a blob  *)
(* SHA is a content, a tree SHA is the function from paths to contents it  *)
(* addresses.  A commit also carries author and date, so it gets an        *)
(* identifier that no other commit has.  None is the empty string: a SHA   *)
(* that is not there, a branch that does not exist, a path with no file.   *)
(*                                                                         *)
(* The other actors of the repository - people and other programs - push   *)
(* to, delete and recreate branches, and close or merge pull requests, at  *)
(* any moment between two calls of the adapter.                            *)
(***************************************************************************)
EXTENDS ChangeRequest

CONSTANTS
  Executions,     \* the executions of the operation, each one by one worker
  CommitIDs,      \* commit SHAs
  Root,           \* the commit main starts at
  InitialFiles,   \* the tree of Root
  HumanBranches,  \* branches that other actors push to
  Deletable,      \* branches that other actors may delete
  MaxPushes       \* bound: commits made by other actors

Commit == [tree   : Tree,
           parent : CommitIDs \cup {None},
           by     : Executions \cup {None}]     \* None: another actor

(* The pull request an execution opened; tip is what its head branch held  *)
(* at that moment.                                                         *)
Pull == [head : Branches, base : Branches, tip : CommitIDs, open : BOOLEAN]

ASSUME RepositoryAssumption ==
  /\ Root \in CommitIDs
  /\ InitialFiles \in Tree
  /\ HumanBranches \subseteq Branches
  /\ Deletable \subseteq Branches \ {Main}
  /\ MaxPushes \in Nat
  /\ None \notin CommitIDs \cup Executions \cup Commit \cup Pull

VARIABLES
  refs,      \* branch -> commit it points at
  commits,   \* commit SHA -> commit, None while the SHA is unused
  reflog,    \* branch -> every commit it has ever pointed at
  pulls      \* execution -> the pull request it opened

repoVars == <<refs, commits, reflog, pulls>>

RepoTypeOK ==
  /\ refs    \in [Branches -> CommitIDs \cup {None}]
  /\ commits \in [CommitIDs -> Commit \cup {None}]
  /\ reflog  \in [Branches -> SUBSET CommitIDs]
  /\ pulls   \in [Executions -> Pull \cup {None}]

RepoInit ==
  /\ refs    = [b \in Branches |-> IF b = Main THEN Root ELSE None]
  /\ commits = [c \in CommitIDs |->
                  IF c = Root
                  THEN [tree |-> InitialFiles, parent |-> None, by |-> None]
                  ELSE None]
  /\ reflog  = [b \in Branches |-> IF b = Main THEN {Root} ELSE {}]
  /\ pulls   = [x \in Executions |-> None]
-----------------------------------------------------------------------------
Unused(c) == commits[c] = None

(* POST git/commits: the commit is stored; no branch points at it yet.     *)
StoreCommit(c, tree, parent, author) ==
  /\ Unused(c)
  /\ commits' = [commits EXCEPT ![c] =
                   [tree |-> tree, parent |-> parent, by |-> author]]

(* A branch is made to point at commit c.                                  *)
Point(b, c) ==
  /\ refs'   = [refs EXCEPT ![b] = c]
  /\ reflog' = [reflog EXCEPT ![b] = @ \cup {c}]

(* GitHub answers 422 to POST git/refs when the branch exists.             *)
RefIsFree(b) == refs[b] = None

(* GitHub answers 422 to POST pulls when a branch is missing, when head    *)
(* and base are one branch, and when an open pull request links the two.   *)
PullIsAcceptable(head, base) ==
  /\ refs[head] # None
  /\ refs[base] # None
  /\ head # base
  /\ \A x \in Executions :
       pulls[x] # None =>
         ~(pulls[x].open /\ pulls[x].head = head /\ pulls[x].base = base)
-----------------------------------------------------------------------------
HumanCommits == {c \in CommitIDs : commits[c] # None /\ commits[c].by = None}

(* Somebody pushes a commit that changes one file; pushing to a branch that *)
(* does not exist creates it on top of main.  Bounded by MaxPushes.        *)
Push(b) ==
  LET parent == refs[b] ?? refs[Main]
  IN  /\ b \in HumanBranches
      /\ Cardinality(HumanCommits \ {Root}) < MaxPushes
      /\ \E c \in CommitIDs, p \in Paths, content \in Contents \cup {None} :
           /\ commits[parent].tree[p] # content
           /\ StoreCommit(c, [commits[parent].tree EXCEPT ![p] = content],
                          parent, None)
           /\ Point(b, c)
      /\ UNCHANGED pulls

(* Somebody deletes a branch; GitHub closes its pull requests.             *)
DeleteBranch(b) ==
  /\ b \in Deletable
  /\ refs[b] # None
  /\ refs' = [refs EXCEPT ![b] = None]
  /\ pulls' = [x \in Executions |->
                 IF pulls[x] # None /\ b \in {pulls[x].head, pulls[x].base}
                 THEN [pulls[x] EXCEPT !.open = FALSE]
                 ELSE pulls[x]]
  /\ UNCHANGED <<commits, reflog>>

(* Somebody closes a pull request, or merges it: the merge commit itself   *)
(* is a Push to the base branch.                                           *)
ClosePull(x) ==
  /\ pulls[x] # None
  /\ pulls[x].open
  /\ pulls' = [pulls EXCEPT ![x].open = FALSE]
  /\ UNCHANGED <<refs, commits, reflog>>

Humans ==
  \/ \E b \in Branches : Push(b) \/ DeleteBranch(b)
  \/ \E x \in Executions : ClosePull(x)
=============================================================================
