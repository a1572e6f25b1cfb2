----------------------------- MODULE Publication -----------------------------
(***************************************************************************)
(* What create_pull_request promises to somebody who sees only branches,   *)
(* pull requests and replies.  The five calls that build blobs, tree and   *)
(* commit do not show: a branch appears in one step with all the files of  *)
(* its request on top of a tree the base branch has held.  Opening the     *)
(* pull request is a second step, and the execution may end between the    *)
(* two: that much atomicity the code gives, and not more.                  *)
(***************************************************************************)
EXTENDS ChangeRequest

CONSTANTS Executions, InitialFiles, HumanBranches, Deletable

VARIABLES
  asked,      \* execution -> its request
  outcome,    \* execution -> "pending", "succeeded", "failed" or "lost"
  tip,        \* branch -> [tree, by] of its head, None if there is none
  held,       \* branch -> every tree it has held
  published,  \* executions that have created their branch
  opened,     \* executions that have opened their pull request
  doubt       \* execution -> a step that may follow its end, or None

pubVars == <<asked, outcome, tip, held, published, opened, doubt>>

Init ==
  /\ asked     = [x \in Executions |-> None]
  /\ outcome   = [x \in Executions |-> "pending"]
  /\ tip       = [b \in Branches |->
                    IF b = Main THEN [tree |-> InitialFiles, by |-> None]
                    ELSE None]
  /\ held      = [b \in Branches |-> IF b = Main THEN {InitialFiles} ELSE {}]
  /\ published = {}
  /\ opened    = {}
  /\ doubt     = [x \in Executions |-> None]

InFlight(x) == asked[x] # None /\ outcome[x] = "pending"

Put(b, tree, author) ==
  /\ tip'  = [tip EXCEPT ![b] = [tree |-> tree, by |-> author]]
  /\ held' = [held EXCEPT ![b] = @ \cup {tree}]

(* A request that is not valid is answered at once.                        *)
Ask(x) ==
  /\ asked[x] = None
  /\ \E r \in Requests :
       /\ asked' = [asked EXCEPT ![x] = r]
       /\ outcome' = [outcome EXCEPT ![x] = IF Valid(r) THEN @ ELSE "failed"]
  /\ UNCHANGED <<tip, held, published, opened, doubt>>

(* The branch appears, whole, and only if there is none of that name.      *)
BranchAppears(x) ==
  /\ x \notin published
  /\ tip[Branch(asked[x])] = None
  /\ \E base \in held[Base(asked[x])] :
       \E tree \in Overlays(base, Files(asked[x])) :
         Put(Branch(asked[x]), tree, x)
  /\ published' = published \cup {x}
  /\ UNCHANGED opened

(* The pull request is opened by the execution that created the branch.    *)
PullAppears(x) ==
  /\ x \in published \ opened
  /\ opened' = opened \cup {x}
  /\ UNCHANGED <<tip, held, published>>

(* The caller of an execution that publishes may be told of a failure.     *)
Publish(x) ==
  /\ InFlight(x)
  /\ BranchAppears(x)
  /\ \E told \in {"pending", "failed"} :
       outcome' = [outcome EXCEPT ![x] = told]
  /\ UNCHANGED <<asked, doubt>>

(* The pull request is the last thing an execution does.                   *)
Open(x) ==
  /\ InFlight(x)
  /\ PullAppears(x)
  /\ \E told \in {"succeeded", "failed"} :
       outcome' = [outcome EXCEPT ![x] = told]
  /\ UNCHANGED <<asked, doubt>>

(* Anything can fail, and what has been done stays.  The next step may     *)
(* follow, but no other.                                                   *)
NextStep(x) == IF x \in published THEN "open" ELSE "publish"

GiveUp(x) ==
  /\ InFlight(x)
  /\ outcome' = [outcome EXCEPT ![x] = "failed"]
  /\ \E step \in {NextStep(x), None} : doubt' = [doubt EXCEPT ![x] = step]
  /\ UNCHANGED <<asked, tip, held, published, opened>>

(* Some that are in flight are lost.                                       *)
Crash ==
  /\ \E gone \in SUBSET {x \in Executions : InFlight(x)} :
       /\ outcome' = [x \in Executions |->
                        IF x \in gone THEN "lost" ELSE outcome[x]]
       /\ \E sent \in SUBSET gone :
            doubt' = [x \in Executions |->
                        IF x \in sent THEN NextStep(x) ELSE doubt[x]]
  /\ UNCHANGED <<asked, tip, held, published, opened>>

Follow(x) ==
  /\ \/ doubt[x] = "publish" /\ BranchAppears(x)
     \/ doubt[x] = "open"    /\ PullAppears(x)
  /\ doubt' = [doubt EXCEPT ![x] = None]
  /\ UNCHANGED <<asked, outcome>>

(* The other actors.                                                       *)
Push(b) ==
  /\ b \in HumanBranches
  /\ \E tree \in Tree : Put(b, tree, None)
  /\ UNCHANGED <<asked, outcome, published, opened, doubt>>

Delete(b) ==
  /\ b \in Deletable
  /\ tip' = [tip EXCEPT ![b] = None]
  /\ UNCHANGED <<asked, outcome, held, published, opened, doubt>>

Next ==
  \/ \E x \in Executions : \/ Ask(x) \/ Publish(x) \/ Open(x)
                            \/ GiveUp(x) \/ Follow(x)
  \/ Crash
  \/ \E b \in Branches : Push(b) \/ Delete(b)

Spec == Init /\ [][Next]_pubVars
=============================================================================
