----------------------------- MODULE RunnerPool ------------------------------
(***************************************************************************)
(* A pool of self-hosted runners that a workflow brings up and waits for,  *)
(* with the two operations of internal/adapter/spec_extra.go: it asks      *)
(* create_runner_token for every machine, the machines register with their *)
(* tokens, and it polls list_runners until the gate opens.  Machines come  *)
(* and go meanwhile; one that is replaced leaves an offline runner behind. *)
(*                                                                         *)
(* Labels are taken up to case, and the ones that are asked for without    *)
(* the blanks around them, as the gate compares them.  "expect" is a map;  *)
(* its list of labels is the set of its items, None for a blank string and *)
(* NotAString for a number or object, or NotAList.                         *)
(***************************************************************************)
EXTENDS Resolve, FiniteSets

CONSTANTS
  Machines,      \* the machines, and the runners they register
  Label,         \* labels a runner can have
  Labels,        \* machine -> its labels
  NotAString, NotAList,
  Expectations,  \* the values of "expect" a workflow sends
  PageSize,      \* runners in one answer of GitHub (per_page, 100)
  Faults,        \* subset of {"refused", "lost", "blank", "expired"}
  MaxFaults      \* bound: how many of them happen

VARIABLES
  expect,    \* what this workflow waits for
  token,     \* machine -> "none", "usable", "empty" or "used"
  status,    \* machine -> that of its runner; "none" before and "removed" after
  snapshot,  \* the answer of GitHub that list_runners has not handled yet
  report,    \* the last answer of list_runners, with the snapshot it is about
  faults     \* how many faults have happened

vars == <<expect, token, status, snapshot, report, faults>>

Pool   == {m \in Machines : status[m] \in {"online", "offline"}}
Online == {m \in Machines : status[m] = "online"}

Snapshots == [page : SUBSET Machines, pool : SUBSET Machines,
              online : SUBSET Machines]

ASSUME RunnerPoolAssumption ==
  /\ IsFiniteSet(Machines)
  /\ Labels \in [Machines -> SUBSET Label]
  /\ {None, NotAString} \cap Label = {}
  /\ PageSize \in Nat \ {0}
  /\ MaxFaults \in Nat
  /\ Faults \subseteq {"refused", "lost", "blank", "expired"}
  /\ None \notin Snapshots

TypeOK ==
  /\ expect   \in Expectations
  /\ token    \in [Machines -> {"none", "usable", "used"}]
  /\ status   \in [Machines -> {"none", "online", "offline", "removed"}]
  /\ snapshot \in Snapshots \cup {None}
  /\ report   \in [ok : BOOLEAN, matching : Nat, total : Nat,
                  listed : SUBSET Machines, seen : Snapshots] \cup {None}
  /\ faults   \in 0..MaxFaults

Init ==
  /\ expect   \in Expectations
  /\ token    = [m \in Machines |-> "none"]
  /\ status   = [m \in Machines |-> "none"]
  /\ snapshot = None
  /\ report   = None
  /\ faults   = 0
-----------------------------------------------------------------------------
Fault(f) == f \in Faults /\ faults < MaxFaults /\ faults' = faults + 1

(* Mutant: the token of the answer is not looked at.                       *)
CreateRunnerToken_Unchecked(m) ==
  /\ token[m] = "none"
  /\ \/ token' = [token EXCEPT ![m] = "usable"] /\ UNCHANGED faults
     \/ Fault("blank") /\ token' = [token EXCEPT ![m] = "empty"]
     \/ (Fault("refused") \/ Fault("lost")) /\ UNCHANGED token
  /\ UNCHANGED <<expect, status, snapshot, report>>

(* create_runner_token for one machine.  An answer without a token is an   *)
(* error; so is one that is lost, and the token it held will never be used.*)
CreateRunnerToken(m) ==
  /\ token[m] = "none"
  /\ \/ token' = [token EXCEPT ![m] = "usable"] /\ UNCHANGED faults
     \/ /\ Fault("blank") \/ Fault("refused") \/ Fault("lost")
        /\ UNCHANGED token
  /\ UNCHANGED <<expect, status, snapshot, report>>

(* The machine registers its runner; the token is good for one.            *)
Register(m) ==
  /\ token[m] = "usable"
  /\ token' = [token EXCEPT ![m] = "used"]
  /\ status' = [status EXCEPT ![m] = "online"]
  /\ UNCHANGED <<expect, snapshot, report, faults>>

(* An hour has passed before it did.                                       *)
Expire(m) ==
  /\ token[m] = "usable"
  /\ Fault("expired")
  /\ token' = [token EXCEPT ![m] = "none"]
  /\ UNCHANGED <<expect, status, snapshot, report>>

(* A runner goes offline, comes back, or is removed from GitHub.           *)
Change(m) ==
  /\ m \in Pool
  /\ \E s \in {"online", "offline", "removed"} \ {status[m]} :
       status' = [status EXCEPT ![m] = s]
  /\ UNCHANGED <<expect, token, snapshot, report, faults>>
-----------------------------------------------------------------------------
(* stringSliceFromAny: items that are no strings, or blank ones, are       *)
(* dropped, and so is anything that is not a list.                         *)
RequiredLabels ==
  IF \/ "min_online_with_labels" \notin DOMAIN expect
     \/ expect.min_online_with_labels = NotAList
  THEN {}
  ELSE expect.min_online_with_labels \ {None, NotAString}

MinCount == FirstInt(expect, <<"min_count">>, 0)

(* Mutant: one of the labels is enough.                                    *)
HasAllLabels_Any(m) ==
  RequiredLabels = {} \/ RequiredLabels \cap Labels[m] # {}

HasAllLabels(m) == RequiredLabels \subseteq Labels[m]

Passed == report # None /\ report.ok

(* The call of list_runners: GitHub answers with the first page, in an     *)
(* order nobody promises, and the number of all runners.                   *)
ListRunners ==
  /\ ~Passed
  /\ snapshot = None
  /\ \E page \in kSubset(Min({PageSize, Cardinality(Pool)}), Pool) :
       snapshot' = [page |-> page, pool |-> Pool, online |-> Online]
  /\ UNCHANGED <<expect, token, status, report, faults>>

Matching(online) == Cardinality({m \in online : HasAllLabels(m)})

(* Mutant: as many as expected are not enough.                             *)
TooFew_Equal(matching) == MinCount > 0 /\ matching <= MinCount

(* Without a positive count nothing is too few.                            *)
TooFew(matching) == MinCount > 0 /\ matching < MinCount

(* What list_runners answers when it has read these runners and this total.*)
Answer(listed, total) ==
  LET matching == Matching(listed \cap snapshot.online)
  IN  [ok |-> ~TooFew(matching), matching |-> matching, total |-> total,
       listed |-> listed, seen |-> snapshot]

(* The rest of list_runners, whatever has happened to the runners since.   *)
(* An answer that is lost or does not decode is an error like a call that  *)
(* is refused, and the workflow polls again; one that decodes without      *)
(* runners and total_count is an empty list.                               *)
GateRunners ==
  /\ snapshot # None
  /\ \/ /\ report' = Answer(snapshot.page, Cardinality(snapshot.pool))
        /\ UNCHANGED faults
     \/ Fault("blank") /\ report' = Answer({}, 0)
     \/ Fault("lost") /\ UNCHANGED report
  /\ snapshot' = None
  /\ UNCHANGED <<expect, token, status>>

Next ==
  \/ \E m \in Machines : \/ CreateRunnerToken(m)
                         \/ Register(m)
                         \/ Expire(m)
                         \/ Change(m)
  \/ ListRunners
  \/ GateRunners

Spec == Init /\ [][Next]_vars

(* The workflow asks for tokens and polls until it gets what it wants, and *)
(* a machine uses its token; nothing is said of machines that fail.        *)
Fairness ==
  /\ \A m \in Machines : WF_vars(CreateRunnerToken(m)) /\ WF_vars(Register(m))
  /\ WF_vars(ListRunners)
  /\ WF_vars(GateRunners)

FairSpec == Spec /\ Fairness
-----------------------------------------------------------------------------
Asked(m)         == RequiredLabels \subseteq Labels[m]
Enough(machines) == Cardinality({m \in machines : Asked(m)}) >= MinCount
OnePage(pool)    == Cardinality(pool) <= PageSize

(* The answer had the page of runners in it that GitHub has listed.        *)
Whole(r) == r.listed = r.seen.page

(* The gate is right about the pool at the moment GitHub listed it: it     *)
(* opens only if enough runners are online with all labels, and stays shut *)
(* only if they are not, if there are more runners than fit on a page, or  *)
(* if the list was missing in the answer.                                  *)
GateIsExact ==
  report # None /\ MinCount > 0 =>
    /\ report.ok => Enough(report.seen.online)
    /\ ~report.ok => \/ ~Enough(report.seen.online)
                     \/ ~OnePage(report.seen.pool)
                     \/ ~Whole(report)

(* A caller can tell from an answer that runners are missing in its page:  *)
(* when total_count is the number of runners listed, matching_count is     *)
(* exact.                                                                  *)
TruncationShows ==
  Passed /\ Whole(report) /\ report.total = Cardinality(report.listed) =>
    report.matching = Cardinality({m \in report.seen.online : Asked(m)})

(* A token that was answered is one a machine can register with: lost,     *)
(* empty and expired ones are asked for again, and every runner comes up.  *)
EveryMachineRegisters == \A m \in Machines : <>(status[m] # "none")

(* The wait ends: when enough runners with the labels stay online, in a    *)
(* pool that fits on a page, the gate opens.                               *)
WaitEndsOnOnePage == <>[](Enough(Online) /\ OnePage(Pool)) => <>Passed

(* "the workflow uses this to wait until an ASG has brought N healthy      *)
(* runners online" (spec_extra.go:82-83): when they stay, the wait ends.   *)
WaitEnds == <>[]Enough(Online) => <>Passed
=============================================================================
