--------------------------- MODULE RunnerPoolProofs ---------------------------
(* The gate of list_runners (spec_extra.go:124-177), for pools, pages and  *)
(* expectations of every size: what it says is right about the pool at the *)
(* moment GitHub listed it.                                                *)
EXTENDS RunnerPool, FiniteSetTheorems, TLAPS

(* A page is a part of the pool, all of it if it fits.                     *)
Listed(s) ==
  /\ s.page \subseteq s.pool
  /\ s.online \subseteq s.pool
  /\ OnePage(s.pool) => s.page = s.pool
  /\ s.page = {} => s.pool = {}

(* What an answer of list_runners says of the snapshot it is about.        *)
Evaluated(r) ==
  /\ Listed(r.seen)
  /\ \/ Whole(r) /\ r.total = Cardinality(r.seen.pool)
     \/ r.listed = {}
  /\ r.matching = Matching(r.listed \cap r.seen.online)
  /\ r.ok = ~TooFew(r.matching)

(* An inductive invariant: the snapshot stays what it was when it was      *)
(* taken, and the answer what it was when the snapshot was evaluated.      *)
PoolInv ==
  /\ TypeOK
  /\ snapshot # None => Listed(snapshot)
  /\ report # None => Evaluated(report)
-----------------------------------------------------------------------------
(* A count that is no integer is none: the gate compares integers.         *)
LEMMA MinCountIsInt == MinCount \in Int
<1> DEFINE given == {i \in DOMAIN <<"min_count">> :
                       /\ <<"min_count">>[i] \in DOMAIN expect
                       /\ expect[<<"min_count">>[i]] \in Int}
<1>1. CASE given = {}
  BY <1>1 DEF MinCount, FirstInt
<1>2. CASE given # {}
  <2>1. given = {1}
    BY <1>2
  <2>2. Min(given) = 1
    BY <2>1 DEF Min
  <2>3. expect[<<"min_count">>[Min(given)]] \in Int
    BY <2>1, <2>2
  <2> QED
    BY <1>2, <2>3 DEF MinCount, FirstInt
<1> QED
  BY <1>1, <1>2

(* Sets of machines are finite, and a part of one is no larger.            *)
LEMMA MachinesCount ==
  ASSUME NEW S \in SUBSET Machines, NEW T \in SUBSET S
  PROVE  /\ Cardinality(S) \in Nat
         /\ Cardinality(T) \in Nat
         /\ Cardinality(T) <= Cardinality(S)
         /\ Cardinality(T) = Cardinality(S) => T = S
<1>1. IsFiniteSet(S)
  BY RunnerPoolAssumption, FS_Subset
<1> QED
  BY <1>1, FS_Subset, FS_CardinalityType

(* The page GitHub answers with.                                           *)
LEMMA PageIsListed ==
  ASSUME NEW pool \in SUBSET Machines,
         NEW page \in kSubset(Min({PageSize, Cardinality(pool)}), pool)
  PROVE  /\ page \subseteq pool
         /\ OnePage(pool) => page = pool
         /\ page = {} => pool = {}
<1>1. page \subseteq pool /\
      Cardinality(page) = Min({PageSize, Cardinality(pool)})
  BY DEF kSubset
<1>2. Cardinality(pool) \in Nat
  BY MachinesCount
<1>3. ASSUME OnePage(pool) PROVE page = pool
  <2>1. Min({PageSize, Cardinality(pool)}) = Cardinality(pool)
    BY <1>2, <1>3, RunnerPoolAssumption DEF Min, OnePage
  <2> QED
    BY <1>1, <2>1, MachinesCount
<1>4. ASSUME page = {} PROVE pool = {}
  <2>1. Min({PageSize, Cardinality(pool)}) = 0
    BY <1>1, <1>4, FS_EmptySet
  <2>2. Cardinality(pool) = 0
    BY <1>2, <2>1, RunnerPoolAssumption DEF Min
  <2> QED
    BY <1>4, <1>1, <2>2, MachinesCount, FS_EmptySet
<1> QED
  BY <1>1, <1>3, <1>4
-----------------------------------------------------------------------------
(* What a step on tokens and runners leaves alone.                         *)
LEMMA ReportsRest ==
  ASSUME PoolInv, TypeOK', UNCHANGED <<expect, snapshot, report>>
  PROVE  PoolInv'
BY DEF PoolInv, Listed, OnePage, Evaluated, Whole, Matching, HasAllLabels,
       RequiredLabels, TooFew, MinCount, FirstInt

LEMMA MachinesKeepPoolInv ==
  ASSUME PoolInv, NEW m \in Machines,
         CreateRunnerToken(m) \/ Register(m) \/ Expire(m) \/ Change(m)
  PROVE  PoolInv'
<1> USE DEF PoolInv, TypeOK
<1>1. CASE CreateRunnerToken(m)
  BY <1>1, ReportsRest, RunnerPoolAssumption DEF CreateRunnerToken, Fault
<1>2. CASE Register(m)
  BY <1>2, ReportsRest DEF Register
<1>3. CASE Expire(m)
  BY <1>3, ReportsRest, RunnerPoolAssumption DEF Expire, Fault
<1>4. CASE Change(m)
  BY <1>4, ReportsRest DEF Change
<1> QED
  BY <1>1, <1>2, <1>3, <1>4

LEMMA ListRunnersKeepsPoolInv ==
  ASSUME PoolInv, ListRunners
  PROVE  PoolInv'
<1>1. PICK page \in kSubset(Min({PageSize, Cardinality(Pool)}), Pool) :
        snapshot' = [page |-> page, pool |-> Pool, online |-> Online]
  BY DEF ListRunners
<1>2. Pool \in SUBSET Machines /\ Online \subseteq Pool
  BY DEF Pool, Online
<1>3. /\ page \subseteq Pool
      /\ OnePage(Pool) => page = Pool
      /\ page = {} => Pool = {}
  BY <1>2, PageIsListed
<1>4. Listed(snapshot')
  BY <1>1, <1>2, <1>3 DEF Listed, OnePage
<1>5. snapshot' \in Snapshots
  BY <1>1, <1>2, <1>3 DEF Snapshots
<1>6. UNCHANGED <<expect, token, status, report, faults>>
  BY DEF ListRunners
<1>7. TypeOK'
  BY <1>5, <1>6 DEF PoolInv, TypeOK
<1>8. report' # None => Evaluated(report)'
  BY <1>6 DEF PoolInv, Listed, OnePage, Evaluated, Whole, Matching,
              HasAllLabels, RequiredLabels, TooFew, MinCount, FirstInt
<1> QED
  BY <1>4, <1>7, <1>8 DEF PoolInv, Listed, OnePage

LEMMA MatchingIsNat ==
  ASSUME NEW online \in SUBSET Machines
  PROVE  Matching(online) \in Nat
<1> DEFINE S == {m \in online : HasAllLabels(m)}
<1>1. S \in SUBSET Machines
  OBVIOUS
<1> HIDE DEF S
<1>2. Cardinality(S) \in Nat
  BY <1>1, MachinesCount
<1> QED
  BY <1>2 DEF Matching, S

(* An answer says of the snapshot what it should.                          *)
LEMMA AnswerIsEvaluated ==
  ASSUME PoolInv, snapshot # None, NEW listed, NEW total \in Nat,
         \/ listed = snapshot.page /\ total = Cardinality(snapshot.pool)
         \/ listed = {}
  PROVE  /\ Answer(listed, total) \in [ok : BOOLEAN, matching : Nat,
                                       total : Nat, listed : SUBSET Machines,
                                       seen : Snapshots]
         /\ Evaluated(Answer(listed, total))
<1>1. snapshot \in Snapshots /\ Listed(snapshot)
  BY DEF PoolInv, TypeOK
<1>2. listed \in SUBSET Machines
  BY <1>1 DEF Snapshots
<1> DEFINE matching == Matching(listed \cap snapshot.online)
<1>3. matching \in Nat
  BY <1>2, MatchingIsNat
<1>4. (~TooFew(matching)) \in BOOLEAN
  BY DEF TooFew
<1>5. Answer(listed, total) =
        [ok |-> ~TooFew(matching), matching |-> matching, total |-> total,
         listed |-> listed, seen |-> snapshot]
  BY DEF Answer
<1>6. matching = Matching(listed \cap snapshot.online)
  OBVIOUS
<1> HIDE DEF matching
<1> QED
  BY <1>1, <1>2, <1>3, <1>4, <1>5, <1>6 DEF Evaluated, Whole

LEMMA GateRunnersKeepsPoolInv ==
  ASSUME PoolInv, GateRunners
  PROVE  PoolInv'
<1> DEFINE evaluated == Answer(snapshot.page, Cardinality(snapshot.pool))
           blank     == Answer({}, 0)
           Reports   == [ok : BOOLEAN, matching : Nat, total : Nat,
                         listed : SUBSET Machines, seen : Snapshots]
<1>1. snapshot # None /\ snapshot \in Snapshots
  BY DEF PoolInv, TypeOK, GateRunners
<1>2. snapshot.pool \in SUBSET Machines
  BY <1>1 DEF Snapshots
<1>3. Cardinality(snapshot.pool) \in Nat
  BY <1>2, MachinesCount
<1>4. evaluated \in Reports /\ Evaluated(evaluated)
  BY <1>1, <1>3, AnswerIsEvaluated
<1>5. blank \in Reports /\ Evaluated(blank)
  BY <1>1, AnswerIsEvaluated
<1>8. /\ UNCHANGED <<expect, token, status>>
      /\ snapshot' = None
      /\ \/ report' = evaluated /\ UNCHANGED faults
         \/ report' = blank /\ Fault("blank")
         \/ UNCHANGED report /\ Fault("lost")
  BY DEF GateRunners
<1> HIDE DEF evaluated, blank
<1>9. TypeOK'
  BY <1>4, <1>5, <1>8, RunnerPoolAssumption DEF PoolInv, TypeOK, Fault
<1>10. report' # None => Evaluated(report')
  BY <1>4, <1>5, <1>8 DEF PoolInv
<1>11. report' # None => Evaluated(report)'
  BY <1>8, <1>10 DEF Evaluated, Whole, Listed, OnePage, Matching, HasAllLabels,
              RequiredLabels, TooFew, MinCount, FirstInt
<1> QED
  BY <1>8, <1>9, <1>11 DEF PoolInv

(* What a machine, GitHub and list_runners do keeps every answer with the  *)
(* runners it was given for.                                               *)
THEOREM PoolInvariant == Spec => []PoolInv
<1>1. Init => PoolInv
  BY RunnerPoolAssumption DEF Init, PoolInv, TypeOK
<1>2. ASSUME PoolInv, Next PROVE PoolInv'
  BY <1>2, MachinesKeepPoolInv, ListRunnersKeepsPoolInv,
     GateRunnersKeepsPoolInv DEF Next
<1>3. ASSUME PoolInv, UNCHANGED vars PROVE PoolInv'
  BY <1>3, ReportsRest DEF vars, PoolInv, TypeOK
<1> QED
  BY <1>1, <1>2, <1>3, PTL DEF Spec

(* Tokens, runners, listings and answers have their types: no answer       *)
(* without a token is kept as one.                                         *)
THEOREM TypeCorrect == Spec => []TypeOK
<1>1. PoolInv => TypeOK
  BY DEF PoolInv
<1> QED
  BY <1>1, PoolInvariant, PTL
-----------------------------------------------------------------------------
(* The runners that count in an answer are among those that should, and    *)
(* are all of them if the answer lists the pool.                           *)
LEMMA MatchingBounds ==
  ASSUME NEW s \in Snapshots, Listed(s), NEW listed \in SUBSET s.pool
  PROVE  /\ Matching(listed \cap s.online) \in Nat
         /\ Cardinality({m \in s.online : Asked(m)}) \in Nat
         /\ Matching(listed \cap s.online) <=
              Cardinality({m \in s.online : Asked(m)})
         /\ listed = s.pool =>
              Matching(listed \cap s.online) =
                Cardinality({m \in s.online : Asked(m)})
<1> DEFINE counted == {m \in listed \cap s.online : HasAllLabels(m)}
           asked   == {m \in s.online : Asked(m)}
<1>1. asked \in SUBSET Machines
  BY DEF Snapshots
<1>2. counted \in SUBSET asked
  BY DEF HasAllLabels, Asked
<1>3. listed = s.pool => counted = asked
  BY DEF HasAllLabels, Asked, Listed
<1>4. Matching(listed \cap s.online) = Cardinality(counted)
  BY DEF Matching
<1> HIDE DEF counted, asked
<1>5. /\ Cardinality(asked) \in Nat /\ Cardinality(counted) \in Nat
      /\ Cardinality(counted) <= Cardinality(asked)
  BY <1>1, <1>2, MachinesCount
<1> QED
  BY <1>3, <1>4, <1>5 DEF asked

(* The gate opens only if enough runners with the labels were online when  *)
(* GitHub listed them, and stays shut only if not, if there are more       *)
(* runners than a page holds, or if the answer came without the list       *)
(* (spec_extra.go:124-144).                                                *)
THEOREM TheGateIsExact == Spec => []GateIsExact
<1>1. ASSUME PoolInv PROVE GateIsExact
  <2> SUFFICES ASSUME report # None, MinCount > 0
               PROVE  /\ report.ok => Enough(report.seen.online)
                      /\ ~report.ok => \/ ~Enough(report.seen.online)
                                       \/ ~OnePage(report.seen.pool)
                                       \/ ~Whole(report)
    BY DEF GateIsExact
  <2> DEFINE online  == Cardinality({m \in report.seen.online : Asked(m)})
             counted == Matching(report.listed \cap report.seen.online)
  <2>1. Evaluated(report) /\ report.seen \in Snapshots
    BY <1>1 DEF PoolInv, TypeOK
  <2>2. Listed(report.seen)
    BY <2>1 DEF Evaluated
  <2>3. report.ok <=> ~(counted < MinCount)
    BY <2>1 DEF Evaluated, TooFew
  <2>4. report.listed \in SUBSET report.seen.pool
    BY <2>1, <2>2 DEF Evaluated, Whole, Listed
  <2>5. /\ counted \in Nat /\ online \in Nat
        /\ counted <= online
        /\ report.listed = report.seen.pool => counted = online
    BY <2>1, <2>2, <2>4, MatchingBounds
  <2>6. Enough(report.seen.online) <=> online >= MinCount
    BY DEF Enough
  <2> HIDE DEF online, counted
  <2> QED
    <3>1. ASSUME report.ok PROVE Enough(report.seen.online)
      BY <2>3, <2>5, <2>6, <3>1, MinCountIsInt
    <3>2. ASSUME ~report.ok, OnePage(report.seen.pool), Whole(report)
          PROVE  ~Enough(report.seen.online)
      <4>1. report.listed = report.seen.pool
        BY <2>2, <3>2 DEF Listed, Whole
      <4> QED
        BY <2>3, <2>5, <2>6, <3>2, <4>1, MinCountIsInt
    <3> QED
      BY <3>1, <3>2
<1> QED
  BY <1>1, PoolInvariant, PTL

(* An answer whose total_count is the number of runners in it counts every *)
(* runner that should, unless the list was missing (spec_extra.go:163-177).*)
THEOREM TotalsTell == Spec => []TruncationShows
<1>1. ASSUME PoolInv PROVE TruncationShows
  <2> SUFFICES ASSUME Passed, Whole(report),
                      report.total = Cardinality(report.listed)
               PROVE  report.matching =
                        Cardinality({m \in report.seen.online : Asked(m)})
    BY DEF TruncationShows
  <2>1. Evaluated(report) /\ report.seen \in Snapshots
    BY <1>1 DEF PoolInv, TypeOK, Passed
  <2>2. Listed(report.seen)
    BY <2>1 DEF Evaluated
  <2>3. /\ report.listed \in SUBSET report.seen.pool
        /\ report.seen.pool \in SUBSET Machines
    BY <2>1, <2>2 DEF Listed, Snapshots, Whole
  <2>4. report.listed = report.seen.pool
    <3>1. CASE report.listed = {}
      BY <2>2, <3>1 DEF Listed, Whole
    <3>2. CASE report.listed # {}
      BY <2>1, <2>3, <3>2, MachinesCount DEF Evaluated
    <3> QED
      BY <3>1, <3>2
  <2> QED
    BY <2>1, <2>2, <2>3, <2>4, MatchingBounds DEF Evaluated
<1> QED
  BY <1>1, PoolInvariant, PTL
=============================================================================
