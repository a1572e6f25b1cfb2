---------------------------- MODULE CatalogProofs -----------------------------
(***************************************************************************)
(* What an answer of catalog_discover says about the repositories, for any *)
(* repositories, inputs and limits.                                        *)
(***************************************************************************)
EXTENDS Catalog, FiniteSetTheorems, SequenceTheorems, TLAPS

(* The smallest of a set of natural numbers, and of two integers.          *)
LEMMA MinOfNaturals ==
  ASSUME NEW S \in SUBSET Nat, S # {}
  PROVE  Min(S) \in S /\ \A x \in S : Min(S) <= x
<1> DEFINE R == OpToRel(<, Nat)
<1>1. IsWellFoundedOn(R, Nat)
  BY NatLessThanWellFounded
<1>2. \A a, b \in Nat : a < b => <<a, b>> \in R
  BY DEF OpToRel
<1> HIDE DEF R
<1>3. PICK x \in S : \A y \in S : ~(<<y, x>> \in R)
  BY <1>1, WFMin
<1>4. ASSUME NEW y \in S PROVE x <= y
  <2>1. x \in Nat /\ y \in Nat
    BY <1>4
  <2>2. <<y, x>> \notin R
    BY <1>3, <1>4
  <2>3. ~(y < x)
    BY <1>2, <2>1, <2>2
  <2> QED
    BY <2>1, <2>3
<1> QED
  BY <1>4 DEF Min

LEMMA MinOfTwo ==
  ASSUME NEW a \in Int, NEW b \in Int
  PROVE  Min({a, b}) = IF a <= b THEN a ELSE b
<1> DEFINE m == IF a <= b THEN a ELSE b
<1>1. m \in {a, b} /\ \A y \in {a, b} : m <= y
  OBVIOUS
<1>2. \A x \in {a, b} : (\A y \in {a, b} : x <= y) => x = m
  OBVIOUS
<1> HIDE DEF m
<1> QED
  BY <1>1, <1>2 DEF Min, m
-----------------------------------------------------------------------------
(* A valid property, or a topic and no property, makes an entry: what      *)
(* catalog_discover takes for one (spec.go:897-909) is what is marked.     *)
LEMMA EntryIsMarked ==
  ASSUME NEW r
  PROVE  IsEntry(r) <=> Marked(r)
<1>1. None \notin Kinds
  BY CatalogAssumption
<1>2. CASE r.kind # None
  <2>1. Kind(r) = r.kind
    BY <1>2 DEF Kind, ??
  <2> QED
    BY <1>2, <2>1 DEF IsEntry, Marked
<1>3. CASE r.kind = None
  <2>1. Kind(r) = CASE "yggdrasil-integration" \in r.topics -> "integration"
                    [] "yggdrasil-surface" \in r.topics     -> "surface"
                    [] OTHER                                -> None
    BY <1>3 DEF Kind, ??
  <2>2. CASE "yggdrasil-integration" \in r.topics
                \/ "yggdrasil-surface" \in r.topics
    <3>1. Kind(r) = "integration" \/ Kind(r) = "surface"
      BY <2>1, <2>2
    <3>2. Kind(r) \in Kinds
      BY <3>1 DEF Kinds
    <3> QED
      BY <1>3, <2>2, <3>2 DEF IsEntry, Marked
  <2>3. CASE ~("yggdrasil-integration" \in r.topics)
                /\ ~("yggdrasil-surface" \in r.topics)
    <3>1. Kind(r) = None
      BY <2>1, <2>3
    <3> QED
      BY <1>1, <1>3, <2>3, <3>1 DEF IsEntry, Marked
  <2> QED
    BY <2>2, <2>3
<1> QED
  BY <1>2, <1>3

(* Where a name is cut, there is something on both sides (spec.go:975-982).*)
LEMMA CutIsInside ==
  ASSUME NEW name \in Seq(Words), Cuts(name) # {}
  PROVE  /\ Min(Cuts(name)) \in 2..(Len(name) - 1)
         /\ name[Min(Cuts(name))] = "on"
<1>1. Cuts(name) \in SUBSET Nat
  BY DEF Cuts
<1>2. Min(Cuts(name)) \in Cuts(name)
  BY <1>1, MinOfNaturals
<1> QED
  BY <1>2 DEF Cuts

(* The two sides of a cut.                                                 *)
LEMMA SidesOfACut ==
  ASSUME NEW name \in Seq(Words), NEW m \in 2..(Len(name) - 1)
  PROVE  /\ SubSeq(name, 1, m - 1) \in Seq(Words)
         /\ Len(SubSeq(name, 1, m - 1)) = m - 1
         /\ \A i \in 1..(m - 1) : SubSeq(name, 1, m - 1)[i] = name[i]
         /\ SubSeq(name, m + 1, Len(name)) \in Seq(Words)
         /\ Len(SubSeq(name, m + 1, Len(name))) = Len(name) - m
         /\ \A i \in 1..(Len(name) - m) :
              SubSeq(name, m + 1, Len(name))[i] = name[m + i]
<1>1. Len(name) \in Nat /\ \A i \in 1..Len(name) : name[i] \in Words
  OBVIOUS
<1>2. /\ SubSeq(name, 1, m - 1) \in Seq(Words)
      /\ Len(SubSeq(name, 1, m - 1)) = IF 1 <= m - 1 THEN m - 1 - 1 + 1 ELSE 0
      /\ \A i \in 1..(m - 1 - 1 + 1) :
           SubSeq(name, 1, m - 1)[i] = name[1 + i - 1]
  BY <1>1, SubSeqProperties
<1>3. /\ SubSeq(name, m + 1, Len(name)) \in Seq(Words)
      /\ Len(SubSeq(name, m + 1, Len(name))) =
           IF m + 1 <= Len(name) THEN Len(name) - (m + 1) + 1 ELSE 0
      /\ \A i \in 1..(Len(name) - (m + 1) + 1) :
           SubSeq(name, m + 1, Len(name))[i] = name[m + 1 + i - 1]
  BY <1>1, SubSeqProperties
<1>4. /\ m - 1 - 1 + 1 = m - 1 /\ 1 <= m - 1
      /\ Len(name) - (m + 1) + 1 = Len(name) - m /\ m + 1 <= Len(name)
  BY <1>1
<1>5. ASSUME NEW i \in 1..(m - 1)
      PROVE  SubSeq(name, 1, m - 1)[i] = name[i]
  <2>1. 1 + i - 1 = i
    BY <1>5
  <2> QED
    BY <1>2, <1>4, <1>5, <2>1
<1>6. ASSUME NEW i \in 1..(Len(name) - m)
      PROVE  SubSeq(name, m + 1, Len(name))[i] = name[m + i]
  <2>1. m + 1 + i - 1 = m + i
    BY <1>6
  <2> QED
    BY <1>3, <1>4, <1>6, <2>1
<1> QED
  BY <1>2, <1>3, <1>4, <1>5, <1>6

(* The words of a place: they are there, and are of the name or "api" and  *)
(* its like.                                                               *)
LEMMA PlacesAreThere ==
  ASSUME NEW name \in Seq(Words), name # <<>>,
         NEW part \in {Position(name).domain, Position(name).section,
                       Position(name).entry}
  PROVE  /\ part \in Seq(Words) /\ part # <<>>
         /\ None \notin Range(name) => part # <<None>>
<1>1. \A w \in Places : /\ <<w>> \in Seq(Words) /\ <<w>> # <<>>
                        /\ <<w>> # <<None>>
  <2> SUFFICES ASSUME NEW w \in Places
               PROVE  <<w>> \in Seq(Words) /\ <<w>> # <<>> /\ <<w>> # <<None>>
    OBVIOUS
  <2>1. w \in Words /\ w # None
    BY CatalogAssumption DEF Words
  <2>2. <<w>>[1] = w /\ <<None>>[1] = None
    OBVIOUS
  <2> QED
    BY <2>1, <2>2
<1>2. CASE Cuts(name) = {}
  <2>1. part \in {name, <<"operations">>, <<"api">>}
    BY <1>2 DEF Position
  <2>2. name # <<None>> \/ None \in Range(name)
    BY DEF Range
  <2> QED
    BY <1>1, <2>1, <2>2 DEF Places
<1>3. CASE Cuts(name) # {}
  <2> DEFINE m     == Min(Cuts(name))
             left  == SubSeq(name, 1, m - 1)
             right == SubSeq(name, m + 1, Len(name))
  <2>1. m \in 2..(Len(name) - 1) /\ Len(name) \in Nat
    BY <1>3, CutIsInside
  <2>2. /\ left \in Seq(Words) /\ Len(left) = m - 1 /\ left[1] = name[1]
        /\ right \in Seq(Words) /\ Len(right) = Len(name) - m
        /\ right[1] = name[m + 1]
    <3> HIDE DEF m
    <3>1. 1 \in 1..(m - 1) /\ 1 \in 1..(Len(name) - m)
      BY <2>1
    <3>2. /\ left \in Seq(Words) /\ Len(left) = m - 1
          /\ \A i \in 1..(m - 1) : left[i] = name[i]
          /\ right \in Seq(Words) /\ Len(right) = Len(name) - m
          /\ \A i \in 1..(Len(name) - m) : right[i] = name[m + i]
      BY <2>1, SidesOfACut
    <3> HIDE DEF left, right
    <3> QED
      BY <3>1, <3>2
  <2>3. part \in {left, <<"installations">>, right}
    BY <1>3 DEF Position
  <2> HIDE DEF m, left, right
  <2>4. left # <<>> /\ right # <<>>
    BY <2>1, <2>2
  <2>5. name[1] \in Range(name) /\ name[m + 1] \in Range(name)
    BY <2>1 DEF Range
  <2>6. <<None>>[1] = None
    OBVIOUS
  <2> QED
    BY <1>1, <2>2, <2>3, <2>4, <2>5, <2>6 DEF Places
<1> QED
  BY <1>2, <1>3

(* "" stands for the empty value, and for nothing else.                    *)
LEMMA ValuesTellApart ==
  ASSUME NEW p \in Seq(Words), NEW q \in Seq(Words), p # <<>>, q # <<>>
  PROVE  /\ Value(p) = None => p = <<None>>
         /\ Value(p) = Value(q) => p = q
<1>1. p # None /\ q # None
  BY CatalogAssumption
<1> QED
  BY <1>1 DEF Value

(* The place of an integration tells its name (spec.go:975-982).           *)
LEMMA PlacesTellNames ==
  ASSUME NEW a \in Seq(Words), NEW b \in Seq(Words), a # <<>>, b # <<>>,
         Position(a) = Position(b)
  PROVE  a = b
<1>1. <<"operations">> # <<"installations">>
  <2>1. <<"operations">>[1] = "operations"
        /\ <<"installations">>[1] = "installations"
    OBVIOUS
  <2> QED
    BY <2>1
<1>2. Cuts(a) = {} <=> Cuts(b) = {}
  <2>1. \A n : Position(n).section = IF Cuts(n) = {} THEN <<"operations">>
                                     ELSE <<"installations">>
    BY DEF Position
  <2> QED
    BY <1>1, <2>1
<1>3. CASE Cuts(a) = {}
  BY <1>2, <1>3 DEF Position
<1>4. CASE Cuts(a) # {}
  <2> DEFINE m == Min(Cuts(a))
             k == Min(Cuts(b))
  <2>1. /\ m \in 2..(Len(a) - 1) /\ a[m] = "on" /\ Len(a) \in Nat
        /\ k \in 2..(Len(b) - 1) /\ b[k] = "on" /\ Len(b) \in Nat
    BY <1>2, <1>4, CutIsInside
  <2>2. /\ SubSeq(a, 1, m - 1) = SubSeq(b, 1, k - 1)
        /\ SubSeq(a, m + 1, Len(a)) = SubSeq(b, k + 1, Len(b))
    BY <1>2, <1>4 DEF Position
  <2> HIDE DEF m, k
  <2>3. m - 1 = k - 1 /\ Len(a) - m = Len(b) - k
    BY <2>1, <2>2, SidesOfACut
  <2>4. m = k /\ Len(a) = Len(b)
    BY <2>1, <2>3
  <2>5. ASSUME NEW i \in 1..Len(a) PROVE a[i] = b[i]
    <3>1. CASE i < m
      <4>1. i \in 1..(m - 1)
        BY <2>1, <2>5, <3>1
      <4>2. a[i] = SubSeq(a, 1, m - 1)[i] /\ b[i] = SubSeq(b, 1, k - 1)[i]
        BY <2>1, <2>4, <4>1, SidesOfACut
      <4> QED
        BY <2>2, <4>2
    <3>2. CASE i = m
      BY <2>1, <2>4, <3>2
    <3>3. CASE i > m
      <4>1. i - m \in 1..(Len(a) - m) /\ m + (i - m) = i
        BY <2>1, <2>5, <3>3
      <4>2. /\ a[i] = SubSeq(a, m + 1, Len(a))[i - m]
            /\ b[i] = SubSeq(b, k + 1, Len(b))[i - m]
        BY <2>1, <2>4, <4>1, SidesOfACut
      <4> QED
        BY <2>2, <4>2
    <3> QED
      BY <2>1, <2>5, <3>1, <3>2, <3>3
  <2> QED
    BY <2>4, <2>5, SeqEqual
<1> QED
  BY <1>3, <1>4

(* Without "integration-", names that begin with it are as different.      *)
LEMMA TrimmedNames ==
  ASSUME NEW name \in Seq(Words), name # <<>>
  PROVE  /\ Trimmed(name) \in Seq(Words) /\ Trimmed(name) # <<>>
         /\ Range(Trimmed(name)) \subseteq Range(name)
<1>1. CASE Len(name) > 1 /\ Head(name) = "integration"
  <2>1. /\ Tail(name) \in Seq(Words) /\ Len(Tail(name)) = Len(name) - 1
        /\ \A i \in 1..Len(Tail(name)) : Tail(name)[i] = name[i + 1]
    BY HeadTailProperties
  <2>2. Tail(name) # <<>>
    <3>1. Len(Tail(name)) # 0
      BY <1>1, <2>1
    <3>2. Len(<<>>) = 0
      OBVIOUS
    <3> QED
      BY <3>1, <3>2
  <2>3. Range(Tail(name)) \subseteq Range(name)
    BY <2>1 DEF Range
  <2> QED
    BY <1>1, <2>1, <2>2, <2>3 DEF Trimmed
<1>2. CASE ~(Len(name) > 1 /\ Head(name) = "integration")
  BY <1>2 DEF Trimmed
<1> QED
  BY <1>1, <1>2

LEMMA TailsTellNames ==
  ASSUME NEW a \in Seq(Words), NEW b \in Seq(Words), Len(a) > 1, Len(b) > 1,
         Head(a) = Head(b), Tail(a) = Tail(b)
  PROVE  a = b
<1>1. /\ Len(Tail(a)) = Len(a) - 1 /\ Len(Tail(b)) = Len(b) - 1
      /\ \A i \in 1..Len(Tail(a)) : Tail(a)[i] = a[i + 1]
      /\ \A i \in 1..Len(Tail(b)) : Tail(b)[i] = b[i + 1]
  <2>1. a # <<>> /\ b # <<>>
    OBVIOUS
  <2> QED
    BY <2>1, HeadTailProperties
<1>2. Len(a) = Len(b)
  BY <1>1
<1>3. ASSUME NEW i \in 1..Len(a) PROVE a[i] = b[i]
  <2>1. CASE i = 1
    BY <2>1
  <2>2. CASE i > 1
    <3>1. i - 1 \in 1..Len(Tail(a)) /\ (i - 1) + 1 = i
      BY <1>1, <1>3, <2>2
    <3> QED
      BY <1>1, <3>1
  <2> QED
    BY <1>3, <2>1, <2>2
<1> QED
  BY <1>2, <1>3, SeqEqual
-----------------------------------------------------------------------------
(* Names are unique among the repositories there are, as GitHub has it.    *)
NamesAreUnique == \A r, s \in existing : r.name = s.name => r = s

(* The answer a page of repositories gets (spec.go:577-612).               *)
AnswerOf(input, page) ==
  [input |-> input,
   ok    |-> Cardinality(page) <= BodyLimit,
   items |-> IF Cardinality(page) <= BodyLimit
             THEN Filtered(page, input) ELSE {}]

(* The last answer is about a page of the repositories there still are, as *)
(* long as the limit of its input says, or as there are repositories.      *)
AnswerIsOfAPage ==
  answer = None \/
  \E input \in Inputs, page \in SUBSET existing :
    /\ Cardinality(page) = Min({Limit(input), Cardinality(existing)})
    /\ answer = AnswerOf(input, page)

(* What every step keeps.                                                  *)
CatalogInv ==
  /\ existing \subseteq Repositories
  /\ IsFiniteSet(existing)
  /\ NamesAreUnique
  /\ AnswerIsOfAPage

LEMMA DiscoverKeepsCatalogInv ==
  ASSUME CatalogInv, Discover
  PROVE  CatalogInv'
<1>1. PICK input \in Inputs :
        \E page \in kSubset(Min({Limit(input), Cardinality(existing)}),
                             existing) :
          /\ answer' = AnswerOf(input, page)
          /\ UNCHANGED existing
  BY DEF Discover, AnswerOf
<1>2. PICK page \in kSubset(Min({Limit(input), Cardinality(existing)}),
                            existing) :
        /\ answer' = AnswerOf(input, page)
        /\ UNCHANGED existing
  BY <1>1
<1>3. /\ page \in SUBSET existing
      /\ Cardinality(page) = Min({Limit(input), Cardinality(existing)})
  BY <1>2 DEF kSubset
<1>4. AnswerIsOfAPage'
  <2>1. /\ page \in SUBSET existing'
        /\ Cardinality(page) = Min({Limit(input), Cardinality(existing')})
        /\ answer' = AnswerOf(input, page)
    BY <1>2, <1>3
  <2> QED
    BY <2>1 DEF AnswerIsOfAPage, AnswerOf
<1> QED
  BY <1>2, <1>4 DEF CatalogInv, NamesAreUnique

LEMMA ChangeKeepsCatalogInv ==
  ASSUME CatalogInv, NEW r \in Repositories, Change(r)
  PROVE  CatalogInv'
<1> DEFINE others == {x \in existing : x.name # r.name}
<1>1. IsFiniteSet(others) /\ others \subseteq existing
  BY FS_Subset DEF CatalogInv
<1>2. existing' = IF r \in existing THEN existing \ {r} ELSE others \cup {r}
  BY DEF Change
<1>3. IsFiniteSet(existing')
  <2>1. IsFiniteSet(existing \ {r})
    BY FS_RemoveElement DEF CatalogInv
  <2>2. IsFiniteSet(others \cup {r})
    BY <1>1, FS_AddElement
  <2> QED
    BY <1>2, <2>1, <2>2
<1>4. NamesAreUnique'
  <2>1. ASSUME NEW x \in existing', NEW y \in existing', x.name = y.name
        PROVE  x = y
    BY <1>2, <2>1 DEF CatalogInv, NamesAreUnique
  <2> QED
    BY <2>1 DEF NamesAreUnique
<1>5. existing' \subseteq Repositories
  BY <1>1, <1>2 DEF CatalogInv
<1>6. AnswerIsOfAPage'
  BY DEF Change, AnswerIsOfAPage
<1> QED
  BY <1>3, <1>4, <1>5, <1>6 DEF CatalogInv

(* Names stay unique, and the answer at hand is always about a page of the *)
(* repositories there are (spec.go:552-612).                               *)
THEOREM CatalogInvHolds == Spec => []CatalogInv
<1>1. Init => CatalogInv
  BY FS_EmptySet DEF Init, CatalogInv, NamesAreUnique, AnswerIsOfAPage
<1>2. CatalogInv /\ [Next]_vars => CatalogInv'
  <2> SUFFICES ASSUME CatalogInv, [Next]_vars PROVE CatalogInv'
    OBVIOUS
  <2>1. CASE Discover
    BY <2>1, DiscoverKeepsCatalogInv
  <2>2. CASE \E r \in Repositories : Change(r)
    BY <2>2, ChangeKeepsCatalogInv
  <2>3. CASE UNCHANGED vars
    BY <2>3
    DEF vars, CatalogInv, NamesAreUnique, AnswerIsOfAPage, AnswerOf
  <2> QED
    BY <2>1, <2>2, <2>3 DEF Next
<1> QED
  BY <1>1, <1>2, PTL DEF Spec
-----------------------------------------------------------------------------
(* The repositories behind an answer that is there.                        *)
LEMMA AnsweredFromAPage ==
  ASSUME CatalogInv, Answered
  PROVE  \E page \in SUBSET existing :
           /\ answer.input \in Inputs
           /\ Cardinality(page) =
                Min({Limit(answer.input), Cardinality(existing)})
           /\ answer.items = Filtered(page, answer.input)
<1>1. PICK input \in Inputs, page \in SUBSET existing :
        /\ Cardinality(page) = Min({Limit(input), Cardinality(existing)})
        /\ answer = AnswerOf(input, page)
  BY DEF CatalogInv, AnswerIsOfAPage, Answered
<1>2. /\ answer.input = input
      /\ answer.ok = (Cardinality(page) <= BodyLimit)
      /\ answer.items = IF Cardinality(page) <= BodyLimit
                        THEN Filtered(page, input) ELSE {}
  BY <1>1 DEF AnswerOf
<1>3. answer.items = Filtered(page, input)
  BY <1>2 DEF Answered
<1> QED
  BY <1>1, <1>2, <1>3

(* An item says which repository it is about.                              *)
LEMMA ItemsTellRepositories ==
  ASSUME CatalogInv, Answered, NEW item \in answer.items
  PROVE  \E r \in existing :
           /\ IsEntry(r) /\ item = CatalogItem(r)
           /\ item.repository = r.name /\ item.kind = Kind(r)
           /\ r.name \in Seq(Words) /\ r.name # <<>>
           /\ \A s \in existing : item.repository = s.name => s = r
<1>1. PICK page \in SUBSET existing :
        answer.items = Filtered(page, answer.input)
  BY AnsweredFromAPage
<1>2. PICK r \in page : IsEntry(r) /\ item = CatalogItem(r)
  BY <1>1 DEF Filtered
<1>3. item.repository = r.name /\ item.kind = Kind(r)
  BY <1>2 DEF CatalogItem
<1>4. r.name \in Seq(Words) /\ r.name # <<>>
  BY CatalogAssumption DEF CatalogInv
<1> QED
  BY <1>2, <1>3, <1>4 DEF CatalogInv, NamesAreUnique

(* What is answered are entries of the catalog, about repositories there   *)
(* are (spec.go:577-603).                                                  *)
THEOREM TypeCorrect == Spec => []TypeOK
<1>1. CatalogInv => TypeOK
  <2> SUFFICES ASSUME CatalogInv PROVE TypeOK
    OBVIOUS
  <2>1. ASSUME Answered, NEW item \in answer.items PROVE item.kind \in Kinds
    BY <2>1, ItemsTellRepositories DEF IsEntry
  <2> QED
    BY <2>1 DEF TypeOK, CatalogInv
<1> QED
  BY <1>1, CatalogInvHolds, PTL
-----------------------------------------------------------------------------
(* Where an integration is placed (spec.go:911-944).                       *)
LEMMA PlaceOfAnIntegration ==
  ASSUME NEW r, Kind(r) = "integration"
  PROVE  LET derived == Position(Trimmed(r.name)) IN
         /\ CatalogItem(r).name = Trimmed(r.name)
         /\ CatalogItem(r).domain  = r.domain ?? Value(derived.domain)
         /\ CatalogItem(r).section = r.section ?? Value(derived.section)
         /\ CatalogItem(r).entry   = r.entry ?? Value(derived.entry)
BY DEF CatalogItem, CatalogName

(* Every integration of an answer has a place, in full, if its name has    *)
(* all its parts: the custom properties give it, or the name does          *)
(* (spec.go:911-982).                                                      *)
THEOREM AllArePlaced == Spec => []IntegrationsArePlaced
<1>1. ASSUME CatalogInv, Answered, NEW item \in answer.items,
             item.kind = "integration", None \notin Range(item.repository)
      PROVE  None \notin {item.domain, item.section, item.entry}
  <2>1. PICK r \in existing :
          /\ IsEntry(r) /\ item = CatalogItem(r)
          /\ item.repository = r.name /\ item.kind = Kind(r)
          /\ r.name \in Seq(Words) /\ r.name # <<>>
    BY <1>1, ItemsTellRepositories
  <2> DEFINE name    == Trimmed(r.name)
             derived == Position(name)
  <2>2. name \in Seq(Words) /\ name # <<>> /\ None \notin Range(name)
    BY <1>1, <2>1, TrimmedNames
  <2>3. ASSUME NEW part \in {derived.domain, derived.section, derived.entry}
        PROVE  Value(part) # None
    <3> HIDE DEF name
    <3>1. part \in Seq(Words) /\ part # <<>> /\ part # <<None>>
      BY <2>2, <2>3, PlacesAreThere
    <3> QED
      BY <3>1, ValuesTellApart
  <2>4. /\ item.domain  = r.domain ?? Value(derived.domain)
        /\ item.section = r.section ?? Value(derived.section)
        /\ item.entry   = r.entry ?? Value(derived.entry)
    BY <1>1, <2>1, PlaceOfAnIntegration
  <2> HIDE DEF derived
  <2> QED
    BY <2>3, <2>4 DEF ??
<1>2. CatalogInv => IntegrationsArePlaced
  BY <1>1 DEF IntegrationsArePlaced
<1> QED
  BY <1>2, CatalogInvHolds, PTL

(* A place is its three parts.                                             *)
LEMMA PlaceIsItsParts ==
  ASSUME NEW a, NEW b, Position(a).domain = Position(b).domain,
         Position(a).section = Position(b).section,
         Position(a).entry = Position(b).entry
  PROVE  Position(a) = Position(b)
<1>1. \A n : Position(n) = [domain  |-> Position(n).domain,
                           section |-> Position(n).section,
                           entry   |-> Position(n).entry]
  BY DEF Position
<1> QED
  BY <1>1

(* Two integrations that are named by the convention and set no place of   *)
(* their own have another name and another place: no part of one name that *)
(* is cut away or cut apart makes it the other one (spec.go:911-982).      *)
THEOREM NamesKeepApart == Spec => []ConventionKeepsApart
<1>1. ASSUME CatalogInv, Answered, NEW r \in existing, NEW s \in existing,
             ByConvention(r), ByConvention(s), r # s,
             NEW i \in ItemsOf(r), NEW j \in ItemsOf(s)
      PROVE  /\ i.name # j.name
             /\ <<i.domain, i.section, i.entry>>
                  # <<j.domain, j.section, j.entry>>
  <2>1. i \in answer.items /\ j \in answer.items
        /\ i.repository = r.name /\ j.repository = s.name
    BY DEF ItemsOf
  <2>2. /\ i = CatalogItem(r) /\ r.name \in Seq(Words) /\ r.name # <<>>
        /\ j = CatalogItem(s) /\ s.name \in Seq(Words) /\ s.name # <<>>
    BY <1>1, <2>1, ItemsTellRepositories
  <2>3. r.name # s.name
    BY <1>1 DEF CatalogInv, NamesAreUnique
  <2> DEFINE a == Trimmed(r.name)
             b == Trimmed(s.name)
  <2>4. /\ a \in Seq(Words) /\ a # <<>>
        /\ b \in Seq(Words) /\ b # <<>>
    BY <2>2, TrimmedNames
  <2>5. a # b
    <3>1. /\ a = Tail(r.name) /\ Len(r.name) > 1 /\ Head(r.name) = "integration"
          /\ b = Tail(s.name) /\ Len(s.name) > 1 /\ Head(s.name) = "integration"
      BY <1>1 DEF ByConvention, Trimmed
    <3> QED
      BY <2>2, <2>3, <3>1, TailsTellNames
  <2>6. /\ i.name = a
        /\ i.domain  = Value(Position(a).domain)
        /\ i.section = Value(Position(a).section)
        /\ i.entry   = Value(Position(a).entry)
    <3>1. r.domain = None /\ r.section = None /\ r.entry = None
      BY <1>1 DEF ByConvention
    <3> QED
      BY <1>1, <2>2, <3>1, PlaceOfAnIntegration DEF ByConvention, ??
  <2>7. /\ j.name = b
        /\ j.domain  = Value(Position(b).domain)
        /\ j.section = Value(Position(b).section)
        /\ j.entry   = Value(Position(b).entry)
    <3>1. s.domain = None /\ s.section = None /\ s.entry = None
      BY <1>1 DEF ByConvention
    <3> QED
      BY <1>1, <2>2, <3>1, PlaceOfAnIntegration DEF ByConvention, ??
  <2> HIDE DEF a, b
  <2>8. ASSUME i.domain = j.domain, i.section = j.section, i.entry = j.entry
        PROVE  FALSE
    <3>1. \A part \in {Position(a).domain, Position(a).section,
                       Position(a).entry} : part \in Seq(Words) /\ part # <<>>
      BY <2>4, PlacesAreThere
    <3>2. \A part \in {Position(b).domain, Position(b).section,
                       Position(b).entry} : part \in Seq(Words) /\ part # <<>>
      BY <2>4, PlacesAreThere
    <3>3. /\ Position(a).domain = Position(b).domain
          /\ Position(a).section = Position(b).section
          /\ Position(a).entry = Position(b).entry
      <4>1. \A p, q \in Seq(Words) :
              p # <<>> /\ q # <<>> /\ Value(p) = Value(q) => p = q
        BY ValuesTellApart
      <4>2. /\ Value(Position(a).domain) = Value(Position(b).domain)
            /\ Value(Position(a).section) = Value(Position(b).section)
            /\ Value(Position(a).entry) = Value(Position(b).entry)
        BY <2>6, <2>7, <2>8
      <4> QED
        BY <3>1, <3>2, <4>1, <4>2
    <3>4. Position(a) = Position(b)
      BY <3>3, PlaceIsItsParts
    <3> QED
      BY <2>4, <2>5, <3>4, PlacesTellNames
  <2> QED
    BY <2>5, <2>6, <2>7, <2>8
<1>2. CatalogInv => ConventionKeepsApart
  BY <1>1 DEF ConventionKeepsApart
<1> QED
  BY <1>2, CatalogInvHolds, PTL
-----------------------------------------------------------------------------
(* What the input says is the limit, an integer or none.                   *)
LEMMA LimitAskedFor ==
  ASSUME NEW input
  PROVE  FirstInt(input, <<"limit">>, DefaultLimit) =
           IF "limit" \in DOMAIN input /\ input.limit \in Int
           THEN input.limit ELSE DefaultLimit
<1> DEFINE keys  == <<"limit">>
           given == {i \in DOMAIN keys : /\ keys[i] \in DOMAIN input
                                         /\ input[keys[i]] \in Int}
<1>1. DOMAIN keys = {1} /\ keys[1] = "limit"
  OBVIOUS
<1>2. FirstInt(input, keys, DefaultLimit) =
        IF given = {} THEN DefaultLimit ELSE input[keys[Min(given)]]
  BY DEF FirstInt
<1>3. Min({1}) = 1
  BY MinOfTwo
<1> HIDE DEF keys
<1>4. CASE "limit" \in DOMAIN input /\ input.limit \in Int
  <2>1. given = {1}
    BY <1>1, <1>4
  <2> QED
    BY <1>1, <1>2, <1>3, <1>4, <2>1 DEF keys
<1>5. CASE ~("limit" \in DOMAIN input /\ input.limit \in Int)
  <2>1. given = {}
    BY <1>1, <1>5
  <2> QED
    BY <1>2, <1>5, <2>1 DEF keys
<1> QED
  BY <1>4, <1>5

(* An owner who has no more repositories than the limit is read in full.   *)
LEMMA ReadInFull ==
  ASSUME CatalogInv, Answered, InFull
  PROVE  answer.items = Filtered(existing, answer.input)
<1> DEFINE input == answer.input
           n     == Cardinality(existing)
           asked == FirstInt(input, <<"limit">>, DefaultLimit)
           given == IF "limit" \in DOMAIN input THEN input.limit ELSE 0
<1>1. PICK page \in SUBSET existing :
        /\ Cardinality(page) = Min({Limit(input), n})
        /\ answer.items = Filtered(page, input)
  BY AnsweredFromAPage
<1>2. n \in Nat /\ IsFiniteSet(existing)
  BY FS_CardinalityType DEF CatalogInv
<1>3. /\ given \in 1..MaxLimit => n <= given
      /\ given \notin 1..MaxLimit => n <= DefaultLimit
  BY DEF InFull
<1>4. asked = IF "limit" \in DOMAIN input /\ input.limit \in Int
              THEN input.limit ELSE DefaultLimit
  BY LimitAskedFor
<1>5. Limit(input) = Min({IF asked <= 0 THEN DefaultLimit ELSE asked, MaxLimit})
  BY DEF Limit
<1> HIDE DEF input, n, asked
<1>6. /\ DefaultLimit \in Nat \ {0} /\ MaxLimit \in Nat
      /\ DefaultLimit <= MaxLimit
  BY CatalogAssumption
<1>7. asked \in Int
  BY <1>4, <1>6
<1>8. Limit(input) \in Int /\ n <= Limit(input)
  <2> DEFINE l == IF asked <= 0 THEN DefaultLimit ELSE asked
  <2>1. l \in Int /\ l > 0
    BY <1>6, <1>7
  <2>2. Limit(input) = IF l <= MaxLimit THEN l ELSE MaxLimit
    BY <1>5, <1>6, <2>1, MinOfTwo
  <2>3. given \in 1..MaxLimit => l = given
    BY <1>4, <1>6
  <2>4. given \notin 1..MaxLimit => l = DefaultLimit \/ l > MaxLimit
    BY <1>4, <1>6, <1>7
  <2> HIDE DEF l, given
  <2>5. CASE given \in 1..MaxLimit
    BY <1>2, <1>3, <1>6, <2>1, <2>2, <2>3, <2>5
  <2>6. CASE given \notin 1..MaxLimit
    BY <1>2, <1>3, <1>6, <2>1, <2>2, <2>4, <2>6
  <2> QED
    BY <2>5, <2>6
<1>9. Min({Limit(input), n}) = n
  <2>1. Min({Limit(input), n}) = IF Limit(input) <= n THEN Limit(input) ELSE n
    BY <1>2, <1>8, MinOfTwo
  <2> QED
    BY <1>2, <1>8, <2>1
<1>10. page = existing
  BY <1>1, <1>2, <1>9, FS_Subset DEF n
<1> QED
  BY <1>1, <1>10 DEF input

(* Without "kinds" every kind passes, and a repository's own words find it.*)
LEMMA UnfilteredItems ==
  ASSUME NEW r \in Repositories, NEW input, "kinds" \notin DOMAIN input,
         LET query == FirstString(input, <<"query">>)
         IN  query = None \/ query \in Range(r.name)
  PROVE  /\ KindPasses(CatalogItem(r), input)
         /\ MatchesQuery(CatalogItem(r), input)
<1> DEFINE item   == CatalogItem(r)
           query  == FirstString(input, <<"query">>)
           fields == {item.name, item.display, item.description, item.domain,
                      item.section, item.entry, item.repository} \ {None}
<1>1. KindPasses(item, input)
  BY DEF KindPasses, KindsAskedFor
<1>2. item.repository = r.name
  BY DEF CatalogItem
<1> HIDE DEF item
<1>3. r.name \in fields
  <2>1. r.name # None
    BY CatalogAssumption
  <2> QED
    BY <1>2, <2>1
<1>4. query # None => \E f \in fields : query \in Range(f)
  BY <1>3
<1>5. MatchesQuery(item, input)
  BY <1>4 DEF MatchesQuery
<1> QED
  BY <1>1, <1>5 DEF item

(* When the owner has no more repositories than the limit, an answer that  *)
(* is "ok" and was not filtered by kinds holds one item for every marked   *)
(* repository that the query does not leave out, and none for others       *)
(* (spec.go:552-612).                                                      *)
THEOREM FullAnswersMissNothing == Spec => []NothingIsMissed
<1>1. ASSUME CatalogInv, Answered, InFull, NEW r \in existing
      PROVE  LET query == FirstString(answer.input, <<"query">>) IN
             /\ (/\ Marked(r) /\ "kinds" \notin DOMAIN answer.input
                 /\ query = None \/ query \in Range(r.name))
                  => Cardinality(ItemsOf(r)) = 1
             /\ ~Marked(r) => Cardinality(ItemsOf(r)) = 0
  <2> DEFINE query == FirstString(answer.input, <<"query">>)
  <2>1. answer.items = Filtered(existing, answer.input)
    BY <1>1, ReadInFull
  <2>2. \A item \in ItemsOf(r) : item = CatalogItem(r) /\ IsEntry(r)
    <3> SUFFICES ASSUME NEW item \in ItemsOf(r)
                 PROVE  item = CatalogItem(r) /\ IsEntry(r)
      OBVIOUS
    <3>1. item \in answer.items /\ item.repository = r.name
      BY DEF ItemsOf
    <3> QED
      BY <1>1, <3>1, ItemsTellRepositories
  <2>3. CASE /\ Marked(r) /\ "kinds" \notin DOMAIN answer.input
             /\ query = None \/ query \in Range(r.name)
    <3>1. r \in Repositories
      BY <1>1 DEF CatalogInv
    <3>2. /\ KindPasses(CatalogItem(r), answer.input)
          /\ MatchesQuery(CatalogItem(r), answer.input)
      BY <2>3, <3>1, UnfilteredItems
    <3>3. IsEntry(r)
      BY <2>3, EntryIsMarked
    <3>4. CatalogItem(r) \in answer.items
      BY <2>1, <3>2, <3>3 DEF Filtered
    <3>5. CatalogItem(r).repository = r.name
      BY DEF CatalogItem
    <3>6. ItemsOf(r) = {CatalogItem(r)}
      BY <2>2, <3>4, <3>5 DEF ItemsOf
    <3>7. Cardinality(ItemsOf(r)) = 1
      BY <3>6, FS_Singleton
    <3> QED
      BY <2>3, <3>7
  <2>4. CASE ~Marked(r)
    <3>1. ItemsOf(r) = {}
      BY <2>2, <2>4, EntryIsMarked
    <3> QED
      BY <2>4, <3>1, FS_EmptySet
  <2> QED
    BY <2>3, <2>4
<1>2. CatalogInv => NothingIsMissed
  BY <1>1 DEF NothingIsMissed
<1> QED
  BY <1>2, CatalogInvHolds, PTL
=============================================================================
