------------------------------- MODULE Catalog -------------------------------
(***************************************************************************)
(* catalog_discover (internal/adapter/spec.go): one page of the            *)
(* repositories of an owner is projected to catalog items and filtered.    *)
(* People create, delete and relabel repositories between the discoveries. *)
(*                                                                         *)
(* A repository is a record: name, split at its hyphens (<<"integration",  *)
(* "a">> is "integration-a", and an empty part is None); description;      *)
(* topics, a set; and the custom properties kind, display, domain, section,*)
(* entry and namespace.  A value is a sequence of words, None if it is not *)
(* set or blank; a kind is one word.  Words are in lower case, and a query *)
(* is one of them: the code looks for it in any letters, as part of a text.*)
(***************************************************************************)
EXTENDS Resolve, FiniteSets

CONSTANTS
  Repositories,  \* the repositories there may be
  Inputs,        \* the inputs of a request: limit, kinds, query, or fewer
  NotAList,      \* "kinds" that is no list
  DefaultLimit,  \* 50
  MaxLimit,      \* 100
  SiteWords,     \* the words the URL of every repository begins with
  BodyLimit,     \* repositories that fit into the 1 MiB read of an answer
  MaxExisting    \* bound: repositories that exist at a time

VARIABLES
  existing,  \* the repositories of the owner
  answer     \* the last answer about them, with its input

vars == <<existing, answer>>

Kinds == {"integration", "surface"}

(* The parts of a place that do not come from a name, and all the words    *)
(* there are in names and places.                                          *)
Places == {"operations", "installations", "api"}
Words  == Places \cup UNION {Range(r.name) : r \in Repositories}

ASSUME CatalogAssumption ==
  /\ DefaultLimit \in Nat \ {0}
  /\ MaxLimit \in Nat
  /\ DefaultLimit <= MaxLimit
  /\ BodyLimit \in Nat
  /\ MaxExisting \in Nat
  /\ None \notin Kinds \cup Places /\ None \notin Seq(Words)
  /\ \A r \in Repositories : r.name \in Seq(Words) \ {<<>>}
-----------------------------------------------------------------------------
(* The custom property decides, even with a kind nobody knows.             *)
Kind(r) ==
  r.kind ?? CASE "yggdrasil-integration" \in r.topics -> "integration"
              [] "yggdrasil-surface" \in r.topics     -> "surface"
              [] OTHER                                -> None

(* Mutant: any kind makes an entry.                                        *)
IsEntry_Any(r) == Kind(r) # None

IsEntry(r) == Kind(r) \in Kinds

Value(parts) == IF parts \in {<<>>, <<None>>} THEN None ELSE parts

(* The name without "integration-".                                        *)
Trimmed(name) ==
  IF Len(name) > 1 /\ Head(name) = "integration" THEN Tail(name) ELSE name

CatalogName(r) ==
  IF Kind(r) = "integration" THEN Trimmed(r.name) ELSE r.name

(* Mutant: "on" at either end of the name counts as well.                  *)
Cuts_Ends(name) == {i \in 1..Len(name) : name[i] = "on"}

(* Where the name holds "-on-".                                            *)
Cuts(name) == {i \in 2..(Len(name) - 1) : name[i] = "on"}

(* Mutant: installations are put under operations as well.                 *)
Position_OneSection(name) ==
  IF Cuts(name) = {}
  THEN [domain |-> name, section |-> <<"operations">>, entry |-> <<"api">>]
  ELSE [domain  |-> SubSeq(name, 1, Min(Cuts(name)) - 1),
        section |-> <<"operations">>,
        entry   |-> SubSeq(name, Min(Cuts(name)) + 1, Len(name))]

(* "a-on-b" is the installation b of a, at the first "-on-"; anything else *)
(* is the api among the operations of a.                                   *)
Position(name) ==
  IF Cuts(name) = {}
  THEN [domain |-> name, section |-> <<"operations">>, entry |-> <<"api">>]
  ELSE [domain  |-> SubSeq(name, 1, Min(Cuts(name)) - 1),
        section |-> <<"installations">>,
        entry   |-> SubSeq(name, Min(Cuts(name)) + 1, Len(name))]

(* The words of the trimmed name; their letters are of no matter here.     *)
DisplayName(r) == SelectSeq(Trimmed(r.name), LAMBDA w : w # None)

(* The projection; "repository" is the URL, and names r.                   *)
CatalogItem(r) ==
  LET integration == Kind(r) = "integration"
      derived     == Position(Trimmed(r.name))
      Placed(property, fallback) ==
        IF integration THEN property ?? Value(fallback) ELSE None
  IN  [kind       |-> Kind(r),
       name       |-> CatalogName(r),
       display    |-> r.display ?? DisplayName(r),
       description |-> r.description,
       repository |-> r.name,
       domain     |-> Placed(r.domain, derived.domain),
       section    |-> Placed(r.section, derived.section),
       entry      |-> Placed(r.entry, derived.entry),
       namespace  |-> IF integration THEN None ELSE r.namespace ?? <<"global">>]
-----------------------------------------------------------------------------
Limit(input) ==
  LET limit == FirstInt(input, <<"limit">>, DefaultLimit)
  IN  Min({IF limit <= 0 THEN DefaultLimit ELSE limit, MaxLimit})

(* Unknown kinds are dropped; when none is left, there is no filter.       *)
KindsAskedFor(input) ==
  IF "kinds" \notin DOMAIN input \/ input.kinds = NotAList
  THEN {} ELSE input.kinds \cap Kinds

KindPasses(item, input) ==
  KindsAskedFor(input) # {} => item.kind \in KindsAskedFor(input)

(* One word, anywhere in the fields of the item.                           *)
MatchesQuery(item, input) ==
  LET query == FirstString(input, <<"query">>)
      fields == {item.name, item.display, item.description, item.domain,
                 item.section, item.entry, item.repository} \ {None}
  IN  query # None => \/ query = item.kind
                      \/ query \in SiteWords
                      \/ \E f \in fields : query \in Range(f)

Filtered(page, input) ==
  {item \in {CatalogItem(r) : r \in {r \in page : IsEntry(r)}} :
     KindPasses(item, input) /\ MatchesQuery(item, input)}

(* Mutant: an answer that is cut off gives the repositories read so far.   *)
Discover_Partial ==
  \E input \in Inputs :
    \E page \in kSubset(Min({Limit(input), Cardinality(existing), BodyLimit}),
                        existing) :
      /\ answer' = [input |-> input, ok |-> TRUE,
                    items |-> Filtered(page, input)]
      /\ UNCHANGED existing

(* One request: the first page of as many repositories as the limit says.  *)
(* A page that is cut off at 1 MiB does not decode.                        *)
Discover ==
  \E input \in Inputs :
    \E page \in kSubset(Min({Limit(input), Cardinality(existing)}), existing) :
      /\ answer' = [input |-> input,
                    ok    |-> Cardinality(page) <= BodyLimit,
                    items |-> IF Cardinality(page) <= BodyLimit
                              THEN Filtered(page, input) ELSE {}]
      /\ UNCHANGED existing

(* Somebody creates, deletes or relabels a repository; names are unique.   *)
(* The last answer is about what there was, and of no interest any more.   *)
Change(r) ==
  /\ existing' = IF r \in existing THEN existing \ {r}
                 ELSE {x \in existing : x.name # r.name} \cup {r}
  /\ Cardinality(existing') <= MaxExisting
  /\ answer' = None

Init == existing = {} /\ answer = None

Next == Discover \/ \E r \in Repositories : Change(r)

Spec == Init /\ [][Next]_vars
-----------------------------------------------------------------------------
Answered == answer # None /\ answer.ok

TypeOK ==
  /\ existing \in SUBSET Repositories
  /\ Answered => \A item \in answer.items : item.kind \in Kinds

(* The only repository an item can be about.                               *)
ItemsOf(r) == {item \in answer.items : item.repository = r.name}

(* Marked the way the catalog expects it: a valid property, or a topic and *)
(* no property.                                                            *)
Marked(r) ==
  \/ r.kind \in Kinds
  \/ /\ r.kind = None
     /\ {"yggdrasil-integration", "yggdrasil-surface"} \cap r.topics # {}

(* The limit is that of the request if it is positive, and never above the *)
(* maximum; an owner who has no more is answered in full.                  *)
InFull ==
  LET limit == IF "limit" \in DOMAIN answer.input THEN answer.input.limit ELSE 0
  IN  /\ limit \in 1..MaxLimit => Cardinality(existing) <= limit
      /\ limit \notin 1..MaxLimit => Cardinality(existing) <= DefaultLimit

(* Nothing is missed without a sign: when the owner has no more            *)
(* repositories than the limit, an "ok" answer without filters holds one   *)
(* item for every marked repository, and none for others, and a query for  *)
(* any word of a repository's own name still finds it.                     *)
NothingIsMissed ==
  Answered /\ InFull =>
    \A r \in existing :
      LET found == Cardinality(ItemsOf(r))
          query == FirstString(answer.input, <<"query">>)
      IN  /\ Marked(r) /\ "kinds" \notin DOMAIN answer.input
                       /\ (query = None \/ query \in Range(r.name)) => found = 1
          /\ ~Marked(r) => found = 0

(* Every integration has a place in the catalog: whatever is missing in    *)
(* its custom properties follows from its name, if all parts of the name   *)
(* are there.                                                              *)
IntegrationsArePlaced ==
  Answered => \A item \in answer.items :
    /\ item.kind = "integration"
    /\ None \notin Range(item.repository)
    => None \notin {item.domain, item.section, item.entry}

ByConvention(r) == /\ Kind(r) = "integration"
                   /\ Len(r.name) > 1 /\ Head(r.name) = "integration"
                   /\ {r.domain, r.section, r.entry} = {None}

(* Two integrations that follow the naming convention and set no place of  *)
(* their own never share a name or a place, although the place cuts the    *)
(* name apart.                                                             *)
ConventionKeepsApart ==
  Answered => \A r, s \in {r \in existing : ByConvention(r)} :
    r # s => \A i \in ItemsOf(r), j \in ItemsOf(s) :
      /\ i.name # j.name
      /\ <<i.domain, i.section, i.entry>> # <<j.domain, j.section, j.entry>>
=============================================================================
