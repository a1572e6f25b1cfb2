------------------------------ MODULE MCCatalog ------------------------------
(* Instances of Catalog for TLC.                                           *)
EXTENDS Catalog

Repository(name, topics) ==
  [name |-> name, topics |-> topics, description |-> None, kind |-> None,
   display |-> None, domain |-> None, section |-> None, entry |-> None,
   namespace |-> None]

Plugin(name)  == Repository(name, {"yggdrasil-integration"})
Surface(name) == Repository(name, {"yggdrasil-surface"})

(* Names by the convention, with "-on-" once, twice and at an end, and     *)
(* with an empty part; the same name marked differently and not at all;    *)
(* the same name with and without "integration-"; custom properties that   *)
(* agree with the topics, override them, and are no kind at all.           *)
MCRepositories ==
  {Plugin(<<"integration", "a">>),
   Surface(<<"integration", "a">>),
   Repository(<<"integration", "a">>, {"go"}),
   Plugin(<<"a">>),
   Surface(<<"a">>),
   Plugin(<<"integration", "a", "on", "api">>),
   Plugin(<<"integration", "a", "on", "b", "on", "api">>),
   Plugin(<<"integration", "on", "b">>),
   Plugin(<<"integration", None>>),
   [Plugin(<<"integration", "b">>) EXCEPT
      !.kind = "integration", !.domain = <<"a">>, !.display = <<"api">>],
   [Plugin(<<"b">>) EXCEPT
      !.kind = "surface", !.namespace = <<"b">>, !.description = <<"a">>],
   [Plugin(<<"b">>) EXCEPT !.kind = "widget"]}

MCInputs ==
  {[x \in {} |-> None],
   [limit |-> 2], [limit |-> 4], [limit |-> 0], [limit |-> 9],
   [limit |-> NotAList],
   [kinds |-> {"surface", "widget"}], [kinds |-> {"widget"}],
   [kinds |-> NotAList],
   [query |-> "a"], [query |-> "integration"], [query |-> "host"],
   [query |-> "b", kinds |-> Kinds]}
=============================================================================
