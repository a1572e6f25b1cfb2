------------------------------- MODULE Resolve -------------------------------
(***************************************************************************)
(* How the adapter resolves a setting from the maps a request carries:     *)
(* the input of the step, the auth block of the caller, and the config and *)
(* credentials of the stored integration instance.                        *)
(*                                                                         *)
(* A JSON object is a function from its keys to values.  None stands for   *)
(* the empty string, which the adapter treats as "not given"; a value that *)
(* trims to nothing or prints as <nil> is None as well.  A repository is a *)
(* record: [owner |-> o, name |-> n] for "o/n", and owner None for a bare  *)
(* name.                                                                   *)
(***************************************************************************)
EXTENDS Integers, Sequences, FiniteSetsExt

CONSTANT None

(* The value of the first key that is present and not blank.               *)
FirstString(source, keys) ==
  LET given == {i \in DOMAIN keys : /\ keys[i] \in DOMAIN source
                                    /\ source[keys[i]] # None}
  IN  IF given = {} THEN None ELSE source[keys[Min(given)]]

(* The first of the values that is an integer, or a string that begins     *)
(* with one; any other value is skipped like a missing one.                *)
FirstInt(source, keys, fallback) ==
  LET given == {i \in DOMAIN keys : /\ keys[i] \in DOMAIN source
                                    /\ source[keys[i]] \in Int}
  IN  IF given = {} THEN fallback ELSE source[keys[Min(given)]]

(* The "if value == "" { value = fallback }" every operation is made of.   *)
a ?? b == IF a = None THEN b ELSE a

NormalizeRepository(given, default, owner) ==
  LET candidate == given ?? default
  IN  IF candidate # None /\ candidate.owner = None /\ owner # None
      THEN [candidate EXCEPT !.owner = owner]
      ELSE candidate

(* The second attempt, the only one that looks at default_owner, is made   *)
(* when the first produced nothing at all.                                 *)
ResolveRepository(given, owner, config) ==
  LET default == FirstString(config, <<"default_repository">>)
      first   == NormalizeRepository(given, default, owner)
  IN  IF first # None
      THEN first
      ELSE NormalizeRepository(first, default,
                               FirstString(config, <<"default_owner">>))

(* The token of the caller, else that of the instance.                     *)
ResolveToken(auth, credentials) ==
  FirstString(auth, <<"token", "github_token">>)
    ?? FirstString(credentials, <<"token", "github_token">>)
=============================================================================
