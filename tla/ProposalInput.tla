---------------------------- MODULE ProposalInput ----------------------------
(***************************************************************************)
(* What create_pull_request reads from a request before its first call,    *)
(* and when it goes no further.  A request r is a record with the maps     *)
(* auth, credentials, config and input of Resolve.                         *)
(***************************************************************************)
EXTENDS Resolve

CONSTANTS
  Main,       \* the branch name "main"
  WrongType   \* a JSON value of another type than the one that is read

Repository(r) == FirstString(r.input, <<"repository">>)
                   ?? FirstString(r.config, <<"default_repository">>)
Branch(r)     == FirstString(r.input, <<"branch">>)
Base(r)       == FirstString(r.input, <<"base", "base_branch">>)
                   ?? FirstString(r.config, <<"default_base_branch">>)
                   ?? Main
Message(r)    == FirstString(r.input, <<"commit_message">>)
RawFiles(r)   == IF "files" \in DOMAIN r.input THEN r.input["files"] ELSE <<>>

Valid(r) ==
  /\ ResolveToken(r.auth, r.credentials) # None
  /\ Repository(r) # None
  /\ Repository(r).owner # None
  /\ Repository(r).name # None
  /\ Branch(r) # None
  /\ Message(r) # None
  /\ RawFiles(r) # WrongType
  /\ Len(RawFiles(r)) > 0
  /\ \A i \in DOMAIN RawFiles(r) : /\ RawFiles(r)[i] # WrongType
                                  /\ RawFiles(r)[i].path # None
=============================================================================
