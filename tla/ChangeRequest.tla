---------------------------- MODULE ChangeRequest ----------------------------
(***************************************************************************)
(* What a create_pull_request request asks for: a set of files, to be laid *)
(* over the tree of a base branch and published on a branch of its own.    *)
(* Constant definitions, shared by the operation (PullRequest) and by what *)
(* it promises (Publication).                                              *)
(***************************************************************************)
EXTENDS Naturals, Sequences, FiniteSets, ProposalInput

CONSTANTS
  Branches,   \* branch names
  Paths,      \* file paths
  Contents,   \* file contents
  Empty,      \* the empty file
  Requests    \* the requests the adapter receives

(* A tree: what each path holds, None where there is no file.              *)
Tree == [Paths -> Contents \cup {None}]

(* Trees made from a base tree and a list of [path, sha] entries: a path   *)
(* that is listed holds one of the contents listed for it, every other     *)
(* path what the base holds.  Entries that repeat a path leave the choice  *)
(* to GitHub.                                                              *)
Overlays(base, entries) ==
  {t \in Tree : \A p \in Paths :
     LET listed == {i \in DOMAIN entries : entries[i].path = p}
     IN  IF listed = {} THEN t[p] = base[p]
                        ELSE \E i \in listed : t[p] = entries[i].sha}

EmptyTree == [p \in Paths |-> None]
-----------------------------------------------------------------------------
(* The files as blobs are made of them: an item without content is an      *)
(* empty file.                                                             *)
Files(r) == [i \in DOMAIN RawFiles(r) |->
               [path |-> RawFiles(r)[i].path,
                sha  |-> RawFiles(r)[i].content ?? Empty]]

(* Of a valid request the rest of the code relies on this much: a branch,  *)
(* a base branch, and files that have a path.                              *)
ASSUME RequestAssumption ==
  /\ Main \in Branches
  /\ Empty \in Contents
  /\ None \notin Branches \cup Paths \cup Contents \cup Tree \cup Requests
  /\ \A r \in Requests :
       Valid(r) => /\ Branch(r) \in Branches
                   /\ Base(r) \in Branches
                   /\ Files(r) \in Seq([path : Paths, sha : Contents])
                   /\ Len(Files(r)) > 0
=============================================================================
