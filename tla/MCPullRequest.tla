---------------------------- MODULE MCPullRequest ----------------------------
(* Instances of PullRequest for TLC.                                       *)
EXTENDS PullRequest, TLC

CONSTANTS main, fix, next,     \* branches
          p, q,                \* paths
          old, new, empty,         \* contents
          c0, c1, c2, c3,      \* commits
          x1, x2               \* executions

MCBranches   == {main, fix, next}
MCPaths      == {p, q}
MCContents   == {old, new, empty}
MCCommitIDs  == {c0, c1, c2, c3}
TwoCommits   == {c0, c1, c2}
MCExecutions == {x1, x2}

(* The repository starts with one file.                                    *)
MCInitialFiles == (p :> old) @@ (q :> None)

Ask(branch, base, files) ==
  [auth        |-> [token |-> "token"],
   credentials |-> <<>>,
   config      |-> [default_owner |-> "acme"],
   input       |-> [repository     |-> [owner |-> "acme", name |-> "app"],
                    branch         |-> branch,
                    base           |-> base,
                    commit_message |-> "message",
                    files          |-> files]]

Set(path, content) == [path |-> path, content |-> content]

(* Two files on a branch off main, the second without content.             *)
Fix      == Ask(fix, None, <<Set(p, new), Set(q, None)>>)
(* Another change that wants the same branch.                              *)
Rival    == Ask(fix, main, <<Set(q, old)>>)
(* A change stacked on the branch of the first.                            *)
Stacked  == Ask(next, fix, <<Set(q, new)>>)
(* The same path twice.                                                    *)
Twice    == Ask(next, None, <<Set(q, old), Set(q, new)>>)
(* Head and base are one branch.                                           *)
OnMain   == Ask(main, main, <<Set(p, new)>>)

(* Instance defaults in the place of input; the token of the instance.     *)
Defaults ==
  [auth        |-> [token |-> None],
   credentials |-> [github_token |-> "token"],
   config      |-> [default_repository  |-> [owner |-> "acme", name |-> "app"],
                    default_base_branch |-> main],
   input       |-> [branch |-> next, commit_message |-> "message",
                    files |-> <<Set(p, new)>>]]

Without(key) ==
  [Fix EXCEPT !.input = [k \in DOMAIN Fix.input \ {key} |-> Fix.input[k]]]

(* One request per error of the validation.                                *)
Invalid ==
  {Without(key) : key \in {"repository", "branch", "commit_message", "files"}}
    \cup {[Fix EXCEPT !.auth = <<>>],
          [Fix EXCEPT !.input.repository = [owner |-> None, name |-> "app"]],
          Ask(fix, main, <<>>),
          Ask(fix, main, WrongType),
          Ask(fix, main, <<Set(p, new), WrongType>>),
          Ask(fix, main, <<Set(p, new), Set(None, old)>>)}

RivalRequests  == {Fix, Rival}
MixedRequests  == {Fix, Stacked, Twice, OnMain, Defaults} \cup Invalid
OneRequest     == {Fix}

Symmetry == Permutations(MCExecutions) \cup Permutations(MCCommitIDs \ {c0})
=============================================================================
