------------------------------- MODULE Policy -------------------------------
(***************************************************************************)
(* policy_service.classify_action: what may be run directly, what asks for *)
(* an approval, and what is never run.  A command is a record of what the  *)
(* classification looks at: the class of its binary and of its first       *)
(* argument, and the marks it carries.                                     *)
(***************************************************************************)

\* Classes of binaries; "bun" is an interpreter and a package manager.
Interpreters == {"python", "bun"}
PackageManagers == {"npm", "bun"}
CodeRunners == {"make"}
Binaries == {"blocked", "rm", "git", "gh", "tar", "brew", "other"}
              \cup Interpreters \cup PackageManagers \cup CodeRunners

\* Classes of first arguments; "publish" installs and deploys.
RemoteSubs == {"push"}
InstallSubs == {"install", "publish"}
ExecSubs == {"dlx"}
DeploySubs == {"deploy", "publish"}
Subs == {"none"} \cup RemoteSubs \cup InstallSubs \cup ExecSubs \cup DeploySubs

\* Marks: quoting that does not parse, no token, a shell operator, FOO=bar in
\* front, -e/-c/-p, -rf with a root, --config, an exec hook of tar, a path
\* outside the workspace.
Marks == {"unparseable", "empty", "operator", "prefix", "eval", "rf_root",
          "config", "hook", "outside"}

Command == [binary : Binaries, sub : Subs, marks : SUBSET Marks]

Denied(c) ==
  \/ c.marks \cap {"unparseable", "empty", "operator", "prefix", "outside"} # {}
  \/ c.binary = "blocked"
  \/ c.binary \in Interpreters /\ "eval" \in c.marks
  \/ c.binary = "rm" /\ "rf_root" \in c.marks
  \/ c.binary = "git" /\ "config" \in c.marks
  \/ c.binary = "tar" /\ "hook" \in c.marks

\* Shared or remote state, or code that nobody has looked at.
NeedsApproval(c) ==
  \/ c.binary \in {"brew", "gh"}
  \/ c.binary = "git" /\ c.sub \in RemoteSubs
  \/ c.binary \in PackageManagers /\ c.sub \in InstallSubs \cup ExecSubs
  \/ c.sub \in DeploySubs
  \/ c.binary \in Interpreters \cup CodeRunners

Classify(c) ==
  IF Denied(c) THEN "deny"
  ELSE IF NeedsApproval(c) THEN "require_approval"
  ELSE "allow"
=============================================================================
