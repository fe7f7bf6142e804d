----------------------------- MODULE Allowlist -----------------------------
(***************************************************************************)
(* Who may sign in to the dashboard, and what it can tell of an invitee    *)
(* before adding them to a project                                         *)
(* (frontend/app/lib/allowlist.server.ts). A login and the name of an org  *)
(* are what normalizeLogin makes of them: their spelling is left out.      *)
(***************************************************************************)
EXTENDS Naturals, Sequences

CONSTANTS
  Users,         \* logins: people, organizations and typos
  Nobody,        \* those that are no user of GitHub
  Organizations, \* those that are organizations, not people
  Orgs,          \* organizations a person may belong to
  OrgsOf,        \* OrgsOf[u]: those u belongs to, privately or not
  PublicOrgsOf,  \* PublicOrgsOf[u]: those GitHub shows to anyone
  AllowedUsers,  \* LOGWOLF_ALLOWED_GITHUB_USERS
  AllowedOrgs    \* LOGWOLF_ALLOWED_GITHUB_ORGS, as a sequence

ASSUME AllowlistAssumption ==
  /\ Nobody \subseteq Users /\ Organizations \subseteq Users \ Nobody
  /\ AllowedUsers \subseteq Users /\ AllowedOrgs \in Seq(Orgs)
  /\ OrgsOf \in [Users -> SUBSET Orgs]
  /\ PublicOrgsOf \in [Users -> SUBSET Orgs]
  /\ \A u \in Users : PublicOrgsOf[u] \subseteq OrgsOf[u]
  /\ \A u \in Nobody \cup Organizations : OrgsOf[u] = {}

People == Users \ (Nobody \cup Organizations)

(* allowlistFromEnv and isEmptyAllowlist. *)
OrgList == {AllowedOrgs[i] : i \in DOMAIN AllowedOrgs}
IsEmptyAllowlist == AllowedUsers = {} /\ OrgList = {}

(* isAllowed, when listOrgs answers orgs. *)
IsAllowed(u, orgs) == u \in AllowedUsers \/ orgs \cap OrgList # {}

(* GitHub and the allowlist together let u in. *)
CanSignIn(u) == u \in People /\ IsAllowed(u, OrgsOf[u])

(* What handleGitHubCallback may make of u: GitHub may always fail to       *)
(* exchange the code or to say who u is; it is asked for the orgs of those  *)
(* only whom the list of users does not clear, and any failure is a no.     *)
SignIn(u) ==
  IF u \in AllowedUsers THEN {TRUE, FALSE}
  ELSE IF OrgList = {} THEN {FALSE}
  ELSE {IsAllowed(u, OrgsOf[u]), FALSE}

-----------------------------------------------------------------------------
(* checkInvitee.                                                           *)

UserAnswers == {"user", "organization", "missing", "failed"}
OrgAnswers == {"yes", "no", "unwilling", "failed"}

(* What GitHub knows of a login, when it answers at all. *)
UserAnswer(u) ==
  IF u \in Nobody THEN "missing"
  ELSE IF u \in Organizations THEN "organization" ELSE "user"

(* privateMember: GitHub tells an owner about the members of his own orgs.  *)
PrivateAnswer(org, u, owner) ==
  IF org \notin OrgsOf[owner] THEN "unwilling"
  ELSE IF org \in OrgsOf[u] THEN "yes" ELSE "no"

PublicAnswer(org, u) == IF org \in PublicOrgsOf[u] THEN "yes" ELSE "no"

(* Mutant: an org that only its public list was asked of counts as checked. *)
OrgVerdictHasty(token, private, public) ==
  IF token /\ private = "failed" THEN [verdict |-> "unverified", seen |-> FALSE]
  ELSE IF token /\ private = "yes" THEN [verdict |-> "allowed", seen |-> TRUE]
  ELSE IF public = "yes" THEN [verdict |-> "allowed", seen |-> FALSE]
  ELSE IF public = "no" THEN [verdict |-> "next", seen |-> token]
  ELSE [verdict |-> "unverified", seen |-> FALSE]

(* One round of the loop over the allowed orgs: the verdict it ends with,   *)
(* or "next" and whether the org's private members were seen.               *)
OrgVerdict(token, private, public) ==
  IF token /\ private = "failed" THEN [verdict |-> "unverified", seen |-> FALSE]
  ELSE IF token /\ private = "yes" THEN [verdict |-> "allowed", seen |-> TRUE]
  ELSE IF token /\ private = "no" THEN [verdict |-> "next", seen |-> TRUE]
  ELSE IF public = "yes" THEN [verdict |-> "allowed", seen |-> FALSE]
  ELSE IF public = "no" THEN [verdict |-> "next", seen |-> FALSE]
  ELSE [verdict |-> "unverified", seen |-> FALSE]

(* What checkInvitee concludes from GitHub's answers: the user's, and each  *)
(* org's to the owner and to the public. privateChecked is "certain".       *)
CheckInvitee(u, token, user, private, public) ==
  LET Round(i) == OrgVerdict(token, private[AllowedOrgs[i]], public[AllowedOrgs[i]])
      Final == {i \in DOMAIN AllowedOrgs : Round(i).verdict # "next"}
  IN  IF user = "missing" THEN "unknown"
      ELSE IF user = "failed" THEN "unverified"
      ELSE IF user = "organization" THEN "organization"
      ELSE IF u \in AllowedUsers THEN "allowed"
      ELSE IF Final # {} THEN Round(CHOOSE i \in Final : \A j \in Final : i <= j).verdict
      ELSE IF \A i \in DOMAIN AllowedOrgs : Round(i).seen THEN "certain"
      ELSE "uncertain"

(* inviteWarning: what the owner is told of someone just added.            *)
InviteWarning(check) ==
  IF check = "certain" THEN "cannot sign in"
  ELSE IF check = "uncertain" THEN "only privately"
  ELSE IF check = "unverified" THEN "not checked"
  ELSE "none"
============================================================================
