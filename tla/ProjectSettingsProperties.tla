--------------------- MODULE ProjectSettingsProperties ---------------------
(* What the settings page has to guarantee to those who share a project.   *)
EXTENDS ProjectSettings

Answered(r) == req[r].stage \in {"answered", "reloading"}
Acts(r) ==
  /\ req[r].stage = "cleared" /\ req'[r].stage = "answered"
  /\ req'[r].result = "success" \/ project' # project

(* Nothing is changed but by who, since the broker was called, was entitled  *)
(* to it: an owner, or for retention a member, and then not below what it    *)
(* was at some moment since (requireProject and UpdateRetention look before  *)
(* the logger acts). And a project is deleted only by its name: the one that *)
(* was typed was its name at some moment since the form was sent, however    *)
(* stale the page (the comparison of the action). A change whose answer is   *)
(* lost counts like one that is answered.                                  *)
Entitled(r) ==
  /\ \/ "owner" \in seen[r].roles
     \/ /\ Intent(r) = "retention" /\ "member" \in seen[r].roles
        /\ \E d \in seen[r].days : ~ LowersRetention(d, Form(r).days)
  /\ Intent(r) = "delete" => Form(r).name \in seen[r].names
StaleTabsPowerless == [][\A r \in Requests : Acts(r) => Entitled(r)]_vars

(* What an owner is told of someone just added is true, whatever GitHub      *)
(* fails to answer: without a warning he can sign in, and he cannot when the  *)
(* warning says so (checkInvitee and inviteWarning).                       *)
WarningsTrue ==
  \A r \in Requests : Answered(r) /\ req[r].result = "success" /\ Intent(r) = "add-member" =>
    /\ req[r].warning = "none" => CanSignIn(Form(r).login)
    /\ req[r].warning = "cannot sign in" => ~ CanSignIn(Form(r).login)
=============================================================================
