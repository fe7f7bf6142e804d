-------------------------- MODULE ProjectSettings --------------------------
(***************************************************************************)
(* The settings page of one project, open before several of its members    *)
(* (frontend/app/pages/projects/settings), the action behind it and the    *)
(* broker behind that. Each looks at who the caller is before it goes on,  *)
(* the broker for a member's retention at the current one too, and the     *)
(* change comes after: others change the project in between.               *)
(***************************************************************************)
EXTENDS Allowlist, FiniteSets

CONSTANTS
  Staff,      \* who uses the settings page
  Invitees,   \* logins that are typed into the form that adds members
  Foundings,  \* who is in the project to begin with
  Names,      \* names the project may have
  Durations,  \* days of retention; 0 is forever
  Requests,   \* requests a form may make
  MaxForms    \* bound on the forms sent

ASSUME SettingsAssumption ==
  /\ Staff \subseteq Users /\ Invitees \subseteq Users
  /\ Foundings \subseteq [Users -> {"none", "member", "owner"}]
  /\ Durations \subseteq Nat
  /\ MaxForms \in Nat

Roles == {"none", "member", "owner"}

(* What a form asks for: an intent, and the fields the Api call needs.      *)
RenameForms == [intent : {"rename"}, name : Names]
RetentionForms == [intent : {"retention"}, days : Durations]
AddForms == [intent : {"add-member"}, login : Invitees, role : {"member", "owner"}]
RoleForms == [intent : {"change-role"}, login : Users, role : {"member", "owner"}]
RemoveForms == [intent : {"remove-member"}, login : Users]
DeleteForms == [intent : {"delete"}, name : Names]
Forms ==
  RenameForms \cup RetentionForms \cup AddForms \cup RoleForms \cup RemoveForms \cup DeleteForms

VARIABLES
  role,    \* the rows of project_members
  gone,    \* the project is deleted
  name, days,
  page,    \* what each one's page shows, if it is still this one
  req,     \* the requests the forms made
  sent,    \* how many (bound)
  seen     \* what was true since a request was made (history)

project == <<role, gone, name, days>>
vars == <<project, page, req, sent, seen>>

Warnings == {"none", "cannot sign in", "only privately", "not checked"}
Results == {"none", "success", "refused", "forbidden", "moved"}
Stages == {"made", "checked", "calling", "allowed", "cleared",
           "answered", "reloading"}

Pages == [open : BOOLEAN, name : Names, role : Roles, days : Durations, members : [Users -> Roles]]
Calls == [stage : Stages, from : Staff, form : Forms, awaited : BOOLEAN, as : Roles, named : Names,
          result : Results, warning : Warnings]

NoCall == [stage |-> "free"]

(* The names of the project since the form was sent; the sender's roles and   *)
(* the days of retention since the broker was called.                        *)
Histories == [names : SUBSET Names, roles : SUBSET Roles, days : SUBSET Durations]

TypeOK ==
  /\ role \in [Users -> Roles]
  /\ gone \in BOOLEAN
  /\ name \in Names /\ days \in Durations
  /\ page \in [Staff -> Pages]
  /\ req \in [Requests -> Calls \cup {NoCall}]
  /\ sent \in Nat
  /\ seen \in [Requests -> Histories]

NothingSeen == [names |-> {}, roles |-> {}, days |-> {}]

(* Everyone has just opened the page.                                      *)
Init ==
  /\ role \in Foundings
  /\ gone = FALSE
  /\ name \in Names /\ days \in Durations
  /\ page = [u \in Staff |-> [open |-> role[u] # "none", name |-> name, role |-> role[u], days |-> days,
                              members |-> role]]
  /\ req = [r \in Requests |-> NoCall]
  /\ sent = 0
  /\ seen = [r \in Requests |-> NothingSeen]

-----------------------------------------------------------------------------
(* The page.                                                               *)

LowersRetention(from, to) == to # 0 /\ (from = 0 \/ to < from)

Owners(roles) == {u \in Users : roles[u] = "owner"}
IsLastOwner(roles, u) == Owners(roles) = {u}

(* A section that has one form keeps its button disabled until the form's    *)
(* fetcher is done; a row of the members' table only its own.                *)
Pending(u, intent) ==
  {r \in Requests : req[r].stage # "free" /\ req[r].awaited /\ req[r].from = u
                    /\ req[r].form.intent = intent}
Idle(u, intent) == Pending(u, intent) = {}
RowIdle(u, intent, login) == \A r \in Pending(u, intent) : req[r].form.login # login

IsOwner(u) == page[u].role = "owner"

OffersRename(u) == {form \in RenameForms : IsOwner(u) /\ Idle(u, "rename")}

OffersRetention(u) ==
  {form \in RetentionForms :
     /\ Idle(u, "retention")
     /\ IsOwner(u) \/ ~ LowersRetention(page[u].days, form.days)}

(* The last owner has neither a role to choose nor a button.                *)
Manages(u, login) ==
  IsOwner(u) /\ page[u].members[login] # "none" /\ ~ IsLastOwner(page[u].members, login)

OffersAdd(u) == {form \in AddForms : IsOwner(u) /\ Idle(u, "add-member")}

OffersRole(u) ==
  {form \in RoleForms :
     /\ Manages(u, form.login) /\ RowIdle(u, "change-role", form.login)
     /\ page[u].members[form.login] # form.role}

OffersRemove(u) ==
  {form \in RemoveForms : Manages(u, form.login) /\ RowIdle(u, "remove-member", form.login)}

(* The dialog's button waits for the name to be typed.                     *)
OffersDelete(u) ==
  {form \in DeleteForms : IsOwner(u) /\ Idle(u, "delete") /\ form.name = page[u].name}

Offers(u) ==
  IF page[u].open
  THEN OffersRename(u) \cup OffersRetention(u) \cup OffersAdd(u) \cup OffersRole(u)
       \cup OffersRemove(u) \cup OffersDelete(u)
  ELSE {}

(* A second form of the same fetcher makes it forget the first, which the    *)
(* server serves all the same.                                               *)
Send(u, form, r) ==
  /\ req[r].stage = "free"
  /\ sent < MaxForms /\ sent' = sent + 1
  /\ req' = [q \in Requests |->
       IF q = r THEN [stage |-> "made", from |-> u, form |-> form, awaited |-> TRUE, as |-> "none",
                      named |-> name, result |-> "none", warning |-> "none"]
       ELSE IF q \in Pending(u, form.intent) THEN [req[q] EXCEPT !.awaited = FALSE] ELSE req[q]]
  /\ seen' = [seen EXCEPT ![r] = [NothingSeen EXCEPT !.names = {name}]]
  /\ UNCHANGED <<project, page>>

-----------------------------------------------------------------------------
(* The action behind the page.                                             *)

Mine(r) == req[r].from
Form(r) == req[r].form
Intent(r) == req[r].form.intent

Step(r, stage) == req' = [req EXCEPT ![r].stage = stage]
Answer(r, result) == req' = [req EXCEPT ![r].stage = "answered", ![r].result = result]

(* GetProjects joins the rows with the projects there are.                 *)
IsListed(u) == ~ gone /\ role[u] # "none"

(* "Only an owner can change this."                                        *)
ActionRefuses(intent, as) == intent # "retention" /\ as # "owner"

RequireProject(r) ==
  /\ req[r].stage = "made"
  /\ \/ ~ IsListed(Mine(r)) /\ Answer(r, "moved")
     \/ /\ IsListed(Mine(r)) /\ ActionRefuses(Intent(r), role[Mine(r)])
        /\ Answer(r, "refused")
     \/ /\ IsListed(Mine(r)) /\ ~ ActionRefuses(Intent(r), role[Mine(r)])
        /\ req' = [req EXCEPT ![r].stage = "checked", ![r].as = role[Mine(r)], ![r].named = name]
  /\ UNCHANGED <<project, page, sent, seen>>

(* The broker is called: from now on what it reads is what counts.         *)
Call(r, warning) ==
  /\ req' = [req EXCEPT ![r].stage = "calling", ![r].warning = warning]
  /\ seen' = [seen EXCEPT ![r].roles = {role[Mine(r)]}, ![r].days = {days}]

Refuse(r) == Answer(r, "refused") /\ UNCHANGED seen

(* A member's form is compared with the current retention here as well.    *)
CheckRetention(r) ==
  /\ req[r].stage = "checked" /\ Intent(r) = "retention"
  /\ IF req[r].as # "owner" /\ LowersRetention(days, Form(r).days) THEN Refuse(r) ELSE Call(r, "none")
  /\ UNCHANGED <<project, page, sent>>

(* GitHub answers truly, or not at all; and anything but a yes or a no to    *)
(* the owner's token, or a failed fetch, is taken for unwilling.           *)
CheckLogin(r) ==
  LET u == Form(r).login
      PrivateAnswers == {private \in [Orgs -> OrgAnswers] :
        \A o \in Orgs : private[o] \in {PrivateAnswer(o, u, Mine(r)), "unwilling", "failed"}}
      PublicAnswers == {public \in [Orgs -> OrgAnswers] :
        \A o \in Orgs : public[o] \in {PublicAnswer(o, u), "failed"}}
  IN  /\ req[r].stage = "checked" /\ Intent(r) = "add-member"
      /\ \E token \in BOOLEAN, user \in {UserAnswer(u), "failed"},
            private \in PrivateAnswers, public \in PublicAnswers :
           LET check == CheckInvitee(u, token, user, private, public) IN
           IF check \in {"unknown", "organization"} THEN Refuse(r)
           ELSE Call(r, InviteWarning(check))
      /\ UNCHANGED <<project, page, sent>>

(* The check that counts.                                                  *)
NameMatches(r) == Form(r).name = req[r].named

CheckDelete(r) ==
  /\ req[r].stage = "checked" /\ Intent(r) = "delete"
  /\ IF NameMatches(r) THEN Call(r, "none") ELSE Refuse(r)
  /\ UNCHANGED <<project, page, sent>>

CheckOthers(r) ==
  /\ req[r].stage = "checked" /\ Intent(r) \in {"rename", "change-role", "remove-member"}
  /\ Call(r, "none")
  /\ UNCHANGED <<project, page, sent>>

-----------------------------------------------------------------------------
(* The broker: requireProject, and a member's retention once more.         *)

Suffices(intent, r) == r = "owner" \/ (r = "member" /\ intent = "retention")

AuthorizeProject(r) ==
  LET as == role[Mine(r)] IN
  /\ req[r].stage = "calling"
  /\ IF ~ Suffices(Intent(r), as) THEN Answer(r, "forbidden")
     ELSE IF Intent(r) = "retention" /\ as # "owner" THEN Step(r, "allowed")
     ELSE Step(r, "cleared")
  /\ UNCHANGED <<project, page, sent, seen>>

(* Mutant: the broker does not look at the current retention.              *)
CompareRetentionNever(r) ==
  /\ req[r].stage = "allowed"
  /\ Step(r, "cleared")
  /\ UNCHANGED <<project, page, sent, seen>>

(* UpdateRetention, for a member.                                          *)
CompareRetention(r) ==
  /\ req[r].stage = "allowed"
  /\ IF LowersRetention(days, Form(r).days) THEN Answer(r, "refused") ELSE Step(r, "cleared")
  /\ UNCHANGED <<project, page, sent, seen>>

-----------------------------------------------------------------------------
(* The logger makes the change. Whatever other requests see on the way of    *)
(* what they rely on is kept.                                              *)

Keep == seen' = [q \in Requests |-> IF req[q] = NoCall THEN seen[q] ELSE
  [names |-> seen[q].names \cup {name'}, roles |-> seen[q].roles \cup {role'[Mine(q)]},
   days |-> seen[q].days \cup {days'}]]

Change(r, intent) == req[r].stage = "cleared" /\ Intent(r) = intent

(* The logger's answer may be lost after the change: the page says it failed. *)
Done(r) ==
  /\ \E result \in {"success", "refused"} : Answer(r, result)
  /\ Keep /\ UNCHANGED <<page, sent>>

Rename(r) ==
  /\ Change(r, "rename") /\ ~ gone
  /\ name' = Form(r).name
  /\ UNCHANGED <<role, gone, days>>
  /\ Done(r)

UpdateRetention(r) ==
  /\ Change(r, "retention")
  /\ days' = Form(r).days
  /\ UNCHANGED <<role, gone, name>>
  /\ Done(r)

(* Mutant: the login is stored where the role belongs.                     *)
AddMemberSwapped(r) ==
  /\ Change(r, "add-member") /\ role[Form(r).login] = "none"
  /\ role' = [role EXCEPT ![Form(r).login] = Form(r).login]
  /\ UNCHANGED <<gone, name, days>>
  /\ Done(r)

AddMember(r) ==
  /\ Change(r, "add-member") /\ role[Form(r).login] = "none"
  /\ role' = [role EXCEPT ![Form(r).login] = Form(r).role]
  /\ UNCHANGED <<gone, name, days>>
  /\ Done(r)

(* The last owner stays one.                                               *)
Changeable(r) == ~ gone /\ role[Form(r).login] # "none" /\ ~ IsLastOwner(role, Form(r).login)

UpdateMemberRole(r) ==
  /\ Change(r, "change-role")
  /\ ~ gone /\ role[Form(r).login] # "none"
  /\ Form(r).role = "owner" \/ Changeable(r)
  /\ role' = [role EXCEPT ![Form(r).login] = Form(r).role]
  /\ UNCHANGED <<gone, name, days>>
  /\ Done(r)

RemoveMember(r) ==
  /\ Change(r, "remove-member") /\ Changeable(r)
  /\ role' = [role EXCEPT ![Form(r).login] = "none"]
  /\ UNCHANGED <<gone, name, days>>
  /\ Done(r)

DeleteProject(r) ==
  /\ Change(r, "delete") /\ ~ gone
  /\ gone' = TRUE /\ role' = [u \in Users |-> "none"]
  /\ UNCHANGED <<name, days>>
  /\ Done(r)

(* The logger refuses: no such project or member, a member already, the last *)
(* owner; or it fails before the change.                                   *)
ChangeFails(r) ==
  /\ req[r].stage = "cleared"
  /\ Answer(r, "refused")
  /\ UNCHANGED <<project, page, sent, seen>>

-----------------------------------------------------------------------------
(* The page takes the answer in and loads again.                           *)

Free(r) == req' = [req EXCEPT ![r] = NoCall] /\ seen' = [seen EXCEPT ![r] = NothingSeen]
Close(u) == page' = [page EXCEPT ![u].open = FALSE]

Forgotten(r) ==
  /\ req[r].stage = "answered" /\ ~ (req[r].awaited /\ page[Mine(r)].open)
  /\ Free(r)
  /\ UNCHANGED <<project, page, sent>>

Leads(r) == req[r].result = "moved" \/ (Intent(r) = "delete" /\ req[r].result = "success")

(* The loader asks for the project first, then for its members and days.   *)
Hear(r) ==
  LET u == Mine(r) IN
  /\ req[r].stage = "answered" /\ req[r].awaited /\ page[u].open
  /\ IF Leads(r) \/ ~ IsListed(u) THEN Close(u) /\ Free(r)
     ELSE /\ req' = [req EXCEPT ![r].stage = "reloading", ![r].as = role[u], ![r].named = name]
          /\ UNCHANGED <<page, seen>>
  /\ UNCHANGED <<project, sent>>

(* The broker may have closed the project to the caller by then: an error.   *)
Load(r) ==
  LET u == Mine(r) IN
  /\ req[r].stage = "reloading" /\ Free(r)
  /\ page' = [page EXCEPT ![u] = IF role[u] = "none" THEN [@ EXCEPT !.open = FALSE]
       ELSE [@ EXCEPT !.name = req[r].named, !.role = req[r].as, !.days = days, !.members = role]]
  /\ UNCHANGED <<project, sent>>

-----------------------------------------------------------------------------
Serve(r) ==
  \/ RequireProject(r)
  \/ CheckRetention(r) \/ CheckLogin(r) \/ CheckDelete(r) \/ CheckOthers(r)
  \/ AuthorizeProject(r) \/ CompareRetention(r)
  \/ Rename(r) \/ UpdateRetention(r) \/ AddMember(r) \/ UpdateMemberRole(r)
  \/ RemoveMember(r) \/ DeleteProject(r) \/ ChangeFails(r)

Show(r) == Forgotten(r) \/ Hear(r) \/ Load(r)

Next ==
  \E r \in Requests : Serve(r) \/ Show(r) \/ \E u \in Staff : \E form \in Offers(u) : Send(u, form, r)

Spec == Init /\ [][Next]_vars
============================================================================
