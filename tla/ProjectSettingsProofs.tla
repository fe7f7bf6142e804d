----------------------- MODULE ProjectSettingsProofs -----------------------
(***************************************************************************)
(* Nobody changes a project by a page that has become stale, and an owner  *)
(* is told the truth of whom he adds: proved for all users, orgs, forms    *)
(* and requests under way.                                                 *)
(***************************************************************************)
EXTENDS ProjectSettingsProperties, WellFoundedInduction, TLAPS

(* The broker has been called, and has not answered.                       *)
Called(r) == req[r].stage \in {"calling", "allowed", "cleared"}

(* A request remembers the present, and what its action has read is part of  *)
(* what it remembers.                                                      *)
Remembers(r) ==
  /\ req[r] # NoCall => name \in seen[r].names
  /\ req[r].stage = "checked" => req[r].named \in seen[r].names
  /\ Called(r) => role[Mine(r)] \in seen[r].roles /\ days \in seen[r].days
  /\ Called(r) /\ Intent(r) = "delete" => Form(r).name \in seen[r].names
  /\ req[r].stage = "allowed" => Intent(r) = "retention" /\ "member" \in seen[r].roles
  /\ req[r].stage = "cleared" => Entitled(r)
RemembersOK == \A r \in Requests : Remembers(r)

(* The warning is decided by the action, and kept.                         *)
WarningTrue(r) ==
  (Called(r) \/ (Answered(r) /\ req[r].result = "success")) /\ Intent(r) = "add-member" =>
    /\ req[r].warning = "none" => CanSignIn(Form(r).login)
    /\ req[r].warning = "cannot sign in" => ~ CanSignIn(Form(r).login)
WarningsOK == \A r \in Requests : WarningTrue(r)

IInv == TypeOK /\ RemembersOK /\ WarningsOK

-----------------------------------------------------------------------------
(* checkInvitee.                                                           *)

(* The loop over the allowed orgs ends in its first round that has a verdict. *)
LEMMA FirstRound ==
  ASSUME NEW T, T \subseteq Nat, T # {}
  PROVE  \E i \in T : \A j \in T : i <= j
<1> DEFINE R == OpToRel(<, Nat)
<1>1. IsWellFoundedOn(R, Nat)
  BY NatLessThanWellFounded, Zenon
<1> HIDE DEF R
<1>2. PICK x \in T : \A y \in T : ~ (<<y, x>> \in R)
  BY <1>1, WFMin, Zenon
<1>3. ASSUME NEW y \in T, y < x  PROVE <<y, x>> \in R
  <2>1. <<y, x>> \in Nat \X Nat /\ <<y, x>>[1] < <<y, x>>[2]
    BY <1>3
  <2> QED  BY <2>1, Zenon DEF R, OpToRel
<1>4. \A y \in T : ~ (y < x)
  BY <1>2, <1>3, Zenon
<1> QED  BY <1>4

(* GitHub's true answers. *)
Truthful(u, owner, user, private, public) ==
  /\ user \in {UserAnswer(u), "failed"}
  /\ \A o \in Orgs : private[o] \in {PrivateAnswer(o, u, owner), "unwilling", "failed"}
  /\ \A o \in Orgs : public[o] \in {PublicAnswer(o, u), "failed"}

(* What checkInvitee concludes is true, if what GitHub answers is.          *)
LEMMA CheckIsTrue ==
  ASSUME AllowlistAssumption, NEW u \in Users, NEW owner \in Users, NEW token \in BOOLEAN,
         NEW user, NEW private, NEW public, Truthful(u, owner, user, private, public)
  PROVE  LET check == CheckInvitee(u, token, user, private, public) IN
         /\ check = "allowed" => CanSignIn(u)
         /\ check = "certain" => ~ CanSignIn(u)
         /\ check \in {"unknown", "unverified", "organization", "allowed", "certain", "uncertain"}
<1> DEFINE Round(i) == OrgVerdict(token, private[AllowedOrgs[i]], public[AllowedOrgs[i]])
           Final == {i \in DOMAIN AllowedOrgs : Round(i).verdict # "next"}
           first == CHOOSE i \in Final : \A j \in Final : i <= j
           check == CheckInvitee(u, token, user, private, public)
<1>1. user = "user" => u \in People
  BY DEF Truthful, UserAnswer, People
<1>2. \A i \in DOMAIN AllowedOrgs : AllowedOrgs[i] \in Orgs /\ AllowedOrgs[i] \in OrgList
  BY DEF AllowlistAssumption, OrgList
<1>3. ASSUME NEW i \in DOMAIN AllowedOrgs
      PROVE  /\ Round(i).verdict \in {"unverified", "allowed", "next"}
             /\ Round(i).verdict = "allowed" => AllowedOrgs[i] \in OrgsOf[u]
             /\ Round(i).verdict = "next" /\ Round(i).seen => AllowedOrgs[i] \notin OrgsOf[u]
  <2> DEFINE o == AllowedOrgs[i]
  <2>1. private[o] = "yes" => o \in OrgsOf[u]
    BY <1>2 DEF Truthful, PrivateAnswer
  <2>2. private[o] = "no" => o \notin OrgsOf[u]
    BY <1>2 DEF Truthful, PrivateAnswer
  <2>3. public[o] = "yes" => o \in OrgsOf[u]
    BY <1>2 DEF Truthful, PublicAnswer, AllowlistAssumption
  <2> QED  BY <2>1, <2>2, <2>3 DEF OrgVerdict
<1>4. CASE user \in {"missing", "failed", "organization"}
  BY <1>4 DEF CheckInvitee
<1>5. CASE user = "user" /\ u \in AllowedUsers
  BY <1>1, <1>5 DEF CheckInvitee, CanSignIn, IsAllowed
<1>6. CASE user = "user" /\ u \notin AllowedUsers /\ Final # {}
  <2>1. Final \subseteq Nat
    BY DEF AllowlistAssumption
  <2>2. first \in Final
    BY <1>6, <2>1, FirstRound
  <2>3. check = Round(first).verdict
    BY <1>6 DEF CheckInvitee
  <2>4. check \in {"unverified", "allowed"} /\ (check = "allowed" => AllowedOrgs[first] \in OrgsOf[u])
    BY <1>3, <2>2, <2>3
  <2> QED  BY <1>1, <1>2, <1>6, <2>2, <2>4 DEF CanSignIn, IsAllowed
<1>7. CASE user = "user" /\ u \notin AllowedUsers /\ Final = {}
  <2>1. check = IF \A i \in DOMAIN AllowedOrgs : Round(i).seen THEN "certain" ELSE "uncertain"
    BY <1>7 DEF CheckInvitee
  <2>2. \A i \in DOMAIN AllowedOrgs : Round(i).verdict = "next"
    BY <1>7
  <2>3. check = "certain" => \A i \in DOMAIN AllowedOrgs : AllowedOrgs[i] \notin OrgsOf[u]
    BY <1>3, <2>1, <2>2
  <2>4. (\A i \in DOMAIN AllowedOrgs : AllowedOrgs[i] \notin OrgsOf[u]) => OrgsOf[u] \cap OrgList = {}
    BY DEF OrgList
  <2> QED  BY <1>7, <2>1, <2>3, <2>4 DEF CanSignIn, IsAllowed
<1>8. user \in {"user", "missing", "failed", "organization"}
  BY DEF Truthful, UserAnswer
<1> QED  BY <1>4, <1>5, <1>6, <1>7, <1>8

-----------------------------------------------------------------------------
(* Types.                                                                  *)

(* A request that is not free is a call with its form. *)
LEMMA CallType ==
  ASSUME SettingsAssumption, TypeOK, NEW r \in Requests, req[r].stage # "free"
  PROVE  /\ req[r] \in Calls /\ req[r] # NoCall
         /\ Mine(r) \in Staff /\ Mine(r) \in Users /\ Form(r) \in Forms
  BY DEF TypeOK, NoCall, SettingsAssumption, Calls, Mine, Form

(* What a form has depends on its intent. *)
LEMMA FormType ==
  ASSUME SettingsAssumption, NEW form \in Forms
  PROVE  /\ form.intent = "rename" => form.name \in Names
         /\ form.intent = "delete" => form.name \in Names
         /\ form.intent = "retention" => form.days \in Durations
         /\ form.intent = "add-member" => form.login \in Users /\ form.role \in Roles
         /\ form.intent = "change-role" => form.login \in Users /\ form.role \in Roles
         /\ form.intent = "remove-member" => form.login \in Users
         /\ form.intent \in {"rename", "delete", "retention", "add-member", "change-role", "remove-member"}
  BY DEF Forms, RenameForms, RetentionForms, AddForms, RoleForms, RemoveForms, DeleteForms, Roles,
         SettingsAssumption

(* Sending, refusing and answering keep the types of a request. *)
LEMMA RequestType ==
  ASSUME TypeOK, NEW r \in Requests, req[r] \in Calls
  PROVE  /\ \A stage \in Stages : Step(r, stage) => req' \in [Requests -> Calls \cup {NoCall}]
         /\ \A result \in Results : Answer(r, result) => req' \in [Requests -> Calls \cup {NoCall}]
<1>1. ASSUME NEW stage \in Stages, Step(r, stage)  PROVE req' \in [Requests -> Calls \cup {NoCall}]
  BY <1>1 DEF Step, TypeOK, Calls
<1>2. ASSUME NEW result \in Results, Answer(r, result)  PROVE req' \in [Requests -> Calls \cup {NoCall}]
  BY <1>2 DEF Answer, TypeOK, Calls, Stages
<1> QED  BY <1>1, <1>2

LEMMA CallsType ==
  ASSUME SettingsAssumption, TypeOK, NEW r \in Requests, req[r] \in Calls, NEW warning \in Warnings, Call(r, warning)
  PROVE  req' \in [Requests -> Calls \cup {NoCall}] /\ seen' \in [Requests -> Histories]
<1>1. req' \in [Requests -> Calls \cup {NoCall}]
  BY DEF Call, TypeOK, Calls, Stages
<1>2. role[Mine(r)] \in Roles
  BY DEF TypeOK, Calls, Mine, SettingsAssumption
<1>3. seen' \in [Requests -> Histories]
  BY <1>2, ZenonT(60) DEF Call, TypeOK, Histories
<1> QED  BY <1>1, <1>3

(* A change to the project is remembered. *)
LEMMA DoneType ==
  ASSUME SettingsAssumption, TypeOK, NEW r \in Requests, req[r] \in Calls, Done(r),
         role' \in [Users -> Roles], gone' \in BOOLEAN, name' \in Names, days' \in Durations
  PROVE  TypeOK'
<1>1. req' \in [Requests -> Calls \cup {NoCall}]
  BY RequestType DEF Done, Results
<1>2. seen' \in [Requests -> Histories]
  <2>1. ASSUME NEW q \in Requests
        PROVE  (IF req[q] = NoCall THEN seen[q] ELSE
                 [names |-> seen[q].names \cup {name'}, roles |-> seen[q].roles \cup {role'[Mine(q)]},
                  days |-> seen[q].days \cup {days'}]) \in Histories
    <3>1. req[q] # NoCall => Mine(q) \in Users
      BY DEF TypeOK, Calls, Mine, SettingsAssumption
    <3> QED  BY <3>1 DEF TypeOK, Histories
  <2> QED  BY <2>1 DEF Done, Keep
<1> QED  BY <1>1, <1>2 DEF TypeOK, Done

(* A form that a page offers is a form. *)
LEMMA OffersType == ASSUME NEW u  PROVE Offers(u) \subseteq Forms
  BY DEF Offers, OffersRename, OffersRetention, OffersAdd, OffersRole, OffersRemove, OffersDelete, Forms

(* The initial state. *)
LEMMA InitIInv == ASSUME SettingsAssumption, Init  PROVE IInv
<1>1. role \in [Users -> Roles] /\ \A u \in Staff : role[u] \in Roles
  BY DEF Init, SettingsAssumption, Roles
<1>2. TypeOK
  BY <1>1 DEF Init, TypeOK, Pages, NothingSeen, Histories, SettingsAssumption
<1>3. RemembersOK /\ WarningsOK
  BY DEF Init, RemembersOK, Remembers, WarningsOK, WarningTrue, Called, Answered, NoCall
<1> QED  BY <1>2, <1>3 DEF IInv

(* What a page loads is of the right types. *)
LEMMA LoadType ==
  ASSUME SettingsAssumption, TypeOK, NEW r \in Requests, req[r] \in Calls, Load(r)
  PROVE  page' \in [Staff -> Pages]
<1>1. page[Mine(r)] \in Pages
  BY DEF TypeOK, Calls, Mine
<1>2. [page[Mine(r)] EXCEPT !.open = FALSE] \in Pages
  BY <1>1 DEF Pages
<1>3. [page[Mine(r)] EXCEPT !.name = req[r].named, !.role = req[r].as, !.days = days, !.members = role] \in Pages
  BY <1>1 DEF Pages, Calls, TypeOK
<1> QED  BY <1>2, <1>3 DEF Load, TypeOK

(* Sending a form. *)
LEMMA SendType ==
  ASSUME SettingsAssumption, TypeOK, NEW r \in Requests, NEW u \in Staff, NEW form \in Forms, Send(u, form, r)
  PROVE  TypeOK'
<1>1. [stage |-> "made", from |-> u, form |-> form, awaited |-> TRUE, as |-> "none",
       named |-> name, result |-> "none", warning |-> "none"] \in Calls
  BY DEF Calls, Stages, Roles, Results, Warnings, TypeOK
<1>2. ASSUME NEW q \in Pending(u, form.intent)  PROVE [req[q] EXCEPT !.awaited = FALSE] \in Calls
  BY CallType DEF Pending, Calls
<1>3. req' \in [Requests -> Calls \cup {NoCall}]
  BY <1>1, <1>2 DEF Send, TypeOK
<1>4. seen' \in [Requests -> Histories]
  BY DEF Send, TypeOK, NothingSeen, Histories
<1>5. UNCHANGED <<role, gone, name, days, page>> /\ sent' \in Nat
  BY DEF Send, TypeOK, project
<1> QED  BY <1>3, <1>4, <1>5 DEF TypeOK

(* The action's and the broker's steps. *)
LEMMA ActionType ==
  ASSUME SettingsAssumption, AllowlistAssumption, TypeOK, NEW r \in Requests,
         \/ RequireProject(r) \/ CheckRetention(r) \/ CheckLogin(r) \/ CheckDelete(r) \/ CheckOthers(r)
         \/ AuthorizeProject(r) \/ CompareRetention(r) \/ ChangeFails(r)
  PROVE  TypeOK'
<1>1. req[r] \in Calls
  BY CallType DEF RequireProject, CheckRetention, CheckLogin, CheckDelete, CheckOthers, AuthorizeProject,
     CompareRetention, ChangeFails
<1> SUFFICES req' \in [Requests -> Calls \cup {NoCall}] /\ seen' \in [Requests -> Histories]
                /\ UNCHANGED <<project, page, sent>>
  BY DEF TypeOK, project
<1>2. seen \in [Requests -> Histories]
  BY DEF TypeOK
<1>3. \A result \in Results : Answer(r, result) => req' \in [Requests -> Calls \cup {NoCall}]
  BY <1>1, RequestType
<1>4. \A stage \in Stages : Step(r, stage) => req' \in [Requests -> Calls \cup {NoCall}]
  BY <1>1, RequestType
<1>5. \A warning \in Warnings : Call(r, warning) =>
        req' \in [Requests -> Calls \cup {NoCall}] /\ seen' \in [Requests -> Histories]
  BY <1>1, CallsType
<1>6. CASE RequireProject(r)
  <2>1. role[Mine(r)] \in Roles
    BY <1>1 DEF TypeOK, Calls, Mine, SettingsAssumption
  <2>2. [req[r] EXCEPT !.stage = "checked", !.as = role[Mine(r)], !.named = name] \in Calls
    BY <1>1, <2>1 DEF TypeOK, Calls, Stages
  <2>3. req' = [req EXCEPT ![r].stage = "checked", ![r].as = role[Mine(r)], ![r].named = name] =>
          req' = [req EXCEPT ![r] = [req[r] EXCEPT !.stage = "checked", !.as = role[Mine(r)], !.named = name]]
    BY DEF TypeOK
  <2>4. req' \in [Requests -> Calls \cup {NoCall}]
    BY <1>3, <1>6, <2>2, <2>3 DEF RequireProject, Results, TypeOK
  <2> QED  BY <1>2, <1>6, <2>4 DEF RequireProject
<1>7. CASE CheckRetention(r)
  BY <1>2, <1>3, <1>5, <1>7 DEF CheckRetention, Refuse, Results, Warnings
<1>8. CASE CheckLogin(r)
  <2>1. \A check : InviteWarning(check) \in Warnings
    BY DEF InviteWarning, Warnings
  <2>2. Refuse(r) \/ \E check : Call(r, InviteWarning(check))
    BY <1>8 DEF CheckLogin
  <2> QED  BY <1>2, <1>3, <1>5, <1>8, <2>1, <2>2 DEF CheckLogin, Refuse, Results
<1>9. CASE CheckDelete(r)
  BY <1>2, <1>3, <1>5, <1>9 DEF CheckDelete, Refuse, Results, Warnings
<1>10. CASE CheckOthers(r)
  BY <1>5, <1>10 DEF CheckOthers, Warnings
<1>11. CASE AuthorizeProject(r)
  BY <1>2, <1>3, <1>4, <1>11 DEF AuthorizeProject, Results, Stages
<1>12. CASE CompareRetention(r)
  BY <1>2, <1>3, <1>4, <1>12 DEF CompareRetention, Results, Stages
<1>13. CASE ChangeFails(r)
  BY <1>2, <1>3, <1>13 DEF ChangeFails, Results
<1> QED  BY <1>6, <1>7, <1>8, <1>9, <1>10, <1>11, <1>12, <1>13

(* The changes the logger makes. *)
LEMMA ChangeType ==
  ASSUME SettingsAssumption, TypeOK, NEW r \in Requests,
         \/ Rename(r) \/ UpdateRetention(r) \/ AddMember(r) \/ UpdateMemberRole(r) \/ RemoveMember(r)
         \/ DeleteProject(r)
  PROVE  TypeOK' /\ Done(r) /\ req[r].stage = "cleared" /\ req[r] \in Calls
<1>1. Done(r) /\ req[r].stage = "cleared"
  BY DEF Rename, UpdateRetention, AddMember, UpdateMemberRole, RemoveMember, DeleteProject, Change
<1>2. req[r] \in Calls /\ Form(r) \in Forms /\ Intent(r) = Form(r).intent
  BY <1>1, CallType DEF Form, Intent
<1> SUFFICES role' \in [Users -> Roles] /\ gone' \in BOOLEAN /\ name' \in Names /\ days' \in Durations
  BY <1>1, <1>2, DoneType
<1> USE DEF TypeOK, Change
<1>3. CASE Rename(r)
  BY <1>2, <1>3, FormType DEF Rename
<1>4. CASE UpdateRetention(r)
  BY <1>2, <1>4, FormType DEF UpdateRetention
<1>5. CASE AddMember(r)
  BY <1>2, <1>5, FormType DEF AddMember
<1>6. CASE UpdateMemberRole(r)
  BY <1>2, <1>6, FormType DEF UpdateMemberRole
<1>7. CASE RemoveMember(r)
  BY <1>2, <1>7, FormType DEF RemoveMember, Roles
<1>8. CASE DeleteProject(r)
  BY <1>8 DEF DeleteProject, Roles
<1> QED  BY <1>3, <1>4, <1>5, <1>6, <1>7, <1>8

(* The page takes an answer in. *)
LEMMA ShowType ==
  ASSUME SettingsAssumption, TypeOK, NEW r \in Requests, Show(r)
  PROVE  TypeOK' /\ req[r] \in Calls /\ req[r].stage \in {"answered", "reloading"}
<1>1. req[r].stage \in {"answered", "reloading"}
  BY DEF Show, Forgotten, Hear, Load
<1>2. req[r] \in Calls /\ Mine(r) \in Staff /\ Mine(r) \in Users
  BY <1>1, CallType
<1>3. Free(r) => req' \in [Requests -> Calls \cup {NoCall}] /\ seen' \in [Requests -> Histories]
  BY DEF Free, TypeOK, NothingSeen, Histories
<1> SUFFICES req' \in [Requests -> Calls \cup {NoCall}] /\ seen' \in [Requests -> Histories]
                /\ page' \in [Staff -> Pages] /\ UNCHANGED <<project, sent>>
  BY <1>1, <1>2 DEF TypeOK, project
<1>4. CASE Forgotten(r)
  BY <1>3, <1>4 DEF Forgotten, TypeOK
<1>5. CASE Hear(r)
  <2> DEFINE u == Mine(r)
  <2>1. [page[u] EXCEPT !.open = FALSE] \in Pages
    BY <1>2, ZenonT(60) DEF TypeOK, Pages
  <2>2. Close(u) => page' \in [Staff -> Pages]
    BY <1>2, <2>1 DEF Close, TypeOK
  <2>3. [req[r] EXCEPT !.stage = "reloading", !.as = role[u], !.named = name] \in Calls
    BY <1>2 DEF TypeOK, Calls, Stages
  <2>4. req' = [req EXCEPT ![r].stage = "reloading", ![r].as = role[u], ![r].named = name] =>
          req' = [req EXCEPT ![r] = [req[r] EXCEPT !.stage = "reloading", !.as = role[u], !.named = name]]
    BY DEF TypeOK
  <2>5. UNCHANGED <<page, seen>> => page' \in [Staff -> Pages] /\ seen' \in [Requests -> Histories]
    BY DEF TypeOK
  <2>6. CASE Leads(r) \/ ~ IsListed(u)
    BY <1>3, <1>5, <2>2, <2>6 DEF Hear
  <2>7. CASE ~ (Leads(r) \/ ~ IsListed(u))
    <3>1. req' \in [Requests -> Calls \cup {NoCall}]
      BY <1>5, <2>3, <2>4, <2>7 DEF Hear, TypeOK
    <3> QED  BY <1>5, <2>5, <2>7, <3>1 DEF Hear
  <2> QED  BY <2>6, <2>7
<1>6. CASE Load(r)
  BY <1>2, <1>3, <1>6, LoadType DEF Load
<1> QED  BY <1>1, <1>2, <1>4, <1>5, <1>6 DEF Show

-----------------------------------------------------------------------------
(* What requests remember.                                                 *)

(* A request that another one's step leaves alone, but for its page's wait.  *)
LEMMA StaysTrue ==
  ASSUME NEW q \in Requests, Remembers(q), WarningTrue(q), UNCHANGED project, seen'[q] = seen[q],
         \/ req'[q] = req[q]
         \/ req[q] # NoCall /\ req'[q] = [req[q] EXCEPT !.awaited = FALSE] /\ req[q] \in Calls
  PROVE  Remembers(q)' /\ WarningTrue(q)'
<1>1. /\ req'[q].stage = req[q].stage /\ req'[q].form = req[q].form
      /\ req'[q].from = req[q].from /\ req'[q].named = req[q].named
      /\ req'[q].result = req[q].result /\ req'[q].warning = req[q].warning
      /\ req'[q] # NoCall => req[q] # NoCall
  BY DEF Calls
<1>2. UNCHANGED <<name, days, role>>
  BY DEF project
<1> QED  BY <1>1, <1>2 DEF Remembers, WarningTrue, Called, Answered, Entitled, Mine, Form, Intent

(* A change is added to what the others remember. *)
LEMMA KeepsTrue ==
  ASSUME SettingsAssumption, TypeOK, NEW q \in Requests, Remembers(q), WarningTrue(q), Keep, req'[q] = req[q]
  PROVE  Remembers(q)' /\ WarningTrue(q)'
<1>1. UNCHANGED <<Called(q), Answered(q), Mine(q), Form(q), Intent(q)>>
  BY DEF Called, Answered, Mine, Form, Intent
<1>2. CASE req[q] = NoCall
  BY <1>2 DEF Remembers, WarningTrue, Called, Answered, NoCall
<1>3. CASE req[q] # NoCall
  <2>1. /\ seen'[q].names = seen[q].names \cup {name'}
        /\ seen'[q].roles = seen[q].roles \cup {role'[Mine(q)]}
        /\ seen'[q].days = seen[q].days \cup {days'}
    BY <1>3 DEF Keep
  <2>2. Entitled(q) => Entitled(q)'
    BY <1>1, <2>1 DEF Entitled
  <2>3. Remembers(q)'
    BY <1>1, <2>1, <2>2 DEF Remembers
  <2> QED  BY <1>1, <2>3 DEF WarningTrue
<1> QED  BY <1>2, <1>3

(* A request that has been answered, or not been checked, promises no more.  *)
LEMMA PromisesNothing ==
  ASSUME NEW r \in Requests, req'[r] # NoCall => name' \in seen'[r].names,
         \/ req'[r].stage \in {"free", "made"}
         \/ req'[r].stage = "answered" /\ req'[r].result \in {"moved", "refused", "forbidden"}
  PROVE  Remembers(r)' /\ WarningTrue(r)'
<1>1. ~ Called(r)' /\ req'[r].stage \notin {"checked", "allowed", "cleared"}
  BY DEF Called
<1>2. ~ (Answered(r)' /\ req'[r].result = "success")
  BY DEF Answered
<1> QED  BY <1>1, <1>2 DEF Remembers, WarningTrue

(* Answer and Step change what they say. *)
LEMMA AnswerSays ==
  ASSUME TypeOK, NEW r \in Requests, req[r] \in Calls
  PROVE  /\ \A stage : Step(r, stage) =>
                req'[r].stage = stage /\ Mine(r)' = Mine(r) /\ Form(r)' = Form(r) /\ Intent(r)' = Intent(r)
                /\ req'[r].named = req[r].named /\ req'[r].warning = req[r].warning
                /\ \A q \in Requests \ {r} : req'[q] = req[q]
         /\ \A result : Answer(r, result) =>
                req'[r].stage = "answered" /\ req'[r].result = result
                /\ Mine(r)' = Mine(r) /\ Form(r)' = Form(r) /\ Intent(r)' = Intent(r)
                /\ req'[r].named = req[r].named /\ req'[r].warning = req[r].warning
                /\ \A q \in Requests \ {r} : req'[q] = req[q]
         /\ \A warning : Call(r, warning) =>
                req'[r].stage = "calling" /\ Mine(r)' = Mine(r) /\ Form(r)' = Form(r) /\ Intent(r)' = Intent(r)
                /\ req'[r].warning = warning
                /\ seen'[r].names = seen[r].names /\ seen'[r].roles = {role[Mine(r)]} /\ seen'[r].days = {days}
                /\ \A q \in Requests \ {r} : req'[q] = req[q] /\ seen'[q] = seen[q]
<1>1. ASSUME NEW stage, Step(r, stage)
      PROVE  req'[r].stage = stage /\ Mine(r)' = Mine(r) /\ Form(r)' = Form(r) /\ Intent(r)' = Intent(r)
             /\ req'[r].named = req[r].named /\ req'[r].warning = req[r].warning
             /\ \A q \in Requests \ {r} : req'[q] = req[q]
  BY <1>1 DEF Step, TypeOK, Calls, Mine, Form, Intent
<1>2. ASSUME NEW result, Answer(r, result)
      PROVE  req'[r].stage = "answered" /\ req'[r].result = result
             /\ Mine(r)' = Mine(r) /\ Form(r)' = Form(r) /\ Intent(r)' = Intent(r)
             /\ req'[r].named = req[r].named /\ req'[r].warning = req[r].warning
             /\ \A q \in Requests \ {r} : req'[q] = req[q]
  BY <1>2 DEF Answer, TypeOK, Calls, Mine, Form, Intent
<1>3. ASSUME NEW warning, Call(r, warning)
      PROVE  req'[r].stage = "calling" /\ Mine(r)' = Mine(r) /\ Form(r)' = Form(r) /\ Intent(r)' = Intent(r)
             /\ req'[r].warning = warning
             /\ seen'[r].names = seen[r].names /\ seen'[r].roles = {role[Mine(r)]} /\ seen'[r].days = {days}
             /\ \A q \in Requests \ {r} : req'[q] = req[q] /\ seen'[q] = seen[q]
  BY <1>3 DEF Call, TypeOK, Calls, Mine, Form, Intent, Histories
<1> QED  BY <1>1, <1>2, <1>3

(* Sending a form. *)
LEMMA SendTrue ==
  ASSUME SettingsAssumption, TypeOK, RemembersOK, WarningsOK,
         NEW r \in Requests, NEW u \in Staff, NEW form, Send(u, form, r)
  PROVE  RemembersOK' /\ WarningsOK'
<1>1. ASSUME NEW q \in Requests, q # r  PROVE Remembers(q)' /\ WarningTrue(q)'
  <2>1. seen'[q] = seen[q] /\ UNCHANGED project
    BY <1>1 DEF Send, TypeOK
  <2>2. \/ req'[q] = req[q]
        \/ q \in Pending(u, form.intent) /\ req'[q] = [req[q] EXCEPT !.awaited = FALSE]
    BY <1>1 DEF Send
  <2>3. q \in Pending(u, form.intent) => req[q] \in Calls /\ req[q] # NoCall
    BY CallType DEF Pending
  <2> QED  BY <2>1, <2>2, <2>3, StaysTrue DEF RemembersOK, WarningsOK
<1>2. req'[r].stage = "made" /\ name' \in seen'[r].names
  BY DEF Send, TypeOK, NothingSeen, Histories, project
<1>3. Remembers(r)' /\ WarningTrue(r)'
  BY <1>2, PromisesNothing
<1> QED  BY <1>1, <1>3 DEF RemembersOK, WarningsOK

(* The action's steps up to the broker's call: what the broker reads counts. *)
LEMMA CheckTrue ==
  ASSUME SettingsAssumption, AllowlistAssumption, TypeOK, RemembersOK, WarningsOK, NEW r \in Requests,
         CheckRetention(r) \/ CheckLogin(r) \/ CheckDelete(r) \/ CheckOthers(r)
  PROVE  RemembersOK' /\ WarningsOK'
<1>1. req[r].stage = "checked" /\ UNCHANGED <<project, page, sent>>
  BY DEF CheckRetention, CheckLogin, CheckDelete, CheckOthers
<1>2. req[r] \in Calls /\ req[r] # NoCall /\ Form(r) \in Forms /\ Mine(r) \in Users /\ Intent(r) = Form(r).intent
  BY <1>1, CallType DEF Form, Intent
<1>3. name \in seen[r].names /\ req[r].named \in seen[r].names /\ UNCHANGED <<role, name, days>>
  BY <1>1, <1>2 DEF RemembersOK, Remembers, project
<1>4. Refuse(r) \/ \E warning : Call(r, warning)
  BY DEF CheckRetention, CheckLogin, CheckDelete, CheckOthers
<1>5. \A q \in Requests \ {r} : req'[q] = req[q] /\ seen'[q] = seen[q]
  BY <1>2, <1>4, AnswerSays DEF Refuse
<1>6. \A q \in Requests \ {r} : Remembers(q)' /\ WarningTrue(q)'
  BY <1>1, <1>5, StaysTrue DEF RemembersOK, WarningsOK
<1>7. CASE Refuse(r)
  BY <1>2, <1>3, <1>6, <1>7, AnswerSays, PromisesNothing DEF Refuse, RemembersOK, WarningsOK
<1>8. ASSUME NEW warning, Call(r, warning)  PROVE Remembers(r)' /\ WarningTrue(r)'
  <2>1. /\ req'[r].stage = "calling" /\ Mine(r)' = Mine(r) /\ Form(r)' = Form(r) /\ Intent(r)' = Intent(r)
        /\ req'[r].warning = warning /\ seen'[r].names = seen[r].names
        /\ seen'[r].roles = {role[Mine(r)]} /\ seen'[r].days = {days}
    BY <1>2, <1>8, AnswerSays
  <2>2. Intent(r) = "delete" => Form(r).name \in seen[r].names
    <3>1. Intent(r) = "delete" /\ ~ Refuse(r) => NameMatches(r)
      BY DEF CheckRetention, CheckLogin, CheckDelete, CheckOthers
    <3>2. ~ Refuse(r)
      BY <1>8, <1>2, <2>1, AnswerSays DEF Refuse
    <3> QED  BY <1>3, <3>1, <3>2 DEF NameMatches
  <2>3. Remembers(r)'
    BY <1>3, <2>1, <2>2 DEF Remembers, Called
  <2>4. CASE Intent(r) # "add-member"
    BY <2>1, <2>3, <2>4 DEF WarningTrue
  <2>5. CASE Intent(r) = "add-member"
    <3>1. CheckLogin(r) /\ Form(r).login \in Users
      BY <1>2, <2>5, FormType DEF CheckRetention, CheckLogin, CheckDelete, CheckOthers
    <3>2. ~ Refuse(r)
      BY <1>8, <1>2, <2>1, AnswerSays DEF Refuse
    <3>3. PICK token, user, private, public :
            /\ token \in BOOLEAN /\ Truthful(Form(r).login, Mine(r), user, private, public)
            /\ LET check == CheckInvitee(Form(r).login, token, user, private, public) IN
               check \notin {"unknown", "organization"} /\ Call(r, InviteWarning(check))
      BY <3>1, <3>2 DEF CheckLogin, Truthful
    <3> DEFINE check == CheckInvitee(Form(r).login, token, user, private, public)
    <3>4. req'[r].warning = InviteWarning(check)
      BY <1>2, <3>3, AnswerSays
    <3>5. /\ check = "allowed" => CanSignIn(Form(r).login)
          /\ check = "certain" => ~ CanSignIn(Form(r).login)
          /\ check \in {"unknown", "unverified", "organization", "allowed", "certain", "uncertain"}
      BY <1>2, <3>1, <3>3, CheckIsTrue
    <3> HIDE DEF check
    <3>6. InviteWarning(check) = "none" => check \in {"unknown", "organization", "allowed"}
      BY <3>5 DEF InviteWarning
    <3>7. InviteWarning(check) = "cannot sign in" => check = "certain"
      BY <3>5 DEF InviteWarning
    <3>8. check \notin {"unknown", "organization"}
      BY <3>3 DEF check
    <3> QED  BY <2>1, <2>3, <3>4, <3>5, <3>6, <3>7, <3>8 DEF WarningTrue
  <2> QED  BY <2>3, <2>4, <2>5
<1> QED  BY <1>4, <1>6, <1>7, <1>8 DEF RemembersOK, WarningsOK

(* The action's first look, the broker's two, and a change that fails.       *)
LEMMA AuthorizeTrue ==
  ASSUME SettingsAssumption, TypeOK, RemembersOK, WarningsOK, NEW r \in Requests,
         RequireProject(r) \/ AuthorizeProject(r) \/ CompareRetention(r) \/ ChangeFails(r)
  PROVE  RemembersOK' /\ WarningsOK'
<1>1. /\ req[r].stage \in {"made", "calling", "allowed", "cleared"}
      /\ UNCHANGED <<project, page, sent, seen>>
  BY DEF RequireProject, AuthorizeProject, CompareRetention, ChangeFails
<1>2. req[r] \in Calls /\ req[r] # NoCall /\ Mine(r) \in Users
  BY <1>1, CallType
<1>3. Remembers(r) /\ WarningTrue(r) /\ name \in seen[r].names
  BY <1>2 DEF RemembersOK, WarningsOK, Remembers
<1>4. UNCHANGED <<role, name, days, seen>>
  BY <1>1 DEF project
<1>5. \/ \E stage : Step(r, stage) \/ \E result : Answer(r, result)
      \/ req' = [req EXCEPT ![r].stage = "checked", ![r].as = role[Mine(r)], ![r].named = name]
  BY DEF RequireProject, AuthorizeProject, CompareRetention, ChangeFails
<1>6. ASSUME NEW q \in Requests, q # r  PROVE Remembers(q)' /\ WarningTrue(q)'
  <2>1. req'[q] = req[q]
    BY <1>2, <1>5, <1>6, AnswerSays DEF TypeOK
  <2> QED  BY <1>1, <2>1, StaysTrue DEF RemembersOK, WarningsOK
<1> SUFFICES Remembers(r)' /\ WarningTrue(r)'
  BY <1>6 DEF RemembersOK, WarningsOK
<1>7. ASSUME NEW result \in {"moved", "refused", "forbidden"}, Answer(r, result)
      PROVE  Remembers(r)' /\ WarningTrue(r)'
  BY <1>2, <1>3, <1>4, <1>7, AnswerSays, PromisesNothing
<1>8. CASE RequireProject(r)
  <2>1. CASE req' = [req EXCEPT ![r].stage = "checked", ![r].as = role[Mine(r)], ![r].named = name]
    <3>1. req'[r].stage = "checked" /\ req'[r].named = name
      BY <1>2, <2>1 DEF TypeOK, Calls
    <3> QED  BY <1>3, <1>4, <3>1 DEF Remembers, WarningTrue, Called, Answered
  <2> QED  BY <1>7, <1>8, <2>1 DEF RequireProject
<1>9. CASE AuthorizeProject(r)
  <2>1. CASE Answer(r, "forbidden")
    BY <1>7, <2>1
  <2>2. ASSUME ~ Answer(r, "forbidden")
        PROVE  /\ Suffices(Intent(r), role[Mine(r)]) /\ req[r].stage = "calling"
               /\ \/ Step(r, "allowed") /\ Intent(r) = "retention" /\ role[Mine(r)] = "member"
                  \/ Step(r, "cleared") /\ role[Mine(r)] = "owner"
    BY <1>9, <2>2 DEF AuthorizeProject, Suffices
  <2>3. ASSUME NEW stage \in {"allowed", "cleared"}, Step(r, stage), ~ Answer(r, "forbidden")
        PROVE  Remembers(r)' /\ WarningTrue(r)'
    <3>1. /\ req'[r].stage = stage /\ Mine(r)' = Mine(r) /\ Form(r)' = Form(r) /\ Intent(r)' = Intent(r)
          /\ req'[r].warning = req[r].warning
      BY <1>2, <2>3, AnswerSays
    <3>2. /\ role[Mine(r)] \in seen[r].roles /\ days \in seen[r].days
          /\ Intent(r) = "delete" => Form(r).name \in seen[r].names
      BY <1>3, <2>2, <2>3 DEF Remembers, Called
    <3>3. stage = "allowed" => Intent(r) = "retention" /\ role[Mine(r)] = "member"
      BY <1>2, <2>2, <2>3, <3>1, AnswerSays
    <3>4. stage = "cleared" => role[Mine(r)] = "owner"
      BY <1>2, <2>2, <2>3, <3>1, AnswerSays
    <3>5. stage = "cleared" => Entitled(r)'
      BY <1>4, <3>1, <3>2, <3>4 DEF Entitled
    <3>6. Called(r)' /\ ~ Answered(r)'
      BY <2>3, <3>1 DEF Called, Answered
    <3>7. Remembers(r)'
      BY <1>3, <1>4, <2>3, <3>1, <3>2, <3>3, <3>5 DEF Remembers
    <3>8. Called(r)
      BY <2>2, <2>3 DEF Called
    <3> QED  BY <1>3, <3>1, <3>6, <3>7, <3>8 DEF WarningTrue
  <2> QED  BY <2>1, <2>2, <2>3
<1>10. CASE CompareRetention(r)
  <2>1. CASE Step(r, "cleared") /\ ~ Answer(r, "refused")
    <3>1. /\ req'[r].stage = "cleared" /\ Mine(r)' = Mine(r) /\ Form(r)' = Form(r) /\ Intent(r)' = Intent(r)
          /\ req'[r].warning = req[r].warning
      BY <1>2, <2>1, AnswerSays
    <3>2. req[r].stage = "allowed" /\ ~ LowersRetention(days, Form(r).days)
      BY <1>10, <2>1 DEF CompareRetention
    <3>3. Called(r) /\ Called(r)' /\ ~ Answered(r)'
      BY <3>1, <3>2 DEF Called, Answered
    <3>4. /\ role[Mine(r)] \in seen[r].roles /\ days \in seen[r].days
          /\ Intent(r) = "retention" /\ "member" \in seen[r].roles
      BY <1>3, <3>2, <3>3 DEF Remembers
    <3>5. Entitled(r)'
      BY <1>4, <3>1, <3>2, <3>4 DEF Entitled
    <3>6. Remembers(r)'
      BY <1>3, <1>4, <3>1, <3>4, <3>5 DEF Remembers
    <3> QED  BY <1>3, <3>1, <3>3, <3>6 DEF WarningTrue
  <2> QED  BY <1>7, <1>10, <2>1 DEF CompareRetention
<1>11. CASE ChangeFails(r)
  BY <1>7, <1>11 DEF ChangeFails
<1> QED  BY <1>8, <1>9, <1>10, <1>11

(* A change: what was remembered of the others is still among it.           *)
LEMMA ChangeTrue ==
  ASSUME SettingsAssumption, TypeOK, RemembersOK, WarningsOK, NEW r \in Requests, req[r] \in Calls,
         req[r].stage = "cleared", Done(r)
  PROVE  RemembersOK' /\ WarningsOK'
<1>1. /\ Keep /\ req'[r].stage = "answered" /\ Form(r)' = Form(r) /\ Intent(r)' = Intent(r)
      /\ req'[r].warning = req[r].warning /\ \A q \in Requests \ {r} : req'[q] = req[q]
  BY AnswerSays DEF Done
<1>2. \A q \in Requests \ {r} : Remembers(q)' /\ WarningTrue(q)'
  BY <1>1, KeepsTrue DEF RemembersOK, WarningsOK
<1>3. req[r] # NoCall
  BY CallType
<1>4. name' \in seen'[r].names
  BY <1>1, <1>3 DEF Keep
<1>5. Called(r) /\ ~ Called(r)'
  BY <1>1 DEF Called
<1>6. Remembers(r)'
  BY <1>1, <1>4, <1>5 DEF Remembers
<1>7. WarningTrue(r)'
  BY <1>1, <1>5 DEF WarningTrue, WarningsOK
<1> QED  BY <1>2, <1>6, <1>7 DEF RemembersOK, WarningsOK

(* The page takes the answer in. *)
LEMMA ShowTrue ==
  ASSUME SettingsAssumption, TypeOK, RemembersOK, WarningsOK, NEW r \in Requests, req[r] \in Calls,
         req[r].stage \in {"answered", "reloading"}, Show(r)
  PROVE  RemembersOK' /\ WarningsOK'
<1>1. UNCHANGED project /\ req[r] # NoCall
  BY CallType DEF Show, Forgotten, Hear, Load
<1>2. \/ Free(r)
      \/ /\ req[r].stage = "answered" /\ UNCHANGED seen
         /\ req' = [req EXCEPT ![r].stage = "reloading", ![r].as = role[Mine(r)], ![r].named = name]
  BY DEF Show, Forgotten, Hear, Load
<1>3. ASSUME NEW q \in Requests, q # r  PROVE Remembers(q)' /\ WarningTrue(q)'
  <2>1. req'[q] = req[q] /\ seen'[q] = seen[q]
    BY <1>2, <1>3 DEF Free, TypeOK
  <2> QED  BY <1>1, <2>1, StaysTrue DEF RemembersOK, WarningsOK
<1> SUFFICES Remembers(r)' /\ WarningTrue(r)'
  BY <1>3 DEF RemembersOK, WarningsOK
<1>4. CASE Free(r)
  <2>1. req'[r] = NoCall /\ req'[r].stage = "free"
    BY <1>4 DEF Free, TypeOK, NoCall
  <2> QED  BY <2>1, PromisesNothing
<1>5. CASE /\ req[r].stage = "answered" /\ UNCHANGED seen
           /\ req' = [req EXCEPT ![r].stage = "reloading", ![r].as = role[Mine(r)], ![r].named = name]
  <2>1. /\ req'[r].stage = "reloading" /\ req'[r].form = req[r].form /\ req'[r].result = req[r].result
        /\ req'[r].warning = req[r].warning
    BY <1>5 DEF TypeOK, Calls
  <2>2. name' \in seen'[r].names
    BY <1>1, <1>5 DEF RemembersOK, Remembers, project
  <2>3. Remembers(r)'
    BY <2>1, <2>2 DEF Remembers, Called
  <2>4. WarningTrue(r)'
    BY <1>5, <2>1 DEF WarningTrue, WarningsOK, Called, Answered, Intent, Form
  <2> QED  BY <2>3, <2>4
<1> QED  BY <1>2, <1>4, <1>5

-----------------------------------------------------------------------------
(* Every step keeps the invariant. *)
LEMMA NextIInv == ASSUME SettingsAssumption, AllowlistAssumption, IInv, [Next]_vars  PROVE IInv'
<1>1. TypeOK /\ RemembersOK /\ WarningsOK
  BY DEF IInv
<1>2. CASE UNCHANGED vars
  <2>1. TypeOK'
    BY <1>1, <1>2 DEF vars, project, TypeOK
  <2>2. UNCHANGED project /\ \A q \in Requests : req'[q] = req[q] /\ seen'[q] = seen[q]
    BY <1>2 DEF vars
  <2>3. RemembersOK' /\ WarningsOK'
    BY <1>1, <2>2, StaysTrue DEF RemembersOK, WarningsOK
  <2> QED  BY <2>1, <2>3 DEF IInv
<1>3. ASSUME NEW r \in Requests, Serve(r)  PROVE IInv'
  <2>1. CASE \/ RequireProject(r) \/ CheckRetention(r) \/ CheckLogin(r) \/ CheckDelete(r) \/ CheckOthers(r)
             \/ AuthorizeProject(r) \/ CompareRetention(r) \/ ChangeFails(r)
    BY <1>1, <2>1, ActionType, CheckTrue, AuthorizeTrue DEF IInv
  <2>2. CASE \/ Rename(r) \/ UpdateRetention(r) \/ AddMember(r) \/ UpdateMemberRole(r) \/ RemoveMember(r)
             \/ DeleteProject(r)
    BY <1>1, <2>2, ChangeType, ChangeTrue DEF IInv
  <2> QED  BY <1>3, <2>1, <2>2 DEF Serve
<1>4. ASSUME NEW r \in Requests, Show(r)  PROVE IInv'
  BY <1>1, <1>4, ShowType, ShowTrue DEF IInv
<1>5. ASSUME NEW r \in Requests, NEW u \in Staff, NEW form \in Offers(u), Send(u, form, r)  PROVE IInv'
  <2>1. form \in Forms
    BY OffersType
  <2> QED  BY <1>1, <1>5, <2>1, SendType, SendTrue DEF IInv
<1> QED  BY <1>2, <1>3, <1>4, <1>5 DEF Next

(* The invariant holds in every reachable state of the settings page. *)
THEOREM SettingsInvariant == Spec => []IInv
<1>1. Init => IInv
  BY InitIInv, SettingsAssumption
<1>2. IInv /\ [Next]_vars => IInv'
  BY NextIInv, SettingsAssumption, AllowlistAssumption
<1> QED  BY <1>1, <1>2, PTL DEF Spec

(* The variables keep their types. *)
THEOREM TypeCorrect == Spec => []TypeOK
<1>1. IInv => TypeOK
  BY DEF IInv
<1> QED  BY <1>1, SettingsInvariant, PTL

(* An owner is told the truth of whether the one just added can sign in,     *)
(* whatever GitHub fails to answer (checkInvitee and inviteWarning).       *)
THEOREM OwnersAreToldTheTruth == Spec => []WarningsTrue
<1>1. IInv => WarningsTrue
  BY DEF IInv, WarningsOK, WarningTrue, WarningsTrue
<1> QED  BY <1>1, SettingsInvariant, PTL

(* Nothing is changed by a stale page but by who was entitled to it since    *)
(* the broker was called, and no project deleted but by a name it had.     *)
THEOREM NoStaleChange == Spec => StaleTabsPowerless
<1>1. IInv => [\A r \in Requests : Acts(r) => Entitled(r)]_vars
  BY DEF IInv, RemembersOK, Remembers, Acts
<1> QED  BY <1>1, SettingsInvariant, PTL DEF StaleTabsPowerless

=============================================================================
