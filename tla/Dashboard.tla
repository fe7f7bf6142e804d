----------------------------- MODULE Dashboard -----------------------------
(***************************************************************************)
(* The dashboard as one browser sees it (frontend/app): the session, which *)
(* is a cookie and nothing else, several tabs whose requests overlap, the  *)
(* loaders and actions of the routes, and other people who change projects *)
(* meanwhile.                                                              *)
(*                                                                         *)
(* A request carries the cookie the browser had when it was sent. What its *)
(* answer commits replaces the whole cookie when its headers arrive; the   *)
(* page follows when the rest has. An action is one call to the broker, or *)
(* one step of the browser.                                                *)
(***************************************************************************)
EXTENDS Allowlist, FiniteSets

CONSTANTS
  Tabs,
  Projects,
  None,
  Foundings,   \* who is in which project to begin with
  Visits,      \* URLs a user may type, follow or have bookmarked
  MaxClicks,   \* bound on what the user does
  MaxChanges,  \* bound on what others do, and on the session's expiry
  MaxTokens    \* bound on CSRF tokens

VARIABLES
  role,     \* project_members: role[u][p]
  unborn,   \* ids no project has had yet
  gone,     \* ids of deleted projects
  jar,      \* the cookie in the browser
  page,     \* what each tab shows
  nav,      \* where each tab is going, if anywhere
  post,     \* the form a fetcher of each tab is submitting, if any
  tokens,   \* CSRF tokens made so far
  coming,   \* the project a switch must land a tab on (history)
  clicks, changes

world == <<role, unborn, gone>>
counters == <<clicks, changes>>
vars == <<world, jar, page, nav, post, tokens, coming, counters>>

Routes == {"auth", "dashboard", "events", "event", "newEvent", "keys", "forward",
           "projects", "new", "settings"}
URLs == [route : Routes, id : Projects \cup {None}]
At(route) == [route |-> route, id |-> None]
Settings(p) == [route |-> "settings", id |-> p]

ASSUME DashboardAssumption ==
  /\ None \notin Users \cup Projects
  /\ Foundings \subseteq [Users -> [Projects -> {"none", "member", "owner"}]]
  /\ Visits \subseteq URLs
  /\ \A url \in Visits : url.route = "settings" => url.id \in Projects
  /\ MaxClicks \in Nat /\ MaxChanges \in Nat /\ MaxTokens \in Nat

(* Pages that show what the session's project holds. *)
Scoped == {"dashboard", "events", "event", "keys"}

(* SessionData, the GitHub token left out; csrf 0 and None are "not set".   *)
Sessions == [user : Users \cup {None}, csrf : Nat, project : Projects \cup {None}]
NoSession == [user |-> None, csrf |-> 0, project |-> None]

(* What a tab shows: the layout's data and, for some routes, a project's.   *)
Pages == [kind : {"blank", "page", "error"}, url : URLs, header : Projects \cup {None},
          csrf : Nat, list : SUBSET Projects, data : SUBSET Projects]
Blank == [kind |-> "blank", url |-> At("auth"), header |-> None, csrf |-> 0,
          list |-> {}, data |-> {}]
AuthPage == [Blank EXCEPT !.kind = "page"]
ErrorPage == [Blank EXCEPT !.kind = "error"]

(* What comes back from the server: where to go next, or else what to show; *)
(* and the session it commits, if it commits one.                           *)
Answers == [to : SUBSET URLs, page : Pages, set : SUBSET Sessions]
Redirect(url, set) == [to |-> {url}, page |-> Blank, set |-> set]
Show(pg, set) == [to |-> {}, page |-> pg, set |-> set]
NoAnswer == Show(Blank, {})

LayoutAnswers == [kind : {"wait", "auth", "again", "new", "page"}, session : Sessions,
                  list : SUBSET Projects]
ChildAnswers == [kind : {"wait", "to", "data", "error"}, url : URLs, data : SUBSET Projects]
NoLayout == [kind |-> "wait", session |-> NoSession, list |-> {}]
NoChild == [kind |-> "wait", url |-> At("auth"), data |-> {}]

Navs == [stage : {"idle", "sent", "heard"}, what : {"load", "switch", "callback"},
         url : URLs, arg : Projects \cup Users \cup {None}, form : Nat, session : Sessions,
         layout : LayoutAnswers, child : ChildAnswers, answer : Answers]
Idle == [stage |-> "idle", what |-> "load", url |-> At("auth"), arg |-> None, form |-> 0,
         session |-> NoSession, layout |-> NoLayout, child |-> NoChild, answer |-> NoAnswer]
Asking(url, s) == [Idle EXCEPT !.stage = "sent", !.url = url, !.session = s]

Scopes == {"mint", "revoke", "addEvent", "removeEvent"}
Forms == Scopes \cup {"create", "delete"}
Posts == [stage : {"none", "sent", "checked", "served"}, what : Forms, arg : Projects \cup {None},
          form : Nat, session : Sessions, here : BOOLEAN, answer : Answers,
          created : Projects \cup {None}]
NoPost == [stage |-> "none", what |-> "mint", arg |-> None, form |-> 0, session |-> NoSession,
           here |-> FALSE, answer |-> NoAnswer, created |-> None]

TypeOK ==
  /\ role \in [Users -> [Projects -> {"none", "member", "owner"}]]
  /\ unborn \in SUBSET Projects /\ gone \in SUBSET Projects
  /\ jar \in Sessions
  /\ page \in [Tabs -> Pages]
  /\ nav \in [Tabs -> Navs]
  /\ post \in [Tabs -> Posts]
  /\ tokens \in Nat
  /\ coming \in [Tabs -> SUBSET Projects]
  /\ clicks \in Nat /\ changes \in Nat

(* The pages of a session: what a URL shows to a member of its project.     *)
OpenedURLs(s) ==
  {url \in Visits : /\ url.route \notin {"auth", "forward"}
                    /\ url.route = "settings" => role[s.user][url.id] # "none"
                    /\ url.route = "event" => url.id = s.project}
Opened(s, url) ==
  [kind |-> "page", url |-> url, header |-> s.project, csrf |-> s.csrf,
   list |-> {p \in Projects : role[s.user][p] # "none"},
   data |-> IF url.route \in Scoped THEN {s.project}
            ELSE IF url.route = "settings" THEN {url.id} ELSE {}]
OpenedPages(s) == {AuthPage} \cup {Opened(s, url) : url \in OpenedURLs(s)}

(* A browser with some pages of its session open, or with the sign-in page.  *)
Init ==
  /\ role \in Foundings
  /\ unborn = {p \in Projects : \A u \in Users : role[u][p] = "none"} /\ gone = {}
  /\ \E u \in Users, p \in Projects :
       LET s == [user |-> u, csrf |-> 1, project |-> p] IN
       /\ CanSignIn(u) /\ role[u][p] # "none"
       /\ jar = s
       /\ page \in [Tabs -> OpenedPages(s)]
  /\ tokens = 1
  /\ nav = [t \in Tabs |-> Idle]
  /\ post = [t \in Tabs |-> NoPost]
  /\ coming = [t \in Tabs |-> {}]
  /\ clicks = 0 /\ changes = 0

-----------------------------------------------------------------------------
(* The broker, as the Api class asks it for u: which calls it carries out.  *)
(* A key or an event is found only in the project it is asked for.           *)

GetProjects(u) == {p \in Projects : role[u][p] # "none"}
Reaches(u, p) == p # None /\ role[u][p] # "none"

GetKeys(u, p) == Reaches(u, p)
CreateKey(u, p) == Reaches(u, p)

DeleteKey(u, p, of) == Reaches(u, p) /\ of = p

GetMetrics(u, p) == Reaches(u, p)
GetLogs(u, p) == Reaches(u, p)
GetLog(u, p, of) == Reaches(u, p) /\ of = p
CreateLog(u, p) == Reaches(u, p)

DeleteLog(u, p, of) == Reaches(u, p) /\ of = p

DeleteProject(u, p) == role[u][p] = "owner"

RoleSet(u, p, r) == role' = [role EXCEPT ![u][p] = r]
RemoveAll(p) == role' = [u \in Users |-> [role[u] EXCEPT ![p] = "none"]]

-----------------------------------------------------------------------------
(* What the user does.                                                     *)

Click == clicks < MaxClicks /\ clicks' = clicks + 1

(* A navigation gives up the one before it and what that would have shown;  *)
(* the switch it may have been part of is off, and so is whatever a form     *)
(* sent before would have led to.                                            *)
Go(t, n) ==
  /\ nav' = [nav EXCEPT ![t] = n]
  /\ post' = [post EXCEPT ![t].here = FALSE]

Visit(t, url) ==
  /\ Click
  /\ Go(t, Asking(url, jar))
  /\ coming' = [coming EXCEPT ![t] = {}]
  /\ UNCHANGED <<world, jar, page, tokens, changes>>

(* The button of the sign-in page; GitHub sends u back with a code. The     *)
(* cookie is SameSite=Strict: the browser may leave it out of a request     *)
(* that began on another site.                                              *)
SignInAtGitHub(t, u) ==
  /\ page[t] = AuthPage
  /\ Click
  /\ \E s \in {jar, NoSession} :
       Go(t, [Idle EXCEPT !.stage = "sent", !.what = "callback", !.arg = u, !.session = s])
  /\ coming' = [coming EXCEPT ![t] = {}]
  /\ UNCHANGED <<world, jar, page, tokens, changes>>

(* ProjectSwitcher, and the tiles of the projects page, which open the      *)
(* current project as well.                                                 *)
Switchable(t) ==
  IF page[t].url.route = "projects" THEN page[t].list ELSE page[t].list \ {page[t].header}

(* switchTo comes back to where it was, open goes to the dashboard.         *)
BackTo(pg) == IF pg.url.route = "projects" THEN At("dashboard") ELSE pg.url

Switch(t, p) ==
  /\ page[t].kind = "page" /\ p \in Switchable(t)
  /\ Click
  /\ Go(t, [Idle EXCEPT !.stage = "sent", !.what = "switch", !.url = BackTo(page[t]), !.arg = p,
                        !.form = page[t].csrf, !.session = jar])
  /\ coming' = [coming EXCEPT ![t] = {}]
  /\ UNCHANGED <<world, jar, page, tokens, changes>>

(* The forms of each page, if it has something to show; they name a key or   *)
(* an event of the project whose page it is, or the project of the URL.       *)
On(t, route) == page[t].kind = "page" /\ page[t].url.route = route
HasProject(t) == page[t].data # {}

MintForms(t) == IF On(t, "keys") /\ HasProject(t) THEN {"mint"} ELSE {}
RevokeForms(t) == IF On(t, "keys") /\ HasProject(t) THEN {"revoke"} ELSE {}
EventForms(t) == IF On(t, "events") /\ HasProject(t) THEN {"removeEvent"} ELSE {}
NewEventForms(t) == IF On(t, "newEvent") THEN {"addEvent"} ELSE {}
NewProjectForms(t) == IF On(t, "new") THEN {"create"} ELSE {}
SettingsForms(t) == IF On(t, "settings") THEN {"delete"} ELSE {}

FormsOf(t) ==
  MintForms(t) \cup RevokeForms(t) \cup EventForms(t)
  \cup NewEventForms(t) \cup NewProjectForms(t) \cup SettingsForms(t)

Named(t, what) ==
  IF what = "delete" THEN page[t].url.id
  ELSE IF what \in {"revoke", "removeEvent"} THEN page[t].header ELSE None

Submit(t, what) ==
  /\ what \in FormsOf(t) /\ post[t].stage = "none"
  /\ Click
  /\ post' = [post EXCEPT ![t] =
       [NoPost EXCEPT !.stage = "sent", !.what = what, !.arg = Named(t, what), !.form = page[t].csrf,
                      !.session = jar, !.here = TRUE]]
  /\ UNCHANGED <<world, jar, page, nav, tokens, coming, changes>>

-----------------------------------------------------------------------------
(* A page is loaded: the layout's loader and the route's run beside each    *)
(* other, on one cookie.                                                    *)

Loading(t) == nav[t].stage = "sent" /\ nav[t].what = "load" /\ nav[t].url.route # "auth"

(* projects.find(stored) ?? projects.at(0); the broker's order is fixed.    *)
CurrentProject(list, stored) ==
  IF stored \in list THEN stored
  ELSE IF list = {} THEN None ELSE CHOOSE p \in list : TRUE

(* getOrCreateCsrfToken: tokens' is the new one, if one is needed.          *)
NeedsToken(s) == s.csrf = 0
CsrfToken(s) == IF NeedsToken(s) THEN tokens + 1 ELSE s.csrf
TokenMade(s) == IF NeedsToken(s) THEN tokens < MaxTokens /\ tokens' = tokens + 1 ELSE UNCHANGED tokens

LayoutDone(t, kind, s, list) ==
  nav' = [nav EXCEPT ![t].layout = [kind |-> kind, session |-> s, list |-> list]]

LayoutRequiresAuth(t) ==
  /\ nav[t].session.user = None
  /\ LayoutDone(t, "auth", NoSession, {})
  /\ UNCHANGED tokens

(* The stored project is not, or no longer, the user's: reload.            *)
LayoutCorrects(t) ==
  LET s == nav[t].session
      list == GetProjects(s.user)
      current == CurrentProject(list, s.project)
  IN  /\ s.user # None /\ current # s.project
      /\ LayoutDone(t, "again", [s EXCEPT !.csrf = CsrfToken(s), !.project = current], list)
      /\ TokenMade(s)

LayoutSendsToNew(t) ==
  LET s == nav[t].session IN
  /\ s.user # None /\ s.project = None
  /\ GetProjects(s.user) = {} /\ nav[t].url.route # "new"
  /\ LayoutDone(t, "new", NoSession, {})
  /\ UNCHANGED tokens

(* Mutant: the corrected session is committed, the page shown all the same. *)
LayoutShowsCorrected(t) ==
  LET s == nav[t].session
      list == GetProjects(s.user)
      current == CurrentProject(list, s.project)
  IN  /\ s.user # None
      /\ list # {} \/ nav[t].url.route = "new"
      /\ LayoutDone(t, "page", [s EXCEPT !.csrf = CsrfToken(s), !.project = current], list)
      /\ TokenMade(s)

LayoutShows(t) ==
  LET s == nav[t].session
      list == GetProjects(s.user)
  IN  /\ s.user # None /\ CurrentProject(list, s.project) = s.project
      /\ list # {} \/ nav[t].url.route = "new"
      /\ LayoutDone(t, "page", [s EXCEPT !.csrf = CsrfToken(s)], list)
      /\ TokenMade(s)

LayoutLoads(t) ==
  /\ Loading(t) /\ nav[t].layout.kind = "wait"
  /\ LayoutRequiresAuth(t) \/ LayoutCorrects(t) \/ LayoutSendsToNew(t) \/ LayoutShows(t)
  /\ UNCHANGED <<world, jar, page, post, coming, counters>>

Child(kind, url, data) == [kind |-> kind, url |-> url, data |-> data]
ChildTo(url) == Child("to", url, {})
ChildData(data) == Child("data", At("auth"), data)
ChildError == Child("error", At("auth"), {})

(* The loaders of the pages of the session's project. What the broker's      *)
(* refusal comes to differs: the keys and the metrics, which come after the   *)
(* page, leave an error; the events an alert above an empty table.            *)
Loads(answered, p, refused) == IF answered THEN {ChildData({p})} ELSE {refused}

DashboardLoader(s) ==
  IF s.project = None THEN {ChildData({})}
  ELSE Loads(GetMetrics(s.user, s.project), s.project, ChildError)
KeysLoader(s) ==
  IF s.project = None THEN {ChildData({})}
  ELSE Loads(GetKeys(s.user, s.project), s.project, ChildError)
EventsLoader(s) ==
  IF s.project = None THEN {ChildData({})}
  ELSE Loads(GetLogs(s.user, s.project), s.project, ChildData({}))

(* An event of project q, if it is still there. *)
EventLoader(s, q) ==
  IF s.project = None THEN {ChildTo(At("new"))}
  ELSE {ChildTo(At("events"))}
       \cup (IF GetLog(s.user, s.project, q) THEN {ChildData({q})} ELSE {})

ForwardLoader(s) ==
  IF s.project = None THEN {ChildTo(At("new"))} ELSE {ChildTo(Settings(s.project))}

(* requireProject asks for the URL's project, whatever the session's.       *)
SettingsLoader(s, p) ==
  IF Reaches(s.user, p) THEN {ChildData({p}), ChildError} ELSE {ChildTo(At("projects"))}

(* The pages that create a project or an event, and the list of projects,     *)
(* have no loader of their own.                                            *)
ChildLoader(s, url) ==
  IF url.route \in {"projects", "new", "newEvent"} THEN {ChildData({})}
  ELSE IF s.user = None THEN {ChildTo(At("auth"))}
  ELSE IF url.route = "dashboard" THEN DashboardLoader(s)
  ELSE IF url.route = "keys" THEN KeysLoader(s)
  ELSE IF url.route = "events" THEN EventsLoader(s)
  ELSE IF url.route = "event" THEN EventLoader(s, url.id)
  ELSE IF url.route = "forward" THEN ForwardLoader(s)
  ELSE SettingsLoader(s, url.id)

ChildLoads(t) ==
  /\ Loading(t) /\ nav[t].child.kind = "wait"
  /\ \E c \in ChildLoader(nav[t].session, nav[t].url) : nav' = [nav EXCEPT ![t].child = c]
  /\ UNCHANGED <<world, jar, page, post, tokens, coming, counters>>

(* Mutant: the corrected session is not committed with the redirect.       *)
LayoutRedirectsBare(n) ==
  IF n.layout.kind = "auth" THEN {Redirect(At("auth"), {})}
  ELSE IF n.layout.kind = "again" THEN {Redirect(n.url, {})}
  ELSE IF n.layout.kind = "new" THEN {Redirect(At("new"), {})} ELSE {}

(* What the two come to: a redirect of either, an error, or the page. An    *)
(* error may or may not carry the session the layout commits.               *)
LayoutRedirects(n) ==
  IF n.layout.kind = "auth" THEN {Redirect(At("auth"), {})}
  ELSE IF n.layout.kind = "again" THEN {Redirect(n.url, {n.layout.session})}
  ELSE IF n.layout.kind = "new" THEN {Redirect(At("new"), {})} ELSE {}

ChildRedirects(n) == IF n.child.kind = "to" THEN {Redirect(n.child.url, {})} ELSE {}
Redirects(n) == LayoutRedirects(n) \cup ChildRedirects(n)

PageOf(n) ==
  [kind |-> "page", url |-> n.url, header |-> n.layout.session.project, csrf |-> n.layout.session.csrf,
   list |-> n.layout.list, data |-> n.child.data]

Loaded(n) ==
  IF n.url.route = "auth" THEN {Show(AuthPage, {})}
  ELSE IF n.layout.kind = "wait" \/ n.child.kind = "wait" THEN {}
  ELSE IF Redirects(n) # {} THEN Redirects(n)
  ELSE IF n.child.kind = "error"
  THEN {Show(ErrorPage, {}), Show(ErrorPage, {n.layout.session})}
  ELSE {Show(PageOf(n), {n.layout.session})}

-----------------------------------------------------------------------------
(* The actions behind a navigation.                                        *)

Authorized(s) == s.user # None
ValidCsrf(s, form) == s.csrf # 0 /\ s.csrf = form

SwitchAccepted(n) ==
  Authorized(n.session) /\ ValidCsrf(n.session, n.form) /\ Reaches(n.session.user, n.arg)

(* Mutant: the session is changed and not committed.                       *)
SwitchAnswerForgets(n) ==
  IF ~ Authorized(n.session) THEN Redirect(At("auth"), {})
  ELSE IF ~ ValidCsrf(n.session, n.form) THEN Show(ErrorPage, {})
  ELSE Redirect(n.url, {})

(* The switch action: a project that is not the user's changes nothing.     *)
SwitchAnswer(n) ==
  IF ~ Authorized(n.session) THEN Redirect(At("auth"), {})
  ELSE IF ~ ValidCsrf(n.session, n.form) THEN Show(ErrorPage, {})
  ELSE IF ~ SwitchAccepted(n) THEN Redirect(n.url, {})
  ELSE Redirect(n.url, {[n.session EXCEPT !.project = n.arg]})

(* handleGitHubCallback: what the cookie held besides the user stays.       *)
CallbackAnswers(n) ==
  {IF allowed THEN Redirect(At("dashboard"), {[n.session EXCEPT !.user = n.arg]})
   ELSE Redirect(At("auth"), {}) : allowed \in SignIn(n.arg)}

-----------------------------------------------------------------------------
(* The browser takes an answer in.                                         *)

(* commitSession: the answer's cookie replaces whatever is in the jar.      *)
Commit(set) == jar' = IF set = {} THEN jar ELSE CHOOSE s \in set : TRUE

(* A cookie another tab commits may undo a switch on its way.              *)
Disturb(t, set) ==
  [s \in Tabs |-> IF s # t /\ set # {} THEN {} ELSE coming[s]]

(* The project the user has chosen, who is still in it.                     *)
Chosen(u, p) == IF Reaches(u, p) THEN {p} ELSE {}

Hear(t, a) ==
  /\ Commit(a.set)
  /\ nav' = [nav EXCEPT ![t] = [Idle EXCEPT !.stage = "heard", !.answer = a]]
  /\ UNCHANGED <<world, page, post, tokens, counters>>

HearLoad(t) ==
  /\ nav[t].stage = "sent" /\ nav[t].what = "load"
  /\ \E a \in Loaded(nav[t]) : Hear(t, a) /\ coming' = Disturb(t, a.set)

HearSwitch(t) ==
  /\ nav[t].stage = "sent" /\ nav[t].what = "switch"
  /\ LET a == SwitchAnswer(nav[t]) IN
       Hear(t, a) /\ coming' = [Disturb(t, a.set) EXCEPT ![t] =
                  IF SwitchAccepted(nav[t]) THEN {nav[t].arg} ELSE {}]

HearCallback(t) ==
  /\ nav[t].stage = "sent" /\ nav[t].what = "callback"
  /\ \E a \in CallbackAnswers(nav[t]) : Hear(t, a) /\ coming' = Disturb(t, a.set)

Follow(t) ==
  /\ nav[t].stage = "heard"
  /\ \E url \in nav[t].answer.to : Go(t, Asking(url, jar))
  /\ UNCHANGED <<world, jar, page, tokens, coming, counters>>

Render(t) ==
  /\ nav[t].stage = "heard" /\ nav[t].answer.to = {}
  /\ nav' = [nav EXCEPT ![t] = Idle]
  /\ page' = [page EXCEPT ![t] = nav[t].answer.page]
  /\ post' = [post EXCEPT ![t].here = @ /\ page[t].url = nav[t].answer.page.url]
  /\ coming' = [coming EXCEPT ![t] = {}]
  /\ UNCHANGED <<world, jar, tokens, counters>>

-----------------------------------------------------------------------------
(* The actions behind the fetchers' forms. The pages of keys and of new     *)
(* events take what goes wrong for a result, and stay.                      *)

Stay(pg) == Show(pg, {})
Answered(t, a) ==
  post' = [post EXCEPT ![t].stage = "served", ![t].session = NoSession, ![t].form = 0, ![t].answer = a]
Created(t, p, a) ==
  post' = [post EXCEPT ![t].stage = "served", ![t].session = NoSession, ![t].form = 0, ![t].answer = a,
                       ![t].created = p]
Swallows(what) == what \in {"mint", "revoke", "addEvent"}

RefusedAnswer(x) ==
  IF Swallows(x.what) THEN Stay(Blank)
  ELSE IF ~ Authorized(x.session) THEN Redirect(At("auth"), {}) ELSE Stay(ErrorPage)

Refuse(t) ==
  LET x == post[t] IN
  /\ x.stage = "sent" /\ x.what # "delete"
  /\ ~ (Authorized(x.session) /\ ValidCsrf(x.session, x.form))
  /\ Answered(t, RefusedAnswer(x))
  /\ UNCHANGED <<world, jar, page, nav, tokens, coming, counters>>

Accepted(t) ==
  post[t].stage = "sent" /\ Authorized(post[t].session) /\ ValidCsrf(post[t].session, post[t].form)

(* A form that acts in the session's project, without one.                 *)
NoProjectSelected(t) ==
  LET x == post[t] IN
  /\ Accepted(t) /\ x.what \in Scopes /\ x.session.project = None
  /\ Answered(t, IF x.what = "addEvent" THEN Redirect(At("new"), {}) ELSE Stay(Blank))
  /\ UNCHANGED <<world, jar, page, nav, tokens, coming, counters>>

(* Which call a form makes in the session's project, and if it succeeds.     *)
Succeeds(x) ==
  LET u == x.session.user
      p == x.session.project
  IN  /\ x.what = "mint" => CreateKey(u, p)
      /\ x.what = "revoke" => DeleteKey(u, p, x.arg)
      /\ x.what = "addEvent" => CreateLog(u, p)
      /\ x.what = "removeEvent" => DeleteLog(u, p, x.arg)

ActInProject(t) ==
  LET x == post[t] IN
  /\ Accepted(t) /\ x.what \in Scopes /\ x.session.project # None /\ Succeeds(x)
  /\ Answered(t, IF x.what = "addEvent" THEN Redirect(At("events"), {}) ELSE Stay(Blank))
  /\ UNCHANGED <<world, jar, page, nav, tokens, coming, counters>>

BrokerRefuses(t) ==
  LET x == post[t] IN
  /\ Accepted(t) /\ x.what \in Scopes /\ x.session.project # None /\ ~ Succeeds(x)
  /\ Answered(t, Stay(Blank))
  /\ UNCHANGED <<world, jar, page, nav, tokens, coming, counters>>

(* The slug may be taken. *)
CreateFails(t) ==
  /\ Accepted(t) /\ post[t].what = "create"
  /\ Answered(t, Stay(Blank))
  /\ UNCHANGED <<world, jar, page, nav, tokens, coming, counters>>

Create(t, p) ==
  LET x == post[t] IN
  /\ Accepted(t) /\ x.what = "create" /\ p \in unborn
  /\ unborn' = unborn \ {p}
  /\ RoleSet(x.session.user, p, "owner")
  /\ Created(t, p, Redirect(At("dashboard"), {[x.session EXCEPT !.project = p]}))
  /\ UNCHANGED <<gone, jar, page, nav, tokens, coming, counters>>

(* The settings' action: requireProject comes before the CSRF token.        *)
RefuseDelete(t) ==
  LET x == post[t]
      s == x.session
  IN  /\ x.stage = "sent" /\ x.what = "delete"
      /\ \/ ~ Authorized(s) /\ Answered(t, Redirect(At("auth"), {}))
         \/ /\ Authorized(s) /\ ~ Reaches(s.user, x.arg)
            /\ Answered(t, Redirect(At("projects"), {}))
         \/ /\ Authorized(s) /\ Reaches(s.user, x.arg) /\ ~ ValidCsrf(s, x.form)
            /\ Answered(t, Stay(ErrorPage))
         \/ Accepted(t) /\ Reaches(s.user, x.arg) /\ Answered(t, Stay(Blank))
      /\ UNCHANGED <<world, jar, page, nav, tokens, coming, counters>>

(* The caller is an owner, and the name typed is the project's. *)
CheckDelete(t) ==
  LET x == post[t] IN
  /\ Accepted(t) /\ x.what = "delete" /\ x.arg # None /\ DeleteProject(x.session.user, x.arg)
  /\ post' = [post EXCEPT ![t].stage = "checked"]
  /\ UNCHANGED <<world, jar, page, nav, tokens, coming, counters>>

(* Mutant: the session keeps a blank project instead of none.              *)
WithoutProjectBlank(s, p) == IF s.project = p THEN [s EXCEPT !.project = ""] ELSE s

(* The project leaves the session if it was the one the session was in.     *)
WithoutProject(s, p) == IF s.project = p THEN [s EXCEPT !.project = None] ELSE s

Delete(t) ==
  LET x == post[t] IN
  /\ x.stage = "checked"
  /\ \/ /\ DeleteProject(x.session.user, x.arg)
        /\ RemoveAll(x.arg) /\ gone' = gone \cup {x.arg}
        /\ coming' = [s \in Tabs |-> coming[s] \ {x.arg}]
        /\ Answered(t, Redirect(At("projects"), {WithoutProject(x.session, x.arg)}))
     \/ /\ ~ DeleteProject(x.session.user, x.arg)
        /\ Answered(t, Stay(Blank))
        /\ UNCHANGED <<role, gone, coming>>
  /\ UNCHANGED <<unborn, jar, page, nav, tokens, counters>>

(* The fetcher's answer. Its redirect is followed unless the tab has been    *)
(* sent elsewhere meanwhile; its error replaces the page that asked; and     *)
(* anything else loads what the tab shows again.                             *)
HearPost(t) ==
  LET x == post[t]
      a == x.answer
  IN  /\ x.stage = "served"
      /\ Commit(a.set)
      /\ post' = [post EXCEPT ![t] = NoPost]
      /\ \/ /\ x.here /\ a.to # {}
            /\ \E url \in a.to : nav' = [nav EXCEPT ![t] = Asking(url, jar')]
            /\ coming' = [Disturb(t, a.set) EXCEPT ![t] =
                 IF x.what = "create" THEN UNION {Chosen(s.user, x.created) : s \in a.set} ELSE {}]
            /\ UNCHANGED page
         \/ /\ x.here /\ a.page = ErrorPage
            /\ page' = [page EXCEPT ![t] = ErrorPage]
            /\ UNCHANGED <<nav, coming>>
         \/ /\ a.to = {} /\ a.page # ErrorPage /\ nav[t].stage = "idle" /\ page[t].kind = "page"
            /\ nav' = [nav EXCEPT ![t] = Asking(page[t].url, jar)]
            /\ UNCHANGED <<page, coming>>
         \/ /\ IF a.to = {} /\ a.page # ErrorPage
               THEN nav[t].stage # "idle" \/ page[t].kind # "page" ELSE ~ x.here
            /\ coming' = IF a.set = {} THEN coming ELSE [s \in Tabs |-> {}]
            /\ UNCHANGED <<nav, page>>
      /\ UNCHANGED <<world, tokens, counters>>

-----------------------------------------------------------------------------
(* Others.                                                                 *)

Change == changes < MaxChanges /\ changes' = changes + 1

(* An owner elsewhere adds u to p, changes the role or removes u. Whoever   *)
(* cannot sign in has no session for it to matter to.                       *)
ChangeRole(u, p, r) ==
  /\ CanSignIn(u) /\ p \notin unborn \cup gone /\ r # role[u][p]
  /\ Change
  /\ RoleSet(u, p, r)
  /\ coming' = IF r = "none" THEN [t \in Tabs |-> coming[t] \ {p}] ELSE coming
  /\ UNCHANGED <<unborn, gone, jar, page, nav, post, tokens, clicks>>

DeleteElsewhere(p) ==
  /\ p \notin unborn \cup gone
  /\ Change
  /\ RemoveAll(p) /\ gone' = gone \cup {p}
  /\ coming' = [t \in Tabs |-> coming[t] \ {p}]
  /\ UNCHANGED <<unborn, jar, page, nav, post, tokens, clicks>>

(* The cookie is a week old. *)
Expire ==
  /\ jar # NoSession
  /\ Change
  /\ jar' = NoSession
  /\ coming' = [t \in Tabs |-> {}]
  /\ UNCHANGED <<world, page, nav, post, tokens, clicks>>

-----------------------------------------------------------------------------
User(t) ==
  \/ \E url \in Visits : Visit(t, url)
  \/ \E u \in Users : SignInAtGitHub(t, u)
  \/ \E p \in Projects : Switch(t, p)
  \/ \E what \in Forms : Submit(t, what)

Navigation(t) ==
  \/ LayoutLoads(t) \/ ChildLoads(t)
  \/ HearLoad(t) \/ HearSwitch(t) \/ HearCallback(t)
  \/ Follow(t) \/ Render(t)

Submission(t) ==
  \/ Refuse(t) \/ NoProjectSelected(t) \/ ActInProject(t) \/ BrokerRefuses(t)
  \/ CreateFails(t) \/ (\E p \in Projects : Create(t, p))
  \/ RefuseDelete(t) \/ CheckDelete(t) \/ Delete(t)
  \/ HearPost(t)

Others ==
  \/ \E u \in Users, p \in Projects, r \in {"none", "member", "owner"} : ChangeRole(u, p, r)
  \/ \E p \in Projects : DeleteElsewhere(p)
  \/ Expire

Next == Others \/ \E t \in Tabs : User(t) \/ Navigation(t) \/ Submission(t)

Spec == Init /\ [][Next]_vars

(* Every load is answered and every answer taken in; nothing is assumed of   *)
(* the user nor of others.                                                   *)
FairSpec == Spec /\ \A t \in Tabs : WF_vars(Navigation(t))
============================================================================
