-------------------------- MODULE DashboardProofs --------------------------
(***************************************************************************)
(* A page shows one project, an item stays where it is, and a switch lands  *)
(* on the project chosen: proved for every number of tabs, users, projects  *)
(* and bookmarks, and every bound.                                         *)
(***************************************************************************)
EXTENDS DashboardProperties, TLAPS

(* A switch names a project and a callback a user.                         *)
NavArg(n) ==
  (n.what = "switch" => n.arg \in Projects) /\ (n.what = "callback" => n.arg \in Users)

(* A project is deleted once the caller was found to be signed in.          *)
PostArg(x) ==
  x.stage = "checked" => x.what = "delete" /\ x.session.user \in Users /\ x.arg \in Projects

(* Every variable has its type, navigations and forms more than that.       *)
NavsTyped == nav \in [Tabs -> Navs] /\ \A t \in Tabs : NavArg(nav[t])
PostsTyped == post \in [Tabs -> Posts] /\ \A t \in Tabs : PostArg(post[t])
RestTyped ==
  /\ role \in [Users -> [Projects -> {"none", "member", "owner"}]]
  /\ unborn \in SUBSET Projects /\ gone \in SUBSET Projects
  /\ jar \in Sessions
  /\ page \in [Tabs -> Pages]
  /\ tokens \in Nat
  /\ coming \in [Tabs -> SUBSET Projects]
  /\ clicks \in Nat /\ changes \in Nat

Typed == NavsTyped /\ PostsTyped /\ RestTyped

-----------------------------------------------------------------------------
(* The values the model is built from.                                     *)

(* What a request and an answer can be made of.                            *)
LEMMA Makers ==
  /\ NoSession \in Sessions /\ Blank \in Pages /\ AuthPage \in Pages /\ ErrorPage \in Pages
  /\ \A r \in Routes : At(r) \in URLs
  /\ \A p \in Projects \cup {None} : Settings(p) \in URLs
  /\ NoLayout \in LayoutAnswers /\ NoChild \in ChildAnswers /\ NoAnswer \in Answers
<1>1. \A r \in Routes : At(r) \in URLs
  BY DEF At, URLs
<1>2. NoSession \in Sessions
  BY DEF NoSession, Sessions
<1>3. At("auth") \in URLs
  BY <1>1 DEF Routes
<1>4. Blank \in Pages /\ AuthPage \in Pages /\ ErrorPage \in Pages
  BY <1>3 DEF Blank, AuthPage, ErrorPage, Pages
<1>5. NoLayout \in LayoutAnswers /\ NoChild \in ChildAnswers
  BY <1>2, <1>3 DEF NoLayout, NoChild, LayoutAnswers, ChildAnswers
<1>6. NoAnswer \in Answers
  BY <1>4 DEF NoAnswer, Show, Answers
<1>7. \A p \in Projects \cup {None} : Settings(p) \in URLs
  BY DEF Settings, URLs, Routes
<1> QED  BY <1>1, <1>2, <1>4, <1>5, <1>6, <1>7

(* An answer sends the browser somewhere, or shows it something.           *)
LEMMA AnswerTypes ==
  ASSUME NEW set \in SUBSET Sessions
  PROVE  /\ \A url \in URLs : Redirect(url, set) \in Answers
         /\ \A pg \in Pages : Show(pg, set) \in Answers
  BY Makers DEF Redirect, Show, Answers

(* Before and between navigations and forms.                               *)
LEMMA RestTypes == Idle \in Navs /\ NavArg(Idle) /\ NoPost \in Posts /\ PostArg(NoPost)
<1>1. At("auth") \in URLs
  BY Makers DEF Routes
<1>2. Idle \in Navs /\ NavArg(Idle)
  BY <1>1, Makers DEF Idle, Navs, NavArg
<1>3. NoPost \in Posts /\ PostArg(NoPost)
  BY Makers DEF NoPost, Posts, Forms, Scopes, PostArg
<1> QED  BY <1>2, <1>3

(* A load of a URL on a cookie. *)
LEMMA AskingType ==
  ASSUME NEW url \in URLs, NEW s \in Sessions
  PROVE  Asking(url, s) \in Navs /\ NavArg(Asking(url, s))
<1> DEFINE a == [Idle EXCEPT !.stage = "sent", !.url = url, !.session = s]
<1>1. Idle \in Navs /\ Idle.what = "load"
  BY RestTypes DEF Idle
<1>2. a \in Navs /\ a.what = "load"
  BY <1>1 DEF Navs
<1> QED  BY <1>2 DEF Asking, NavArg

(* What the loader of a route comes back with.                             *)
LEMMA LoaderTypes ==
  ASSUME NEW s \in Sessions, NEW url \in URLs
  PROVE  ChildLoader(s, url) \subseteq ChildAnswers
<1>1. /\ \A u \in URLs : ChildTo(u) \in ChildAnswers
      /\ \A d \in SUBSET Projects : ChildData(d) \in ChildAnswers
      /\ ChildError \in ChildAnswers
  <2>1. At("auth") \in URLs
    BY Makers DEF Routes
  <2> QED  BY <2>1 DEF ChildTo, ChildData, ChildError, Child, ChildAnswers
<1>2. s.project \in Projects \cup {None} /\ url.id \in Projects \cup {None}
  BY DEF Sessions, URLs
<1>3. \A r \in {"auth", "new", "events", "projects"} : At(r) \in URLs
  BY Makers DEF Routes
<1> HIDE DEF ChildTo, ChildData, ChildError
<1>4. /\ DashboardLoader(s) \subseteq ChildAnswers
      /\ KeysLoader(s) \subseteq ChildAnswers
      /\ EventsLoader(s) \subseteq ChildAnswers
  BY <1>1, <1>2 DEF DashboardLoader, KeysLoader, EventsLoader, Loads
<1>5. EventLoader(s, url.id) \subseteq ChildAnswers
  BY <1>1, <1>2, <1>3 DEF EventLoader, GetLog, Reaches
<1>6. ForwardLoader(s) \subseteq ChildAnswers
  BY <1>1, <1>2, <1>3, Makers DEF ForwardLoader
<1>7. SettingsLoader(s, url.id) \subseteq ChildAnswers
  BY <1>1, <1>2, <1>3 DEF SettingsLoader, Reaches
<1> QED  BY <1>1, <1>3, <1>4, <1>5, <1>6, <1>7 DEF ChildLoader

(* What a load, a switch and a callback answer.                            *)
LEMMA HeardTypes ==
  ASSUME NEW n \in Navs, NavArg(n)
  PROVE  /\ Loaded(n) \subseteq Answers
         /\ n.what = "switch" => SwitchAnswer(n) \in Answers
         /\ n.what = "callback" => CallbackAnswers(n) \subseteq Answers
<1>1. /\ n.url \in URLs /\ n.session \in Sessions
      /\ n.layout.session \in Sessions /\ n.layout.list \in SUBSET Projects
      /\ n.child.url \in URLs /\ n.child.data \in SUBSET Projects
  BY DEF Navs, LayoutAnswers, ChildAnswers
<1>2. \A r \in {"auth", "new", "dashboard"} : At(r) \in URLs
  BY Makers DEF Routes
<1>3. PageOf(n) \in Pages
  BY <1>1 DEF PageOf, Pages, Sessions
<1>4. /\ \A url \in URLs : Redirect(url, {}) \in Answers
      /\ \A url \in URLs, s \in Sessions : Redirect(url, {s}) \in Answers
      /\ \A pg \in Pages : Show(pg, {}) \in Answers
      /\ \A pg \in Pages, s \in Sessions : Show(pg, {s}) \in Answers
  BY AnswerTypes
<1> HIDE DEF Redirect, Show
<1>5. Redirects(n) \subseteq Answers
  BY <1>1, <1>2, <1>4 DEF Redirects, LayoutRedirects, ChildRedirects
<1>6. Loaded(n) \subseteq Answers
  BY <1>1, <1>3, <1>4, <1>5, Makers DEF Loaded
<1>7. ASSUME n.what = "switch"  PROVE SwitchAnswer(n) \in Answers
  <2>1. [n.session EXCEPT !.project = n.arg] \in Sessions
    BY <1>1, <1>7 DEF NavArg, Sessions
  <2> QED  BY <1>1, <1>2, <1>4, <2>1, Makers DEF SwitchAnswer
<1>8. ASSUME n.what = "callback"  PROVE CallbackAnswers(n) \subseteq Answers
  <2>1. [n.session EXCEPT !.user = n.arg] \in Sessions
    BY <1>1, <1>8 DEF NavArg, Sessions
  <2> QED  BY <1>2, <1>4, <2>1 DEF CallbackAnswers
<1> QED  BY <1>6, <1>7, <1>8

(* A form the broker or the server refuses.                                *)
LEMMA FormTypes ==
  ASSUME NEW x \in Posts, NEW a \in Answers, NEW on \in Projects \cup {None}
  PROVE  /\ RefusedAnswer(x) \in Answers
         /\ [x EXCEPT !.stage = "served", !.session = NoSession, !.form = 0, !.answer = a,
                      !.created = on] \in Posts
         /\ [x EXCEPT !.stage = "served", !.session = NoSession, !.form = 0, !.answer = a] \in Posts
<1>1. At("auth") \in URLs
  BY Makers DEF Routes
<1>2. RefusedAnswer(x) \in Answers
  BY <1>1, Makers, AnswerTypes DEF RefusedAnswer, Stay
<1>3. NoSession \in Sessions
  BY Makers
<1> HIDE DEF NoSession
<1> QED  BY <1>2, <1>3 DEF Posts

-----------------------------------------------------------------------------
(* What one tab's navigation, and one tab's form, may become.               *)

(* A tab is sent somewhere else. *)
LEMMA NavSet ==
  ASSUME NavsTyped, NEW t \in Tabs, NEW n \in Navs, NavArg(n), nav' = [nav EXCEPT ![t] = n]
  PROVE  NavsTyped'
  BY DEF NavsTyped

(* The form of a tab is sent, answered or heard. *)
LEMMA PostSet ==
  ASSUME PostsTyped, NEW t \in Tabs, NEW x \in Posts, PostArg(x), post' = [post EXCEPT ![t] = x]
  PROVE  PostsTyped'
  BY DEF PostsTyped

(* What a form sent before would have led to is off. *)
LEMMA HereSet ==
  ASSUME PostsTyped, NEW t \in Tabs, NEW b \in BOOLEAN, post' = [post EXCEPT ![t].here = b]
  PROVE  PostsTyped'
<1>1. post[t] \in Posts /\ PostArg(post[t])
  BY DEF PostsTyped
<1>2. [post[t] EXCEPT !.here = b] \in Posts /\ PostArg([post[t] EXCEPT !.here = b])
  BY <1>1 DEF Posts, PostArg
<1>3. post' = [post EXCEPT ![t] = [post[t] EXCEPT !.here = b]]
  OBVIOUS
<1> QED  BY <1>2, <1>3, PostSet

(* A navigation gives up the one before it. *)
LEMMA GoTypes ==
  ASSUME NavsTyped, PostsTyped, NEW t \in Tabs, NEW n \in Navs, NavArg(n), Go(t, n)
  PROVE  NavsTyped' /\ PostsTyped'
  BY NavSet, HereSet DEF Go

(* A form is answered. *)
LEMMA AnsweredTypes ==
  ASSUME PostsTyped, NEW t \in Tabs, NEW a \in Answers, NEW on \in Projects \cup {None},
         Answered(t, a) \/ Created(t, on, a)
  PROVE  PostsTyped'
<1>1. post[t] \in Posts
  BY DEF PostsTyped
<1> DEFINE y == [post[t] EXCEPT !.stage = "served", !.session = NoSession, !.form = 0, !.answer = a]
           z == [post[t] EXCEPT !.stage = "served", !.session = NoSession, !.form = 0, !.answer = a,
                                !.created = on]
<1>2. y \in Posts /\ z \in Posts
  BY <1>1, FormTypes
<1>3. PostArg(y) /\ PostArg(z)
  BY <1>1 DEF PostArg, Posts
<1>4. post' = [post EXCEPT ![t] = y] \/ post' = [post EXCEPT ![t] = z]
  BY DEF Answered, Created
<1> HIDE DEF y, z
<1> QED  BY <1>2, <1>3, <1>4, PostSet

(* The cookie an answer commits, or the one there was. *)
LEMMA CommitTypes ==
  ASSUME jar \in Sessions, NEW set \in SUBSET Sessions, Commit(set)
  PROVE  jar' \in Sessions /\ (set = {} => jar' = jar) /\ (set # {} => jar' \in set)
<1>1. set # {} => (CHOOSE s \in set : TRUE) \in set
  OBVIOUS
<1> QED  BY <1>1 DEF Commit

(* What another tab's cookie leaves of the switches on their way. *)
LEMMA DisturbTypes ==
  ASSUME coming \in [Tabs -> SUBSET Projects], NEW t \in Tabs, NEW set
  PROVE  /\ Disturb(t, set) \in [Tabs -> SUBSET Projects]
         /\ \A d \in SUBSET Projects :
              [Disturb(t, set) EXCEPT ![t] = d] \in [Tabs -> SUBSET Projects]
  BY DEF Disturb

-----------------------------------------------------------------------------
(* Every variable keeps its type.                                          *)

(* What the user does. *)
LEMMA UserTypes ==
  ASSUME Typed, NEW t \in Tabs, User(t)  PROVE Typed'
<1>1. /\ NavsTyped /\ PostsTyped /\ RestTyped
      /\ page[t] \in Pages /\ jar \in Sessions /\ clicks \in Nat
  BY DEF Typed, RestTyped
<1>2. ASSUME Click, NEW n \in Navs, NavArg(n), Go(t, n), coming' = [coming EXCEPT ![t] = {}],
             UNCHANGED <<world, jar, page, tokens, changes>>
      PROVE  Typed'
  <2>1. NavsTyped' /\ PostsTyped'
    BY <1>1, <1>2, GoTypes
  <2>2. RestTyped'
    BY <1>1, <1>2 DEF RestTyped, Click, world
  <2> QED  BY <2>1, <2>2 DEF Typed
<1>3. ASSUME NEW url \in Visits, Visit(t, url)  PROVE Typed'
  <2>1. url \in URLs
    BY DashboardAssumption
  <2>2. Asking(url, jar) \in Navs /\ NavArg(Asking(url, jar))
    BY <1>1, <2>1, AskingType
  <2> QED  BY <1>2, <1>3, <2>2 DEF Visit
<1>4. ASSUME NEW u \in Users, SignInAtGitHub(t, u)  PROVE Typed'
  <2>1. PICK s \in {jar, NoSession} :
          Go(t, [Idle EXCEPT !.stage = "sent", !.what = "callback", !.arg = u, !.session = s])
    BY <1>4 DEF SignInAtGitHub
  <2> DEFINE n == [Idle EXCEPT !.stage = "sent", !.what = "callback", !.arg = u, !.session = s]
  <2>2. s \in Sessions
    BY <1>1, <2>1, Makers
  <2>3. n \in Navs /\ NavArg(n)
    BY <2>2, RestTypes DEF Navs, NavArg
  <2>4. Click /\ coming' = [coming EXCEPT ![t] = {}] /\ UNCHANGED <<world, jar, page, tokens, changes>>
    BY <1>4 DEF SignInAtGitHub
  <2> HIDE DEF n
  <2> QED  BY <1>2, <2>1, <2>3, <2>4 DEF n
<1>5. ASSUME NEW p \in Projects, Switch(t, p)  PROVE Typed'
  <2> DEFINE n == [Idle EXCEPT !.stage = "sent", !.what = "switch", !.url = BackTo(page[t]),
                               !.arg = p, !.form = page[t].csrf, !.session = jar]
  <2>1. BackTo(page[t]) \in URLs /\ page[t].csrf \in Nat
    BY <1>1, Makers DEF BackTo, Pages, Routes
  <2>2. n \in Navs /\ NavArg(n)
    BY <1>1, <2>1, RestTypes DEF Navs, NavArg
  <2>3. /\ Click /\ Go(t, n)
        /\ coming' = [coming EXCEPT ![t] = {}] /\ UNCHANGED <<world, jar, page, tokens, changes>>
    BY <1>5 DEF Switch
  <2> HIDE DEF n
  <2> QED  BY <1>2, <2>2, <2>3
<1>6. ASSUME NEW what \in Forms, Submit(t, what)  PROVE Typed'
  <2> DEFINE x == [NoPost EXCEPT !.stage = "sent", !.what = what, !.arg = Named(t, what),
                                 !.form = page[t].csrf, !.session = jar, !.here = TRUE]
  <2>1. Named(t, what) \in Projects \cup {None} /\ page[t].csrf \in Nat
    BY <1>1 DEF Named, Pages, URLs
  <2>2. x \in Posts /\ PostArg(x)
    BY <1>1, <2>1, RestTypes DEF Posts, PostArg
  <2>3. post' = [post EXCEPT ![t] = x] /\ UNCHANGED nav
    BY <1>6 DEF Submit
  <2> HIDE DEF x
  <2>4. PostsTyped' /\ NavsTyped'
    BY <1>1, <2>2, <2>3, PostSet DEF NavsTyped
  <2>5. RestTyped'
    BY <1>1, <1>6 DEF RestTyped, Submit, Click, world
  <2> QED  BY <2>4, <2>5 DEF Typed
<1> QED  BY <1>3, <1>4, <1>5, <1>6 DEF User

(* What a navigation does. *)
LEMMA NavigationTypes ==
  ASSUME Typed, NEW t \in Tabs, Navigation(t)  PROVE Typed'
<1>1. /\ NavsTyped /\ PostsTyped /\ RestTyped
      /\ nav[t] \in Navs /\ NavArg(nav[t]) /\ jar \in Sessions /\ tokens \in Nat
      /\ nav[t].session \in Sessions /\ nav[t].url \in URLs
      /\ nav[t].answer \in Answers
  BY DEF Typed, NavsTyped, RestTyped, Navs
<1>2. CASE LayoutLoads(t)
  <2>1. PICK kind \in {"auth", "again", "new", "page"}, s \in Sessions, list \in SUBSET Projects :
          LayoutDone(t, kind, s, list) /\ tokens' \in Nat
    <3> DEFINE s0 == nav[t].session
               token == [s0 EXCEPT !.csrf = CsrfToken(s0)]
               list0 == GetProjects(s0.user)
    <3>1. list0 \in SUBSET Projects /\ {} \in SUBSET Projects
      BY DEF GetProjects
    <3>2. token \in Sessions /\ NoSession \in Sessions
      BY <1>1, Makers DEF CsrfToken, Sessions
    <3>3. [s0 EXCEPT !.csrf = CsrfToken(s0), !.project = CurrentProject(list0, s0.project)]
            \in Sessions
      <4>1. CurrentProject(list0, s0.project) \in Projects \cup {None}
        BY <1>1, <3>1 DEF CurrentProject, Sessions
      <4>2. s0 \in Sessions /\ CsrfToken(s0) \in Nat
        BY <1>1 DEF CsrfToken, Sessions
      <4>3. \A c \in Projects \cup {None}, k \in Nat :
              [s0 EXCEPT !.csrf = k, !.project = c] \in Sessions
        BY <4>2 DEF Sessions
      <4> QED  BY <4>1, <4>2, <4>3
    <3>4. TokenMade(s0) \/ UNCHANGED tokens => tokens' \in Nat
      BY <1>1 DEF TokenMade
    <3>5. CASE LayoutRequiresAuth(t)
      BY <3>1, <3>2, <3>4, <3>5 DEF LayoutRequiresAuth
    <3>6. CASE LayoutCorrects(t)
      BY <3>1, <3>3, <3>4, <3>6 DEF LayoutCorrects
    <3>7. CASE LayoutSendsToNew(t)
      BY <3>1, <3>2, <3>4, <3>7 DEF LayoutSendsToNew
    <3>8. CASE LayoutShows(t)
      BY <3>1, <3>2, <3>4, <3>8 DEF LayoutShows
    <3> QED  BY <1>2, <3>5, <3>6, <3>7, <3>8 DEF LayoutLoads
  <2> DEFINE n == [nav[t] EXCEPT !.layout = [kind |-> kind, session |-> s, list |-> list]]
  <2>2. n \in Navs /\ NavArg(n)
    BY <1>1 DEF Navs, LayoutAnswers, NavArg
  <2>3. nav' = [nav EXCEPT ![t] = n]
    BY <2>1 DEF LayoutDone
  <2> HIDE DEF n
  <2>4. NavsTyped'
    BY <1>1, <2>2, <2>3, NavSet
  <2> QED  BY <1>1, <1>2, <2>1, <2>4 DEF Typed, PostsTyped, RestTyped, LayoutLoads, world, counters
<1>3. CASE ChildLoads(t)
  <2>1. PICK c \in ChildLoader(nav[t].session, nav[t].url) : nav' = [nav EXCEPT ![t].child = c]
    BY <1>3 DEF ChildLoads
  <2> DEFINE n == [nav[t] EXCEPT !.child = c]
  <2>2. c \in ChildAnswers
    BY <1>1, LoaderTypes
  <2>3. n \in Navs /\ NavArg(n)
    BY <1>1, <2>2 DEF Navs, NavArg
  <2>4. nav' = [nav EXCEPT ![t] = n]
    BY <2>1
  <2> HIDE DEF n
  <2>5. NavsTyped'
    BY <1>1, <2>3, <2>4, NavSet
  <2> QED  BY <1>1, <1>3, <2>5 DEF Typed, PostsTyped, RestTyped, ChildLoads, world, counters
<1>4. ASSUME NEW a \in Answers, Hear(t, a), coming' \in [Tabs -> SUBSET Projects]  PROVE Typed'
  <2> DEFINE n == [Idle EXCEPT !.stage = "heard", !.answer = a]
  <2>1. n \in Navs /\ NavArg(n)
    BY RestTypes DEF Navs, NavArg
  <2>2. nav' = [nav EXCEPT ![t] = n]
    BY <1>4 DEF Hear
  <2> HIDE DEF n
  <2>3. NavsTyped'
    BY <1>1, <2>1, <2>2, NavSet
  <2>4. a.set \in SUBSET Sessions
    BY DEF Answers
  <2>5. jar' \in Sessions
    BY <1>1, <1>4, <2>4, CommitTypes DEF Hear
  <2> QED  BY <1>1, <1>4, <2>3, <2>5 DEF Typed, PostsTyped, RestTyped, Hear, world, counters
<1>5. coming \in [Tabs -> SUBSET Projects]
  BY <1>1 DEF RestTyped
<1>6. CASE HearLoad(t)
  <2>1. PICK a \in Loaded(nav[t]) : Hear(t, a) /\ coming' = Disturb(t, a.set)
    BY <1>6 DEF HearLoad
  <2> QED  BY <1>1, <1>4, <1>5, <2>1, HeardTypes, DisturbTypes
<1>7. CASE HearSwitch(t)
  <2> DEFINE a == SwitchAnswer(nav[t])
             d == IF SwitchAccepted(nav[t]) THEN {nav[t].arg} ELSE {}
  <2>1. a \in Answers /\ d \in SUBSET Projects
    BY <1>1, <1>7, HeardTypes DEF HearSwitch, NavArg
  <2>2. Hear(t, a) /\ coming' = [Disturb(t, a.set) EXCEPT ![t] = d]
    BY <1>7 DEF HearSwitch
  <2> HIDE DEF a, d
  <2> QED  BY <1>4, <1>5, <2>1, <2>2, DisturbTypes
<1>8. CASE HearCallback(t)
  <2>1. PICK a \in CallbackAnswers(nav[t]) : Hear(t, a) /\ coming' = Disturb(t, a.set)
    BY <1>8 DEF HearCallback
  <2> QED  BY <1>1, <1>4, <1>5, <1>8, <2>1, HeardTypes, DisturbTypes DEF HearCallback
<1>9. CASE Follow(t)
  <2>1. PICK url \in nav[t].answer.to : Go(t, Asking(url, jar))
    BY <1>9 DEF Follow
  <2>2. Asking(url, jar) \in Navs /\ NavArg(Asking(url, jar))
    BY <1>1, AskingType DEF Answers
  <2>3. NavsTyped' /\ PostsTyped'
    BY <1>1, <2>1, <2>2, GoTypes
  <2> QED  BY <1>1, <1>9, <2>3 DEF Typed, RestTyped, Follow, world, counters
<1>10. CASE Render(t)
  <2>1. NavsTyped'
    BY <1>1, <1>10, RestTypes, NavSet DEF Render
  <2>2. post[t].here \in BOOLEAN
    BY <1>1 DEF PostsTyped, Posts
  <2> DEFINE b == post[t].here /\ page[t].url = nav[t].answer.page.url
  <2>3. b \in BOOLEAN /\ post' = [post EXCEPT ![t].here = b]
    BY <1>1, <1>10, <2>2 DEF Render, PostsTyped
  <2> HIDE DEF b
  <2>4. PostsTyped'
    BY <1>1, <2>3, HereSet
  <2>5. nav[t].answer.page \in Pages
    BY <1>1 DEF Answers
  <2> QED  BY <1>1, <1>10, <2>1, <2>4, <2>5 DEF Typed, RestTyped, Render, world, counters
<1> QED  BY <1>2, <1>3, <1>6, <1>7, <1>8, <1>9, <1>10 DEF Navigation

(* What a form does, and what becomes of its answer. *)
LEMMA SubmissionTypes ==
  ASSUME Typed, NEW t \in Tabs, Submission(t)  PROVE Typed'
<1>1. /\ NavsTyped /\ PostsTyped /\ RestTyped
      /\ post[t] \in Posts /\ PostArg(post[t]) /\ jar \in Sessions
      /\ post[t].session \in Sessions /\ post[t].arg \in Projects \cup {None}
      /\ post[t].created \in Projects \cup {None} /\ post[t].answer \in Answers
  BY DEF Typed, PostsTyped, RestTyped, Posts
<1>2. /\ \A r \in Routes, set \in SUBSET Sessions : Redirect(At(r), set) \in Answers
      /\ Stay(Blank) \in Answers /\ Stay(ErrorPage) \in Answers
      /\ RefusedAnswer(post[t]) \in Answers
  <2>1. {} \in SUBSET Sessions /\ NoAnswer \in Answers
    BY Makers
  <2> QED  BY <1>1, <2>1, Makers, AnswerTypes, FormTypes DEF Stay
<1>3. ASSUME NEW a \in Answers, NEW on \in Projects \cup {None}, Answered(t, a) \/ Created(t, on, a),
             UNCHANGED nav, RestTyped'
      PROVE  Typed'
  BY <1>1, <1>3, AnsweredTypes DEF Typed, NavsTyped
<1>4. ASSUME UNCHANGED <<world, jar, page, nav, tokens, coming, counters>>
      PROVE  RestTyped' /\ UNCHANGED nav
  BY <1>1, <1>4 DEF RestTyped, world, counters
<1>5. \A r \in {"auth", "new", "events", "projects", "dashboard"} : r \in Routes
  BY DEF Routes
<1> HIDE DEF Redirect, Stay, Answered, Created
<1>6. CASE Refuse(t)
  BY <1>2, <1>3, <1>4, <1>6 DEF Refuse
<1>7. CASE NoProjectSelected(t)
  <2> DEFINE a == IF post[t].what = "addEvent" THEN Redirect(At("new"), {}) ELSE Stay(Blank)
  <2>1. a \in Answers
    BY <1>2, <1>5
  <2>2. Answered(t, a) /\ UNCHANGED <<world, jar, page, nav, tokens, coming, counters>>
    BY <1>7 DEF NoProjectSelected
  <2> HIDE DEF a
  <2> QED  BY <1>3, <1>4, <2>1, <2>2
<1>8. CASE ActInProject(t)
  <2> DEFINE a == IF post[t].what = "addEvent" THEN Redirect(At("events"), {}) ELSE Stay(Blank)
  <2>1. a \in Answers
    BY <1>2, <1>5
  <2>2. /\ Answered(t, a)
        /\ UNCHANGED <<world, jar, page, nav, tokens, coming, counters>>
    BY <1>8 DEF ActInProject
  <2>3. post[t].session.project \in Projects \cup {None}
    BY <1>1 DEF Sessions
  <2> HIDE DEF a
  <2> QED  BY <1>3, <1>4, <2>1, <2>2, <2>3
<1>9. CASE BrokerRefuses(t)
  BY <1>2, <1>3, <1>4, <1>9 DEF BrokerRefuses
<1>10. CASE CreateFails(t)
  BY <1>2, <1>3, <1>4, <1>10 DEF CreateFails
<1>11. ASSUME NEW p \in Projects, Create(t, p)  PROVE Typed'
  <2> DEFINE a == Redirect(At("dashboard"), {[post[t].session EXCEPT !.project = p]})
  <2>1. [post[t].session EXCEPT !.project = p] \in Sessions
    BY <1>1 DEF Sessions
  <2>2. a \in Answers
    BY <1>2, <1>5, <2>1
  <2>3. Created(t, p, a) /\ UNCHANGED nav
    BY <1>11 DEF Create
  <2>4. RestTyped'
    BY <1>1, <1>11 DEF RestTyped, Create, RoleSet, counters
  <2> HIDE DEF a
  <2> QED  BY <1>3, <2>2, <2>3, <2>4
<1>12. CASE RefuseDelete(t)
  BY <1>2, <1>3, <1>4, <1>5, <1>12 DEF RefuseDelete
<1>13. CASE CheckDelete(t)
  <2> DEFINE x == [post[t] EXCEPT !.stage = "checked"]
  <2>1. post' = [post EXCEPT ![t] = x]
    BY <1>13 DEF CheckDelete
  <2>2. x \in Posts /\ PostArg(x)
    BY <1>1, <1>13 DEF CheckDelete, Accepted, Authorized, Posts, PostArg, Sessions
  <2> HIDE DEF x
  <2>3. PostsTyped'
    BY <1>1, <2>1, <2>2, PostSet
  <2> QED  BY <1>1, <1>4, <1>13, <2>3 DEF Typed, NavsTyped, CheckDelete
<1>14. CASE Delete(t)
  <2> DEFINE a == Redirect(At("projects"), {WithoutProject(post[t].session, post[t].arg)})
  <2>1. WithoutProject(post[t].session, post[t].arg) \in Sessions
    BY <1>1 DEF WithoutProject, Sessions
  <2>2. a \in Answers
    BY <1>2, <1>5, <2>1
  <2>3. Answered(t, a) \/ Answered(t, Stay(Blank))
    BY <1>14 DEF Delete
  <2>4. RestTyped' /\ UNCHANGED nav
    <3>1. post[t].arg \in Projects
      BY <1>1, <1>14 DEF Delete, PostArg
    <3> QED  BY <1>1, <1>14, <3>1 DEF RestTyped, Delete, RemoveAll, counters
  <2> HIDE DEF a
  <2> QED  BY <1>1, <1>2, <1>3, <2>2, <2>3, <2>4
<1>15. CASE HearPost(t)
  <2>1. PostsTyped'
    BY <1>1, <1>15, RestTypes, PostSet DEF HearPost
  <2>2. post[t].answer.set \in SUBSET Sessions /\ post[t].answer.to \in SUBSET URLs
    BY <1>1 DEF Answers
  <2>3. jar' \in Sessions
    BY <1>1, <1>15, <2>2, CommitTypes DEF HearPost
  <2>4. page[t] \in Pages /\ page[t].url \in URLs /\ ErrorPage \in Pages
    BY <1>1, Makers DEF RestTyped, Pages
  <2>5. NavsTyped'
    <3>1. ASSUME NEW url \in URLs, NEW s \in Sessions, nav' = [nav EXCEPT ![t] = Asking(url, s)]
          PROVE  NavsTyped'
      BY <1>1, <3>1, AskingType, NavSet
    <3>2. CASE UNCHANGED nav
      BY <1>1, <3>2 DEF NavsTyped
    <3> QED  BY <1>1, <1>15, <2>2, <2>3, <2>4, <3>1, <3>2 DEF HearPost
  <2>6. page' \in [Tabs -> Pages]
    BY <1>1, <1>15, <2>4 DEF HearPost, RestTyped
  <2>7. coming' \in [Tabs -> SUBSET Projects]
    <3> DEFINE d == IF post[t].what = "create"
                    THEN UNION {Chosen(s.user, post[t].created) : s \in post[t].answer.set} ELSE {}
    <3>1. d \in SUBSET Projects
      BY <1>1 DEF Chosen, Reaches
    <3>2. \/ UNCHANGED coming \/ coming' = [s \in Tabs |-> {}]
          \/ coming' = [Disturb(t, post[t].answer.set) EXCEPT ![t] = d]
      BY <1>15 DEF HearPost
    <3>3. coming \in [Tabs -> SUBSET Projects]
      BY <1>1 DEF RestTyped
    <3> HIDE DEF d
    <3> QED  BY <3>1, <3>2, <3>3, DisturbTypes
  <2>8. RestTyped'
    BY <1>1, <1>15, <2>3, <2>6, <2>7 DEF HearPost, RestTyped, world, counters
  <2> QED  BY <2>1, <2>5, <2>8 DEF Typed
<1> QED  BY <1>6, <1>7, <1>8, <1>9, <1>10, <1>11, <1>12, <1>13, <1>14, <1>15 DEF Submission

(* What others do. *)
LEMMA OthersTypes ==
  ASSUME Typed, Others  PROVE Typed'
<1>1. NavsTyped' /\ PostsTyped'
  BY DEF Typed, NavsTyped, PostsTyped, Others, ChangeRole, DeleteElsewhere, Expire
<1>2. ASSUME NEW u \in Users, NEW p \in Projects, NEW r \in {"none", "member", "owner"},
             ChangeRole(u, p, r)
      PROVE  RestTyped'
  BY <1>2 DEF Typed, RestTyped, ChangeRole, RoleSet, Change
<1>3. ASSUME NEW p \in Projects, DeleteElsewhere(p)  PROVE RestTyped'
  BY <1>3 DEF Typed, RestTyped, DeleteElsewhere, RemoveAll, Change
<1>4. ASSUME Expire  PROVE RestTyped'
  <2>1. jar' \in Sessions
    BY <1>4, Makers DEF Expire
  <2> QED  BY <1>4, <2>1 DEF Typed, RestTyped, Expire, Change, world
<1> QED  BY <1>1, <1>2, <1>3, <1>4 DEF Others, Typed

(* A browser with some pages of its session open. *)
LEMMA InitTypes == Init => Typed
<1> SUFFICES ASSUME Init  PROVE Typed
  OBVIOUS
<1>1. NavsTyped /\ PostsTyped
  BY RestTypes DEF Init, NavsTyped, PostsTyped
<1>2. role \in [Users -> [Projects -> {"none", "member", "owner"}]]
  BY DashboardAssumption DEF Init
<1>3. jar \in Sessions /\ jar.project \in Projects /\ page \in [Tabs -> OpenedPages(jar)]
  BY DEF Init, Sessions
<1>4. OpenedPages(jar) \subseteq Pages
  <2>1. ASSUME NEW url \in Visits  PROVE Opened(jar, url) \in Pages
    <3>1. url \in URLs /\ (url.route = "settings" => url.id \in Projects)
      BY DashboardAssumption
    <3>2. {p \in Projects : role[jar.user][p] # "none"} \in SUBSET Projects
      OBVIOUS
    <3> QED  BY <1>3, <3>1, <3>2 DEF Opened, Pages, Sessions
  <2> QED  BY <2>1, Makers DEF OpenedPages, OpenedURLs
<1>5. page \in [Tabs -> Pages]
  BY <1>3, <1>4
<1> QED  BY <1>1, <1>2, <1>3, <1>5 DEF Init, Typed, RestTyped

(* Every step. *)
LEMMA TypedStep == Typed /\ [Next]_vars => Typed'
<1> SUFFICES ASSUME Typed, [Next]_vars  PROVE Typed'
  OBVIOUS
<1>1. CASE Others
  BY <1>1, OthersTypes
<1>2. ASSUME NEW t \in Tabs, User(t) \/ Navigation(t) \/ Submission(t)  PROVE Typed'
  BY <1>2, UserTypes, NavigationTypes, SubmissionTypes
<1>3. CASE UNCHANGED vars
  BY <1>3 DEF vars, world, counters, Typed, NavsTyped, PostsTyped, RestTyped
<1> QED  BY <1>1, <1>2, <1>3 DEF Next

(* Every variable of the browser and of the server has its type.           *)
THEOREM TypeCorrect == Spec => []TypeOK
<1>1. Typed => TypeOK
  BY DEF Typed, TypeOK, NavsTyped, PostsTyped, RestTyped
<1> QED  BY <1>1, InitTypes, TypedStep, PTL DEF Spec

-----------------------------------------------------------------------------
(* What the pages, the navigations and the forms hold on to.               *)

(* A page of one project. *)
OfOneProject(pg) ==
  pg.kind = "page" /\ pg.url.route # "auth" =>
    /\ pg.url.route # "new" => pg.header # None
    /\ pg.url.route \in Scoped => pg.data \subseteq {pg.header}

(* A load that is going to be a page of one project: its two loaders were   *)
(* given the same cookie, and a layout that shows kept its project.         *)
LoadsOneProject(n) ==
  /\ n.layout.kind = "page" =>
       /\ n.layout.session.project = n.session.project
       /\ n.session.project = None => n.url.route = "new"
  /\ n.child.kind = "data" /\ n.url.route \in Scoped =>
       n.child.data \subseteq {n.session.project}
  /\ OfOneProject(n.answer.page)

PagesInv == \A t \in Tabs : OfOneProject(page[t]) /\ LoadsOneProject(nav[t])

(* The sign-in page lists no project to switch to, so a switch never comes  *)
(* back to it.                                                             *)
SignInBare(pg) == pg.url.route = "auth" => pg.list = {}
NavInv ==
  \A t \in Tabs :
    /\ nav[t].what = "switch" => nav[t].url.route # "auth"
    /\ SignInBare(page[t]) /\ SignInBare(nav[t].answer.page)

(* A form's answer commits a cookie only with a redirect, and the one of    *)
(* the form that creates a project is in that project, signed in.           *)
PostInv ==
  \A t \in Tabs :
    LET a == post[t].answer IN
    /\ a.to = {} \/ a.page = ErrorPage => a.set = {}
    /\ post[t].what = "create" /\ a.set # {} =>
         /\ a.to = {At("dashboard")}
         /\ \E s \in Sessions : a.set = {s} /\ s.user # None /\ s.project = post[t].created

(* A switch to p on its way: the cookie is in p and its user still is in p; *)
(* what was sent was sent with that cookie, what was heard does not sign    *)
(* out, and if it is a page, it is one of p.                               *)
OnItsWay(t, p) ==
  LET n == nav[t]
      u == jar.user
      InP(s) == s.user = u /\ s.project = p
  IN  /\ InP(jar) /\ u # None /\ role[u][p] # "none"
      /\ n.stage # "idle"
      /\ n.stage = "sent" =>
           /\ n.what = "load" /\ n.url.route # "auth" /\ InP(n.session)
           /\ n.layout.kind \in {"wait", "page"}
           /\ n.layout.kind = "page" => InP(n.layout.session)
           /\ n.child.kind = "to" => n.child.url.route # "auth"
      /\ n.stage = "heard" =>
           /\ \A url \in n.answer.to : url.route # "auth"
           /\ n.answer.page.kind = "page" => n.answer.page.header = p

SwitchInv == \A t \in Tabs : \A p \in coming[t] : OnItsWay(t, p)

Inv == Typed /\ PagesInv /\ NavInv /\ PostInv /\ SwitchInv

-----------------------------------------------------------------------------
(* What a page, a navigation and a form can be right after a step.          *)

(* A navigation that has just been asked for. *)
Fresh(n) ==
  n.stage = "sent" /\ n.layout = NoLayout /\ n.child = NoChild /\ n.answer = NoAnswer

LEMMA AskingFresh ==
  ASSUME NEW url, NEW s
  PROVE  /\ Fresh(Asking(url, s)) /\ Asking(url, s).what = "load"
         /\ Asking(url, s).url = url /\ Asking(url, s).session = s
  BY DEF Fresh, Asking, Idle

(* The user sends a tab somewhere, with a cookie it has or none; to switch   *)
(* he has to be on a page that lists projects.                             *)
Asked(t, n) ==
  /\ Fresh(n) /\ Go(t, n) /\ UNCHANGED <<world, jar, page>>
  /\ n.what = "switch" => n.url = BackTo(page[t]) /\ page[t].list # {}
  /\ coming' = [coming EXCEPT ![t] = {}]

LEMMA UserAsks ==
  ASSUME NEW t \in Tabs, User(t)
  PROVE  (\E n : Asked(t, n)) \/ (\E what \in Forms : Submit(t, what))
<1>1. ASSUME NEW url \in Visits, Visit(t, url)  PROVE \E n : Asked(t, n)
  <2>1. Asked(t, Asking(url, jar))
    BY <1>1, AskingFresh DEF Visit, Asked
  <2> QED  BY <2>1
<1>2. ASSUME NEW u \in Users, SignInAtGitHub(t, u)  PROVE \E n : Asked(t, n)
  <2>1. PICK s \in {jar, NoSession} :
          Go(t, [Idle EXCEPT !.stage = "sent", !.what = "callback", !.arg = u, !.session = s])
    BY <1>2 DEF SignInAtGitHub
  <2> DEFINE n == [Idle EXCEPT !.stage = "sent", !.what = "callback", !.arg = u, !.session = s]
  <2>2. Fresh(n) /\ n.what = "callback"
    BY DEF Fresh, Idle
  <2> HIDE DEF n
  <2>3. Asked(t, n)
    BY <1>2, <2>1, <2>2 DEF n, SignInAtGitHub, Asked
  <2> QED  BY <2>3
<1>3. ASSUME NEW p \in Projects, Switch(t, p)  PROVE \E n : Asked(t, n)
  <2> DEFINE n == [Idle EXCEPT !.stage = "sent", !.what = "switch", !.url = BackTo(page[t]),
                               !.arg = p, !.form = page[t].csrf, !.session = jar]
  <2>1. Fresh(n) /\ n.url = BackTo(page[t])
    BY DEF Fresh, Idle
  <2>2. Go(t, n) /\ UNCHANGED <<world, jar, page>> /\ coming' = [coming EXCEPT ![t] = {}]
    BY <1>3 DEF Switch
  <2>3. page[t].list # {}
    BY <1>3 DEF Switch, Switchable
  <2> HIDE DEF n
  <2>4. Asked(t, n)
    BY <2>1, <2>2, <2>3 DEF Asked
  <2> QED  BY <2>4
<1> QED  BY <1>1, <1>2, <1>3 DEF User

(* A navigation whose headers have arrived. *)
LEMMA HeardNav ==
  ASSUME NEW a
  PROVE  LET n == [Idle EXCEPT !.stage = "heard", !.answer = a]
         IN  /\ n.stage = "heard" /\ n.answer = a /\ n.what = "load"
             /\ n.layout = NoLayout /\ n.child = NoChild
  BY DEF Idle

(* Where nothing is shown, nothing is listed. *)
LEMMA BareKinds ==
  /\ NoLayout.kind = "wait" /\ NoChild.kind = "wait"
  /\ NoAnswer.page = Blank /\ NoAnswer.set = {} /\ NoAnswer.to = {}
  /\ Blank.kind = "blank" /\ Blank.list = {} /\ Blank.url = At("auth")
  /\ AuthPage.kind = "page" /\ AuthPage.list = {} /\ AuthPage.url = At("auth")
  /\ ErrorPage.kind = "error" /\ ErrorPage.list = {} /\ ErrorPage.url = At("auth")
  /\ \A r : At(r).route = r
  /\ \A p : Settings(p).route = "settings"
  /\ \A url, set : /\ Redirect(url, set).to = {url} /\ Redirect(url, set).set = set
                   /\ Redirect(url, set).page = Blank
  /\ \A pg, set : /\ Show(pg, set).to = {} /\ Show(pg, set).set = set /\ Show(pg, set).page = pg
  BY DEF NoLayout, NoChild, NoAnswer, Blank, AuthPage, ErrorPage, At, Settings, Redirect, Show

(* The forms that are sent, refused or answered leave the pages alone.      *)
LEMMA QuietSteps ==
  ASSUME NEW t \in Tabs,
         \/ \E what \in Forms : Submit(t, what)
         \/ Submission(t) /\ ~ HearPost(t)
  PROVE  UNCHANGED <<page, nav, jar>>
  BY DEF Submit, Submission, Refuse, NoProjectSelected, ActInProject, BrokerRefuses, CreateFails,
     Create, RefuseDelete, CheckDelete, Delete

(* So do the others. *)
LEMMA QuietOthers ==
  ASSUME Others  PROVE UNCHANGED <<page, nav, post>>
  BY DEF Others, ChangeRole, DeleteElsewhere, Expire

-----------------------------------------------------------------------------
(* The page of one project.                                                *)

(* A load that has not begun, or is over, promises nothing wrong.           *)
LEMMA OneProjectBare ==
  /\ \A pg : pg.kind # "page" \/ pg = AuthPage => OfOneProject(pg)
  /\ \A n : /\ n.layout = NoLayout /\ n.child = NoChild /\ OfOneProject(n.answer.page)
            => LoadsOneProject(n)
<1>1. \A pg : pg.kind # "page" \/ pg = AuthPage => OfOneProject(pg)
  BY BareKinds DEF OfOneProject
<1> QED  BY <1>1, BareKinds DEF LoadsOneProject

(* What a load is answered, if it shows a page, is a page of one project.   *)
LEMMA LoadedOneProject ==
  ASSUME NEW n \in Navs, LoadsOneProject(n), NEW a \in Loaded(n)
  PROVE  OfOneProject(a.page)
<1>1. OfOneProject(Blank) /\ OfOneProject(ErrorPage) /\ OfOneProject(AuthPage)
  BY OneProjectBare, BareKinds
<1>2. \/ a.page \in {Blank, ErrorPage, AuthPage}
      \/ /\ a.page = PageOf(n)
         /\ n.layout.kind # "wait" /\ n.child.kind # "wait" /\ n.child.kind # "error"
         /\ Redirects(n) = {}
  <2>1. \A r \in Redirects(n) : r.page = Blank
    BY BareKinds DEF Redirects, LayoutRedirects, ChildRedirects
  <2> QED  BY <2>1, BareKinds DEF Loaded
<1>3. ASSUME a.page = PageOf(n), n.layout.kind # "wait", n.child.kind # "wait",
             n.child.kind # "error", Redirects(n) = {}
      PROVE  OfOneProject(a.page)
  <2>1. n.layout.kind = "page" /\ n.child.kind = "data"
    BY <1>3 DEF Redirects, LayoutRedirects, ChildRedirects, Navs, LayoutAnswers, ChildAnswers
  <2>2. /\ a.page.url = n.url /\ a.page.header = n.layout.session.project
        /\ a.page.data = n.child.data
    BY <1>3 DEF PageOf
  <2> QED  BY <2>1, <2>2 DEF LoadsOneProject, OfOneProject
<1> QED  BY <1>1, <1>2, <1>3

(* The layout shows a page of the project it found, or the page that makes  *)
(* one.                                                                    *)
LEMMA LayoutOneProject ==
  ASSUME NEW t \in Tabs, NEW n \in Navs, LoadsOneProject(n), nav[t] = n,
         NEW l, l.kind = "page", l.session.project = n.session.project,
         CurrentProject(GetProjects(n.session.user), n.session.project) = n.session.project,
         GetProjects(n.session.user) # {} \/ n.url.route = "new"
  PROVE  LoadsOneProject([n EXCEPT !.layout = l])
<1>1. ASSUME GetProjects(n.session.user) # {}  PROVE n.session.project # None
  <2> DEFINE list == GetProjects(n.session.user)
  <2>1. list \subseteq Projects
    BY DEF GetProjects
  <2>2. (CHOOSE p \in list : TRUE) \in list
    BY <1>1
  <2>3. n.session.project \in list
    BY <1>1, <2>2 DEF CurrentProject
  <2> QED  BY <2>1, <2>3, DashboardAssumption
<1>2. [n EXCEPT !.layout = l].layout = l
  BY DEF Navs
<1> QED  BY <1>1, <1>2 DEF LoadsOneProject, Navs

(* A loader of the session's project brings nothing from another.           *)
LEMMA ChildOneProject ==
  ASSUME NEW n \in Navs, LoadsOneProject(n), NEW c \in ChildLoader(n.session, n.url)
  PROVE  LoadsOneProject([n EXCEPT !.child = c])
<1>1. ASSUME n.url.route \in Scoped, c.kind = "data"  PROVE c.data \subseteq {n.session.project}
  <2>1. /\ \A d : ChildData(d).data = d
        /\ \A u : ChildTo(u).kind = "to"
    BY DEF ChildData, ChildTo, Child
  <2>2. ChildError.kind = "error"
    BY DEF ChildError, Child
  <2> HIDE DEF ChildData, ChildTo, ChildError
  <2>3. \/ c \in DashboardLoader(n.session) \/ c \in KeysLoader(n.session)
        \/ c \in EventsLoader(n.session) \/ c \in EventLoader(n.session, n.url.id)
        \/ c = ChildTo(At("auth"))
    BY <1>1 DEF ChildLoader, Scoped
  <2>4. \/ c = ChildData({}) \/ c = ChildData({n.session.project})
        \/ c.kind = "to" \/ c.kind = "error"
    BY <2>1, <2>2, <2>3 DEF DashboardLoader, KeysLoader, EventsLoader, EventLoader, Loads, GetLog
  <2> QED  BY <1>1, <2>1, <2>4
<1>2. [n EXCEPT !.child = c].child = c
  BY DEF Navs
<1> QED  BY <1>1, <1>2 DEF LoadsOneProject, Navs

(* No step shows, or prepares, a page of two projects.                     *)
LEMMA PagesStep ==
  ASSUME Typed, PagesInv, [Next]_vars  PROVE PagesInv'
<1>1. \A t \in Tabs : nav[t] \in Navs /\ page[t] \in Pages
  BY DEF Typed, NavsTyped, RestTyped
<1>2. ASSUME NEW t \in Tabs, NEW n, LoadsOneProject(n), nav' = [nav EXCEPT ![t] = n], UNCHANGED page
      PROVE  PagesInv'
  BY <1>1, <1>2 DEF PagesInv, Typed, NavsTyped
<1>3. ASSUME NEW t \in Tabs, NEW n, Fresh(n), nav' = [nav EXCEPT ![t] = n], UNCHANGED page
      PROVE  PagesInv'
  BY <1>2, <1>3, OneProjectBare, BareKinds DEF Fresh
<1>4. ASSUME UNCHANGED <<page, nav>>  PROVE PagesInv'
  BY <1>4 DEF PagesInv
<1>5. ASSUME NEW t \in Tabs, User(t)  PROVE PagesInv'
  <2>1. CASE \E what \in Forms : Submit(t, what)
    BY <1>4, <2>1, QuietSteps
  <2>2. ASSUME NEW n, Asked(t, n)  PROVE PagesInv'
    BY <1>3, <2>2 DEF Asked, Go
  <2> QED  BY <1>5, <2>1, <2>2, UserAsks
<1>6. ASSUME NEW t \in Tabs, LayoutLoads(t)  PROVE PagesInv'
  <2> DEFINE n == nav[t]
  <2>1. n \in Navs /\ LoadsOneProject(n)
    BY <1>1 DEF PagesInv
  <2>2. PICK l : nav' = [nav EXCEPT ![t].layout = l] /\
          (\/ l.kind # "page"
           \/ /\ l.kind = "page" /\ l.session.project = n.session.project
              /\ CurrentProject(GetProjects(n.session.user), n.session.project) = n.session.project
              /\ GetProjects(n.session.user) # {} \/ n.url.route = "new")
    <3>1. [n.session EXCEPT !.csrf = CsrfToken(n.session)].project = n.session.project
      BY <2>1 DEF Navs, Sessions
    <3> DEFINE l(kind, s, list) == [kind |-> kind, session |-> s, list |-> list]
    <3>2. \A kind, s, list : l(kind, s, list).kind = kind /\ l(kind, s, list).session = s
      OBVIOUS
    <3>3. ASSUME NEW kind \in {"auth", "again", "new"}, NEW s, NEW list, LayoutDone(t, kind, s, list)
          PROVE  \E k : nav' = [nav EXCEPT ![t].layout = k] /\ k.kind # "page"
      <4>1. nav' = [nav EXCEPT ![t].layout = l(kind, s, list)] /\ l(kind, s, list).kind # "page"
        BY <3>2, <3>3 DEF LayoutDone
      <4> QED  BY <4>1
    <3>4. CASE LayoutRequiresAuth(t) \/ LayoutCorrects(t) \/ LayoutSendsToNew(t)
      BY <3>3, <3>4 DEF LayoutRequiresAuth, LayoutCorrects, LayoutSendsToNew
    <3>5. CASE LayoutShows(t)
      <4> DEFINE k == l("page", [n.session EXCEPT !.csrf = CsrfToken(n.session)],
                        GetProjects(n.session.user))
      <4>1. nav' = [nav EXCEPT ![t].layout = k]
        BY <3>5 DEF LayoutShows, LayoutDone
      <4>2. k.kind = "page" /\ k.session.project = n.session.project
        BY <3>1, <3>2
      <4> HIDE DEF k
      <4> QED  BY <3>5, <4>1, <4>2 DEF LayoutShows
    <3> QED  BY <1>6, <3>4, <3>5 DEF LayoutLoads
  <2>3. nav' = [nav EXCEPT ![t] = [n EXCEPT !.layout = l]] /\ UNCHANGED page
    BY <1>6, <2>2 DEF LayoutLoads
  <2>4. LoadsOneProject([n EXCEPT !.layout = l])
    <3>1. CASE l.kind # "page"
      <4>1. [n EXCEPT !.layout = l].layout = l
        BY <2>1 DEF Navs
      <4> QED  BY <2>1, <3>1, <4>1 DEF LoadsOneProject, Navs
    <3> QED  BY <2>1, <2>2, <3>1, LayoutOneProject
  <2> QED  BY <1>2, <2>3, <2>4
<1>7. ASSUME NEW t \in Tabs, ChildLoads(t)  PROVE PagesInv'
  <2>1. PICK c \in ChildLoader(nav[t].session, nav[t].url) : nav' = [nav EXCEPT ![t].child = c]
    BY <1>7 DEF ChildLoads
  <2>2. LoadsOneProject([nav[t] EXCEPT !.child = c])
    BY <1>1, ChildOneProject DEF PagesInv
  <2>3. nav' = [nav EXCEPT ![t] = [nav[t] EXCEPT !.child = c]] /\ UNCHANGED page
    BY <1>7, <2>1 DEF ChildLoads
  <2> QED  BY <1>2, <2>2, <2>3
<1>8. ASSUME NEW t \in Tabs, NEW a, Hear(t, a), OfOneProject(a.page)  PROVE PagesInv'
  <2> DEFINE n == [Idle EXCEPT !.stage = "heard", !.answer = a]
  <2>1. LoadsOneProject(n)
    BY <1>8, HeardNav, OneProjectBare
  <2>2. nav' = [nav EXCEPT ![t] = n] /\ UNCHANGED page
    BY <1>8 DEF Hear
  <2> HIDE DEF n
  <2> QED  BY <1>2, <2>1, <2>2
<1>9. ASSUME NEW t \in Tabs, HearLoad(t)  PROVE PagesInv'
  BY <1>1, <1>8, <1>9, LoadedOneProject DEF HearLoad, PagesInv
<1>10. ASSUME NEW t \in Tabs, HearSwitch(t) \/ HearCallback(t)  PROVE PagesInv'
  <2>1. OfOneProject(Blank) /\ OfOneProject(ErrorPage)
    BY OneProjectBare, BareKinds
  <2>2. SwitchAnswer(nav[t]).page \in {Blank, ErrorPage}
    BY BareKinds DEF SwitchAnswer
  <2>3. \A a \in CallbackAnswers(nav[t]) : a.page = Blank
    BY BareKinds DEF CallbackAnswers
  <2> QED  BY <1>8, <1>10, <2>1, <2>2, <2>3 DEF HearSwitch, HearCallback
<1>11. ASSUME NEW t \in Tabs, Follow(t)  PROVE PagesInv'
  <2>1. PICK url \in nav[t].answer.to : Go(t, Asking(url, jar))
    BY <1>11 DEF Follow
  <2> QED  BY <1>3, <1>11, <2>1, AskingFresh DEF Follow, Go
<1>12. ASSUME NEW t \in Tabs, Render(t)  PROVE PagesInv'
  <2>1. LoadsOneProject(Idle)
    BY OneProjectBare, BareKinds DEF Idle
  <2>2. OfOneProject(nav[t].answer.page)
    BY DEF PagesInv, LoadsOneProject
  <2> QED  BY <1>1, <1>12, <2>1, <2>2 DEF Render, PagesInv, Typed, NavsTyped, RestTyped
<1>13. ASSUME NEW t \in Tabs, HearPost(t)  PROVE PagesInv'
  <2>1. OfOneProject(ErrorPage)
    BY OneProjectBare, BareKinds
  <2>2. ASSUME UNCHANGED nav, page' = [page EXCEPT ![t] = ErrorPage]  PROVE PagesInv'
    BY <1>1, <2>1, <2>2 DEF PagesInv, Typed, RestTyped
  <2>3. ASSUME NEW url, NEW s, nav' = [nav EXCEPT ![t] = Asking(url, s)], UNCHANGED page
        PROVE  PagesInv'
    BY <1>3, <2>3, AskingFresh
  <2> QED  BY <1>4, <1>13, <2>2, <2>3 DEF HearPost
<1>14. CASE UNCHANGED vars
  BY <1>4, <1>14 DEF vars
<1>15. CASE Others
  BY <1>4, <1>15, QuietOthers
<1>16. ASSUME NEW t \in Tabs, Submission(t)  PROVE PagesInv'
  BY <1>4, <1>13, <1>16, QuietSteps
<1> QED  BY <1>5, <1>6, <1>7, <1>9, <1>10, <1>11, <1>12, <1>14, <1>15, <1>16 DEF Next, Navigation
-----------------------------------------------------------------------------
(* Where a switch comes back to.                                           *)

(* What is not a page lists nothing, nor does the sign-in page.             *)
LEMMA BarePages ==
  SignInBare(Blank) /\ SignInBare(ErrorPage) /\ SignInBare(AuthPage)
  BY BareKinds DEF SignInBare

(* What a load is answered lists projects only on a page of its own.        *)
LEMMA LoadedBare ==
  ASSUME NEW n, NEW a \in Loaded(n)
  PROVE  SignInBare(a.page)
<1>1. \A r \in Redirects(n) : r.page = Blank
  BY BareKinds DEF Redirects, LayoutRedirects, ChildRedirects
<1>2. \/ a.page \in {Blank, ErrorPage, AuthPage}
      \/ a.page = PageOf(n) /\ n.url.route # "auth"
  BY <1>1, BareKinds DEF Loaded
<1>3. PageOf(n).url = n.url
  BY DEF PageOf
<1> QED  BY <1>2, <1>3, BarePages DEF SignInBare

(* No step makes a switch come back to the sign-in page.                   *)
LEMMA NavStep ==
  ASSUME Typed, NavInv, [Next]_vars  PROVE NavInv'
<1>1. /\ nav \in [Tabs -> Navs] /\ page \in [Tabs -> Pages]
      /\ \A t \in Tabs : nav[t] \in Navs /\ page[t] \in Pages
  BY DEF Typed, NavsTyped, RestTyped
<1>2. ASSUME NEW t \in Tabs, NEW n, nav' = [nav EXCEPT ![t] = n], UNCHANGED page,
             n.what = "switch" => n.url.route # "auth", SignInBare(n.answer.page)
      PROVE  NavInv'
  BY <1>1, <1>2 DEF NavInv
<1>3. ASSUME UNCHANGED <<page, nav>>  PROVE NavInv'
  BY <1>3 DEF NavInv
<1>4. ASSUME NEW t \in Tabs, User(t)  PROVE NavInv'
  <2>1. CASE \E what \in Forms : Submit(t, what)
    BY <1>3, <2>1, QuietSteps
  <2>2. ASSUME NEW n, Asked(t, n)  PROVE NavInv'
    <3>1. SignInBare(n.answer.page)
      BY <2>2, BareKinds, BarePages DEF Asked, Fresh
    <3>2. n.what = "switch" => n.url.route # "auth"
      BY <2>2, BareKinds DEF Asked, BackTo, NavInv, SignInBare
    <3> QED  BY <1>2, <2>2, <3>1, <3>2 DEF Asked, Go
  <2> QED  BY <1>4, <2>1, <2>2, UserAsks
<1>5. ASSUME NEW t \in Tabs, LayoutLoads(t) \/ ChildLoads(t)  PROVE NavInv'
  <2>1. /\ \A s \in Tabs : /\ nav'[s].what = nav[s].what /\ nav'[s].url = nav[s].url
                          /\ nav'[s].answer = nav[s].answer
        /\ UNCHANGED page
    BY <1>1, <1>5 DEF Navs, LayoutLoads, LayoutRequiresAuth, LayoutCorrects, LayoutSendsToNew,
       LayoutShows, LayoutDone, ChildLoads
  <2> QED  BY <2>1 DEF NavInv
<1>6. ASSUME NEW t \in Tabs, NEW a, Hear(t, a), SignInBare(a.page)  PROVE NavInv'
  <2> DEFINE n == [Idle EXCEPT !.stage = "heard", !.answer = a]
  <2>1. n.answer = a /\ n.what = "load"
    BY HeardNav
  <2>2. nav' = [nav EXCEPT ![t] = n] /\ UNCHANGED page
    BY <1>6 DEF Hear
  <2> HIDE DEF n
  <2> QED  BY <1>2, <1>6, <2>1, <2>2
<1>7. ASSUME NEW t \in Tabs, HearLoad(t)  PROVE NavInv'
  BY <1>6, <1>7, LoadedBare DEF HearLoad
<1>8. ASSUME NEW t \in Tabs, HearSwitch(t) \/ HearCallback(t)  PROVE NavInv'
  <2>1. SwitchAnswer(nav[t]).page \in {Blank, ErrorPage}
    BY BareKinds DEF SwitchAnswer
  <2>2. \A a \in CallbackAnswers(nav[t]) : a.page = Blank
    BY BareKinds DEF CallbackAnswers
  <2> QED  BY <1>6, <1>8, <2>1, <2>2, BarePages DEF HearSwitch, HearCallback
<1>9. ASSUME NEW t \in Tabs, NEW url, NEW s, nav' = [nav EXCEPT ![t] = Asking(url, s)],
             UNCHANGED page
      PROVE  NavInv'
  <2>1. SignInBare(Asking(url, s).answer.page) /\ Asking(url, s).what = "load"
    BY AskingFresh, BareKinds, BarePages DEF Fresh
  <2> QED  BY <1>2, <1>9, <2>1
<1>10. ASSUME NEW t \in Tabs, Follow(t)  PROVE NavInv'
  BY <1>9, <1>10 DEF Follow, Go
<1>11. ASSUME NEW t \in Tabs, Render(t)  PROVE NavInv'
  <2>1. SignInBare(Idle.answer.page) /\ Idle.what = "load"
    BY BareKinds, BarePages DEF Idle
  <2> QED  BY <1>1, <1>11, <2>1 DEF Render, NavInv
<1>12. ASSUME NEW t \in Tabs, HearPost(t)  PROVE NavInv'
  <2>1. ASSUME UNCHANGED nav, page' = [page EXCEPT ![t] = ErrorPage]  PROVE NavInv'
    BY <1>1, <2>1, BarePages DEF NavInv
  <2> QED  BY <1>3, <1>9, <1>12, <2>1 DEF HearPost
<1>13. CASE UNCHANGED vars
  BY <1>3, <1>13 DEF vars
<1>14. CASE Others
  BY <1>3, <1>14, QuietOthers
<1>15. ASSUME NEW t \in Tabs, Submission(t)  PROVE NavInv'
  BY <1>3, <1>12, <1>15, QuietSteps
<1> QED  BY <1>4, <1>5, <1>7, <1>8, <1>10, <1>11, <1>13, <1>14, <1>15 DEF Next, Navigation

-----------------------------------------------------------------------------
(* What a form's answer commits.                                           *)

(* PostInv, of one form. *)
CommitsWell(x) ==
  /\ x.answer.to = {} \/ x.answer.page = ErrorPage => x.answer.set = {}
  /\ x.what = "create" /\ x.answer.set # {} =>
       /\ x.answer.to = {At("dashboard")}
       /\ \E s \in Sessions : x.answer.set = {s} /\ s.user # None /\ s.project = x.created

(* A form sent, checked or heard commits nothing, nor does one refused.     *)
LEMMA PostStep ==
  ASSUME Typed, PostInv, [Next]_vars  PROVE PostInv'
<1>1. /\ post \in [Tabs -> Posts]
      /\ \A t \in Tabs : post[t] \in Posts /\ PostArg(post[t]) /\ CommitsWell(post[t])
  BY DEF Typed, PostsTyped, PostInv, CommitsWell
<1>2. ASSUME NEW t \in Tabs, NEW x, CommitsWell(x), post' = [post EXCEPT ![t] = x]
      PROVE  PostInv'
  BY <1>1, <1>2 DEF PostInv, CommitsWell
<1>3. ASSUME NEW t \in Tabs, NEW b, post' = [post EXCEPT ![t].here = b]  PROVE PostInv'
  <2> DEFINE x == [post[t] EXCEPT !.here = b]
  <2>1. x.answer = post[t].answer /\ x.what = post[t].what /\ x.created = post[t].created
    BY <1>1 DEF Posts
  <2>2. post' = [post EXCEPT ![t] = x]
    BY <1>1, <1>3
  <2> HIDE DEF x
  <2> QED  BY <1>1, <1>2, <2>1, <2>2 DEF CommitsWell
<1>4. ASSUME UNCHANGED post  PROVE PostInv'
  BY <1>4 DEF PostInv
<1>5. ASSUME NEW t \in Tabs, NEW a, NEW on, Answered(t, a) \/ Created(t, on, a), a.set = {}
      PROVE  PostInv'
  <2> DEFINE y == [post[t] EXCEPT !.stage = "served", !.session = NoSession, !.form = 0, !.answer = a]
             z == [post[t] EXCEPT !.stage = "served", !.session = NoSession, !.form = 0, !.answer = a,
                                  !.created = on]
  <2>1. y.answer = a /\ z.answer = a
    BY <1>1 DEF Posts
  <2>2. post' = [post EXCEPT ![t] = y] \/ post' = [post EXCEPT ![t] = z]
    BY <1>1, <1>5 DEF Answered, Created
  <2> HIDE DEF y, z
  <2> QED  BY <1>2, <1>5, <2>1, <2>2 DEF CommitsWell
<1>6. ASSUME NEW t \in Tabs, NEW a, NEW on, Created(t, on, a), a.to # {}, a.page = Blank,
             post[t].what = "create" =>
               /\ a.to = {At("dashboard")}
               /\ \E s \in Sessions : a.set = {s} /\ s.user # None /\ s.project = on
      PROVE  PostInv'
  <2> DEFINE z == [post[t] EXCEPT !.stage = "served", !.session = NoSession, !.form = 0, !.answer = a,
                                  !.created = on]
  <2>1. z.answer = a /\ z.created = on /\ z.what = post[t].what
    BY <1>1 DEF Posts
  <2>2. post' = [post EXCEPT ![t] = z]
    BY <1>1, <1>6 DEF Created
  <2>3. Blank # ErrorPage
    BY BareKinds
  <2> HIDE DEF z
  <2> QED  BY <1>2, <1>6, <2>1, <2>2, <2>3 DEF CommitsWell
<1>r. ASSUME NEW t \in Tabs, NEW a, Answered(t, a), a.to # {}, a.page = Blank,
              post[t].what # "create"
       PROVE  PostInv'
  <2> DEFINE y == [post[t] EXCEPT !.stage = "served", !.session = NoSession, !.form = 0, !.answer = a]
  <2>1. y.answer = a /\ y.what = post[t].what
    BY <1>1 DEF Posts
  <2>2. post' = [post EXCEPT ![t] = y]
    BY <1>1, <1>r DEF Answered
  <2>3. Blank # ErrorPage
    BY BareKinds
  <2> HIDE DEF y
  <2> QED  BY <1>2, <1>r, <2>1, <2>2, <2>3 DEF CommitsWell
<1>7. ASSUME NEW t \in Tabs, User(t)  PROVE PostInv'
  <2>1. ASSUME NEW what \in Forms, Submit(t, what)  PROVE PostInv'
    <3> DEFINE x == [NoPost EXCEPT !.stage = "sent", !.what = what, !.arg = Named(t, what),
                                   !.form = page[t].csrf, !.session = jar, !.here = TRUE]
    <3>1. x.answer = NoAnswer
      BY DEF NoPost
    <3>2. post' = [post EXCEPT ![t] = x]
      BY <2>1 DEF Submit
    <3> HIDE DEF x
    <3> QED  BY <1>2, <3>1, <3>2, BareKinds DEF CommitsWell
  <2> QED  BY <1>3, <1>7, <2>1, UserAsks DEF Asked, Go
<1>8. ASSUME NEW t \in Tabs, Navigation(t)  PROVE PostInv'
  BY <1>3, <1>4, <1>8 DEF Navigation, LayoutLoads, ChildLoads, HearLoad, HearSwitch, HearCallback,
     Hear, Follow, Go, Render
<1>9. ASSUME NEW t \in Tabs, Submission(t)  PROVE PostInv'
  <2>1. /\ Stay(Blank).set = {} /\ Stay(ErrorPage).set = {} /\ RefusedAnswer(post[t]).set = {}
        /\ \A url : Redirect(url, {}).set = {}
    BY BareKinds DEF Stay, RefusedAnswer
  <2>0. \A url, set : Redirect(url, set).to # {} /\ Redirect(url, set).page = Blank
    BY DEF Redirect
  <2> HIDE DEF Redirect, Stay, Answered, Created
  <2>2. CASE Refuse(t) \/ NoProjectSelected(t) \/ BrokerRefuses(t) \/ CreateFails(t) \/ RefuseDelete(t)
    BY <1>5, <2>1, <2>2 DEF Refuse, NoProjectSelected, BrokerRefuses, CreateFails, RefuseDelete
  <2>3. CASE ActInProject(t)
    BY <1>5, <2>1, <2>3 DEF ActInProject
  <2>4. ASSUME NEW p \in Projects, Create(t, p)  PROVE PostInv'
    <3> DEFINE s == [post[t].session EXCEPT !.project = p]
               a == Redirect(At("dashboard"), {s})
    <3>1. s \in Sessions /\ s.user # None /\ s.project = p
      BY <1>1, <2>4 DEF Create, Accepted, Authorized, Posts, Sessions
    <3>2. a.to = {At("dashboard")} /\ a.page = Blank /\ a.set = {s}
      BY BareKinds
    <3>3. Created(t, p, a)
      BY <2>4 DEF Create
    <3> HIDE DEF s, a
    <3> QED  BY <1>6, <3>1, <3>2, <3>3
  <2>5. CASE CheckDelete(t)
    <3> DEFINE x == [post[t] EXCEPT !.stage = "checked"]
    <3>1. x.answer = post[t].answer /\ x.what = post[t].what /\ x.created = post[t].created
      BY <1>1 DEF Posts
    <3>2. post' = [post EXCEPT ![t] = x]
      BY <1>1, <2>5 DEF CheckDelete
    <3> HIDE DEF x
    <3> QED  BY <1>1, <1>2, <3>1, <3>2 DEF CommitsWell
  <2>6. CASE Delete(t)
    <3> DEFINE a == Redirect(At("projects"), {WithoutProject(post[t].session, post[t].arg)})
    <3>1. a.to # {} /\ a.page = Blank
      BY <2>0
    <3>2. post[t].what = "delete"
      BY <1>1, <2>6 DEF Delete, PostArg
    <3>3. Answered(t, a) \/ Answered(t, Stay(Blank))
      BY <2>6 DEF Delete
    <3> HIDE DEF a
    <3> QED  BY <1>5, <1>r, <2>1, <3>1, <3>2, <3>3
  <2>7. CASE HearPost(t)
    <3>1. NoPost.answer = NoAnswer
      BY DEF NoPost
    <3> QED  BY <1>2, <2>7, <3>1, BareKinds DEF HearPost, CommitsWell
  <2> QED  BY <1>9, <2>2, <2>3, <2>4, <2>5, <2>6, <2>7 DEF Submission
<1>10. CASE UNCHANGED vars
  BY <1>4, <1>10 DEF vars
<1>11. CASE Others
  BY <1>4, <1>11, QuietOthers
<1> QED  BY <1>7, <1>8, <1>9, <1>10, <1>11 DEF Next
-----------------------------------------------------------------------------
(* A switch on its way.                                                    *)

(* It stays on its way while its tab waits, its cookie is not replaced and   *)
(* its user is not put out of the project.                                 *)
LEMMA StillOnItsWay ==
  ASSUME NEW t, NEW p, OnItsWay(t, p), nav'[t] = nav[t],
         jar'.user = jar.user, jar'.project = jar.project, role'[jar.user][p] # "none"
  PROVE  OnItsWay(t, p)'
  BY DEF OnItsWay

(* So does every switch, when a step takes no project from anyone.          *)
LEMMA NobodyPutOut ==
  ASSUME SwitchInv, UNCHANGED nav, UNCHANGED jar,
         coming' \in [Tabs -> SUBSET Projects],
         \A t \in Tabs : coming'[t] \subseteq coming[t],
         \A t \in Tabs : \A p \in coming'[t] : \A u \in Users \cup {None} :
           u # None /\ role[u][p] # "none" => role'[u][p] # "none",
         jar \in Sessions
  PROVE  SwitchInv'
<1>1. \A t \in Tabs : \A p \in coming'[t] : OnItsWay(t, p)
  BY DEF SwitchInv
<1>2. ASSUME NEW t \in Tabs, NEW p \in coming'[t]  PROVE OnItsWay(t, p)'
  <2>1. jar.user \in Users \cup {None} /\ OnItsWay(t, p)
    BY <1>1 DEF Sessions
  <2>2. role'[jar.user][p] # "none"
    BY <2>1 DEF OnItsWay
  <2> QED  BY <2>1, <2>2, StillOnItsWay
<1> QED  BY <1>2 DEF SwitchInv

(* And when one tab moves, if its own switch still is on its way and it     *)
(* commits no cookie, or undoes the others.                                *)
LEMMA OneTabMoves ==
  ASSUME Typed, SwitchInv, NEW t \in Tabs, NEW n, nav' = [nav EXCEPT ![t] = n],
         UNCHANGED role,
         \A s \in Tabs : s # t => coming'[s] \subseteq coming[s],
         UNCHANGED jar \/ \A s \in Tabs : s # t => coming'[s] = {},
         \A p \in coming'[t] : OnItsWay(t, p)'
  PROVE  SwitchInv'
<1>1. ASSUME NEW s \in Tabs, NEW p \in coming'[s], s # t  PROVE OnItsWay(s, p)'
  <2>1. UNCHANGED jar /\ OnItsWay(s, p)
    BY <1>1 DEF SwitchInv
  <2>2. nav'[s] = nav[s]
    BY <1>1 DEF Typed, NavsTyped
  <2>3. role'[jar.user][p] # "none"
    BY <2>1 DEF OnItsWay
  <2> QED  BY <2>1, <2>2, <2>3, StillOnItsWay
<1> QED  BY <1>1 DEF SwitchInv

(* The loader of a page does not sign out who is signed in.                *)
LEMMA ChildNotAuth ==
  ASSUME NEW s, NEW url, s.user # None, NEW c \in ChildLoader(s, url), c.kind = "to"
  PROVE  c.url.route # "auth"
<1>1. /\ \A d : ChildData(d).kind = "data"
      /\ \A u : ChildTo(u).url = u
      /\ ChildError.kind = "error"
  BY DEF ChildData, ChildTo, ChildError, Child
<1> HIDE DEF ChildData, ChildTo, ChildError
<1>2. \/ c \in DashboardLoader(s) \/ c \in KeysLoader(s)
      \/ c \in EventsLoader(s) \/ c \in EventLoader(s, url.id)
      \/ c \in ForwardLoader(s) \/ c \in SettingsLoader(s, url.id) \/ c = ChildData({})
  BY DEF ChildLoader
<1>3. \/ c = ChildTo(At("new")) \/ c = ChildTo(At("events")) \/ c = ChildTo(At("projects"))
      \/ c = ChildTo(Settings(s.project))
  BY <1>1, <1>2 DEF DashboardLoader, KeysLoader, EventsLoader, EventLoader, ForwardLoader,
     SettingsLoader, Loads
<1> QED  BY <1>1, <1>3, BareKinds

(* A load on its way to p: the layout stays in p.                          *)
LEMMA LayoutOnItsWay ==
  ASSUME Typed, NEW t \in Tabs, NEW p \in Projects, OnItsWay(t, p), LayoutLoads(t)
  PROVE  OnItsWay(t, p)'
<1> DEFINE n == nav[t]
           s == n.session
           l(x, list) == [kind |-> "page", session |-> x, list |-> list]
<1>1. n \in Navs /\ s \in Sessions /\ n.stage = "sent"
  BY DEF Typed, NavsTyped, Navs, LayoutLoads, Loading
<1>2. s.user = jar.user /\ s.project = p /\ s.user # None /\ role[s.user][p] # "none"
  BY <1>1 DEF OnItsWay
<1>3. p \in GetProjects(s.user) /\ CurrentProject(GetProjects(s.user), s.project) = p
  BY <1>2 DEF GetProjects, CurrentProject
<1>4. LayoutShows(t)
  BY <1>2, <1>3 DEF LayoutLoads, LayoutRequiresAuth, LayoutCorrects, LayoutSendsToNew
<1>5. PICK x, list : nav' = [nav EXCEPT ![t].layout = l(x, list)] /\ x.user = s.user /\ x.project = p
  <2>1. [s EXCEPT !.csrf = CsrfToken(s)].user = s.user /\ [s EXCEPT !.csrf = CsrfToken(s)].project = p
    BY <1>1, <1>2 DEF Sessions
  <2> QED  BY <1>4, <2>1 DEF LayoutShows, LayoutDone
<1>6. l(x, list).kind = "page" /\ l(x, list).session = x
  OBVIOUS
<1> HIDE DEF l
<1>7. /\ nav'[t].layout = l(x, list)
      /\ nav'[t].stage = n.stage /\ nav'[t].what = n.what /\ nav'[t].url = n.url
      /\ nav'[t].session = n.session /\ nav'[t].child = n.child
  BY <1>1, <1>5 DEF Typed, NavsTyped, Navs
<1>8. UNCHANGED <<jar, role>>
  BY DEF LayoutLoads, world
<1> HIDE DEF n, s
<1> QED  BY <1>1, <1>2, <1>5, <1>6, <1>7, <1>8 DEF OnItsWay, n, s

(* The page's loader does not sign out.                                    *)
LEMMA ChildOnItsWay ==
  ASSUME Typed, NEW t \in Tabs, NEW p \in Projects, OnItsWay(t, p), ChildLoads(t)
  PROVE  OnItsWay(t, p)'
<1>1. nav[t] \in Navs /\ nav[t].stage = "sent" /\ nav[t].session.user # None
  BY DEF Typed, NavsTyped, ChildLoads, Loading, OnItsWay
<1>2. PICK c \in ChildLoader(nav[t].session, nav[t].url) : nav' = [nav EXCEPT ![t].child = c]
  BY DEF ChildLoads
<1>3. c.kind = "to" => c.url.route # "auth"
  BY <1>1, ChildNotAuth
<1>4. /\ nav'[t].child = c /\ nav'[t].stage = nav[t].stage
      /\ nav'[t].what = nav[t].what /\ nav'[t].url = nav[t].url
      /\ nav'[t].session = nav[t].session /\ nav'[t].layout = nav[t].layout
  BY <1>1, <1>2 DEF Typed, NavsTyped, Navs
<1>5. UNCHANGED <<jar, role>>
  BY DEF ChildLoads, world
<1> QED  BY <1>1, <1>3, <1>4, <1>5 DEF OnItsWay

(* What a load on its way to p is answered: it stays signed in and in p.    *)
LEMMA LoadedOnItsWay ==
  ASSUME NEW t \in Tabs, NEW p, OnItsWay(t, p), nav[t] \in Navs, nav[t].stage = "sent",
         NEW a \in Loaded(nav[t])
  PROVE  /\ \A url \in a.to : url.route # "auth"
         /\ a.page.kind = "page" => a.page.header = p
         /\ \A s \in a.set : s.user = jar.user /\ s.project = p
<1> DEFINE n == nav[t]
<1>1. /\ n.url.route # "auth" /\ n.layout.kind \in {"wait", "page"}
      /\ n.layout.kind = "page" => n.layout.session.user = jar.user /\ n.layout.session.project = p
      /\ n.child.kind = "to" => n.child.url.route # "auth"
  BY DEF OnItsWay
<1>2. n.layout.kind = "page"
  BY <1>1 DEF Loaded
<1>3. \A r \in Redirects(n) : n.child.kind = "to" /\ r = Redirect(n.child.url, {})
  BY <1>2 DEF Redirects, LayoutRedirects, ChildRedirects
<1>4. \/ n.child.kind = "to" /\ a = Redirect(n.child.url, {})
      \/ a = Show(ErrorPage, {}) \/ a = Show(ErrorPage, {n.layout.session})
      \/ a = Show(PageOf(n), {n.layout.session})
  BY <1>1, <1>3 DEF Loaded
<1>5. PageOf(n).header = n.layout.session.project
  BY DEF PageOf
<1>6. CASE n.child.kind = "to" /\ a = Redirect(n.child.url, {})
  BY <1>1, <1>6, BareKinds
<1>7. CASE a = Show(ErrorPage, {}) \/ a = Show(ErrorPage, {n.layout.session})
  BY <1>1, <1>2, <1>7, BareKinds
<1>8. CASE a = Show(PageOf(n), {n.layout.session})
  <2>1. a.to = {} /\ a.page = PageOf(n) /\ a.set = {n.layout.session}
    BY <1>8, BareKinds
  <2> QED  BY <1>1, <1>2, <1>5, <2>1
<1> QED  BY <1>4, <1>6, <1>7, <1>8
(* A switch taken in: the cookie is in the project chosen, and so is its    *)
(* user.                                                                   *)
LEMMA SwitchOnItsWay ==
  ASSUME Typed, NavInv, NEW t \in Tabs, HearSwitch(t), SwitchAccepted(nav[t]),
         NEW p, p = nav[t].arg
  PROVE  OnItsWay(t, p)'
<1> DEFINE n == nav[t]
           s == [n.session EXCEPT !.project = p]
           a == SwitchAnswer(n)
           h == [Idle EXCEPT !.stage = "heard", !.answer = a]
<1>1. n \in Navs /\ n.session \in Sessions /\ n.url.route # "auth"
  BY DEF Typed, NavsTyped, Navs, NavInv, HearSwitch
<1>2. n.session.user # None /\ role[n.session.user][p] # "none"
  BY DEF SwitchAccepted, Authorized, Reaches
<1>3. s.user = n.session.user /\ s.project = p
  BY <1>1 DEF Sessions
<1>4. a = Redirect(n.url, {s})
  BY DEF SwitchAnswer, SwitchAccepted
<1>5. Hear(t, a)
  BY DEF HearSwitch
<1>6. /\ a.set = {s} /\ a.to = {n.url} /\ a.page.kind = "blank"
  BY <1>4, BareKinds
<1>7. h.stage = "heard" /\ h.answer = a
  BY HeardNav
<1>8. nav' = [nav EXCEPT ![t] = h] /\ UNCHANGED role
  BY <1>5 DEF Hear, world
<1> HIDE DEF s, a, h, n
<1>9. jar' = s
  BY <1>5, <1>6 DEF Hear, Commit
<1>10. nav'[t] = h
  BY <1>8 DEF Typed, NavsTyped
<1> QED  BY <1>1, <1>2, <1>3, <1>6, <1>7, <1>8, <1>9, <1>10 DEF OnItsWay, n

(* A redirect followed with the cookie of the switch.                      *)
LEMMA AskedOnItsWay ==
  ASSUME NEW t, NEW p, NEW url, url.route # "auth", nav'[t] = Asking(url, jar'),
         jar'.user # None, jar'.project = p, role'[jar'.user][p] # "none"
  PROVE  OnItsWay(t, p)'
<1>1. /\ nav'[t].stage = "sent" /\ nav'[t].what = "load" /\ nav'[t].url = url
      /\ nav'[t].session = jar'
      /\ nav'[t].layout.kind = "wait" /\ nav'[t].child.kind = "wait"
  BY AskingFresh, BareKinds DEF Fresh
<1> QED  BY <1>1 DEF OnItsWay

(* No step of a user or of a navigation loses a switch and keeps it coming. *)
LEMMA SwitchNavigation ==
  ASSUME Typed, NavInv, SwitchInv, NEW t \in Tabs, User(t) \/ Navigation(t)
  PROVE  SwitchInv'
<1>0. Typed'
  BY UserTypes, NavigationTypes
<1>1. /\ nav[t] \in Navs /\ jar \in Sessions /\ jar' \in Sessions
      /\ nav \in [Tabs -> Navs]
      /\ coming \in [Tabs -> SUBSET Projects] /\ coming' \in [Tabs -> SUBSET Projects]
      /\ \A p \in coming[t] : OnItsWay(t, p)
  BY <1>0 DEF Typed, NavsTyped, RestTyped, SwitchInv
<1>2. ASSUME NEW what \in Forms, Submit(t, what)  PROVE SwitchInv'
  BY <1>1, <1>2, NobodyPutOut DEF Submit, world
<1>3. ASSUME NEW n, Asked(t, n)  PROVE SwitchInv'
  <2>1. coming'[t] = {} /\ \A s \in Tabs : s # t => coming'[s] = coming[s]
    BY <1>1, <1>3 DEF Asked
  <2> QED  BY <1>3, <2>1, OneTabMoves DEF Asked, Go, world
<1>4. CASE LayoutLoads(t)
  <2>1. PICK l : nav' = [nav EXCEPT ![t].layout = l]
    BY <1>4 DEF LayoutLoads, LayoutRequiresAuth, LayoutCorrects, LayoutSendsToNew, LayoutShows,
       LayoutDone
  <2>2. nav' = [nav EXCEPT ![t] = [nav[t] EXCEPT !.layout = l]]
    BY <2>1
  <2>3. UNCHANGED <<coming, role, jar>>
    BY <1>4 DEF LayoutLoads, world
  <2>4. \A p \in coming'[t] : OnItsWay(t, p)'
    BY <1>1, <1>4, <2>3, LayoutOnItsWay
  <2> QED  BY <2>2, <2>3, <2>4, OneTabMoves
<1>5. CASE ChildLoads(t)
  <2>1. PICK c : nav' = [nav EXCEPT ![t].child = c]
    BY <1>5 DEF ChildLoads
  <2>2. nav' = [nav EXCEPT ![t] = [nav[t] EXCEPT !.child = c]]
    BY <2>1
  <2>3. UNCHANGED <<coming, role, jar>>
    BY <1>5 DEF ChildLoads, world
  <2>4. \A p \in coming'[t] : OnItsWay(t, p)'
    BY <1>1, <1>5, <2>3, ChildOnItsWay
  <2> QED  BY <2>2, <2>3, <2>4, OneTabMoves
<1>6. ASSUME NEW a, Hear(t, a), \A s \in Tabs : s # t => coming'[s] = Disturb(t, a.set)[s],
             \A p \in coming'[t] : OnItsWay(t, p)'
      PROVE  SwitchInv'
  <2>1. PICK n : nav' = [nav EXCEPT ![t] = n]
    BY <1>6 DEF Hear
  <2>2. \A s \in Tabs : s # t => coming'[s] = IF a.set # {} THEN {} ELSE coming[s]
    BY <1>6 DEF Disturb
  <2>3. a.set = {} => UNCHANGED jar
    BY <1>6 DEF Hear, Commit
  <2>4. UNCHANGED role
    BY <1>6 DEF Hear, world
  <2> QED  BY <1>6, <2>1, <2>2, <2>3, <2>4, OneTabMoves
<1>7. CASE HearLoad(t)
  <2>1. PICK a \in Loaded(nav[t]) : Hear(t, a) /\ coming' = Disturb(t, a.set)
    BY <1>7 DEF HearLoad
  <2>2. coming'[t] = coming[t]
    BY <2>1 DEF Disturb
  <2>3. ASSUME NEW p \in coming'[t]  PROVE OnItsWay(t, p)'
    <3>1. OnItsWay(t, p) /\ nav[t].stage = "sent"
      BY <1>1, <1>7, <2>2 DEF HearLoad
    <3>2. /\ \A url \in a.to : url.route # "auth"
          /\ a.page.kind = "page" => a.page.header = p
          /\ \A s \in a.set : s.user = jar.user /\ s.project = p
      BY <1>1, <2>1, <3>1, LoadedOnItsWay
    <3>3. nav'[t] = [Idle EXCEPT !.stage = "heard", !.answer = a] /\ UNCHANGED role
      BY <1>1, <2>1 DEF Hear, world
    <3>4. nav'[t].stage = "heard" /\ nav'[t].answer = a
      BY <3>3, HeardNav
    <3>5. jar'.user = jar.user /\ jar'.project = p
      <4>1. a.set # {} => (CHOOSE s \in a.set : TRUE) \in a.set
        OBVIOUS
      <4>2. jar.project = p
        BY <3>1 DEF OnItsWay
      <4> QED  BY <2>1, <3>2, <4>1, <4>2 DEF Hear, Commit
    <3> QED  BY <3>1, <3>2, <3>3, <3>4, <3>5 DEF OnItsWay
  <2> QED  BY <1>6, <2>1, <2>3
<1>8. CASE HearSwitch(t)
  <2> DEFINE a == SwitchAnswer(nav[t])
             d == IF SwitchAccepted(nav[t]) THEN {nav[t].arg} ELSE {}
  <2>1. Hear(t, a) /\ coming' = [Disturb(t, a.set) EXCEPT ![t] = d]
    BY <1>8 DEF HearSwitch
  <2>2. coming'[t] = d /\ \A s \in Tabs : s # t => coming'[s] = Disturb(t, a.set)[s]
    BY <2>1 DEF Disturb
  <2>3. \A p \in coming'[t] : OnItsWay(t, p)'
    <3>1. CASE SwitchAccepted(nav[t])
      <4>1. coming'[t] = {nav[t].arg}
        BY <2>2, <3>1
      <4> QED  BY <1>8, <3>1, <4>1, SwitchOnItsWay
    <3> QED  BY <2>2, <3>1
  <2> HIDE DEF a, d
  <2> QED  BY <1>6, <2>1, <2>2, <2>3
<1>9. CASE HearCallback(t)
  <2>1. PICK a \in CallbackAnswers(nav[t]) : Hear(t, a) /\ coming' = Disturb(t, a.set)
    BY <1>9 DEF HearCallback
  <2>2. coming'[t] = coming[t]
    BY <2>1 DEF Disturb
  <2>3. coming[t] = {}
    BY <1>1, <1>9 DEF HearCallback, OnItsWay
  <2> QED  BY <1>6, <2>1, <2>2, <2>3
<1>10. CASE Follow(t)
  <2>1. PICK url \in nav[t].answer.to : Go(t, Asking(url, jar))
    BY <1>10 DEF Follow
  <2>2. nav' = [nav EXCEPT ![t] = Asking(url, jar)] /\ UNCHANGED <<role, jar, coming>>
    BY <1>10, <2>1 DEF Follow, Go, world
  <2>3. ASSUME NEW p \in coming'[t]  PROVE OnItsWay(t, p)'
    <3>1. OnItsWay(t, p)
      BY <1>1, <2>2
    <3>2. url.route # "auth" /\ jar.user # None /\ jar.project = p /\ role[jar.user][p] # "none"
      BY <1>10, <2>1, <3>1 DEF Follow, OnItsWay
    <3>3. nav'[t] = Asking(url, jar')
      BY <1>1, <2>2
    <3> QED  BY <2>2, <3>2, <3>3, AskedOnItsWay
  <2> QED  BY <2>2, <2>3, OneTabMoves
<1>11. CASE Render(t)
  <2>1. coming'[t] = {} /\ \A s \in Tabs : s # t => coming'[s] = coming[s]
    BY <1>1, <1>11 DEF Render
  <2> QED  BY <1>11, <2>1, OneTabMoves DEF Render, world
<1> QED  BY <1>2, <1>3, <1>4, <1>5, <1>7, <1>8, <1>9, <1>10, <1>11, UserAsks DEF Navigation
(* What a form's answer makes of a switch: one is on its way to the project  *)
(* just created, and the others go on or are off.                          *)
LEMMA SwitchHeard ==
  ASSUME Typed, PostInv, SwitchInv, NEW t \in Tabs, HearPost(t)  PROVE SwitchInv'
<1> DEFINE x == post[t]
           a == x.answer
<1>0. Typed'
  BY SubmissionTypes DEF Submission
<1>1. /\ nav \in [Tabs -> Navs] /\ jar \in Sessions
      /\ coming \in [Tabs -> SUBSET Projects] /\ coming' \in [Tabs -> SUBSET Projects]
      /\ UNCHANGED role
  BY <1>0 DEF Typed, NavsTyped, RestTyped, HearPost, world
<1>2. Commit(a.set)
  BY DEF HearPost
<1>3. a.to = {} \/ a.page = ErrorPage => a.set = {} /\ UNCHANGED jar
  BY <1>2 DEF PostInv, Commit
<1>4. CASE /\ x.here /\ a.to # {}
           /\ \E url \in a.to : nav' = [nav EXCEPT ![t] = Asking(url, jar')]
           /\ coming' = [Disturb(t, a.set) EXCEPT ![t] =
                IF x.what = "create" THEN UNION {Chosen(s.user, x.created) : s \in a.set} ELSE {}]
  <2> DEFINE d == IF x.what = "create" THEN UNION {Chosen(s.user, x.created) : s \in a.set} ELSE {}
  <2>1. PICK url \in a.to : nav' = [nav EXCEPT ![t] = Asking(url, jar')]
    BY <1>4
  <2>2. coming'[t] = d /\ \A s \in Tabs : s # t => coming'[s] = IF a.set # {} THEN {} ELSE coming[s]
    BY <1>4 DEF Disturb
  <2>3. a.set = {} => UNCHANGED jar
    BY <1>2 DEF Commit
  <2>4. ASSUME NEW p \in coming'[t]  PROVE OnItsWay(t, p)'
    <3>1. x.what = "create" /\ a.set # {}
      BY <2>2, <2>4
    <3>2. PICK s \in Sessions : a.set = {s} /\ s.user # None /\ s.project = x.created
      BY <3>1 DEF PostInv
    <3>3. a.to = {At("dashboard")}
      BY <3>1 DEF PostInv
    <3>4. p \in Chosen(s.user, x.created)
      BY <2>2, <2>4, <3>1, <3>2
    <3>5. p = x.created /\ role[s.user][p] # "none"
      BY <3>4 DEF Chosen, Reaches
    <3>6. jar' = s
      BY <1>2, <3>2 DEF Commit
    <3>7. url.route # "auth"
      BY <2>1, <3>3, BareKinds
    <3>8. nav'[t] = Asking(url, jar')
      BY <1>1, <2>1
    <3> HIDE DEF x, a, d
    <3> QED  BY <1>1, <3>2, <3>5, <3>6, <3>7, <3>8, AskedOnItsWay
  <2> HIDE DEF x, a, d
  <2> QED  BY <1>1, <2>1, <2>2, <2>3, <2>4, OneTabMoves
<1>5. CASE a.page = ErrorPage /\ UNCHANGED <<nav, coming>>
  BY <1>1, <1>3, <1>5, NobodyPutOut
<1>6. CASE /\ a.to = {} /\ nav[t].stage = "idle"
           /\ nav' = [nav EXCEPT ![t] = Asking(page[t].url, jar)]
           /\ UNCHANGED coming
  <2>1. coming[t] = {}
    BY <1>6 DEF SwitchInv, OnItsWay
  <2> QED  BY <1>1, <1>3, <1>6, <2>1, OneTabMoves
<1>7. CASE coming' = (IF a.set = {} THEN coming ELSE [s \in Tabs |-> {}]) /\ UNCHANGED nav
  <2>1. CASE a.set = {}
    <3>1. UNCHANGED jar
      BY <1>2, <2>1 DEF Commit
    <3> QED  BY <1>1, <1>7, <2>1, <3>1, NobodyPutOut
  <2>2. CASE a.set # {}
    BY <1>7, <2>2 DEF SwitchInv
  <2> QED  BY <2>1, <2>2
<1> QED  BY <1>4, <1>5, <1>6, <1>7 DEF HearPost

(* Nothing else loses a switch and keeps it coming.                        *)
LEMMA SwitchStep ==
  ASSUME Typed, NavInv, PostInv, SwitchInv, [Next]_vars  PROVE SwitchInv'
<1>0. Typed'
  BY TypedStep
<1>1. /\ jar \in Sessions /\ role \in [Users -> [Projects -> {"none", "member", "owner"}]]
      /\ coming \in [Tabs -> SUBSET Projects] /\ coming' \in [Tabs -> SUBSET Projects]
  BY <1>0 DEF Typed, RestTyped
<1>2. ASSUME NEW t \in Tabs, User(t) \/ Navigation(t)  PROVE SwitchInv'
  BY <1>2, SwitchNavigation
<1>3. ASSUME UNCHANGED <<nav, jar, coming, role>>  PROVE SwitchInv'
  BY <1>1, <1>3, NobodyPutOut
<1>4. ASSUME UNCHANGED <<nav, jar>>, NEW p \in Projects, RemoveAll(p),
             coming' = [s \in Tabs |-> coming[s] \ {p}]
      PROVE  SwitchInv'
  <2>1. \A s \in Tabs : coming'[s] \subseteq coming[s] /\ p \notin coming'[s]
    BY <1>4
  <2>2. ASSUME NEW q \in Projects, q # p, NEW u \in Users  PROVE role'[u][q] = role[u][q]
    BY <1>1, <1>4, <2>2 DEF RemoveAll
  <2> QED  BY <1>1, <1>4, <2>1, <2>2, NobodyPutOut
<1>5. ASSUME NEW t \in Tabs, Submission(t)  PROVE SwitchInv'
  <2>1. CASE HearPost(t)
    BY <2>1, SwitchHeard
  <2>2. ASSUME NEW p \in Projects, Create(t, p)  PROVE SwitchInv'
    <3>1. UNCHANGED <<nav, jar, coming>>
      BY <2>2 DEF Create
    <3>2. ASSUME NEW q \in Projects, NEW u \in Users, role[u][q] # "none"  PROVE role'[u][q] # "none"
      BY <1>1, <2>2, <3>2 DEF Create, RoleSet
    <3> QED  BY <1>1, <3>1, <3>2, NobodyPutOut
  <2>3. CASE Delete(t)
    <3>1. post[t].arg \in Projects
      BY <2>3 DEF Typed, PostsTyped, PostArg, Delete
    <3> QED  BY <1>3, <1>4, <2>3, <3>1 DEF Delete
  <2>4. CASE \/ Refuse(t) \/ NoProjectSelected(t) \/ ActInProject(t) \/ BrokerRefuses(t)
             \/ CreateFails(t) \/ RefuseDelete(t) \/ CheckDelete(t)
    BY <1>3, <2>4 DEF Refuse, NoProjectSelected, ActInProject, BrokerRefuses, CreateFails,
       RefuseDelete, CheckDelete, world
  <2> QED  BY <1>5, <2>1, <2>2, <2>3, <2>4 DEF Submission
<1>6. ASSUME NEW u \in Users, NEW p \in Projects, NEW r \in {"none", "member", "owner"},
             ChangeRole(u, p, r)
      PROVE  SwitchInv'
  <2>1. UNCHANGED <<nav, jar>>
    BY <1>6 DEF ChangeRole
  <2>2. \A t \in Tabs : coming'[t] \subseteq coming[t] /\ (r = "none" => p \notin coming'[t])
    BY <1>1, <1>6 DEF ChangeRole
  <2>3. ASSUME NEW q \in Projects, NEW v \in Users, role[v][q] # "none", q # p \/ r # "none"
        PROVE  role'[v][q] # "none"
    BY <1>1, <1>6, <2>3 DEF ChangeRole, RoleSet
  <2> QED  BY <1>1, <2>1, <2>2, <2>3, NobodyPutOut
<1>7. ASSUME NEW p \in Projects, DeleteElsewhere(p)  PROVE SwitchInv'
  BY <1>4, <1>7 DEF DeleteElsewhere
<1>8. CASE Expire
  BY <1>8 DEF Expire, SwitchInv
<1>9. CASE UNCHANGED vars
  BY <1>3, <1>9 DEF vars, world
<1> QED  BY <1>2, <1>5, <1>6, <1>7, <1>8, <1>9 DEF Next, Others
-----------------------------------------------------------------------------
(* The invariant, and what follows from it.                                *)

(* A browser with some pages of its session open has none of two projects.  *)
LEMMA InitInv == Init => Inv
<1> SUFFICES ASSUME Init  PROVE Inv
  OBVIOUS
<1>1. Typed
  BY InitTypes
<1>2. \A t \in Tabs : nav[t] = Idle /\ post[t] = NoPost /\ coming[t] = {}
  BY DEF Init
<1>3. /\ OfOneProject(Idle.answer.page) /\ SignInBare(Idle.answer.page)
      /\ Idle.what = "load" /\ LoadsOneProject(Idle)
      /\ NoPost.answer.set = {}
  BY BareKinds, BarePages, OneProjectBare DEF Idle, NoPost
<1>4. ASSUME NEW t \in Tabs  PROVE OfOneProject(page[t]) /\ SignInBare(page[t])
  <2>1. jar.project \in Projects /\ page[t] \in OpenedPages(jar)
    BY DEF Init
  <2>2. CASE page[t] = AuthPage
    BY <2>2, OneProjectBare, BarePages
  <2>3. ASSUME NEW url \in OpenedURLs(jar), page[t] = Opened(jar, url)
        PROVE  OfOneProject(page[t]) /\ SignInBare(page[t])
    <3>1. url.route # "auth" /\ jar.project # None
      BY <2>1, DashboardAssumption DEF OpenedURLs
    <3>2. page[t].url = url /\ page[t].header = jar.project
          /\ (url.route \in Scoped => page[t].data = {jar.project})
      BY <2>3 DEF Opened
    <3> QED  BY <3>1, <3>2 DEF OfOneProject, SignInBare
  <2> QED  BY <2>1, <2>2, <2>3 DEF OpenedPages
<1>5. PagesInv /\ NavInv
  BY <1>2, <1>3, <1>4 DEF PagesInv, NavInv
<1>6. PostInv /\ SwitchInv
  BY <1>2, <1>3 DEF PostInv, SwitchInv, NoPost
<1> QED  BY <1>1, <1>5, <1>6 DEF Inv

(* Every step keeps it. *)
LEMMA InvStep == Inv /\ [Next]_vars => Inv'
  BY TypedStep, PagesStep, NavStep, PostStep, SwitchStep DEF Inv

(* The invariant holds for every number of tabs, users and projects.       *)
THEOREM DashboardInvariant == Spec => []Inv
  BY InitInv, InvStep, PTL DEF Spec

(* What a page shows is the data of the one project its header names,       *)
(* whatever the other tabs and the other owners do while its two loaders    *)
(* run.                                                                    *)
THEOREM OnePageOneProject == Spec => []PageOfOneProject
<1>1. Inv => PageOfOneProject
  BY DEF Inv, PagesInv, OfOneProject, PageOfOneProject
<1> QED  BY <1>1, DashboardInvariant, PTL

(* A step that ends a navigation on a page ends it on the project chosen.   *)
LEMMA SwitchLandsStep ==
  ASSUME Inv, [Next]_vars, NEW t \in Tabs, nav'[t] = Idle, nav[t].answer.page.kind = "page",
         NEW p \in coming[t]
  PROVE  page'[t].header = p
<1>1. nav[t] \in Navs /\ nav \in [Tabs -> Navs] /\ page \in [Tabs -> Pages] /\ OnItsWay(t, p)
  BY DEF Inv, Typed, NavsTyped, RestTyped, SwitchInv
<1>2. Idle.stage = "idle"
  BY DEF Idle
<1>3. nav[t].stage # "idle"
  BY <1>1 DEF OnItsWay
<1>4. ASSUME NEW n, n.stage # "idle", NEW s \in Tabs, nav' = [nav EXCEPT ![s] = n]  PROVE FALSE
  BY <1>1, <1>2, <1>3, <1>4
<1>5. ASSUME UNCHANGED nav  PROVE FALSE
  BY <1>2, <1>3, <1>5
<1>6. ASSUME NEW s \in Tabs, Render(s)  PROVE page'[t].header = p
  <2>1. s = t
    BY <1>1, <1>2, <1>3, <1>6 DEF Render
  <2>2. nav[t].stage = "heard" /\ page'[t] = nav[t].answer.page
    BY <1>1, <1>6, <2>1 DEF Render
  <2> QED  BY <1>1, <2>2 DEF OnItsWay
<1>7. ASSUME NEW url, NEW s, NEW v \in Tabs, nav' = [nav EXCEPT ![v] = Asking(url, s)]  PROVE FALSE
  BY <1>4, <1>7, AskingFresh DEF Fresh
<1>8. ASSUME NEW s \in Tabs, LayoutLoads(s) \/ ChildLoads(s)  PROVE FALSE
  BY <1>1, <1>2, <1>3, <1>8 DEF Navs, LayoutLoads, LayoutRequiresAuth, LayoutCorrects,
     LayoutSendsToNew, LayoutShows, LayoutDone, ChildLoads
<1>9. ASSUME NEW s \in Tabs, NEW a, Hear(s, a)  PROVE FALSE
  <2> DEFINE h == [Idle EXCEPT !.stage = "heard", !.answer = a]
  <2>1. h.stage # "idle"
    BY HeardNav
  <2>2. nav' = [nav EXCEPT ![s] = h]
    BY <1>9 DEF Hear
  <2> HIDE DEF h
  <2> QED  BY <1>4, <2>1, <2>2
<1>10. ASSUME NEW s \in Tabs, HearLoad(s) \/ HearSwitch(s) \/ HearCallback(s)  PROVE FALSE
  BY <1>9, <1>10 DEF HearLoad, HearSwitch, HearCallback
<1>11. ASSUME NEW s \in Tabs, User(s)  PROVE FALSE
  <2>1. ASSUME NEW n, Asked(s, n)  PROVE FALSE
    BY <1>4, <2>1 DEF Asked, Fresh, Go
  <2> QED  BY <1>5, <1>11, <2>1, UserAsks, QuietSteps
<1>12. ASSUME NEW s \in Tabs, Follow(s) \/ HearPost(s)  PROVE FALSE
  BY <1>5, <1>7, <1>12 DEF Follow, Go, HearPost
<1>13. ASSUME NEW s \in Tabs, Submission(s)  PROVE FALSE
  BY <1>5, <1>12, <1>13, QuietSteps
<1> QED
  BY <1>5, <1>6, <1>8, <1>10, <1>11, <1>12, <1>13, QuietOthers DEF Next, Navigation, vars

(* A switch the server accepted, and a project just created, lead to a page  *)
(* of that project, unless another tab's cookie or another owner comes in    *)
(* between.                                                                *)
THEOREM SwitchLandsThere == Spec => SwitchLands
<1>1. Inv /\ [Next]_vars =>
        (\A t \in Tabs : nav'[t] = Idle /\ nav[t].answer.page.kind = "page" =>
           \A p \in coming[t] : page'[t].header = p)
  BY SwitchLandsStep
<1> QED  BY <1>1, DashboardInvariant, PTL DEF Spec, SwitchLands

=============================================================================
