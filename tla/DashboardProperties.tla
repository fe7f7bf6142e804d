------------------------ MODULE DashboardProperties ------------------------
(* What the dashboard has to guarantee to who uses it in several tabs.     *)
EXTENDS Dashboard

(* What a page shows is the data of the one project its header names, and   *)
(* only the page that creates projects can do without (the layout's loader  *)
(* corrects the session and reloads for the loaders beside it).             *)
PageOfOneProject ==
  \A t \in Tabs : page[t].kind = "page" /\ page[t].url.route # "auth" =>
    /\ page[t].url.route # "new" => page[t].header # None
    /\ page[t].url.route \in Scoped => page[t].data \subseteq {page[t].header}

(* A switch that was accepted, and a project just created, lead to a page   *)
(* of that project, unless another tab's cookie or another owner comes in   *)
(* between (the switch action, the layout's loader and commitSession).      *)
SwitchLands ==
  [][\A t \in Tabs : nav'[t] = Idle /\ nav[t].answer.page.kind = "page" =>
       \A p \in coming[t] : page'[t].header = p]_vars

(* A navigation ends, on a page, an error or the sign-in page: correcting   *)
(* the session, sending to the sign-in page or to a new project never goes  *)
(* round for ever (the redirects of the layout and of the pages' loaders).  *)
LoadsEnd == \A t \in Tabs : nav[t].stage # "idle" ~> nav[t].stage = "idle"
=============================================================================
