-------------------------------- MODULE Setup --------------------------------
(***************************************************************************)
(* How a fresh instance gets its owner: the setup wizard and the sign-up   *)
(* page in several browsers, the routes they call, the hook that provisions *)
(* an organization, and the routes by which the owner appoints other       *)
(* instance administrators and organizations are created for the instance. *)
(* (apps/web: app/setup, app/signup, app/api/instance-*, lib/auth.ts,      *)
(* lib/instance-admin.ts, lib/server-api.ts)                               *)
(*                                                                         *)
(* A user is the e-mail address he signs up with.  An organization of the  *)
(* web's database and the one of the API that it is linked to share one    *)
(* identity; that of the API exists first.                                 *)
(***************************************************************************)
EXTENDS Naturals, FiniteSets

CONSTANTS
  Users, Browsers, Pages, Orgs,
  BrowserOf,     \* the browser a page is open in
  Wizards,       \* the pages that are the setup wizard; the others are /signup
  Nobody,
  Incidents,     \* kinds of incident that may happen
  MaxIncidents,  \* bound: so many incidents
  MaxVisits      \* bound: so many pages opened, sign-ins and sign-outs

IncidentKinds == {"network", "api", "crash", "other_tab"}
Missing == "missing"

ASSUME PagesAssumption == BrowserOf \in [Pages -> Browsers] /\ Wizards \subseteq Pages
ASSUME NobodyAssumption == Nobody \notin Users \cup Orgs /\ Missing \notin Users
ASSUME BoundsAssumption ==
  Incidents \subseteq IncidentKinds /\ MaxIncidents \in Nat /\ MaxVisits \in Nat

VARIABLES
  users,        \* table "user"
  role,         \* table "mailflow_instance_admin"
  provisioned,  \* organizations of the API
  owner,        \* table "member": the owner of an organization, once it exists
  provider,     \* whether a model provider has been saved
  session,      \* of a browser's cookie: its user and active organization, and the
                \* pages that it was changed under (history)
  page,         \* of each page
  grant,        \* the POST /instance-admins in progress
  creation,     \* the POST /instance-organizations in progress
  incidents, visits

tables == <<users, role, provisioned, owner, provider>>
handlers == <<grant, creation>>
bounds == <<incidents, visits>>
vars == <<tables, session, page, handlers, bounds>>

Roles == {"none", "admin", "owner"}
Owners == {u \in Users : role[u] = "owner"}
Submitting == {"checking", "signing", "provisioning", "inserting", "claiming", "finishing"}
Places == {"closed", "guard", "locked", "welcome", "loading", "idle", "away", "stuck", "done"}
            \cup Submitting
SignedOut == [user |-> Nobody, active |-> Nobody, crossed |-> {}]
Closed == [at |-> "closed", step |-> 1, ready |-> FALSE, found |-> FALSE,
           user |-> Nobody, actor |-> Nobody, org |-> Nobody]

TypeOK ==
  /\ users \subseteq Users
  /\ role \in [Users -> Roles]
  /\ provisioned \subseteq Orgs
  /\ owner \in [Orgs -> Users \cup {Nobody, Missing}]
  /\ provider \in BOOLEAN
  /\ session \in [Browsers -> [user : Users \cup {Nobody}, active : Orgs \cup {Nobody},
                               crossed : SUBSET Pages]]
  /\ page \in [Pages -> [at : Places, step : 1..5, ready : BOOLEAN, found : BOOLEAN,
                         user : Users \cup {Nobody}, actor : Users \cup {Nobody},
                         org : Orgs \cup {Nobody}]]
  /\ grant \in Users \cup {Nobody}
  /\ creation \in [org : Orgs \cup {Nobody}, owner : Users \cup {Nobody}]
  /\ incidents \in Nat /\ visits \in Nat

Init ==
  /\ users = {} /\ role = [u \in Users |-> "none"]
  /\ provisioned = {} /\ owner = [o \in Orgs |-> Missing] /\ provider = FALSE
  /\ session = [b \in Browsers |-> SignedOut]
  /\ page = [p \in Pages |-> Closed]
  /\ grant = Nobody /\ creation = [org |-> Nobody, owner |-> Nobody]
  /\ incidents = 0 /\ visits = 0

Incident(kind) ==
  /\ kind \in Incidents /\ incidents < MaxIncidents
  /\ incidents' = incidents + 1
  /\ UNCHANGED visits

Visit ==
  /\ visits < MaxVisits
  /\ visits' = visits + 1
  /\ UNCHANGED incidents

At(p, place) == page[p].at = place
Cookie(p) == session[BrowserOf[p]]
Goes(p, place) == page' = [page EXCEPT ![p].at = place]

\* The places at which a page has signed up its user, and asks for more in the name of
\* whoever the cookie is of by then.
OnCookie == {"provisioning", "inserting", "claiming"}

\* The session of a user, or of nobody, takes the cookie.
NewSession(b, u) ==
  [user |-> u, active |-> Nobody,
   crossed |-> session[b].crossed \cup
                 {p \in Pages : /\ BrowserOf[p] = b /\ page[p].user # u
                               /\ page[p].at \in OnCookie}]

\* resolveApiKey for the routes of isPreAuthSetupRoute.  With a session they are
\* treated like any other: without an active organization there is no key, and
\* with one the proxy keeps provider routes to the instance's administration.
SetupRouteOpen(b) == session[b].user = Nobody /\ Owners = {}
-----------------------------------------------------------------------------
(* Opening the pages. *)

Open(p) ==
  /\ page[p].at \notin Submitting
  /\ Visit
  /\ page' = [page EXCEPT ![p] = [Closed EXCEPT !.at = "guard"]]
  /\ UNCHANGED <<tables, session, handlers>>

\* The effects of SetupFlow and useSignupPage ask for the status first.
Guard(p) ==
  /\ At(p, "guard")
  /\ \/ /\ Goes(p, IF Owners # {} THEN "away"
                   ELSE IF p \in Wizards THEN "welcome" ELSE "idle")
        /\ UNCHANGED bounds
     \/ Incident("network") /\ Goes(p, IF p \in Wizards THEN "locked" ELSE "idle")
  /\ UNCHANGED <<tables, session, handlers>>

StartSetup(p) ==
  /\ At(p, "welcome")
  /\ Goes(p, "loading")
  /\ UNCHANGED <<tables, session, handlers, bounds>>

\* The effect of InstanceSetup: is there a provider already?
Load(p) ==
  /\ At(p, "loading")
  /\ page' = [page EXCEPT ![p].at = "idle",
                          ![p].ready = provider /\ SetupRouteOpen(BrowserOf[p])]
  /\ UNCHANGED <<tables, session, handlers, bounds>>
-----------------------------------------------------------------------------
(* The steps of the wizard.  Steps 1 and 2 keep nothing; 2 is left out when *)
(* the installer has given the address.  The API is reachable (healthReady). *)

OnStep(p, n) == p \in Wizards /\ At(p, "idle") /\ page[p].step = n

\* The buttons that only turn the pages of the wizard.  They are not disabled while
\* createInstanceOwner is on its way.
Turns == {<<1, 2>>, <<1, 3>>, <<2, 3>>, <<2, 1>>, <<3, 2>>, <<3, 1>>, <<4, 3>>}

Turn(p) ==
  /\ p \in Wizards /\ page[p].at \in Submitting \cup {"idle"}
  /\ \E next \in 1..5 : /\ <<page[p].step, next>> \in Turns
                        /\ page' = [page EXCEPT ![p].step = next]
  /\ UNCHANGED <<tables, session, handlers, bounds>>

\* An endpoint that does not answer, or an edit of the form, empties the list.
DiscoverModels(p) ==
  /\ OnStep(p, 3) /\ ~ page[p].ready
  /\ \E answered \in BOOLEAN :
       page' = [page EXCEPT ![p].found = answered /\ SetupRouteOpen(BrowserOf[p])]
  /\ UNCHANGED <<tables, session, handlers, bounds>>

SaveProvider(p) ==
  /\ OnStep(p, 3)
  /\ \/ /\ page[p].ready
        /\ page' = [page EXCEPT ![p].step = 4]
        /\ UNCHANGED provider
     \/ /\ ~ page[p].ready /\ page[p].found /\ SetupRouteOpen(BrowserOf[p])
        /\ provider' = TRUE
        /\ page' = [page EXCEPT ![p].ready = TRUE, ![p].step = 4]
  /\ UNCHANGED <<users, role, provisioned, owner, session, handlers, bounds>>
-----------------------------------------------------------------------------
(* createInstanceOwner of the wizard and submit of the sign-up page: the   *)
(* same four requests, in the same order.                                  *)

Submit(p, u) ==
  /\ IF p \in Wizards THEN OnStep(p, 4) /\ page[p].ready ELSE At(p, "idle")
  /\ page' = [page EXCEPT ![p].at = "checking", ![p].user = u]
  /\ UNCHANGED <<tables, session, handlers, bounds>>

\* An answer that says no is shown and the form can be used again.
Refused(p) == Goes(p, "idle")

\* A request that fails altogether, before or after it took effect; reloading the
\* page meanwhile comes to the same, followed by Open.  Only the wizard has a
\* handler for it: the sign-up page stays busy.
Unanswered(p) == Goes(p, IF p \in Wizards THEN "idle" ELSE "stuck")

CheckStatus(p) ==
  /\ At(p, "checking")
  /\ \/ Owners = {} /\ Goes(p, "signing") /\ UNCHANGED bounds
     \/ Owners # {} /\ Refused(p) /\ UNCHANGED bounds
     \/ Incident("network") /\ Unanswered(p)
  /\ UNCHANGED <<tables, session, handlers>>

\* signUp.email; the answer carries the cookie of the new session.
SignUp(p) ==
  /\ At(p, "signing")
  /\ \/ /\ page[p].user \in users
        /\ Refused(p)
        /\ UNCHANGED <<users, session, bounds>>
     \/ /\ page[p].user \notin users
        /\ users' = users \cup {page[p].user}
        /\ \/ /\ Goes(p, "provisioning")
              /\ LET new == NewSession(BrowserOf[p], page[p].user)
                 IN session' = [session EXCEPT ![BrowserOf[p]] =
                                  [new EXCEPT !.crossed = @ \ {p}]]
              /\ UNCHANGED bounds
           \/ /\ Incident("network") /\ Unanswered(p)
              /\ UNCHANGED session
  /\ UNCHANGED <<role, provisioned, owner, provider, handlers>>

\* Mutated: the hook does not look at the status of the API's answer.
ProvisionUnchecked(p) ==
  /\ At(p, "provisioning")
  /\ \E o \in Orgs \ provisioned :
       /\ page' = [page EXCEPT ![p].at = "inserting", ![p].org = o,
                               ![p].actor = Cookie(p).user]
       /\ \/ provisioned' = provisioned \cup {o} /\ UNCHANGED bounds
          \/ Incident("api") /\ UNCHANGED provisioned
  /\ UNCHANGED <<users, role, owner, provider, session, handlers>>

\* organization.create, first half: the hook beforeCreateOrganization makes the
\* organization of the API.
Provision(p) ==
  /\ At(p, "provisioning")
  /\ \/ /\ Cookie(p).user # Nobody
        /\ \E o \in Orgs \ provisioned :
             /\ provisioned' = provisioned \cup {o}
             /\ page' = [page EXCEPT ![p].at = "inserting", ![p].org = o,
                                     ![p].actor = Cookie(p).user]
        /\ UNCHANGED bounds
     \/ Cookie(p).user = Nobody /\ Refused(p) /\ UNCHANGED <<provisioned, bounds>>
     \/ Incident("api") /\ Refused(p) /\ UNCHANGED provisioned
  /\ UNCHANGED <<users, role, owner, provider, session, handlers>>

\* Second half: the organization, its owner, and the session's active one.
InsertOrganization(p) ==
  /\ At(p, "inserting")
  /\ \/ /\ owner' = [owner EXCEPT ![page[p].org] = page[p].actor]
        /\ session' = [session EXCEPT ![BrowserOf[p]].active =
                         IF Cookie(p).user = page[p].actor THEN page[p].org ELSE @]
        /\ \/ Goes(p, "claiming") /\ UNCHANGED bounds
           \/ Incident("network") /\ Unanswered(p)
     \/ Incident("crash") /\ Unanswered(p) /\ UNCHANGED <<owner, session>>
  /\ UNCHANGED <<users, role, provisioned, provider, handlers>>

\* Mutated: the page does not look at the answer.
ClaimUnread(p) ==
  LET u == Cookie(p).user IN
  /\ At(p, "claiming")
  /\ role' = IF u # Nobody /\ Owners = {} /\ role[u] = "none"
             THEN [role EXCEPT ![u] = "owner"] ELSE role
  /\ Goes(p, "finishing")
  /\ UNCHANGED <<users, provisioned, owner, provider, session, handlers, bounds>>

\* claimInitialInstanceOwner, under its table lock, for the user of the cookie.
Claim(p) ==
  LET u == Cookie(p).user IN
  /\ At(p, "claiming")
  /\ \/ /\ u # Nobody /\ Owners = {} /\ role[u] = "none"
        /\ role' = [role EXCEPT ![u] = "owner"]
        /\ \/ Goes(p, "finishing") /\ UNCHANGED bounds
           \/ Incident("network") /\ Unanswered(p)
     \/ /\ ~ (u # Nobody /\ Owners = {} /\ role[u] = "none")
        /\ Refused(p)
        /\ UNCHANGED <<role, bounds>>
  /\ UNCHANGED <<users, provisioned, owner, provider, session, handlers>>

\* The wizard stores the language, whether or not the API takes it, and goes to
\* its last step; the sign-up page goes on to the onboarding.
Finish(p) ==
  /\ At(p, "finishing")
  /\ page' = IF p \in Wizards THEN [page EXCEPT ![p].at = "idle", ![p].step = 5]
             ELSE [page EXCEPT ![p].at = "done"]
  /\ UNCHANGED <<tables, session, handlers, bounds>>
-----------------------------------------------------------------------------
(* Sessions, administrators, and organizations made for the instance. *)

\* The rest of a browser: the login page and the menu.  While one of its pages
\* submits, that takes another tab.
Elsewhere(b) ==
  \/ /\ \A p \in Pages : BrowserOf[p] = b => page[p].at \notin Submitting
     /\ Visit
  \/ /\ \E p \in Pages : BrowserOf[p] = b /\ page[p].at \in Submitting
     /\ Incident("other_tab")

SignIn(b, u) ==
  /\ u \in users
  /\ Elsewhere(b)
  /\ session' = [session EXCEPT ![b] = NewSession(b, u)]
  /\ UNCHANGED <<tables, page, handlers>>

SignOut(b) ==
  /\ session[b].user # Nobody
  /\ Elsewhere(b)
  /\ session' = [session EXCEPT ![b] = NewSession(b, Nobody)]
  /\ UNCHANGED <<tables, page, handlers>>

HasRole(b, roles) == session[b].user # Nobody /\ role[session[b].user] \in roles

\* Mutated: whoever is named is appointed.
GrantAny(b, u) ==
  /\ grant = Nobody
  /\ HasRole(b, {"owner"})
  /\ u \in users
  /\ grant' = u
  /\ UNCHANGED <<tables, session, page, creation, bounds>>

\* POST /instance-admins, up to the read in grantInstanceAdmin (bound: one such
\* request at a time).
GrantCheck(b, u) ==
  /\ grant = Nobody
  /\ HasRole(b, {"owner"})
  /\ u \in users /\ role[u] # "owner"
  /\ grant' = u
  /\ UNCHANGED <<tables, session, page, creation, bounds>>

\* ... and its write, on conflict do update.
GrantWrite ==
  /\ grant # Nobody
  /\ role' = [role EXCEPT ![grant] = "admin"]
  /\ grant' = Nobody
  /\ UNCHANGED <<users, provisioned, owner, provider, session, page, creation, bounds>>

Revoke(b, u) ==
  /\ HasRole(b, {"owner"})
  /\ role[u] = "admin"
  /\ role' = [role EXCEPT ![u] = "none"]
  /\ UNCHANGED <<users, provisioned, owner, provider, session, page, handlers, bounds>>

\* POST /instance-organizations: everything it inserts is one transaction, and the
\* organization of the API is made inside it, by its own.  The first owner is a
\* registered user, or is invited, or there is none.
CreateOrganization(b, o, u) ==
  /\ creation.org = Nobody
  /\ HasRole(b, {"owner", "admin"})
  /\ o \notin provisioned /\ u \in users \cup {Nobody}
  /\ provisioned' = provisioned \cup {o}
  /\ creation' = [org |-> o, owner |-> u]
  /\ UNCHANGED <<users, role, owner, provider, session, page, grant, bounds>>

CommitOrganization ==
  /\ creation.org # Nobody
  /\ creation' = [org |-> Nobody, owner |-> Nobody]
  /\ \/ /\ owner' = [owner EXCEPT ![creation.org] = creation.owner]
        /\ UNCHANGED bounds
     \/ Incident("crash") /\ UNCHANGED owner
  /\ UNCHANGED <<users, role, provisioned, provider, session, page, grant>>
-----------------------------------------------------------------------------
PageStep(p) ==
  \/ Guard(p) \/ Load(p)
  \/ CheckStatus(p) \/ SignUp(p) \/ Provision(p) \/ InsertOrganization(p)
  \/ Claim(p) \/ Finish(p)

UserStep(p) ==
  \/ Open(p) \/ StartSetup(p) \/ Turn(p) \/ DiscoverModels(p) \/ SaveProvider(p)
  \/ \E u \in Users : Submit(p, u)

Administration(b) ==
  \/ SignOut(b)
  \/ \E u \in Users : SignIn(b, u) \/ GrantCheck(b, u) \/ Revoke(b, u)
  \/ \E o \in Orgs, u \in Users \cup {Nobody} : CreateOrganization(b, o, u)

Next ==
  \/ \E p \in Pages : PageStep(p) \/ UserStep(p)
  \/ \E b \in Browsers : Administration(b)
  \/ GrantWrite \/ CommitOrganization

Spec == Init /\ [][Next]_vars
-----------------------------------------------------------------------------
\* The owner is fixed once there is one: no claim, from whatever page, and no
\* appointment that was on its way makes a second owner, replaces the first or
\* takes the role from him ("Exactly one immutable bootstrap owner is allowed").
OwnerIsFixed == [][Owners # {} => Owners' = Owners]_vars

Finished(p) == IF p \in Wizards THEN page[p].step = 5 ELSE At(p, "done")

\* Another tab of the browser has signed somebody else in, or has signed out, after the
\* page had signed up its user and before it claimed the instance.
Crossed(p) == p \in Cookie(p).crossed

\* A page that says the setup is complete tells the truth: the instance has an owner,
\* and the organization that the page made exists on both sides.  It is the user of its
\* form who is the owner of both, unless another tab has crossed it: the requests act
\* for the user of the cookie.
SetupIsTrue ==
  \A p \in Pages : Finished(p) =>
    /\ Owners # {}
    /\ page[p].org \in provisioned /\ owner[page[p].org] = page[p].actor
    /\ ~ Crossed(p) => page[p].actor = page[p].user /\ page[p].user \in Owners

\* An organization in the web's database always has its counterpart in the API,
\* whatever fails: otherwise its members get organization_not_provisioned.
OrgsAreLinked == \A o \in Orgs : owner[o] # Missing => o \in provisioned
=============================================================================
