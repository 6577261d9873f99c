---------------------------- MODULE SetupProofs ----------------------------
(***************************************************************************)
(* Proofs about how an instance gets its owner, for any number of pages,   *)
(* browsers, users and organizations.                                      *)
(***************************************************************************)
EXTENDS Setup, TLAPS

USE PagesAssumption, NobodyAssumption, BoundsAssumption

-----------------------------------------------------------------------------
(* Types. *)

PageRecords ==
  [at : Places, step : 1..5, ready : BOOLEAN, found : BOOLEAN,
   user : Users \cup {Nobody}, actor : Users \cup {Nobody}, org : Orgs \cup {Nobody}]
Sessions ==
  [user : Users \cup {Nobody}, active : Orgs \cup {Nobody}, crossed : SUBSET Pages]

\* The parts of TypeOK, since a step disturbs few of them.
TableTypes ==
  /\ users \subseteq Users
  /\ role \in [Users -> Roles]
  /\ provisioned \subseteq Orgs
  /\ owner \in [Orgs -> Users \cup {Nobody, Missing}]
  /\ provider \in BOOLEAN
PageTypes == page \in [Pages -> PageRecords]
SessionTypes == session \in [Browsers -> Sessions]
HandlerTypes ==
  /\ grant \in Users \cup {Nobody}
  /\ creation \in [org : Orgs \cup {Nobody}, owner : Users \cup {Nobody}]
BoundTypes == incidents \in Nat /\ visits \in Nat

LEMMA TypeParts ==
  TypeOK <=> TableTypes /\ PageTypes /\ SessionTypes /\ HandlerTypes /\ BoundTypes
BY DEF TypeOK, TableTypes, PageTypes, PageRecords, SessionTypes, Sessions, HandlerTypes,
   BoundTypes

LEMMA TypePartsNext ==
  TableTypes' /\ PageTypes' /\ SessionTypes' /\ HandlerTypes' /\ BoundTypes' => TypeOK'
BY DEF TypeOK, TableTypes, PageTypes, PageRecords, SessionTypes, Sessions, HandlerTypes,
   BoundTypes

\* A form that has been sent names a user.
HasUser == \A p \in Pages : page[p].at \in Submitting => page[p].user \in Users

LEMMA PlacesKnown ==
  /\ Submitting \subseteq Places
  /\ {"closed", "guard", "locked", "welcome", "loading", "idle", "away", "stuck", "done"}
       \subseteq Places
BY DEF Places, Submitting

LEMMA ChangeTypes ==
  ASSUME PageTypes, NEW p \in Pages, NEW r \in PageRecords,
         page' = [page EXCEPT ![p] = r]
  PROVE  PageTypes'
BY DEF PageTypes

LEMMA GoesTypes ==
  ASSUME PageTypes, NEW p \in Pages, NEW place \in Places, Goes(p, place)
  PROVE  PageTypes'
<1>1. page[p] \in PageRecords
  BY DEF PageTypes
<1>2. [page[p] EXCEPT !.at = place] \in PageRecords
  BY <1>1 DEF PageRecords
<1>3. page' = [page EXCEPT ![p] = [page[p] EXCEPT !.at = place]]
  BY DEF PageTypes, Goes
<1> QED
  BY <1>2, <1>3, ChangeTypes

\* Two or three fields of a page.
LEMMA ReadyTypes ==
  ASSUME PageTypes, NEW p \in Pages, NEW place \in Places, NEW b \in BOOLEAN,
         page' = [page EXCEPT ![p].at = place, ![p].ready = b]
  PROVE  PageTypes'
<1>1. page[p] \in PageRecords
  BY DEF PageTypes
<1>2. [page[p] EXCEPT !.at = place, !.ready = b] \in PageRecords
  BY <1>1 DEF PageRecords
<1>3. page' = [page EXCEPT ![p] = [page[p] EXCEPT !.at = place, !.ready = b]]
  BY DEF PageTypes
<1> QED
  BY <1>2, <1>3, ChangeTypes

LEMMA StepTypes ==
  ASSUME PageTypes, NEW p \in Pages, NEW place \in Places, NEW n \in 1..5,
         page' = [page EXCEPT ![p].at = place, ![p].step = n]
  PROVE  PageTypes'
<1>1. page[p] \in PageRecords
  BY DEF PageTypes
<1>2. [page[p] EXCEPT !.at = place, !.step = n] \in PageRecords
  BY <1>1 DEF PageRecords
<1>3. page' = [page EXCEPT ![p] = [page[p] EXCEPT !.at = place, !.step = n]]
  BY DEF PageTypes
<1> QED
  BY <1>2, <1>3, ChangeTypes

LEMMA ReadyStepTypes ==
  ASSUME PageTypes, NEW p \in Pages, NEW b \in BOOLEAN, NEW n \in 1..5,
         page' = [page EXCEPT ![p].ready = b, ![p].step = n]
  PROVE  PageTypes'
<1>1. page[p] \in PageRecords
  BY DEF PageTypes
<1>2. [page[p] EXCEPT !.ready = b, !.step = n] \in PageRecords
  BY <1>1 DEF PageRecords
<1>3. page' = [page EXCEPT ![p] = [page[p] EXCEPT !.ready = b, !.step = n]]
  BY DEF PageTypes
<1> QED
  BY <1>2, <1>3, ChangeTypes

LEMMA ActorTypes ==
  ASSUME PageTypes, NEW p \in Pages, NEW place \in Places, NEW o \in Orgs,
         NEW u \in Users \cup {Nobody},
         page' = [page EXCEPT ![p].at = place, ![p].org = o, ![p].actor = u]
  PROVE  PageTypes'
<1>1. page[p] \in PageRecords
  BY DEF PageTypes
<1>2. [page[p] EXCEPT !.at = place, !.org = o, !.actor = u] \in PageRecords
  BY <1>1 DEF PageRecords
<1>3. page' = [page EXCEPT ![p] = [page[p] EXCEPT !.at = place, !.org = o, !.actor = u]]
  BY DEF PageTypes
<1> QED
  BY <1>2, <1>3, ChangeTypes

LEMMA IncidentTypes ==
  ASSUME BoundTypes, \/ UNCHANGED bounds
                     \/ \E kind \in IncidentKinds : Incident(kind)
                     \/ Visit
  PROVE  BoundTypes'
BY DEF BoundTypes, bounds, Incident, Visit

LEMMA NewSessionTypes ==
  ASSUME SessionTypes, NEW b \in Browsers, NEW u \in Users \cup {Nobody}
  PROVE  /\ NewSession(b, u) \in Sessions
         /\ \A p : [NewSession(b, u) EXCEPT !.crossed = @ \ {p}] \in Sessions
<1>1. session[b].crossed \subseteq Pages
  BY DEF SessionTypes, Sessions
<1>2. NewSession(b, u) \in Sessions
  BY <1>1 DEF NewSession, Sessions
<1> QED
  BY <1>2 DEF Sessions

\* Steps of a page's own code.
LEMMA PageStepTypes ==
  ASSUME TypeOK, HasUser, NEW p \in Pages, PageStep(p)
  PROVE  TypeOK'
<1>1. TableTypes /\ PageTypes /\ SessionTypes /\ HandlerTypes /\ BoundTypes
  BY TypeParts
<1>2. BoundTypes'
  <2>1. \/ UNCHANGED bounds \/ \E kind \in IncidentKinds : Incident(kind)
    BY DEF PageStep, Guard, Load, CheckStatus, SignUp, Provision, InsertOrganization,
       Claim, Finish, IncidentKinds
  <2> QED
    BY <1>1, <2>1, IncidentTypes
<1>3. HandlerTypes'
  <2>1. UNCHANGED handlers
    BY DEF PageStep, Guard, Load, CheckStatus, SignUp, Provision, InsertOrganization,
       Claim, Finish
  <2> QED
    BY <1>1, <2>1 DEF handlers, HandlerTypes
<1>4. PageTypes'
  <2>1. ASSUME NEW place \in Places, Goes(p, place) PROVE PageTypes'
    BY <1>1, <2>1, GoesTypes
  <2>2. CASE Guard(p) \/ CheckStatus(p) \/ SignUp(p) \/ InsertOrganization(p) \/ Claim(p)
    BY <2>1, <2>2, PlacesKnown DEF Guard, CheckStatus, SignUp, InsertOrganization,
       Claim, Refused, Unanswered, Submitting
  <2>3. CASE Load(p)
    <3>1. SetupRouteOpen(BrowserOf[p]) \in BOOLEAN
      BY DEF SetupRouteOpen
    <3> DEFINE ready == provider /\ SetupRouteOpen(BrowserOf[p])
    <3>2. ready \in BOOLEAN
      BY <3>1
    <3>3. page' = [page EXCEPT ![p].at = "idle", ![p].ready = ready]
      BY <2>3 DEF Load
    <3> HIDE DEF ready
    <3> QED
      BY <1>1, <3>2, <3>3, PlacesKnown, ReadyTypes
  <2>4. CASE Provision(p)
    <3>1. CASE Refused(p)
      BY <2>1, <3>1, PlacesKnown DEF Refused
    <3>2. ASSUME NEW o \in Orgs,
                 page' = [page EXCEPT ![p].at = "inserting", ![p].org = o,
                                      ![p].actor = Cookie(p).user]
          PROVE  PageTypes'
      <4>1. Cookie(p).user \in Users \cup {Nobody}
        BY <1>1 DEF Cookie, SessionTypes, Sessions
      <4>2. "inserting" \in Places
        BY PlacesKnown DEF Submitting
      <4> QED
        BY <1>1, <3>2, <4>1, <4>2, ActorTypes
    <3> QED
      BY <2>4, <3>1, <3>2 DEF Provision
  <2>5. CASE Finish(p)
    <3>1. CASE p \in Wizards
      <4>1. page' = [page EXCEPT ![p].at = "idle", ![p].step = 5]
        BY <2>5, <3>1 DEF Finish
      <4>2. "idle" \in Places /\ 5 \in 1..5
        BY PlacesKnown
      <4> QED
        BY <1>1, <4>1, <4>2, StepTypes
    <3>2. CASE p \notin Wizards
      <4>1. Goes(p, "done")
        BY <2>5, <3>2 DEF Finish, Goes
      <4> QED
        BY <2>1, <4>1, PlacesKnown
    <3> QED
      BY <3>1, <3>2
  <2> QED
    BY <2>2, <2>3, <2>4, <2>5 DEF PageStep
<1>5. SessionTypes'
  <2>1. CASE SignUp(p)
    <3>1. page[p].user \in Users \cup {Nobody}
      BY <1>1 DEF PageTypes, PageRecords
    <3>2. [NewSession(BrowserOf[p], page[p].user) EXCEPT !.crossed = @ \ {p}] \in Sessions
      BY <1>1, <3>1, NewSessionTypes
    <3> QED
      BY <1>1, <2>1, <3>2 DEF SignUp, SessionTypes
  <2>2. CASE InsertOrganization(p)
    <3>1. page[p].org \in Orgs \cup {Nobody}
      BY <1>1 DEF PageTypes, PageRecords
    <3> QED
      BY <1>1, <2>2, <3>1 DEF InsertOrganization, SessionTypes, Sessions
  <2>3. CASE ~ SignUp(p) /\ ~ InsertOrganization(p)
    <3>1. session' = session
      BY <2>3 DEF PageStep, Guard, Load, CheckStatus, Provision, Claim, Finish
    <3> QED
      BY <1>1, <3>1 DEF SessionTypes
  <2> QED
    BY <2>1, <2>2, <2>3
<1>6. TableTypes'
  <2> USE <1>1 DEF TableTypes, tables
  <2>1. CASE SignUp(p)
    <3>1. page[p].user \in Users
      BY <2>1 DEF SignUp, At, HasUser, Submitting
    <3>2. users' \subseteq Users
      BY <2>1, <3>1 DEF SignUp
    <3> QED
      BY <2>1, <3>2 DEF SignUp
  <2>2. CASE Provision(p)
    BY <2>2 DEF Provision
  <2>3. CASE InsertOrganization(p)
    <3>1. page[p].actor \in Users \cup {Nobody}
      BY DEF PageTypes, PageRecords
    <3> QED
      BY <2>3, <3>1 DEF InsertOrganization
  <2>4. CASE Claim(p)
    BY <2>4 DEF Claim, Roles
  <2>5. CASE ~ SignUp(p) /\ ~ Provision(p) /\ ~ InsertOrganization(p) /\ ~ Claim(p)
    <3>1. UNCHANGED tables
      BY <2>5 DEF PageStep, Guard, Load, CheckStatus, Finish
    <3> QED
      BY <3>1
  <2> QED
    BY <2>1, <2>2, <2>3, <2>4, <2>5
<1> QED
  BY <1>2, <1>3, <1>4, <1>5, <1>6, TypePartsNext

\* Steps of the user of a page.
LEMMA UserStepTypes ==
  ASSUME TypeOK, NEW p \in Pages, UserStep(p)
  PROVE  TypeOK'
<1>1. TableTypes /\ PageTypes /\ SessionTypes /\ HandlerTypes /\ BoundTypes
  BY TypeParts
<1>2. SessionTypes' /\ HandlerTypes'
  <2>1. UNCHANGED <<session, grant, creation>>
    BY DEF UserStep, Open, StartSetup, Turn, DiscoverModels, SaveProvider, Submit, handlers
  <2> QED
    BY <1>1, <2>1 DEF SessionTypes, HandlerTypes
<1>3. BoundTypes'
  <2>1. UNCHANGED bounds \/ Visit
    BY DEF UserStep, Open, StartSetup, Turn, DiscoverModels, SaveProvider, Submit
  <2> QED
    BY <1>1, <2>1, IncidentTypes
<1>4. TableTypes'
  <2>1. UNCHANGED <<users, role, provisioned, owner>> /\ (provider' = provider \/ provider')
    BY DEF UserStep, Open, StartSetup, Turn, DiscoverModels, SaveProvider, Submit, tables
  <2>2. provider' \in BOOLEAN
    BY <1>1, <2>1 DEF TableTypes, UserStep, Open, StartSetup, Turn, DiscoverModels,
       SaveProvider, Submit, tables
  <2> QED
    BY <1>1, <2>1, <2>2 DEF TableTypes
<1>5. PageTypes'
  <2>1. CASE Open(p)
    <3>1. "guard" \in Places /\ Closed \in PageRecords
      BY PlacesKnown DEF Closed, PageRecords
    <3>2. [Closed EXCEPT !.at = "guard"] \in PageRecords
      BY <3>1 DEF PageRecords
    <3> QED
      BY <1>1, <2>1, <3>2, ChangeTypes DEF Open
  <2>2. CASE StartSetup(p)
    BY <1>1, <2>2, PlacesKnown, GoesTypes DEF StartSetup
  <2>3. CASE Turn(p)
    BY <1>1, <2>3 DEF Turn, PageTypes, PageRecords
  <2>4. CASE DiscoverModels(p)
    <3>1. \A ok \in BOOLEAN : (ok /\ SetupRouteOpen(BrowserOf[p])) \in BOOLEAN
      BY DEF SetupRouteOpen
    <3> QED
      BY <1>1, <2>4, <3>1 DEF DiscoverModels, PageTypes, PageRecords
  <2>5. CASE SaveProvider(p)
    <3>1. CASE page' = [page EXCEPT ![p].step = 4]
      BY <1>1, <3>1 DEF PageTypes, PageRecords
    <3>2. CASE page' = [page EXCEPT ![p].ready = TRUE, ![p].step = 4]
      <4>1. TRUE \in BOOLEAN /\ 4 \in 1..5
        OBVIOUS
      <4> QED
        BY <1>1, <3>2, <4>1, ReadyStepTypes
    <3> QED
      BY <2>5, <3>1, <3>2 DEF SaveProvider
  <2>6. ASSUME NEW u \in Users, Submit(p, u) PROVE PageTypes'
    BY <1>1, <2>6, PlacesKnown DEF Submit, PageTypes, PageRecords, Submitting
  <2> QED
    BY <2>1, <2>2, <2>3, <2>4, <2>5, <2>6 DEF UserStep
<1> QED
  BY <1>1, <1>2, <1>3, <1>4, <1>5, TypePartsNext

\* Steps of sessions and administration.
LEMMA AdministrationTypes ==
  ASSUME TypeOK, NEW b \in Browsers, Administration(b)
  PROVE  TypeOK'
<1>1. TableTypes /\ PageTypes /\ SessionTypes /\ HandlerTypes /\ BoundTypes
  BY TypeParts
<1> USE DEF tables, handlers
<1>2. ASSUME SignOut(b) \/ \E u \in Users : SignIn(b, u) PROVE TypeOK'
  <2>1. UNCHANGED <<tables, page, handlers>> /\ (UNCHANGED bounds \/ Visit \/ Incident("other_tab"))
    BY <1>2 DEF SignOut, SignIn, Elsewhere
  <2>2. BoundTypes'
    BY <1>1, <2>1, IncidentTypes DEF IncidentKinds
  <2>3. SessionTypes'
    BY <1>1, <1>2, NewSessionTypes DEF SignOut, SignIn, SessionTypes
  <2> QED
    BY <1>1, <2>1, <2>2, <2>3, TypePartsNext DEF TableTypes, PageTypes, HandlerTypes
<1>3. ASSUME NEW u \in Users, GrantCheck(b, u) PROVE TypeOK'
  BY <1>1, <1>3, TypePartsNext DEF GrantCheck, TableTypes, PageTypes, SessionTypes, HandlerTypes,
     BoundTypes, bounds
<1>4. ASSUME NEW u \in Users, Revoke(b, u) PROVE TypeOK'
  BY <1>1, <1>4, TypePartsNext DEF Revoke, TableTypes, PageTypes, SessionTypes, HandlerTypes,
     BoundTypes, bounds, Roles
<1>5. ASSUME NEW o \in Orgs, NEW u \in Users \cup {Nobody}, CreateOrganization(b, o, u)
      PROVE  TypeOK'
  BY <1>1, <1>5, TypePartsNext DEF CreateOrganization, TableTypes, PageTypes, SessionTypes,
     HandlerTypes, BoundTypes, bounds
<1> QED
  BY <1>2, <1>3, <1>4, <1>5 DEF Administration

LEMMA HasUserStep ==
  ASSUME TypeOK, HasUser, [Next]_vars
  PROVE  HasUser'
<1>1. ASSUME UNCHANGED page PROVE HasUser'
  BY <1>1 DEF HasUser
<1>2. ASSUME NEW p \in Pages, page' = [page EXCEPT ![p] = page'[p]],
             page'[p].at \in Submitting => page'[p].user \in Users
      PROVE  HasUser'
  BY <1>2 DEF HasUser, TypeOK
<1>3. page \in [Pages -> PageRecords]
  BY TypeParts DEF PageTypes
<1>4. ASSUME NEW p \in Pages, PageStep(p) PROVE HasUser'
  <2> DEFINE Kept == /\ page' = [page EXCEPT ![p] = page'[p]]
                     /\ page'[p].user = page[p].user
                     /\ page'[p].at \in Submitting => page[p].at \in Submitting
  <2>1. ASSUME NEW place, Goes(p, place), place \in Submitting => page[p].at \in Submitting
        PROVE  Kept
    BY <1>3, <2>1 DEF Goes, PageRecords
  <2>2. ASSUME Guard(p) PROVE Kept
    BY <2>1, <2>2 DEF Guard, Submitting
  <2>3. ASSUME Load(p) PROVE Kept
    BY <1>3, <2>3 DEF Load, Submitting, PageRecords
  <2>4. ASSUME CheckStatus(p) \/ SignUp(p) \/ InsertOrganization(p) \/ Claim(p) PROVE Kept
    BY <2>1, <2>4 DEF CheckStatus, SignUp, InsertOrganization, Claim, Refused, Unanswered,
       At, Submitting
  <2>5. ASSUME Provision(p) PROVE Kept
    <3>1. page[p].at \in Submitting
      BY <2>5 DEF Provision, At, Submitting
    <3>2. ASSUME Refused(p) PROVE Kept
      BY <2>1, <3>1, <3>2 DEF Refused
    <3>3. ASSUME NEW o \in Orgs,
                 page' = [page EXCEPT ![p].at = "inserting", ![p].org = o,
                                      ![p].actor = Cookie(p).user]
          PROVE  Kept
      BY <1>3, <3>1, <3>3 DEF PageRecords
    <3> QED
      BY <2>5, <3>2, <3>3 DEF Provision
  <2>6. ASSUME Finish(p) PROVE Kept
    BY <1>3, <2>6 DEF Finish, Submitting, PageRecords
  <2>7. Kept
    BY <1>4, <2>2, <2>3, <2>4, <2>5, <2>6 DEF PageStep
  <2> QED
    BY <1>2, <2>7 DEF HasUser
<1>5. ASSUME NEW p \in Pages, UserStep(p) PROVE HasUser'
  <2>1. /\ page' = [page EXCEPT ![p] = page'[p]]
        /\ page'[p].at \in Submitting =>
             \/ page'[p].user \in Users
             \/ page[p].at \in Submitting /\ page'[p].user = page[p].user
    BY <1>3, <1>5 DEF UserStep, Open, StartSetup, Turn, DiscoverModels, SaveProvider,
       Submit, Goes, At, OnStep, Closed, Submitting, PageRecords
  <2> QED
    BY <1>2, <2>1 DEF HasUser
<1>6. ASSUME NEW b \in Browsers, Administration(b) PROVE UNCHANGED page
  BY <1>6 DEF Administration, SignOut, SignIn, GrantCheck, Revoke, CreateOrganization
<1>7. GrantWrite \/ CommitOrganization \/ UNCHANGED vars => UNCHANGED page
  BY DEF GrantWrite, CommitOrganization, vars
<1> QED
  BY <1>1, <1>4, <1>5, <1>6, <1>7 DEF Next

\* The type invariant, for any instance.
THEOREM TypeCorrect == Spec => [](TypeOK /\ HasUser)
<1>1. Init => TypeOK /\ HasUser
  <2> SUFFICES ASSUME Init PROVE TypeOK /\ HasUser
    OBVIOUS
  <2>1. TableTypes /\ HandlerTypes /\ BoundTypes
    BY DEF Init, TableTypes, HandlerTypes, BoundTypes, Roles
  <2>2. SignedOut \in Sessions /\ SessionTypes
    BY DEF Init, SessionTypes, Sessions, SignedOut
  <2>3. Closed \in PageRecords /\ PageTypes
    BY PlacesKnown DEF Init, PageTypes, PageRecords, Closed
  <2>4. HasUser
    BY DEF Init, HasUser, Closed, Submitting
  <2> QED
    BY <2>1, <2>2, <2>3, <2>4, TypeParts
<1>2. TypeOK /\ HasUser /\ [Next]_vars => TypeOK' /\ HasUser'
  <2> SUFFICES ASSUME TypeOK, HasUser, [Next]_vars PROVE TypeOK'
    BY HasUserStep
  <2>1. TableTypes /\ PageTypes /\ SessionTypes /\ HandlerTypes /\ BoundTypes
    BY TypeParts
  <2>2. GrantWrite => TypeOK'
    BY <2>1, TypePartsNext DEF GrantWrite, TableTypes, PageTypes, SessionTypes, HandlerTypes,
       BoundTypes, bounds, Roles
  <2>3. CommitOrganization => TypeOK'
    <3> SUFFICES ASSUME CommitOrganization PROVE TypeOK'
      OBVIOUS
    <3>1. BoundTypes'
      BY <2>1, IncidentTypes DEF CommitOrganization, IncidentKinds
    <3>2. TableTypes' /\ HandlerTypes' /\ UNCHANGED <<page, session>>
      BY <2>1 DEF CommitOrganization, TableTypes, HandlerTypes
    <3> QED
      BY <2>1, <3>1, <3>2, TypePartsNext DEF PageTypes, SessionTypes
  <2>4. UNCHANGED vars => TypeOK'
    BY <2>1, TypePartsNext DEF vars, tables, handlers, bounds, TableTypes, PageTypes,
       SessionTypes, HandlerTypes, BoundTypes
  <2> QED
    BY <2>2, <2>3, <2>4, PageStepTypes, UserStepTypes, AdministrationTypes DEF Next
<1> QED
  BY <1>1, <1>2, PTL DEF Spec

-----------------------------------------------------------------------------
(* The owner. *)

\* An appointment on its way was asked for by an owner, and is not for one.
GrantInv == grant # Nobody => Owners # {} /\ role[grant] # "owner"

\* Nobody gains or loses the role of owner in the step.
RolesKept == \A u \in Users : role[u] = "owner" <=> role'[u] = "owner"

LEMMA KeptOwners == ASSUME RolesKept PROVE Owners' = Owners
BY DEF RolesKept, Owners

\* One lemma for all steps: the roles of owners change only when there is none.
LEMMA OwnersStep ==
  ASSUME TypeOK, GrantInv, [Next]_vars
  PROVE  /\ GrantInv'
         /\ Owners # {} => Owners' = Owners
<1>1. ASSUME UNCHANGED <<role, grant>> PROVE GrantInv' /\ Owners' = Owners
  BY <1>1 DEF GrantInv, Owners
<1>2. ASSUME NEW p \in Pages, Claim(p)
      PROVE  GrantInv' /\ (Owners # {} => Owners' = Owners)
  <2>1. CASE Owners # {}
    <3>1. role' = role /\ grant' = grant
      BY <1>2, <2>1 DEF Claim, handlers
    <3> QED
      BY <3>1, <1>1
  <2>2. CASE Owners = {}
    <3>1. grant = Nobody /\ grant' = grant
      BY <1>2, <2>2 DEF Claim, handlers, GrantInv
    <3> QED
      BY <3>1, <2>2 DEF GrantInv
  <2> QED
    BY <2>1, <2>2
<1>3. ASSUME NEW b \in Browsers, NEW u \in Users, GrantCheck(b, u)
      PROVE  GrantInv' /\ Owners' = Owners
  <2>1. role' = role /\ grant' = u /\ role[u] # "owner"
    BY <1>3 DEF GrantCheck, tables
  <2>2. session[b].user \in Owners
    BY <1>3 DEF GrantCheck, HasRole, Owners, TypeOK
  <2> QED
    BY <2>1, <2>2 DEF GrantInv, Owners
<1>4. ASSUME GrantWrite PROVE GrantInv' /\ Owners' = Owners
  <2>1. RolesKept
    BY <1>4 DEF GrantWrite, GrantInv, TypeOK, RolesKept
  <2> QED
    BY <1>4, <2>1, KeptOwners DEF GrantWrite, GrantInv
<1>5. ASSUME NEW b \in Browsers, NEW u \in Users, Revoke(b, u)
      PROVE  GrantInv' /\ Owners' = Owners
  <2>1. RolesKept
    BY <1>5 DEF Revoke, TypeOK, RolesKept
  <2>2. grant' = grant
    BY <1>5 DEF Revoke, handlers
  <2>3. grant # Nobody => role'[grant] # "owner"
    BY <2>1 DEF GrantInv, RolesKept, TypeOK
  <2> QED
    BY <2>1, <2>2, <2>3, KeptOwners DEF GrantInv
<1>6. ASSUME NEW p \in Pages, PageStep(p) \/ UserStep(p), ~ Claim(p)
      PROVE  UNCHANGED <<role, grant>>
  BY <1>6 DEF PageStep, UserStep, Guard, Load, CheckStatus, SignUp, Provision,
     InsertOrganization, Finish, Open, StartSetup, Turn, DiscoverModels, SaveProvider,
     Submit, tables, handlers
<1>7. ASSUME NEW b \in Browsers,
             \/ SignOut(b)
             \/ \E u \in Users : SignIn(b, u)
             \/ \E o \in Orgs, u \in Users \cup {Nobody} : CreateOrganization(b, o, u)
      PROVE  UNCHANGED <<role, grant>>
  BY <1>7 DEF SignOut, SignIn, CreateOrganization, tables, handlers
<1>8. CommitOrganization => UNCHANGED <<role, grant>>
  BY DEF CommitOrganization
<1>9. UNCHANGED vars => UNCHANGED <<role, grant>>
  BY DEF vars, tables, handlers
<1> QED
  BY <1>1, <1>2, <1>3, <1>4, <1>5, <1>6, <1>7, <1>8, <1>9 DEF Next, Administration

\* Once there is an owner he stays the owner, and the only one: neither a claim
\* from a slower page nor an appointment on its way changes it.
THEOREM OwnerStays == Spec => OwnerIsFixed
<1>1. Init => GrantInv
  BY DEF Init, GrantInv
<1>2. TypeOK /\ GrantInv /\ [Next]_vars => GrantInv'
  BY OwnersStep
<1>3. TypeOK /\ GrantInv /\ [Next]_vars => [Owners # {} => Owners' = Owners]_vars
  BY OwnersStep
<1> QED
  BY <1>1, <1>2, <1>3, TypeCorrect, PTL DEF Spec, OwnerIsFixed

-----------------------------------------------------------------------------
(* Organizations. *)

Inserting(p) == At(p, "inserting")

\* An organization being made exists in the API, not yet on the web's side, and
\* is made by one request only.
FreshInv ==
  /\ OrgsAreLinked
  /\ \A p \in Pages : Inserting(p) =>
       page[p].org \in provisioned /\ owner[page[p].org] = Missing
  /\ \A p, q \in Pages :
       Inserting(p) /\ Inserting(q) /\ page[p].org = page[q].org => p = q
  /\ creation.org # Nobody =>
       /\ creation.org \in provisioned /\ owner[creation.org] = Missing
       /\ \A p \in Pages : Inserting(p) => page[p].org # creation.org

\* No page comes to insert in the step.
InsertingKept ==
  \A p \in Pages : Inserting(p)' => Inserting(p) /\ page'[p].org = page[p].org

\* Organizations stay, and so do their owners.
OrgsKept ==
  /\ provisioned \subseteq provisioned'
  /\ \A o \in Orgs : owner[o] # Missing => owner'[o] = owner[o]

LEMMA FreshFrame ==
  ASSUME FreshInv, InsertingKept, owner' = owner, provisioned \subseteq provisioned',
         creation' = creation \/ creation'.org = Nobody
  PROVE  FreshInv' /\ OrgsKept
BY DEF FreshInv, InsertingKept, OrgsAreLinked, OrgsKept

LEMMA ProvisionFresh ==
  ASSUME TypeOK, FreshInv, NEW p \in Pages, Provision(p)
  PROVE  FreshInv' /\ OrgsKept
<1> USE DEF handlers
<1>1. page \in [Pages -> PageRecords]
  BY TypeParts DEF PageTypes
<1>2. CASE Refused(p)
  <2>1. InsertingKept
    BY <1>1, <1>2 DEF InsertingKept, Inserting, Refused, Goes, At, PageRecords
  <2>2. provisioned \subseteq provisioned' /\ owner' = owner /\ creation' = creation
    BY DEF Provision
  <2> QED
    BY <2>1, <2>2, FreshFrame
<1>3. ASSUME NEW o \in Orgs \ provisioned,
             provisioned' = provisioned \cup {o},
             page' = [page EXCEPT ![p].at = "inserting", ![p].org = o,
                                  ![p].actor = Cookie(p).user]
      PROVE  FreshInv' /\ OrgsKept
  <2>1. owner' = owner /\ creation' = creation /\ owner[o] = Missing
    BY <1>3 DEF Provision, FreshInv, OrgsAreLinked
  <2>2. page'[p].org = o /\ \A q \in Pages : q # p => page'[q] = page[q]
    BY <1>1, <1>3 DEF PageRecords
  <2>3. \A q \in Pages : q # p => (Inserting(q)' <=> Inserting(q))
    BY <2>2 DEF Inserting, At
  <2>4. ASSUME NEW q \in Pages, q # p, Inserting(q)'
        PROVE  /\ Inserting(q) /\ page'[q].org = page[q].org /\ page'[q].org # o
               /\ page'[q].org \in provisioned' /\ owner'[page'[q].org] = Missing
    <3>1. Inserting(q) /\ page'[q].org = page[q].org
      BY <2>2, <2>3, <2>4
    <3>2. page[q].org \in provisioned /\ owner[page[q].org] = Missing
      BY <3>1 DEF FreshInv
    <3> QED
      BY <1>3, <2>1, <3>1, <3>2
  <2>5. o \in provisioned' /\ owner'[page'[p].org] = Missing
    BY <1>3, <2>1, <2>2
  <2>6. \A q, r \in Pages :
          Inserting(q)' /\ Inserting(r)' /\ page'[q].org = page'[r].org => q = r
    BY <2>2, <2>4 DEF FreshInv
  <2>7. creation'.org # Nobody =>
          /\ creation'.org \in provisioned' /\ owner'[creation'.org] = Missing
          /\ \A q \in Pages : Inserting(q)' => page'[q].org # creation'.org
    <3>1. creation.org # Nobody => creation.org \in provisioned /\ creation.org # o
      BY <1>3 DEF FreshInv
    <3> QED
      BY <1>3, <2>1, <2>2, <2>4, <3>1 DEF FreshInv
  <2>8. OrgsAreLinked' /\ OrgsKept
    BY <1>3, <2>1 DEF FreshInv, OrgsAreLinked, OrgsKept
  <2> QED
    BY <2>2, <2>4, <2>5, <2>6, <2>7, <2>8 DEF FreshInv
<1> QED
  BY <1>2, <1>3 DEF Provision

LEMMA InsertFresh ==
  ASSUME TypeOK, FreshInv, NEW p \in Pages, InsertOrganization(p)
  PROVE  FreshInv' /\ OrgsKept
<1> USE DEF handlers
<1>1. page \in [Pages -> PageRecords]
  BY TypeParts DEF PageTypes
<1>2. \E place \in {"claiming", "idle", "stuck"} : Goes(p, place)
  BY DEF InsertOrganization, Unanswered
<1>3. ~ Inserting(p)' /\ \A q \in Pages : q # p => page'[q] = page[q]
  BY <1>1, <1>2 DEF Goes, Inserting, At, PageRecords
<1>4. InsertingKept
  BY <1>3 DEF InsertingKept, Inserting, At
<1>5. provisioned' = provisioned /\ creation' = creation
  BY DEF InsertOrganization
<1>6. CASE owner' = owner
  BY <1>4, <1>5, <1>6, FreshFrame
<1>7. CASE owner' = [owner EXCEPT ![page[p].org] = page[p].actor]
  <2> DEFINE o == page[p].org
  <2>1. Inserting(p) /\ o \in provisioned /\ owner[o] = Missing
    BY DEF InsertOrganization, Inserting, FreshInv
  <2>2. \A x \in Orgs : x # o => owner'[x] = owner[x]
    BY <1>7 DEF TypeOK
  <2>3. OrgsAreLinked' /\ OrgsKept
    BY <1>5, <2>1, <2>2 DEF OrgsAreLinked, OrgsKept, FreshInv
  <2>4. \A q \in Pages : Inserting(q)' =>
          /\ q # p /\ Inserting(q) /\ page'[q] = page[q] /\ page[q].org # o
          /\ page[q].org \in provisioned /\ owner'[page[q].org] = Missing
    BY <1>3, <1>4, <2>1, <2>2 DEF FreshInv, InsertingKept, TypeOK
  <2>5. creation.org # Nobody => creation.org # o /\ owner'[creation.org] = Missing
    BY <2>1, <2>2 DEF FreshInv, TypeOK
  <2> QED
    BY <1>5, <2>3, <2>4, <2>5 DEF FreshInv
<1> QED
  BY <1>6, <1>7 DEF InsertOrganization

LEMMA CreateFresh ==
  ASSUME TypeOK, FreshInv, NEW b \in Browsers, NEW o \in Orgs,
         NEW u \in Users \cup {Nobody}, CreateOrganization(b, o, u)
  PROVE  FreshInv' /\ OrgsKept
<1>1. /\ provisioned' = provisioned \cup {o} /\ o \notin provisioned
      /\ owner' = owner /\ page' = page /\ creation'.org = o
  BY DEF CreateOrganization
<1>2. owner[o] = Missing
  BY <1>1 DEF FreshInv, OrgsAreLinked
<1>3. \A p \in Pages : (Inserting(p)' <=> Inserting(p)) /\ page'[p].org = page[p].org
  BY <1>1 DEF Inserting, At
<1> QED
  BY <1>1, <1>2, <1>3 DEF FreshInv, OrgsAreLinked, OrgsKept

LEMMA CommitFresh ==
  ASSUME TypeOK, FreshInv, CommitOrganization
  PROVE  FreshInv' /\ OrgsKept
<1>1. provisioned' = provisioned /\ page' = page /\ creation'.org = Nobody
  BY DEF CommitOrganization
<1>2. \A p \in Pages : (Inserting(p)' <=> Inserting(p)) /\ page'[p].org = page[p].org
  BY <1>1 DEF Inserting, At
<1>3. CASE owner' = owner
  BY <1>1, <1>2, <1>3, FreshFrame DEF InsertingKept
<1>4. CASE owner' = [owner EXCEPT ![creation.org] = creation.owner]
  <2>1. creation.org \in provisioned /\ owner[creation.org] = Missing
    BY DEF CommitOrganization, FreshInv
  <2>2. \A x \in Orgs : x # creation.org => owner'[x] = owner[x]
    BY <1>4 DEF TypeOK
  <2>3. \A p \in Pages : Inserting(p) => page[p].org # creation.org
    BY DEF CommitOrganization, FreshInv
  <2>4. \A p \in Pages : Inserting(p) => owner'[page[p].org] = Missing
    BY <2>2, <2>3 DEF FreshInv, TypeOK
  <2> QED
    BY <1>1, <1>2, <2>1, <2>2, <2>4 DEF FreshInv, OrgsAreLinked, OrgsKept
<1> QED
  BY <1>3, <1>4 DEF CommitOrganization

LEMMA FreshStep ==
  ASSUME TypeOK, FreshInv, [Next]_vars
  PROVE  FreshInv' /\ OrgsKept
<1>1. page \in [Pages -> PageRecords]
  BY TypeParts DEF PageTypes
<1> DEFINE Quiet == owner' = owner /\ provisioned' = provisioned /\ creation' = creation
<1>2. ASSUME page' = page, Quiet PROVE FreshInv' /\ OrgsKept
  BY <1>2, FreshFrame DEF InsertingKept, Inserting, At
<1>3. ASSUME NEW p \in Pages, PageStep(p) \/ UserStep(p),
             ~ Provision(p), ~ InsertOrganization(p)
      PROVE  FreshInv' /\ OrgsKept
  <2>1. Quiet
    BY <1>3 DEF PageStep, UserStep, Guard, Load, CheckStatus, SignUp, Claim, Finish, Open,
       StartSetup, Turn, DiscoverModels, SaveProvider, Submit, tables, handlers
  <2>2. \A q \in Pages : q # p => page'[q] = page[q]
    BY <1>1, <1>3 DEF PageStep, UserStep, Guard, Load, CheckStatus, SignUp, Claim, Finish,
       Open, StartSetup, Turn, DiscoverModels, SaveProvider, Submit, Goes, Refused, Unanswered
  <2>3. Inserting(p)' => Inserting(p) /\ page'[p].org = page[p].org
    <3>1. CASE Turn(p)
      BY <1>1, <3>1 DEF Turn, Inserting, At, PageRecords
    <3>2. CASE ~ Turn(p)
      BY <1>1, <1>3, <3>2 DEF PageStep, UserStep, Guard, Load, CheckStatus, SignUp, Claim,
         Finish, Open, StartSetup, DiscoverModels, SaveProvider, Submit, Goes, Refused,
         Unanswered, Inserting, At, OnStep, PageRecords, Closed
    <3> QED
      BY <3>1, <3>2
  <2>4. InsertingKept
    BY <2>2, <2>3 DEF InsertingKept, Inserting, At
  <2> QED
    BY <2>1, <2>4, FreshFrame
<1>4. ASSUME NEW b \in Browsers,
             SignOut(b) \/ \E u \in Users : SignIn(b, u) \/ GrantCheck(b, u) \/ Revoke(b, u)
      PROVE  page' = page /\ Quiet
  BY <1>4 DEF SignOut, SignIn, GrantCheck, Revoke, tables, handlers
<1>5. GrantWrite \/ UNCHANGED vars => page' = page /\ Quiet
  BY DEF GrantWrite, vars, tables, handlers
<1> HIDE DEF Quiet
<1> QED
  BY <1>2, <1>3, <1>4, <1>5, ProvisionFresh, InsertFresh, CreateFresh, CommitFresh
  DEF Next, Administration

LEMMA FreshHolds == Spec => []FreshInv
<1>1. Init => FreshInv
  BY DEF Init, FreshInv, OrgsAreLinked, Inserting, At, Closed
<1>2. TypeOK /\ FreshInv /\ [Next]_vars => FreshInv'
  BY FreshStep
<1> QED
  BY <1>1, <1>2, TypeCorrect, PTL DEF Spec

\* Whatever fails between the two databases, the web never has an organization
\* that the API does not know.
THEOREM OrgsStayLinked == Spec => []OrgsAreLinked
<1>1. FreshInv => OrgsAreLinked
  BY DEF FreshInv
<1> QED
  BY <1>1, FreshHolds, PTL

-----------------------------------------------------------------------------
(* What the pages say. *)

\* The organization that a page has made.
Settled(p) ==
  /\ page[p].actor \in Users
  /\ page[p].org \in provisioned /\ owner[page[p].org] = page[p].actor

\* What a page may rely on after each of its requests.  Until another tab crosses it,
\* the cookie is that of the user it has signed up.
SignedUp == OnCookie \cup {"finishing"}

Tells(p) ==
  /\ page[p].at \in OnCookie /\ ~ Crossed(p) => Cookie(p).user = page[p].user
  /\ (page[p].at \in {"inserting", "claiming", "finishing"} \/ Finished(p)) /\ ~ Crossed(p)
       => page[p].actor = page[p].user
  /\ Inserting(p) => page[p].actor \in Users
  /\ page[p].at \in {"claiming", "finishing"} \/ Finished(p) => Settled(p)
  /\ At(p, "finishing") \/ Finished(p) =>
       Owners # {} /\ (~ Crossed(p) => page[p].user \in Owners)
  /\ p \in Wizards /\ page[p].step = 5 => At(p, "idle")

TellInv == \A p \in Pages : Tells(p)

LEMMA PlacesOnCookie ==
  /\ OnCookie = {"provisioning", "inserting", "claiming"}
  /\ SignedUp = {"provisioning", "inserting", "claiming", "finishing"}
BY DEF OnCookie, SignedUp

LEMMA OrganizationKept ==
  ASSUME TypeOK, OrgsKept, NEW p \in Pages, Settled(p),
         page'[p].actor = page[p].actor, page'[p].org = page[p].org
  PROVE  Settled(p)'
BY DEF TypeOK, OrgsKept, Settled

\* Steps of others may cross a page, but only one that depends on the cookie, and a page
\* that they do not cross finds in the cookie whom it found there.
Held(p) ==
  /\ Crossed(p) => Crossed(p)'
  /\ page[p].at \in OnCookie /\ ~ Crossed(p)' =>
       Cookie(p)'.user \in {Cookie(p).user, page[p].user}

LEMMA SameCookie ==
  ASSUME NEW p \in Pages, Cookie(p)'.user = Cookie(p).user,
         Cookie(p)'.crossed = Cookie(p).crossed
  PROVE  Held(p)
BY DEF Held, Crossed

LEMMA NewSessionHolds ==
  ASSUME TypeOK, NEW b \in Browsers, NEW u, NEW p \in Pages,
         \/ session' = [session EXCEPT ![b] = NewSession(b, u)]
         \/ \E q : /\ q # p
                  /\ session' = [session EXCEPT ![b] =
                                   [NewSession(b, u) EXCEPT !.crossed = @ \ {q}]]
  PROVE  Held(p)
<1>0. DOMAIN session = Browsers /\ BrowserOf[p] \in Browsers
  BY DEF TypeOK
<1>1. CASE BrowserOf[p] # b
  BY <1>0, <1>1, SameCookie DEF Cookie
<1>2. CASE BrowserOf[p] = b
  <2>1. /\ Cookie(p)'.user = u
        /\ \/ Cookie(p)'.crossed = NewSession(b, u).crossed
           \/ \E q : q # p /\ Cookie(p)'.crossed = NewSession(b, u).crossed \ {q}
    <3>1. NewSession(b, u).user = u
      BY DEF NewSession
    <3>2. CASE session' = [session EXCEPT ![b] = NewSession(b, u)]
      BY <1>0, <1>2, <3>1, <3>2 DEF Cookie
    <3>3. CASE session' # [session EXCEPT ![b] = NewSession(b, u)]
      <4>1. PICK q : /\ q # p
                     /\ session' = [session EXCEPT ![b] =
                                      [NewSession(b, u) EXCEPT !.crossed = @ \ {q}]]
        BY <3>3
      <4>2. /\ [NewSession(b, u) EXCEPT !.crossed = @ \ {q}].user = u
            /\ [NewSession(b, u) EXCEPT !.crossed = @ \ {q}].crossed
                 = NewSession(b, u).crossed \ {q}
        BY DEF NewSession
      <4> QED
        BY <1>0, <1>2, <4>1, <4>2 DEF Cookie
    <3> QED
      BY <3>2, <3>3
  <2>2. Crossed(p)' <=> p \in NewSession(b, u).crossed
    BY <2>1 DEF Crossed
  <2>3. p \in NewSession(b, u).crossed <=>
          Crossed(p) \/ (page[p].user # u /\ page[p].at \in OnCookie)
    BY <1>2 DEF NewSession, Crossed, Cookie
  <2> QED
    BY <2>1, <2>2, <2>3 DEF Held
<1> QED
  BY <1>1, <1>2

LEMMA TellsFrame ==
  ASSUME TypeOK, HasUser, FreshInv, GrantInv, [Next]_vars, NEW p \in Pages, Tells(p),
         page'[p] = page[p], Held(p)
  PROVE  Tells(p)'
<1>1. OrgsKept
  BY FreshStep
<1>2. (Finished(p)' <=> Finished(p)) /\ (Inserting(p)' <=> Inserting(p))
  BY DEF Finished, Inserting, At
<1>3. page[p].at \in {"claiming", "finishing"} \/ Finished(p) => Settled(p)'
  BY <1>1, OrganizationKept DEF Tells
<1>4. Owners # {} => Owners' = Owners
  BY OwnersStep
<1>5. ~ Crossed(p)' => ~ Crossed(p)
  BY DEF Held
<1>6. At(p, "finishing") \/ Finished(p) =>
        Owners' # {} /\ (~ Crossed(p)' => page[p].user \in Owners')
  BY <1>4, <1>5 DEF Tells
<1>7. page[p].at \in OnCookie /\ ~ Crossed(p)' => Cookie(p)'.user = page[p].user
  BY <1>5 DEF Tells, Held
<1> QED
  BY <1>2, <1>3, <1>5, <1>6, <1>7 DEF Tells, At

\* A page that goes to a place before it has signed anybody up.
LEMMA TellsNothing ==
  ASSUME NEW p \in Pages, ~ Finished(p)', page'[p].at \notin SignedUp
  PROVE  Tells(p)'
BY PlacesOnCookie DEF Tells, Inserting, At, Finished

\* Where the other fields of the page stay as they are.
Moved(p) ==
  page'[p].user = page[p].user /\ page'[p].step = page[p].step

LEMMA GoesMoves ==
  ASSUME TypeOK, NEW p \in Pages, NEW place \in Places, Goes(p, place)
  PROVE  /\ page'[p].at = place /\ Moved(p)
         /\ page'[p].actor = page[p].actor /\ page'[p].org = page[p].org
<1>1. page \in [Pages -> PageRecords]
  BY TypeParts DEF PageTypes
<1> QED
  BY <1>1 DEF Goes, Moved, PageRecords

\* A page in the middle of something is not finished.
LEMMA BusyIsUnfinished ==
  ASSUME NEW p \in Pages, Tells(p), page[p].at \notin {"idle", "done"}
  PROVE  ~ Finished(p) /\ (p \in Wizards => page[p].step # 5)
BY DEF Finished, Tells, At

\* A page that is, or comes to be, busy with nothing that matters.
LEMMA IdleTells ==
  ASSUME TypeOK, NEW p \in Pages, Tells(p), page[p].at \notin {"idle", "done"},
         Moved(p), page'[p].at \notin SignedUp \cup {"done"}
  PROVE  Tells(p)'
<1>1. ~ Finished(p)'
  BY BusyIsUnfinished DEF Finished, Moved, At
<1> QED
  BY <1>1, TellsNothing

\* The page that takes a step.
LEMMA UserStepTells ==
  ASSUME TypeOK, NEW p \in Pages, Tells(p), UserStep(p)
  PROVE  Tells(p)'
<1>1. page \in [Pages -> PageRecords] /\ page[p] \in PageRecords
  BY TypeParts DEF PageTypes
<1>2. CASE Open(p)
  <2>1. page'[p] = [Closed EXCEPT !.at = "guard"]
    BY <1>1, <1>2 DEF Open
  <2> QED
    BY <2>1, TellsNothing DEF Finished, At, Closed, SignedUp, OnCookie
<1>3. CASE StartSetup(p)
  <2>1. page'[p].at = "loading" /\ Moved(p)
    BY <1>3, GoesMoves, PlacesKnown DEF StartSetup
  <2> QED
    BY <1>3, <2>1, IdleTells DEF StartSetup, At, SignedUp, OnCookie
<1>4. CASE Turn(p)
  <2>1. /\ p \in Wizards /\ page'[p].at = page[p].at /\ page'[p].user = page[p].user
        /\ page'[p].actor = page[p].actor /\ page'[p].org = page[p].org
        /\ page'[p].step # 5
    BY <1>1, <1>4 DEF Turn, Turns, PageRecords
  <2>2. UNCHANGED <<provisioned, owner, role, session>>
    BY <1>4 DEF Turn, tables
  <2>3. Settled(p)' <=> Settled(p)
    BY <2>1, <2>2 DEF Settled
  <2> QED
    BY <2>1, <2>2, <2>3 DEF Tells, Finished, At, Cookie, Crossed, Inserting, Owners
<1>5. CASE DiscoverModels(p) \/ SaveProvider(p)
  <2>1. page[p].step = 3 /\ At(p, "idle") /\ p \in Wizards
    BY <1>5 DEF DiscoverModels, SaveProvider, OnStep
  <2>2. page'[p].at = "idle" /\ page'[p].step \in {3, 4}
    BY <1>1, <1>5, <2>1 DEF DiscoverModels, SaveProvider, At, PageRecords
  <2> QED
    BY <2>1, <2>2, TellsNothing DEF Finished, SignedUp, OnCookie
<1>6. ASSUME NEW u \in Users, Submit(p, u) PROVE Tells(p)'
  <2>1. page'[p].at = "checking" /\ page'[p].step = page[p].step
    BY <1>1, <1>6 DEF Submit, PageRecords
  <2>2. p \in Wizards => page[p].step = 4
    BY <1>6 DEF Submit, OnStep
  <2> QED
    BY <2>1, <2>2, TellsNothing DEF Finished, SignedUp, OnCookie, At
<1> QED
  BY <1>2, <1>3, <1>4, <1>5, <1>6 DEF UserStep

LEMMA PageStepTells ==
  ASSUME TypeOK, HasUser, FreshInv, NEW p \in Pages, Tells(p), PageStep(p)
  PROVE  Tells(p)'
<1>1. page \in [Pages -> PageRecords] /\ page[p] \in PageRecords
  BY TypeParts DEF PageTypes
<1>2. ASSUME page[p].at \notin {"idle", "done"}, NEW place \in Places,
             place \notin SignedUp \cup {"done"}, Goes(p, place)
      PROVE  Tells(p)'
  BY <1>2, GoesMoves, IdleTells
<1>3. CASE Guard(p) \/ CheckStatus(p)
  <2>1. page[p].at \notin {"idle", "done"}
    BY <1>3 DEF Guard, CheckStatus, At
  <2> QED
    BY <1>2, <1>3, <2>1, PlacesKnown DEF Guard, CheckStatus, Refused, Unanswered, SignedUp, OnCookie,
       Submitting
<1>4. CASE Load(p)
  <2>1. page[p].at = "loading" /\ page'[p].at = "idle" /\ Moved(p)
    BY <1>1, <1>4 DEF Load, At, Moved, PageRecords
  <2> QED
    BY <2>1, IdleTells DEF SignedUp, OnCookie
<1>5. CASE SignUp(p)
  <2>1. page[p].at \notin {"idle", "done"}
    BY <1>5 DEF SignUp, At
  <2>2. ASSUME Refused(p) \/ Unanswered(p) PROVE Tells(p)'
    BY <1>2, <2>1, <2>2, PlacesKnown DEF Refused, Unanswered, SignedUp, OnCookie
  <2>3. ASSUME Goes(p, "provisioning"),
               session' = [session EXCEPT ![BrowserOf[p]] =
                             [NewSession(BrowserOf[p], page[p].user)
                                EXCEPT !.crossed = @ \ {p}]]
        PROVE  Tells(p)'
    <3>1. page'[p].at = "provisioning" /\ Moved(p)
      BY <2>3, GoesMoves, PlacesKnown DEF Submitting
    <3>2. Cookie(p)'.user = page[p].user
      BY <2>3 DEF Cookie, TypeOK, NewSession
    <3>3. ~ Finished(p)'
      BY <2>1, <3>1, BusyIsUnfinished DEF Finished, Moved, At
    <3> QED
      BY <3>1, <3>2, <3>3 DEF Tells, Moved, Inserting, At, Finished
  <2> QED
    BY <1>5, <2>2, <2>3 DEF SignUp
<1>6. CASE Provision(p)
  <2>1. /\ page[p].at = "provisioning"
        /\ ~ Crossed(p) => Cookie(p).user = page[p].user
    BY <1>6 DEF Provision, At, Tells, OnCookie
  <2>2. ASSUME Refused(p) PROVE Tells(p)'
    BY <1>2, <2>1, <2>2, PlacesKnown DEF Refused, SignedUp, OnCookie
  <2>3. ASSUME NEW o \in Orgs, Cookie(p).user # Nobody,
               page' = [page EXCEPT ![p].at = "inserting", ![p].org = o,
                                    ![p].actor = Cookie(p).user]
        PROVE  Tells(p)'
    <3>1. /\ page'[p].at = "inserting" /\ Moved(p)
          /\ page'[p].actor = Cookie(p).user /\ Cookie(p).user \in Users
      BY <1>1, <2>3 DEF Moved, PageRecords, Cookie, TypeOK
    <3>2. Cookie(p)' = Cookie(p) /\ (Crossed(p)' <=> Crossed(p))
      BY <1>6 DEF Provision, Cookie, Crossed
    <3>3. ~ Finished(p)'
      BY <2>1, <3>1, BusyIsUnfinished DEF Finished, Moved, At
    <3> QED
      BY <2>1, <3>1, <3>2, <3>3 DEF Tells, Moved, Inserting, At, Finished
  <2> QED
    BY <1>6, <2>2, <2>3 DEF Provision
<1>7. CASE InsertOrganization(p)
  <2>1. /\ page[p].at = "inserting" /\ page[p].actor \in Users
        /\ ~ Crossed(p) => Cookie(p).user = page[p].user /\ page[p].actor = page[p].user
    BY <1>7 DEF InsertOrganization, At, Tells, OnCookie, Inserting
  <2>2. ASSUME Unanswered(p) PROVE Tells(p)'
    BY <1>2, <2>1, <2>2, PlacesKnown DEF Unanswered, SignedUp, OnCookie
  <2>3. ASSUME Goes(p, "claiming"),
               owner' = [owner EXCEPT ![page[p].org] = page[p].actor],
               session' = [session EXCEPT ![BrowserOf[p]].active =
                             IF Cookie(p).user = page[p].actor THEN page[p].org ELSE @]
        PROVE  Tells(p)'
    <3>1. /\ page'[p].at = "claiming" /\ Moved(p)
          /\ page'[p].actor = page[p].actor /\ page'[p].org = page[p].org
      BY <2>3, GoesMoves, PlacesKnown DEF Submitting
    <3>2. Cookie(p)'.user = Cookie(p).user /\ (Crossed(p)' <=> Crossed(p))
      BY <2>3 DEF Cookie, Crossed, TypeOK
    <3>3. page[p].org \in provisioned /\ provisioned' = provisioned
      BY <1>7, <2>1 DEF FreshInv, Inserting, At, InsertOrganization
    <3>4. Settled(p)'
      BY <2>1, <2>3, <3>1, <3>3 DEF Settled, Moved, TypeOK
    <3>5. ~ Finished(p)'
      BY <2>1, <3>1, BusyIsUnfinished DEF Finished, Moved, At
    <3> QED
      BY <2>1, <3>1, <3>2, <3>4, <3>5 DEF Tells, Moved, Inserting, At, Finished
  <2> QED
    BY <1>7, <2>2, <2>3 DEF InsertOrganization
<1>8. CASE Claim(p)
  <2>1. /\ page[p].at = "claiming" /\ Settled(p)
        /\ ~ Crossed(p) => Cookie(p).user = page[p].user /\ page[p].actor = page[p].user
    BY <1>8 DEF Claim, At, Tells, OnCookie
  <2>2. ASSUME Refused(p) \/ Unanswered(p) PROVE Tells(p)'
    BY <1>2, <2>1, <2>2, PlacesKnown DEF Refused, Unanswered, SignedUp, OnCookie
  <2>3. ASSUME Goes(p, "finishing"), Cookie(p).user # Nobody,
               role' = [role EXCEPT ![Cookie(p).user] = "owner"]
        PROVE  Tells(p)'
    <3>1. /\ page'[p].at = "finishing" /\ Moved(p)
          /\ page'[p].actor = page[p].actor /\ page'[p].org = page[p].org
      BY <2>3, GoesMoves, PlacesKnown DEF Submitting
    <3>2. UNCHANGED <<session, provisioned, owner>> /\ (Crossed(p)' <=> Crossed(p))
      BY <1>8 DEF Claim, Crossed, Cookie
    <3>3. Cookie(p).user \in Owners'
      <4>1. Cookie(p).user \in Users
        BY <2>3 DEF Cookie, TypeOK
      <4> QED
        BY <2>3, <4>1 DEF Owners, TypeOK
    <3>4. Settled(p)'
      BY <2>1, <3>1, <3>2 DEF Settled
    <3>5. ~ Finished(p)'
      BY <2>1, <3>1, BusyIsUnfinished DEF Finished, Moved, At
    <3>6. ~ Crossed(p)' =>
            page'[p].user \in Owners' /\ page'[p].actor = page'[p].user
      BY <2>1, <3>1, <3>2, <3>3 DEF Moved
    <3>7. Owners' # {}
      BY <3>3
    <3>8. page'[p].at \notin OnCookie /\ ~ Inserting(p)'
      BY <3>1, PlacesOnCookie DEF Inserting, At
    <3>9. p \notin Wizards \/ page'[p].step # 5
      BY <3>1, <2>1, BusyIsUnfinished DEF Moved
    <3> QED
      BY <3>4, <3>5, <3>6, <3>7, <3>8, <3>9 DEF Tells
  <2> QED
    BY <1>8, <2>2, <2>3 DEF Claim
<1>9. CASE Finish(p)
  <2>1. /\ page[p].at = "finishing" /\ Settled(p) /\ Owners # {}
        /\ ~ Crossed(p) => page[p].user \in Owners /\ page[p].actor = page[p].user
    BY <1>9 DEF Finish, At, Tells
  <2>2. /\ page'[p].user = page[p].user /\ page'[p].at \in {"idle", "done"}
        /\ page'[p].actor = page[p].actor /\ page'[p].org = page[p].org
        /\ p \in Wizards => page'[p].at = "idle"
    BY <1>1, <1>9 DEF Finish, PageRecords
  <2>3. /\ Settled(p)' /\ Owners' = Owners /\ (Crossed(p)' <=> Crossed(p))
    BY <1>9, <2>1, <2>2 DEF Settled, Owners, Finish, tables, Crossed, Cookie
  <2> QED
    BY <2>1, <2>2, <2>3 DEF Tells, SignedUp, OnCookie, Inserting, At
<1> QED
  BY <1>3, <1>4, <1>5, <1>6, <1>7, <1>8, <1>9 DEF PageStep

LEMMA TellsStep ==
  ASSUME TypeOK, HasUser, FreshInv, GrantInv, TellInv, [Next]_vars
  PROVE  TellInv'
<1> SUFFICES ASSUME NEW p \in Pages PROVE Tells(p)'
  BY DEF TellInv
<1>1. Tells(p)
  BY DEF TellInv
<1>2. page \in [Pages -> PageRecords]
  BY TypeParts DEF PageTypes
<1>3. ASSUME page'[p] = page[p], Held(p) PROVE Tells(p)'
  BY <1>1, <1>3, TellsFrame
<1>4. ASSUME NEW q \in Pages, PageStep(q) \/ UserStep(q) PROVE Tells(p)'
  <2>1. CASE q = p
    BY <1>1, <1>4, <2>1, PageStepTells, UserStepTells
  <2>2. CASE q # p
    <3>1. page'[p] = page[p]
      BY <1>2, <1>4, <2>2 DEF PageStep, UserStep, Guard, Load, CheckStatus, SignUp,
         Provision, InsertOrganization, Claim, Finish, Open, StartSetup, Turn,
         DiscoverModels, SaveProvider, Submit, Goes, Refused, Unanswered
    <3>2. Held(p)
      <4>1. CASE SignUp(q)
        <5>1. CASE session' = session
          BY <5>1, SameCookie DEF Cookie
        <5>2. CASE session' # session
          <6>1. session' = [session EXCEPT ![BrowserOf[q]] =
                              [NewSession(BrowserOf[q], page[q].user)
                                 EXCEPT !.crossed = @ \ {q}]]
            BY <4>1, <5>2 DEF SignUp
          <6>2. BrowserOf[q] \in Browsers
            OBVIOUS
          <6> QED
            BY <2>2, <6>1, <6>2, NewSessionHolds
        <5> QED
          BY <5>1, <5>2
      <4>2. CASE InsertOrganization(q)
        <5>1. /\ Cookie(p)'.user = Cookie(p).user
              /\ Cookie(p)'.crossed = Cookie(p).crossed
          <6>1. \/ session' = session
                \/ \E o : session' = [session EXCEPT ![BrowserOf[q]] =
                                        [session[BrowserOf[q]] EXCEPT !.active = o]]
            BY <4>2 DEF InsertOrganization, TypeOK
          <6>2. CASE session' = session
            BY <6>2 DEF Cookie
          <6>3. CASE session' # session
            <7>1. PICK o : session' = [session EXCEPT ![BrowserOf[q]] =
                                         [session[BrowserOf[q]] EXCEPT !.active = o]]
              BY <6>1, <6>3
            <7>2. session'[BrowserOf[p]] \in
                    {session[BrowserOf[p]], [session[BrowserOf[p]] EXCEPT !.active = o]}
              BY <7>1 DEF TypeOK
            <7>3. session[BrowserOf[p]] \in Sessions
              BY TypeParts DEF SessionTypes
            <7> QED
              BY <7>2, <7>3 DEF Cookie, Sessions
          <6> QED
            BY <6>2, <6>3
        <5> QED
          BY <5>1, SameCookie
      <4>3. CASE ~ SignUp(q) /\ ~ InsertOrganization(q)
        <5>1. session' = session
          BY <1>4, <4>3 DEF PageStep, UserStep, Guard, Load, CheckStatus, Provision, Claim,
             Finish, Open, StartSetup, Turn, DiscoverModels, SaveProvider, Submit
        <5> QED
          BY <5>1, SameCookie DEF Cookie
      <4> QED
        BY <4>1, <4>2, <4>3
    <3> QED
      BY <1>3, <3>1, <3>2
  <2> QED
    BY <2>1, <2>2
<1>5. ASSUME NEW b \in Browsers, SignOut(b) \/ \E u \in Users : SignIn(b, u)
      PROVE  Tells(p)'
  <2>1. page' = page /\ \E u : session' = [session EXCEPT ![b] = NewSession(b, u)]
    BY <1>5 DEF SignOut, SignIn
  <2>2. Held(p)
    BY <2>1, NewSessionHolds
  <2> QED
    BY <1>3, <2>1, <2>2
<1>6. ASSUME UNCHANGED <<page, session>> PROVE Tells(p)'
  BY <1>3, <1>6, SameCookie DEF Cookie
<1>7. ASSUME NEW b \in Browsers,
             \/ \E u \in Users : GrantCheck(b, u) \/ Revoke(b, u)
             \/ \E o \in Orgs, u \in Users \cup {Nobody} : CreateOrganization(b, o, u)
      PROVE  UNCHANGED <<page, session>>
  BY <1>7 DEF GrantCheck, Revoke, CreateOrganization
<1>8. GrantWrite \/ CommitOrganization \/ UNCHANGED vars => UNCHANGED <<page, session>>
  BY DEF GrantWrite, CommitOrganization, vars
<1> QED
  BY <1>4, <1>5, <1>6, <1>7, <1>8 DEF Next, Administration

\* A page that says the setup is complete tells the truth, whatever fails, whoever else
\* sets up and whatever other tabs of its browser do: there is an owner, and its
\* organization exists on both sides; the owner of both is its user unless another tab
\* has signed somebody else in, or out, between its sign-up and its claim.
THEOREM SetupTellsTruth == Spec => []SetupIsTrue
<1>1. Init => TellInv /\ GrantInv
  BY DEF Init, TellInv, Tells, SignedUp, OnCookie, Inserting, At, Finished, Closed, GrantInv
<1>2. TypeOK /\ HasUser /\ FreshInv /\ GrantInv /\ TellInv /\ [Next]_vars
        => GrantInv' /\ TellInv'
  BY TellsStep, OwnersStep
<1>3. TellInv => SetupIsTrue
  BY DEF TellInv, Tells, SetupIsTrue, Settled
<1> QED
  BY <1>1, <1>2, <1>3, TypeCorrect, FreshHolds, PTL DEF Spec

=============================================================================
