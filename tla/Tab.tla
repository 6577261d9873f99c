-------------------------------- MODULE Tab --------------------------------
(***************************************************************************)
(* A browser tab that shows one page of the web application.  A page keeps *)
(* React state (view) and runs asynchronous handlers: a handler sends      *)
(* requests to the API and goes on when they are answered.  Nothing bounds *)
(* how long an answer takes and answers may overtake each other; what the  *)
(* code between two awaits does, with the effects and the timers it sets   *)
(* off, is one step.                                                       *)
(***************************************************************************)
EXTENDS Integers, FiniteSets

CONSTANTS
  Slots,       \* handlers in progress at the same time, at most
  MaxMoves,    \* bound: clicks, changes that others make in the API, and
               \* requests that fail, taken together
  Refused,     \* what a handler has of a request that was refused
  NotLoaded    \* what a page shows of an answer that has not arrived

ASSUME TabAssumption ==
  /\ Slots \in SUBSET Nat /\ IsFiniteSet(Slots) /\ 1 \in Slots
  /\ MaxMoves \in Nat

VARIABLES
  page,     \* the page that the tab shows
  view,     \* its React state
  run,      \* its handlers in progress
  adrift,   \* requests that are under way although no handler waits for them
  api,      \* what the API stores
  moves     \* clicks, changes and failures so far

tab == <<view, run, adrift>>
vars == <<page, tab, api, moves>>

Move == moves < MaxMoves /\ moves' = moves + 1

\* A handler: its name, the values it has closed over, the requests it waits
\* for, the answers it has, and whether one of the requests was rejected.
\* Promise.allSettled waits for all of them and takes a rejection for an answer.
Handler(of, arg, asked) ==
  [of |-> of, arg |-> arg, asked |-> asked, got |-> <<>>, failed |-> FALSE,
   settles |-> FALSE]
Settling(of, arg, asked) == [Handler(of, arg, asked) EXCEPT !.settles = TRUE]
Idle == [of |-> "idle", arg |-> "nothing", asked |-> {}, failed |-> FALSE]

\* A page is opened, and loads.
Opened(handlers) ==
  /\ \E h \in handlers : run = [k \in Slots |-> IF k = 1 THEN h ELSE Idle]
  /\ adrift = {}
  /\ moves = 0

\* A handler starts in the first slot that is free.
Free(k) == run[k] = Idle /\ \A j \in Slots : run[j] = Idle => k <= j
Begin(handler) ==
  \E k \in Slots : Free(k) /\ run' = [run EXCEPT ![k] = handler]

Click == Move /\ UNCHANGED <<page, adrift, api>>
Timer == UNCHANGED <<page, adrift, api, moves>>

\* Others change what the API stores.
Event == Move /\ UNCHANGED <<page, tab>>

-----------------------------------------------------------------------------
(* A handler's own steps. *)

Running(k, of) == run[k].of = of
Rejected(k, of) == Running(k, of) /\ run[k].failed
Answered(k, of) == Running(k, of) /\ ~ run[k].failed /\ run[k].asked = {}

\* It goes on to other requests, or ends.
Becomes(k, handler) ==
  /\ run' = [run EXCEPT ![k] = handler]
  /\ UNCHANGED <<page, adrift, api, moves>>
Ends(k) == Becomes(k, Idle)

\* What Promise.all no longer waits for after a rejection is under way all the
\* same, which matters for requests that change something.
GivesUp(k) ==
  /\ run' = [run EXCEPT ![k] = Idle]
  /\ adrift' = adrift \cup run[k].asked
  /\ UNCHANGED <<page, api, moves>>

-----------------------------------------------------------------------------
(* Requests.  An outcome is what the API then stores, and the answer, or that *)
(* the request is refused.                                                    *)

Ok(stored, answer) == [api |-> stored, ok |-> TRUE, answer |-> answer]
No == [api |-> api, ok |-> FALSE, answer |-> Refused]

\* What f says, and what g says where f says nothing.
Over(f, g) ==
  [x \in DOMAIN f \cup DOMAIN g |-> IF x \in DOMAIN f THEN f[x] ELSE g[x]]

Received(h, q, ok, answer) ==
  IF ok \/ h.settles
    THEN [h EXCEPT !.asked = @ \ {q}, !.got = Over(@, [r \in {q} |-> answer])]
    ELSE [h EXCEPT !.asked = @ \ {q}, !.failed = TRUE]

Receive(k, q, ok, answer) == run' = [run EXCEPT ![k] = Received(@, q, ok, answer)]

Waiting(k) == ~ run[k].failed

\* The API serves a request.  Its answer arrives when the handler goes on.
Serve(k, q, outcomes) ==
  /\ Waiting(k) /\ q \in run[k].asked
  /\ \E o \in outcomes : api' = o.api /\ Receive(k, q, o.ok, o.answer)
  /\ UNCHANGED <<page, view, adrift, moves>>

\* The request fails, before or after the API has served it.
Lose(k, q, outcomes) ==
  /\ Waiting(k) /\ q \in run[k].asked
  /\ Move
  /\ \E o \in outcomes : api' \in {api, o.api}
  /\ Receive(k, q, FALSE, Refused)
  /\ UNCHANGED <<page, view, adrift>>

\* A request that nobody waits for is served.
ServeAdrift(q, outcomes) ==
  /\ q \in adrift /\ adrift' = adrift \ {q}
  /\ \E o \in outcomes : api' = o.api
  /\ UNCHANGED <<page, view, run, moves>>
=============================================================================
