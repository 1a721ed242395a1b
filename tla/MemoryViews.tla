---------------------------- MODULE MemoryViews -----------------------------
(***************************************************************************)
(* MemoryViewManager of crates/vmi-views: identifiers of alternate memory  *)
(* views in a wrapping id space.  All operations run under one mutex; the  *)
(* loop of create is modelled turn by turn, with the mutex held.           *)
(***************************************************************************)
EXTENDS Naturals, FiniteSets

CONSTANTS Ids      \* size of the identifier space, 2^16 in the code

ASSUME IdsAssumption == Ids \in Nat \ {0, 1}

View == 0..(Ids - 1)

VARIABLES
  views,      \* State::views, the bitmap; view 0 exists without a bit
  viewCount,  \* State::view_count
  active,     \* State::active
  nextView,   \* State::next, where create starts looking
  start,      \* create's start while its loop runs
  scanning,   \* create holds the mutex
  outcome     \* how the last operation ended

viewsVars == <<views, viewCount, active, nextView, start, scanning, outcome>>

ViewsInit ==
  /\ views = {}
  /\ viewCount = 1
  /\ active = 0
  /\ nextView = 1
  /\ start = 1
  /\ scanning = FALSE
  /\ outcome = "none"

Contains(v) == v = 0 \/ v \in views

\* u16::wrapping_add(1)
WrappingSucc(v) == IF v = Ids - 1 THEN 0 ELSE v + 1

CreateBegin ==
  /\ ~scanning
  /\ scanning' = TRUE
  /\ start' = nextView
  /\ outcome' = "none"
  /\ UNCHANGED <<views, viewCount, active, nextView>>

\* A turn of the loop that finds a free identifier.
CreateFound ==
  /\ scanning
  /\ nextView' = WrappingSucc(nextView)
  /\ nextView # 0
  /\ nextView \notin views
  /\ views' = views \cup {nextView}
  /\ viewCount' = viewCount + 1
  /\ scanning' = FALSE
  /\ outcome' = "created"
  /\ UNCHANGED <<active, start>>

\* Mutant: the loop gives up one turn early.
CreateSkipStopsEarly ==
  /\ scanning
  /\ nextView' = WrappingSucc(nextView)
  /\ nextView = 0 \/ nextView \in views
  /\ scanning' = (WrappingSucc(nextView') # start)
  /\ outcome' = IF WrappingSucc(nextView') = start THEN "exhausted" ELSE "none"
  /\ UNCHANGED <<views, viewCount, active, start>>

\* A turn that finds the identifier taken: the loop goes on until it is back
\* where it started.
CreateSkip ==
  /\ scanning
  /\ nextView' = WrappingSucc(nextView)
  /\ nextView = 0 \/ nextView \in views
  /\ scanning' = (nextView' # start)
  /\ outcome' = IF nextView' = start THEN "exhausted" ELSE "none"
  /\ UNCHANGED <<views, viewCount, active, start>>

\* Mutant: the active view may be destroyed.
DestroyActive(v) ==
  /\ ~scanning
  /\ v # 0 /\ v \in views
  /\ views' = views \ {v}
  /\ viewCount' = viewCount - 1
  /\ outcome' = "destroyed"
  /\ UNCHANGED <<active, nextView, start, scanning>>

\* destroy; it fails for view 0, the active view and views that do not exist.
Destroy(v) ==
  /\ ~scanning
  /\ v # 0 /\ v # active /\ v \in views
  /\ views' = views \ {v}
  /\ viewCount' = viewCount - 1
  /\ outcome' = "destroyed"
  /\ UNCHANGED <<active, nextView, start, scanning>>

\* switch_view; it fails for views that do not exist.
SwitchView(v) ==
  /\ ~scanning
  /\ Contains(v)
  /\ active' = v
  /\ outcome' = "switched"
  /\ UNCHANGED <<views, viewCount, nextView, start, scanning>>

ViewsNext ==
  \/ CreateBegin
  \/ CreateFound
  \/ CreateSkip
  \/ \E v \in View : Destroy(v) \/ SwitchView(v)

ViewsSpec == ViewsInit /\ [][ViewsNext]_viewsVars

-----------------------------------------------------------------------------
(* Properties.                                                             *)

\* Every variable has its type: identifiers stay in the id space as they wrap.
ViewsTypeOK ==
  /\ views \in SUBSET View
  /\ viewCount \in Nat
  /\ active \in View
  /\ nextView \in View
  /\ start \in View
  /\ scanning \in BOOLEAN
  /\ outcome \in {"none", "created", "exhausted", "destroyed", "switched"}

\* The active view exists, whatever views were created, destroyed and reused:
\* an identifier is never reissued while the view it names is active.
ActiveExists == Contains(active)

\* view_count is what views() will list: the default view and one per bit.
CountMatches == 0 \notin views /\ viewCount = Cardinality(views) + 1

\* The identifiers the loop of create has passed since its start.
Passed ==
  IF start <= nextView THEN start..(nextView - 1) ELSE (start..(Ids - 1)) \cup (0..(nextView - 1))

\* The loop of create has passed taken identifiers only.
PassedAreTaken == scanning => \A v \in Passed : Contains(v)

\* create reports exhaustion only when every identifier is in use, wherever in
\* the id space it started.
ExhaustedMeansFull == outcome = "exhausted" => \A v \in View : Contains(v)

=============================================================================
