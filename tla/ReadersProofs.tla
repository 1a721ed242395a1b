---------------------------- MODULE ReadersProofs ---------------------------
(***************************************************************************)
(* Proofs about the readers of data that somebody else writes meanwhile:   *)
(* the walks over structures of the running guest (GuestWalks) and the     *)
(* loads of files (FileLoads, Profiles).  Neither can trust what it reads, *)
(* so what they promise has to follow from the reader's own bookkeeping:   *)
(* the set of places visited, the room left before a push, the length the  *)
(* metadata gave.  The first invariants say what that bookkeeping knows at *)
(* each step, and never what the data holds.  What a walk returns is       *)
(* another matter: it is compared with the structure in memory, and the    *)
(* invariants that come after those of the bookkeeping say which part of   *)
(* that structure the walk has passed as long as nobody disturbed it.      *)
(***************************************************************************)
EXTENDS GuestWalks, Profiles, FiniteSetTheorems, SequenceTheorems, WellFoundedInduction, TLAPS

\* A walk over a list has seen exactly what it has pushed, and has room for one
\* entry more where it is going to push one.
ListInv ==
    /\ limit \in Nat \ {0}
    /\ output \in Seq(seen)
    /\ \A i, j \in 1 .. Len(output) : output[i] = output[j] => i = j
    /\ phase = "start" => output = <<>>
    /\ phase \in {"walking", "done"} => Len(output) <= limit
    /\ phase = "walking" /\ walk = "tasks" => Len(output) < limit
    /\ phase = "walking" /\ walk = "list" /\ node \in Nodes => Len(output) < limit

\* The names of a climb are those of dentries where it has been, and there is
\* room for one more as long as it goes on.
PathInv ==
    /\ limit \in Nat \ {0}
    /\ IsFiniteSet(seen)
    /\ components \in Seq({p[1] : p \in seen})
    /\ Len(components) <= Cardinality(seen)
    /\ phase \in {"walking", "crossing"} => Len(components) < limit
    /\ phase = "done" => Len(components) <= limit

\* The entries pushed have ascending indices below the next one, and nothing is
\* pushed from a table longer than the limit.
TableInv ==
    /\ limit \in Nat /\ count \in Nat /\ known \in Nat /\ index \in Nat
    /\ index <= known
    /\ index > 0 => known <= limit
    /\ phase \in {"start", "counting"} => index = 0
    /\ output \in Seq(Tables!Reported)
    /\ Len(output) <= index
    /\ \A i \in 1 .. Len(output) : output[i][1] \in Nat /\ output[i][1] < index
    /\ \A i, j \in 1 .. Len(output) : output[i][1] = output[j][1] => i = j

WalkInv ==
    /\ walk \in Walks \cup PathWalks \cup TableWalks
    /\ ListQuery => ListInv
    /\ PathQuery => PathInv
    /\ TableQuery => TableInv

\* A query is of one kind.
LEMMA OneKind ==
    /\ ListQuery => ~PathQuery /\ ~TableQuery
    /\ PathQuery => ~TableQuery
BY ListAssumption, PathAssumption, TableAssumption DEF ListQuery, PathQuery, TableQuery

-----------------------------------------------------------------------------
(* Lists.                                                                  *)

\* A node that was not seen is pushed.
LEMMA ListPush ==
    ASSUME ListInv, node \notin seen,
           seen' = seen \cup {node}, output' = Append(output, node)
    PROVE  /\ output' \in Seq(seen')
           /\ Len(output') = Len(output) + 1
           /\ \A i, j \in 1 .. Len(output') : output'[i] = output'[j] => i = j
<1>1. output \in Seq(seen) /\ output \in Seq(seen')
  <2>1. output \in Seq(seen)
    BY DEF ListInv
  <2>2. \A i \in 1 .. Len(output) : output[i] \in seen'
    BY <2>1
  <2>3. QED
    BY <2>1, <2>2
<1>2. output' \in Seq(seen') /\ Len(output') = Len(output) + 1
  BY <1>1
<1>3. /\ \A i \in 1 .. Len(output) : output'[i] = output[i] /\ output[i] # node
      /\ output'[Len(output) + 1] = node
  BY <1>1
<1>4. QED
  BY <1>1, <1>2, <1>3 DEF ListInv

\* Visit and VisitLast: where the walk may go on, and how it may end.
LEMMA ListVisit ==
    ASSUME ListInv, walk \in {"tasks", "list", "hash"}, phase = "walking", node \notin seen,
           NEW n, Visit(n),
           Len(output) + 1 <= limit,
           walk = "tasks" => Fits,
           walk = "list" => n \notin Nodes \/ Fits
    PROVE  ListInv'
<1>1. /\ output' \in Seq(seen')
      /\ Len(output') = Len(output) + 1
      /\ \A i, j \in 1 .. Len(output') : output'[i] = output'[j] => i = j
  BY ListPush DEF Visit
<1>2. Len(output) \in Nat
  BY DEF ListInv
<1>3. QED
  BY <1>1, <1>2 DEF ListInv, Visit, Fits

\* The last entry is pushed.
LEMMA ListVisitLast ==
    ASSUME ListInv, phase = "walking", node \notin seen,
           NEW o, VisitLast(o),
           o = "failed" \/ (o = "done" /\ Len(output) < limit)
    PROVE  ListInv'
<1>1. /\ output' \in Seq(seen')
      /\ Len(output') = Len(output) + 1
      /\ \A i, j \in 1 .. Len(output') : output'[i] = output'[j] => i = j
  BY ListPush DEF VisitLast
<1>2. Len(output) \in Nat
  BY DEF ListInv
<1>3. QED
  BY <1>1, <1>2 DEF ListInv, VisitLast

\* A walk ends without a push.
LEMMA ListEnd ==
    ASSUME ListInv, phase \in {"start", "walking"}, NEW o \in {"done", "failed", "unreadable"},
           End(o), o = "done" => phase = "walking"
    PROVE  ListInv'
BY DEF ListInv, End

\* The walk over tasks.
LEMMA TaskKeeps == ListInv /\ TaskStep => ListInv'
<1> SUFFICES ASSUME ListInv, TaskStep PROVE ListInv'
  OBVIOUS
<1>0. phase = "walking" /\ walk = "tasks" /\ Len(output) < limit /\ Len(output) \in Nat /\ limit \in Nat
  BY DEF TaskStep, ListInv
<1>1. CASE Repeated
  BY <1>0, <1>1, ListEnd DEF Repeated
<1>2. CASE node \notin seen /\ next[node] = Anchor /\ VisitLast("done")
  BY <1>0, <1>2, ListVisitLast
<1>3. CASE /\ node \notin seen /\ next[node] # Anchor
           /\ IF Fits /\ next[node] # Null THEN Visit(next[node]) ELSE VisitLast("failed")
  <2>1. CASE Fits /\ next[node] # Null
    <3>1. Visit(next[node]) /\ Len(output) + 1 <= limit
      BY <1>0, <1>3, <2>1
    <3>2. QED
      BY <1>0, <1>3, <2>1, <3>1, ListVisit
  <2>2. CASE ~(Fits /\ next[node] # Null)
    BY <1>0, <1>3, <2>2, ListVisitLast
  <2>3. QED
    BY <2>1, <2>2
<1>4. QED
  BY <1>1, <1>2, <1>3 DEF TaskStep

\* The walks over lists with a separate head.
LEMMA ListKeeps == ListInv /\ ListStep => ListInv'
<1> SUFFICES ASSUME ListInv, ListStep PROVE ListInv'
  OBVIOUS
<1>0. phase = "walking" /\ walk = "list" /\ Len(output) \in Nat /\ limit \in Nat
  BY DEF ListStep, ListInv
<1>1. CASE node = Anchor /\ End("done")
  BY <1>0, <1>1, ListEnd
<1>2. CASE node = Null /\ End("failed")
  BY <1>0, <1>2, ListEnd
<1>3. CASE node \in Nodes /\ Repeated
  BY <1>0, <1>3, ListEnd DEF Repeated
<1>4. CASE /\ node \in Nodes \ seen
           /\ IF next[node] = Anchor \/ Fits THEN Visit(next[node]) ELSE VisitLast("failed")
  <2>0. node \notin seen /\ Len(output) + 1 <= limit
    BY <1>0, <1>4 DEF ListInv
  <2>1. CASE next[node] = Anchor \/ Fits
    <3>1. Visit(next[node]) /\ (next[node] \notin Nodes \/ Fits)
      BY <1>4, <2>1, ListAssumption
    <3>2. QED
      BY <1>0, <2>0, <3>1, ListVisit
  <2>2. CASE ~(next[node] = Anchor \/ Fits)
    BY <1>0, <1>4, <2>0, <2>2, ListVisitLast
  <2>3. QED
    BY <2>1, <2>2
<1>5. QED
  BY <1>1, <1>2, <1>3, <1>4 DEF ListStep

\* The walk over the buckets of a hash table.
LEMMA HashKeeps == ListInv /\ HashStep => ListInv'
<1> SUFFICES ASSUME ListInv, HashStep PROVE ListInv'
  OBVIOUS
<1>0. phase = "walking" /\ walk = "hash" /\ Len(output) \in Nat /\ limit \in Nat
  BY DEF HashStep, ListInv
<1>1. CASE /\ node = Null /\ bucket < Buckets
           /\ bucket' = bucket + 1
           /\ node' = next[bucket + 1]
           /\ UNCHANGED <<walk, limit, next, changed, phase, seen, output>>
  BY <1>0, <1>1 DEF ListInv
<1>2. CASE node = Null /\ bucket = Buckets /\ End("done")
  BY <1>0, <1>2, ListEnd
<1>3. CASE node # Null /\ Repeated
  BY <1>0, <1>3, ListEnd DEF Repeated
<1>4. CASE /\ node \in Nodes \ seen
           /\ IF Len(output) + 1 <= limit THEN Visit(next[node]) ELSE VisitLast("failed")
  <2>1. CASE Len(output) + 1 <= limit
    BY <1>0, <1>4, <2>1, ListVisit
  <2>2. CASE ~(Len(output) + 1 <= limit)
    BY <1>0, <1>4, <2>2, ListVisitLast
  <2>3. QED
    BY <2>1, <2>2
<1>5. QED
  BY <1>1, <1>2, <1>3, <1>4 DEF HashStep

\* No step of a list walk or of the guest disturbs the invariant.
LEMMA ListNext == ListInv /\ Next => ListInv'
<1> SUFFICES ASSUME ListInv, Next PROVE ListInv'
  OBVIOUS
<1>1. CASE Start
  BY <1>1 DEF ListInv, Start
<1>2. CASE ReadFails
  BY <1>2, ListEnd DEF ReadFails
<1>3. ASSUME NEW c, NEW p, GuestRelinks(c, p) PROVE ListInv'
  BY <1>3 DEF ListInv, GuestRelinks
<1>4. QED
  BY <1>1, <1>2, <1>3, TaskKeeps, ListKeeps, HashKeeps DEF Next, Step

-----------------------------------------------------------------------------
(* Paths.                                                                  *)

\* Names to push, none or one.
LEMMA ShortNames ==
    ASSUME NEW S, NEW d \in S, NEW pushed, pushed \in {<<>>, <<d>>}
    PROVE  pushed \in Seq(S) /\ Len(pushed) \in {0, 1} /\ (pushed = <<>> => Len(pushed) = 0)
<1>1. CASE pushed = <<>>
  BY <1>1
<1>2. CASE pushed = <<d>>
  <2>1. <<d>> \in Seq(S) /\ Len(<<d>>) = 1
    OBVIOUS
  <2>2. QED
    BY <1>2, <2>1
<1>3. QED
  BY <1>1, <1>2

\* One turn adds a place that the climb has not seen and at most one name, that
\* of its dentry.
LEMMA PathPush ==
    ASSUME PathInv, NEW pushed, pushed \in {<<>>, <<place[1]>>},
           pushed = <<>> \/ place \notin seen,
           seen' = seen \cup {place}, components' = components \o pushed
    PROVE  /\ IsFiniteSet(seen')
           /\ components' \in Seq({p[1] : p \in seen'})
           /\ Len(components') <= Cardinality(seen')
           /\ Len(components') <= Len(components) + 1
           /\ pushed = <<>> => Len(components') = Len(components)
           /\ Len(components) \in Nat /\ Len(components') \in Nat
<1> DEFINE old == {p[1] : p \in seen}
           new == {p[1] : p \in seen'}
<1>1. components \in Seq(old) /\ old \subseteq new /\ place[1] \in new
  BY DEF PathInv
<1>2. components \in Seq(new)
  BY <1>1, SeqMonotonic
<1> HIDE DEF old, new
<1>3. pushed \in Seq(new) /\ Len(pushed) \in {0, 1} /\ (pushed = <<>> => Len(pushed) = 0)
  BY <1>1, ShortNames
<1>4. /\ components' \in Seq(new)
      /\ Len(components') = Len(components) + Len(pushed)
      /\ Len(components) \in Nat
  BY <1>2, <1>3
<1>5. IsFiniteSet(seen) /\ IsFiniteSet(seen')
  BY FS_AddElement DEF PathInv
<1>6. /\ Cardinality(seen) \in Nat /\ Cardinality(seen') \in Nat
      /\ Cardinality(seen) <= Cardinality(seen')
      /\ place \notin seen => Cardinality(seen') = Cardinality(seen) + 1
  BY <1>5, FS_AddElement, FS_CardinalityType
<1>7. Len(components') <= Cardinality(seen')
  BY <1>3, <1>4, <1>6 DEF PathInv
<1>8. QED
  BY <1>3, <1>4, <1>5, <1>7 DEF new

\* The loop ends after a turn.
LEMMA PathStop ==
    ASSUME PathInv, phase \in {"walking", "crossing"},
           NEW pushed, pushed \in {<<>>, <<place[1]>>}, pushed = <<>> \/ place \notin seen,
           NEW o \in {"done", "failed"}, Paths!Stop(o, pushed)
    PROVE  PathInv'
<1>1. /\ IsFiniteSet(seen')
      /\ components' \in Seq({p[1] : p \in seen'})
      /\ Len(components') <= Cardinality(seen')
      /\ Len(components') <= Len(components) + 1
      /\ Len(components) \in Nat /\ Len(components') \in Nat
  BY PathPush DEF Paths!Stop
<1>2. Len(components') <= limit
  BY <1>1 DEF PathInv
<1>3. limit' = limit /\ phase' = o
  BY DEF Paths!Stop
<1>4. QED
  BY <1>1, <1>2, <1>3 DEF PathInv

\* The loop goes on, with room for a name.
LEMMA PathClimb ==
    ASSUME PathInv,
           NEW pushed, pushed \in {<<>>, <<place[1]>>}, pushed = <<>> \/ place \notin seen,
           NEW to, Paths!Climb(to, pushed), Len(components \o pushed) < limit
    PROVE  PathInv'
<1>1. /\ IsFiniteSet(seen')
      /\ components' \in Seq({p[1] : p \in seen'})
      /\ Len(components') <= Cardinality(seen')
  BY PathPush DEF Paths!Climb
<1>2. limit' = limit /\ phase' = "walking" /\ Len(components') < limit
  BY DEF Paths!Climb
<1>3. QED
  BY <1>1, <1>2 DEF PathInv

\* A climb that ends without a turn.
LEMMA PathEnd ==
    ASSUME PathInv, NEW o \in {"failed", "unreadable"}, Paths!End(o)
    PROVE  PathInv'
BY DEF PathInv, Paths!End

\* dentry_path.
LEMMA DentryKeeps == PathInv /\ Paths!DentryStep => PathInv'
<1> SUFFICES ASSUME PathInv, Paths!DentryStep PROVE PathInv'
  OBVIOUS
<1> DEFINE pushed == Paths!Pushed(Paths!Dentry)
<1>1. phase = "walking" /\ place \notin seen /\ limit \in Nat
  BY DEF Paths!DentryStep, PathInv
<1>2. pushed \in {<<>>, <<place[1]>>}
  BY DEF Paths!Pushed, Paths!Dentry
<1>3. Len(components \o pushed) \in Nat
  <2>1. PICK T : T = {p[1] : p \in seen} \cup {place[1]}
    OBVIOUS
  <2>2. components \in Seq(T)
    BY <2>1, SeqMonotonic DEF PathInv
  <2>3. pushed \in Seq(T)
    BY <1>2, <2>1, ShortNames
  <2>4. QED
    BY <2>2, <2>3
<1>4. \/ \E o \in {"done", "failed"} : Paths!Stop(o, pushed)
      \/ /\ ~(Len(components \o pushed) >= limit)
         /\ \E to : Paths!Climb(to, pushed)
  BY DEF Paths!DentryStep
<1> HIDE DEF pushed
<1>5. ASSUME NEW o \in {"done", "failed"}, Paths!Stop(o, pushed) PROVE PathInv'
  BY <1>1, <1>2, <1>5, PathStop
<1>6. ASSUME ~(Len(components \o pushed) >= limit), NEW to, Paths!Climb(to, pushed)
      PROVE  PathInv'
  <2>1. Len(components \o pushed) < limit
    BY <1>1, <1>3, <1>6
  <2>2. QED
    BY <1>1, <1>2, <1>6, <2>1, PathClimb
<1>7. QED
  BY <1>4, <1>5, <1>6

\* mounted_path at the root of a mount, and across it.
LEMMA MountKeeps == PathInv /\ (Paths!MountStep \/ Paths!Cross) => PathInv'
<1> SUFFICES ASSUME PathInv, Paths!MountStep \/ Paths!Cross PROVE PathInv'
  OBVIOUS
<1>1. phase \in {"walking", "crossing"} /\ Len(components) < limit
  BY DEF Paths!MountStep, Paths!Cross, PathInv
<1>2. components \o <<>> = components
  BY DEF PathInv
<1>3. \/ \E o \in {"done", "failed"} : Paths!Stop(o, <<>>)
      \/ \E to : Paths!Climb(to, <<>>)
      \/ /\ phase' = "crossing"
         /\ UNCHANGED <<limit, seen, components>>
  BY DEF Paths!MountStep, Paths!Cross
<1>4. ASSUME NEW o \in {"done", "failed"}, Paths!Stop(o, <<>>) PROVE PathInv'
  BY <1>1, <1>4, PathStop
<1>5. ASSUME NEW to, Paths!Climb(to, <<>>) PROVE PathInv'
  BY <1>1, <1>2, <1>5, PathClimb
<1>6. CASE phase' = "crossing" /\ UNCHANGED <<limit, seen, components>>
  BY <1>1, <1>6 DEF PathInv
<1>7. QED
  BY <1>3, <1>4, <1>5, <1>6

\* mounted_path below the root of a mount.
LEMMA BelowKeeps == PathInv /\ Paths!BelowStep => PathInv'
<1> SUFFICES ASSUME PathInv, Paths!BelowStep PROVE PathInv'
  OBVIOUS
<1>1. phase = "walking" /\ place \notin seen /\ limit \in Nat /\ Len(components) \in Nat
  BY DEF Paths!BelowStep, PathInv
<1>2. Len(components \o <<place[1]>>) = Len(components) + 1
  BY DEF PathInv
<1>3. \/ Paths!Stop("failed", <<>>)
      \/ Paths!Stop("failed", <<place[1]>>)
      \/ /\ ~(Len(components) + 1 >= limit)
         /\ \E to : Paths!Climb(to, <<place[1]>>)
  BY DEF Paths!BelowStep, Paths!Dentry
<1>4. CASE Paths!Stop("failed", <<>>)
  BY <1>1, <1>4, PathStop
<1>5. CASE Paths!Stop("failed", <<place[1]>>)
  BY <1>1, <1>5, PathStop
<1>6. ASSUME ~(Len(components) + 1 >= limit), NEW to, Paths!Climb(to, <<place[1]>>)
      PROVE  PathInv'
  <2>1. Len(components \o <<place[1]>>) < limit
    BY <1>1, <1>2, <1>6
  <2>2. QED
    BY <1>1, <1>6, <2>1, PathClimb
<1>7. QED
  BY <1>3, <1>4, <1>5, <1>6

\* No step of a climb or of the guest disturbs the invariant.
LEMMA PathNext == PathInv /\ Paths!Next => PathInv'
<1> SUFFICES ASSUME PathInv, Paths!Next PROVE PathInv'
  OBVIOUS
<1>1. CASE Paths!Repeated
  BY <1>1, PathEnd DEF Paths!Repeated
<1>2. CASE Paths!ReadFails
  BY <1>2, PathEnd DEF Paths!ReadFails
<1>3. ASSUME NEW d, NEW up, Paths!GuestMoves(d, up) PROVE PathInv'
  BY <1>3 DEF PathInv, Paths!GuestMoves
<1>4. ASSUME NEW m, NEW d, NEW up, Paths!GuestRemounts(m, d, up) PROVE PathInv'
  BY <1>4 DEF PathInv, Paths!GuestRemounts
<1>5. QED
  BY <1>1, <1>2, <1>3, <1>4, DentryKeeps, MountKeeps, BelowKeeps DEF Paths!Next, Paths!Step

-----------------------------------------------------------------------------
(* Tables.                                                                 *)

\* The reads before the loop.
LEMMA TableBegins == TableInv /\ (Tables!ReadRoot \/ Tables!ReadCount) => TableInv'
<1> SUFFICES ASSUME TableInv, Tables!ReadRoot \/ Tables!ReadCount PROVE TableInv'
  OBVIOUS
<1>1. /\ phase \in {"start", "counting"} /\ index = 0
      /\ UNCHANGED <<limit, output, count, index>>
      /\ known' \in {known, count}
  BY DEF TableInv, Tables!ReadRoot, Tables!ReadCount
<1>2. Len(output) = 0
  BY <1>1 DEF TableInv
<1>3. output' \in Seq(Tables!Reported')
  BY <1>1 DEF TableInv, Tables!Reported
<1>4. QED
  BY <1>1, <1>2, <1>3 DEF TableInv

\* An entry is read, and pushed unless it is zero.
LEMMA TableEntry == TableInv /\ Tables!ReadEntry => TableInv'
<1> SUFFICES ASSUME TableInv, Tables!ReadEntry PROVE TableInv'
  OBVIOUS
<1>1. CASE Tables!Finish("failed")
  <2>1. /\ UNCHANGED <<limit, output, count, known, index>>
        /\ phase' = "failed"
    BY <1>1 DEF Tables!Finish, Tables!tableVars
  <2>2. QED
    BY <2>1 DEF TableInv, Tables!Reported
<1>2. CASE /\ index' = index + 1 /\ UNCHANGED <<limit, phase, count, known>>
           /\ output' = output
  <2>1. output' \in Seq(Tables!Reported') /\ Len(output) \in Nat
    BY <1>2 DEF TableInv, Tables!Reported
  <2>2. phase = "walking" /\ known <= limit /\ index < known
    BY DEF Tables!ReadEntry
  <2>3. QED
    BY <1>2, <2>1, <2>2 DEF TableInv
<1>3. ASSUME NEW object,
             index' = index + 1, UNCHANGED <<limit, phase, count, known>>,
             output' = Append(output, <<index, object>>)
      PROVE  TableInv'
  <2>0. PICK T : T = Tables!Reported \cup {<<index, object>>}
    OBVIOUS
  <2>1. output \in Seq(T) /\ <<index, object>> \in T
    BY <2>0, SeqMonotonic DEF TableInv
  <2>2. /\ output' \in Seq(T) /\ Len(output') = Len(output) + 1
        /\ \A i \in 1 .. Len(output) : output'[i] = output[i]
        /\ output'[Len(output) + 1] = <<index, object>>
        /\ Len(output) \in Nat
    BY <1>3, <2>1
  <2>3. output' \in Seq(Tables!Reported')
    BY <2>2 DEF Tables!Reported
  <2>4. phase = "walking" /\ known <= limit /\ index < known
    BY DEF Tables!ReadEntry
  <2>5. <<index, object>>[1] = index
    OBVIOUS
  <2>6. \A i \in 1 .. Len(output') : output'[i][1] \in Nat /\ output'[i][1] < index'
    <3>1. \A i \in 1 .. Len(output) : output'[i][1] \in Nat /\ output'[i][1] < index
      BY <2>2 DEF TableInv
    <3>2. output'[Len(output) + 1][1] = index
      BY <2>2, <2>5
    <3>3. QED
      BY <1>3, <2>2, <3>1, <3>2 DEF TableInv
  <2>7. \A i, j \in 1 .. Len(output') : output'[i][1] = output'[j][1] => i = j
    <3>1. \A i \in 1 .. Len(output) : output'[i][1] = output[i][1] /\ output[i][1] # index
      BY <2>2 DEF TableInv
    <3>2. output'[Len(output) + 1][1] = index
      BY <2>2, <2>5
    <3>3. QED
      BY <2>2, <3>1, <3>2 DEF TableInv
  <2>8. QED
    BY <1>3, <2>2, <2>3, <2>4, <2>6, <2>7 DEF TableInv
<1>4. QED
  BY <1>1, <1>2, <1>3 DEF Tables!ReadEntry

\* A walk over a table ends.
LEMMA TableFinish ==
    ASSUME TableInv, NEW o \in {"done", "failed", "unreadable"}, Tables!Finish(o)
    PROVE  TableInv'
<1>1. phase' = o /\ UNCHANGED <<limit, output, count, known, index>>
  BY DEF Tables!Finish, Tables!tableVars
<1>2. QED
  BY <1>1 DEF TableInv, Tables!Reported

\* The guest changes nothing that the walk has read.
LEMMA TableGuest ==
    ASSUME TableInv, Tables!Guest, count' \in Nat
    PROVE  TableInv'
<1>1. UNCHANGED <<limit, phase, output, known, index>>
  BY DEF Tables!Guest
<1>2. QED
  BY <1>1 DEF TableInv, Tables!Reported

\* No step of a table walk or of the guest disturbs the invariant.
LEMMA TableNext == TableInv /\ Tables!Next => TableInv'
<1> SUFFICES ASSUME TableInv, Tables!Next PROVE TableInv'
  OBVIOUS
<1>0. count \in Nat
  BY DEF TableInv
<1>1. CASE Tables!EndTable
  BY <1>1, TableFinish DEF Tables!EndTable
<1>2. CASE Tables!ReadFails
  BY <1>2, TableFinish DEF Tables!ReadFails
<1>3. ASSUME NEW i, Tables!GuestCloses(i) PROVE TableInv'
  BY <1>0, <1>3, TableGuest DEF Tables!GuestCloses
<1>4. ASSUME NEW i, NEW o, Tables!GuestOpens(i, o) PROVE TableInv'
  BY <1>0, <1>4, TableGuest DEF Tables!GuestOpens
<1>5. CASE Tables!GuestAddsLevel
  BY <1>0, <1>5, TableGuest DEF Tables!GuestAddsLevel
<1>6. CASE Tables!GuestCounts
  <2>1. Tables!Guest /\ count' = Tables!Capacity(code.level)
    BY <1>6 DEF Tables!GuestCounts
  <2>2. count' \in Nat
    BY <2>1 DEF Tables!Capacity
  <2>3. QED
    BY <2>1, <2>2, TableGuest
<1>7. CASE Tables!GuestExpands
  BY <1>0, <1>7, TableGuest DEF Tables!GuestExpands
<1>8. ASSUME NEW o, Tables!GuestReuses(o) PROVE TableInv'
  BY <1>0, <1>8, TableGuest DEF Tables!GuestReuses
<1>9. QED
  BY <1>1, <1>2, <1>3, <1>4, <1>5, <1>6, <1>7, <1>8, TableBegins, TableEntry
     DEF Tables!Next, Tables!Step

-----------------------------------------------------------------------------
(* Queries.                                                                *)

\* A query begins with nothing seen and nothing pushed.
LEMMA InitWalks == InitQuery => WalkInv
<1>1. ASSUME Init PROVE WalkInv
  <2>1. ListQuery /\ ListInv
    BY <1>1, ListAssumption DEF Init, ListQuery, ListInv
  <2>2. QED
    BY <2>1, OneKind DEF WalkInv, ListQuery
<1>2. ASSUME Paths!Init PROVE WalkInv
  <2>1. /\ walk \in PathWalks /\ limit \in 1 .. MaxLimit
        /\ seen = {} /\ components = <<>> /\ phase = "walking"
    BY <1>2 DEF Paths!Init
  <2>2. IsFiniteSet(seen) /\ Cardinality(seen) = 0
    BY <2>1, FS_EmptySet
  <2>3. PathQuery /\ PathInv
    BY <2>1, <2>2, ListAssumption DEF PathQuery, PathInv
  <2>4. QED
    BY <2>3, OneKind DEF WalkInv, PathQuery
<1>3. ASSUME Tables!Init PROVE WalkInv
  <2>1. /\ walk \in TableWalks /\ limit \in TableLimits
        /\ count \in (IF code = Tables!NoTable THEN {0} ELSE 0 .. Tables!Capacity(code.level))
        /\ output = <<>> /\ known = 0 /\ index = 0
    BY <1>3 DEF Tables!Init
  <2>2. count \in Nat
    BY <2>1 DEF Tables!Capacity
  <2>3. TableQuery /\ TableInv
    BY <2>1, <2>2, TableAssumption DEF TableQuery, TableInv, Tables!Reported
  <2>4. QED
    BY <2>3, OneKind DEF WalkInv, TableQuery
<1>4. QED
  BY <1>1, <1>2, <1>3 DEF InitQuery

\* The kind of a query does not change.
LEMMA WalkKept == NextQuery => walk' = walk
<1>1. Next => walk' = walk
  BY DEF Next, Step, Start, TaskStep, ListStep, HashStep, Repeated, Visit, VisitLast, End,
         ReadFails, GuestRelinks
<1>2. Paths!Next => walk' = walk
  BY DEF Paths!Next, Paths!Step, Paths!Repeated, Paths!DentryStep, Paths!MountStep,
         Paths!Cross, Paths!BelowStep, Paths!Climb, Paths!Stop, Paths!End, Paths!ReadFails,
         Paths!GuestMoves, Paths!GuestRemounts
<1>3. Tables!Next => walk' = walk
  BY DEF Tables!Next, Tables!Step, Tables!ReadRoot, Tables!ReadCount, Tables!ReadEntry,
         Tables!EndTable, Tables!Finish, Tables!ReadFails, Tables!Guest, Tables!GuestOpens,
         Tables!GuestCloses, Tables!GuestAddsLevel, Tables!GuestCounts,
         Tables!GuestExpands, Tables!GuestReuses
<1>4. QED
  BY <1>1, <1>2, <1>3 DEF NextQuery, ListStepOrGuest, PathStepOrGuest, TableStepOrGuest

\* Every step keeps the invariant of its own walk.
LEMMA WalksStep == WalkInv /\ [NextQuery]_queryVars => WalkInv'
<1> SUFFICES ASSUME WalkInv, [NextQuery]_queryVars PROVE WalkInv'
  OBVIOUS
<1>1. CASE UNCHANGED queryVars
  <2>1. UNCHANGED <<walk, limit, phase, node, seen, output, components, count, known, index>>
    BY <1>1 DEF queryVars, vars, pathVars, tableVars
  <2>2. QED
    BY <2>1 DEF WalkInv, ListQuery, PathQuery, TableQuery, ListInv, PathInv, TableInv,
                Tables!Reported
<1>2. CASE ListStepOrGuest
  <2>1. walk' = walk /\ ListQuery /\ ListInv'
    BY <1>2, WalkKept, ListNext DEF NextQuery, ListStepOrGuest, WalkInv
  <2>2. QED
    BY <2>1, OneKind DEF WalkInv, ListQuery, PathQuery, TableQuery
<1>3. CASE PathStepOrGuest
  <2>1. walk' = walk /\ PathQuery /\ PathInv'
    BY <1>3, WalkKept, PathNext DEF NextQuery, PathStepOrGuest, WalkInv
  <2>2. QED
    BY <2>1, OneKind DEF WalkInv, ListQuery, PathQuery, TableQuery
<1>4. CASE TableStepOrGuest
  <2>1. walk' = walk /\ TableQuery /\ TableInv'
    BY <1>4, WalkKept, TableNext DEF NextQuery, TableStepOrGuest, WalkInv
  <2>2. QED
    BY <2>1, OneKind DEF WalkInv, ListQuery, PathQuery, TableQuery
<1>5. QED
  BY <1>1, <1>2, <1>3, <1>4 DEF NextQuery

\* The parts of WalkBounded follow.
LEMMA WalkInvBounds == WalkInv => WalkBounded
<1> SUFFICES ASSUME WalkInv PROVE WalkBounded
  OBVIOUS
<1>1. ListQuery => OutputBounded
  BY DEF WalkInv, ListInv, OutputBounded
<1>2. PathQuery => Paths!PathBounded
  <2>1. PathInv => /\ Len(components) <= Cardinality(seen)
                   /\ phase = "done" => Len(components) <= limit
    BY DEF PathInv
  <2>2. Paths!Cardinality(seen) = Cardinality(seen)
    BY Zenon DEF Paths!Cardinality, Cardinality
  <2>3. QED
    BY <2>1, <2>2 DEF WalkInv, Paths!PathBounded
<1>3. TableQuery => Tables!TableBounded
  <2>1. ASSUME TableInv PROVE Len(output) <= limit
    <3>1. Len(output) \in Nat
      BY <2>1 DEF TableInv
    <3>2. QED
      BY <2>1, <3>1 DEF TableInv
  <2>2. ASSUME TableInv PROVE DOMAIN output = 1 .. Len(output)
    BY <2>2 DEF TableInv
  <2>3. QED
    BY <2>1, <2>2 DEF WalkInv, TableInv, Tables!TableBounded
<1>4. QED
  BY <1>1, <1>2, <1>3 DEF WalkBounded

\* Whatever the guest writes while its lists, dentries, mounts and tables are
\* walked, a walk reports nothing twice and no more than the caller's limit.
THEOREM QueriesBounded == Queries => []WalkBounded
<1>1. Queries => []WalkInv
  BY InitWalks, WalksStep, PTL DEF Queries
<1>2. QED
  BY <1>1, WalkInvBounds, PTL

-----------------------------------------------------------------------------
(* What a walk over a list returns.                                        *)

\* What a walk over a list knows of its variables, disturbed or not.
ListTypes ==
  /\ walk \in {"tasks", "list", "hash"}
  /\ limit \in 1 .. MaxLimit
  /\ next \in [Cells(walk) -> Pointers(walk)]
  /\ bucket \in 1 .. Chains
  /\ output \in Seq(Nodes \cup {Anchor})
  /\ \A x \in seen : \E k \in 1 .. Len(output) : output[k] = x
  /\ phase = "start" => output = <<>> /\ bucket = 1
  /\ phase = "walking" => AreEntries(output)
  /\ phase = "walking" /\ walk = "tasks" =>
       node \in Nodes \cup {Anchor} /\ (node = Anchor <=> output = <<>>)
  /\ phase = "walking" /\ walk = "list" => node \in Nodes \cup {Anchor, Null}
  /\ phase = "walking" /\ walk = "hash" => node \in Nodes \cup {Null}

\* The entries of o are the chains before chain c, which end at the indices in
\* cut, and chain c as far as the pointer p.
PushedBy(o, cut, c, p) ==
  /\ cut[0] = 0
  /\ \A b \in 1 .. (c - 1) :
       cut[b - 1] <= cut[b] /\ Chain(o, cut[b - 1] + 1, cut[b], First(b))
  /\ IF cut[c - 1] = Len(o) THEN p = First(c)
     ELSE o[cut[c - 1] + 1] = First(c) /\ p = next[o[Len(o)]]
  /\ \A k \in (cut[c - 1] + 1) .. (Len(o) - 1) : next[o[k]] = o[k + 1]

\* The walk is at its place in s, whose chains end at the indices in cut.
Along(s, cut) ==
  /\ cut[bucket - 1] <= Len(output) /\ Len(output) <= cut[bucket]
  /\ \A k \in 1 .. Len(output) : s[k] = output[k]
  /\ node = IF Len(output) = cut[bucket] THEN Terminator ELSE s[Len(output) + 1]

\* An undisturbed walk has pushed a beginning of what is in memory, and is at its
\* place in every list that is.
ListAlong ==
  phase = "walking" /\ ~changed =>
    /\ \E cut \in [0 .. (bucket - 1) -> 0 .. Len(output)] : PushedBy(output, cut, bucket, node)
    /\ \A s \in Seqs : \A cut \in [0 .. Chains -> 0 .. Len(s)] : ListedBy(s, cut) => Along(s, cut)

\* The inductive invariant of a walk over a list.
ListExactInv == ListInv /\ ListTypes /\ ListAlong /\ QuietWalkExact

\* The lists in memory depend on memory only.
LEMMA ListsStay ==
  ASSUME walk' = walk, next' = next
  PROVE  /\ Chains' = Chains /\ Terminator' = Terminator
         /\ \A b : First(b)' = First(b)
         /\ \A s, i, j, p : Chain(s, i, j, p)' <=> Chain(s, i, j, p)
         /\ \A s : AreEntries(s)' <=> AreEntries(s)
         /\ \A s, cut : ListedBy(s, cut)' <=> ListedBy(s, cut)
         /\ ListsInMemory' = ListsInMemory
         /\ \A o, cut, c, p : PushedBy(o, cut, c, p)' <=> PushedBy(o, cut, c, p)
<1>1. Chains' = Chains /\ Terminator' = Terminator /\ \A b : First(b)' = First(b)
  BY DEF Chains, Terminator, First
<1>2. ASSUME NEW s, NEW i, NEW j, NEW p PROVE Chain(s, i, j, p)' <=> Chain(s, i, j, p)
  BY <1>1 DEF Chain
<1>3. \A s : AreEntries(s)' <=> AreEntries(s)
  BY DEF AreEntries
<1>4. \A s, cut : ListedBy(s, cut)' <=> ListedBy(s, cut)
  BY <1>1, <1>2, <1>3 DEF ListedBy
<1>5. ListsInMemory' = ListsInMemory
  BY <1>1, <1>4 DEF ListsInMemory
<1>6. \A o, cut, c, p : PushedBy(o, cut, c, p)' <=> PushedBy(o, cut, c, p)
  BY <1>1, <1>2 DEF PushedBy
<1>7. QED
  BY <1>1, <1>2, <1>3, <1>4, <1>5, <1>6

\* A list has no repetition: what is pushed is in it, once.
LEMMA SeqsFacts ==
  ASSUME NEW s \in Seqs
  PROVE  s \in Seq(Nodes \cup {Anchor}) /\ Len(s) \in Nat /\ s \in [1 .. Len(s) -> Nodes \cup {Anchor}]
<1>1. PICK n \in 0 .. MaxLimit : s \in [1 .. n -> Nodes \cup {Anchor}]
  BY DEF Seqs
<1>2. n \in Nat
  BY <1>1, ListAssumption
<1>3. QED
  BY <1>1, <1>2

\* How a walk may end, when it was not disturbed.
LEMMA EndsExact ==
  ASSUME walk' = walk, next' = next, limit' = limit, changed' = changed,
         phase' \in {"walking", "done", "failed", "unreadable"},
         ~changed /\ phase' = "done" => output' \in ListsInMemory,
         ~changed /\ phase' = "failed" =>
           \A s \in Seqs : \A cut \in [0 .. Chains -> 0 .. Len(s)] :
             ListedBy(s, cut) /\ Len(s) <= limit => ~WithoutRepetition(s)
  PROVE  QuietWalkExact'
<1>1. ListsInMemory' = ListsInMemory
  BY ListsStay
<1>2. ~changed /\ phase' = "failed" =>
        ~\E s \in ListsInMemory : Len(s) <= limit /\ WithoutRepetition(s)
  BY DEF ListsInMemory
<1>3. QED
  BY <1>1, <1>2 DEF QuietWalkExact, WithoutRepetition

\* A walk begins at the first pointer of the first chain.
LEMMA StartExact ==
  ASSUME ListExactInv, Start
  PROVE  ListExactInv'
<1>1. ListInv /\ ListTypes
  BY DEF ListExactInv
<1>2. /\ walk' = walk /\ limit' = limit /\ next' = next /\ changed' = changed /\ bucket' = bucket
      /\ seen' = seen /\ output' = output /\ phase = "start" /\ phase' = "walking"
  BY DEF Start
<1>3. output = <<>> /\ Len(output) = 0 /\ bucket = 1
  BY <1>1, <1>2 DEF ListTypes
<1>4. node' = First(1)
  BY <1>1 DEF Start, First, ListTypes
<1>5. /\ Chains' = Chains /\ Terminator' = Terminator /\ \A b : First(b)' = First(b)
      /\ \A s, cut : ListedBy(s, cut)' <=> ListedBy(s, cut)
  BY <1>2, ListsStay
<1>6. ListInv'
  BY <1>1, ListNext DEF Next, Step
<1>7. ListTypes'
  <2>1. walk = "tasks" => node' = Anchor
    BY <1>4 DEF First
  <2>2. walk = "list" => node' \in Nodes \cup {Anchor, Null}
    BY <1>1, <1>4 DEF First, ListTypes, Cells, Pointers
  <2>3. walk = "hash" => node' \in Nodes \cup {Null}
    <3>1. walk = "hash" => 1 \in Cells(walk)
      BY ListAssumption DEF Cells
    <3>2. QED
      BY <1>1, <1>4, <3>1 DEF First, ListTypes, Pointers
  <2>4. AreEntries(output)'
    BY <1>2, <1>3 DEF AreEntries
  <2>5. QED
    BY <1>1, <1>2, <1>3, <1>5, <2>1, <2>2, <2>3, <2>4 DEF ListTypes
<1>8. (\E cut \in [0 .. (bucket - 1) -> 0 .. Len(output)] : PushedBy(output, cut, bucket, node))'
  <2>1. PICK cut : cut = [b \in 0 .. 0 |-> 0]
    OBVIOUS
  <2>2. cut \in [0 .. 0 -> 0 .. 0] /\ cut[0] = 0
    BY <2>1
  <2>3. bucket' - 1 = 0 /\ Len(output') = 0
    BY <1>2, <1>3
  <2>4. PushedBy(output, cut, bucket, node)'
    BY <1>2, <1>3, <1>4, <1>5, <2>2, <2>3 DEF PushedBy
  <2>5. QED
    BY <2>2, <2>3, <2>4
<1>9. ASSUME NEW s \in Seqs, NEW cut \in [0 .. Chains -> 0 .. Len(s)], ListedBy(s, cut)
      PROVE  Along(s, cut)'
  <2>1. Len(s) \in Nat /\ Chains \in Nat /\ Chains >= 1
    BY SeqsFacts, ListAssumption DEF Chains
  <2>2. cut[0] = 0 /\ cut[0] <= cut[1] /\ Chain(s, cut[0] + 1, cut[1], First(1))
    BY <1>9, <2>1 DEF ListedBy
  <2>3. PICK e \in Nat : e = cut[1]
    BY <2>1
  <2>4. Chain(s, 1, e, First(1))
    BY <2>2, <2>3
  <2>5. IF 1 > e THEN First(1) = Terminator ELSE First(1) = s[1]
    BY <2>4 DEF Chain
  <2>6. node' = IF 0 = e THEN Terminator ELSE s[1]
    BY <1>4, <2>3, <2>5
  <2>7. QED
    BY <1>2, <1>3, <1>5, <2>2, <2>3, <2>6 DEF Along
<1>10. ListAlong'
  BY <1>5, <1>8, <1>9 DEF ListAlong
<1>11. QuietWalkExact'
  BY <1>2, EndsExact
<1>12. QED
  BY <1>6, <1>7, <1>10, <1>11 DEF ListExactInv

\* Where an entry is about to be visited, every list in memory goes on with it.
LEMMA AtEntry ==
  ASSUME ListTypes, ListAlong, phase = "walking", ~changed, node \in Nodes \/ walk = "tasks",
         NEW s \in Seqs, NEW cut \in [0 .. Chains -> 0 .. Len(s)], ListedBy(s, cut)
  PROVE  /\ Len(output) < cut[bucket] /\ cut[bucket] <= Len(s)
         /\ cut[bucket - 1] <= Len(output) /\ cut[bucket] \in Nat /\ Len(s) \in Nat
         /\ \A k \in 1 .. Len(output) : s[k] = output[k]
         /\ node = s[Len(output) + 1]
         /\ next[node] = IF Len(output) + 1 = cut[bucket] THEN Terminator ELSE s[Len(output) + 2]
<1>1. Along(s, cut)
  BY DEF ListAlong
<1>2. PICK n \in Nat : n = Len(output)
  BY DEF ListTypes
<1>3. Len(s) \in Nat /\ Chains \in Nat
  BY SeqsFacts, ListAssumption DEF Chains
<1>4. PICK b \in 1 .. Chains : b = bucket
  BY DEF ListTypes
<1>5. b \in 0 .. Chains /\ b - 1 \in 0 .. Chains
  BY <1>3
<1>6. PICK f \in 0 .. Len(s) : f = cut[b - 1]
  BY <1>5
<1>7. PICK e \in 0 .. Len(s) : e = cut[b]
  BY <1>5
<1>8. /\ f <= n /\ n <= e /\ \A k \in 1 .. n : s[k] = output[k]
      /\ node = IF n = e THEN Terminator ELSE s[n + 1]
  BY <1>1, <1>2, <1>4, <1>6, <1>7 DEF Along
<1>9. Chain(s, f + 1, e, First(b))
  BY <1>6, <1>7 DEF ListedBy
<1>10. n # e
  <2>1. SUFFICES ASSUME n = e PROVE FALSE
    OBVIOUS
  <2>2. node = Terminator
    BY <1>8, <2>1
  <2>3. walk = "tasks" /\ output = <<>>
    BY <2>2, ListAssumption DEF ListTypes, Terminator
  <2>4. n = 0 /\ f = 0 /\ e = 0
    <3>1. n = 0
      BY <1>2, <2>3
    <3>2. QED
      BY <1>3, <1>6, <1>7, <1>8, <2>1, <3>1
  <2>5. walk # "tasks"
    BY <1>9, <2>4 DEF Chain
  <2>6. QED
    BY <2>3, <2>5
<1>11. n < e /\ node = s[n + 1] /\ n + 1 \in (f + 1) .. e
  BY <1>3, <1>8, <1>10
<1>12. next[s[n + 1]] = IF n + 1 = e THEN Terminator ELSE s[(n + 1) + 1]
  BY <1>9, <1>11 DEF Chain
<1>13. (n + 1) + 1 = n + 2
  OBVIOUS
<1>14. QED
  BY <1>2, <1>3, <1>4, <1>6, <1>7, <1>8, <1>11, <1>12, <1>13

\* An entry is pushed.
LEMMA PushFacts ==
  ASSUME ListTypes, output' = Append(output, node), node \in Nodes \cup {Anchor}
  PROVE  /\ output' \in Seq(Nodes \cup {Anchor}) /\ Len(output) \in Nat
         /\ Len(output') = Len(output) + 1
         /\ \A k \in 1 .. Len(output) : output'[k] = output[k]
         /\ output'[Len(output) + 1] = node
BY DEF ListTypes

\* The pushed entries are entries.
LEMMA PushTypes ==
  ASSUME ListTypes, phase = "walking", node \in Nodes \/ walk = "tasks",
         walk' = walk, seen' = seen \cup {node}, output' = Append(output, node)
  PROVE  /\ AreEntries(output)'
         /\ \A x \in seen' : \E k \in 1 .. Len(output') : output'[k] = x
         /\ node \in Nodes \cup {Anchor}
<1>1. node \in Nodes \cup {Anchor}
  BY DEF ListTypes
<1>2. PICK n \in Nat : n = Len(output)
  BY DEF ListTypes
<1>3. /\ Len(output') = n + 1 /\ \A k \in 1 .. n : output'[k] = output[k]
      /\ output'[n + 1] = node
  BY <1>1, <1>2, PushFacts
<1>4. \A k \in 1 .. (n + 1) : output'[k] = Anchor <=> walk = "tasks" /\ k = 1
  <2>1. \A k \in 1 .. n : output[k] = Anchor <=> walk = "tasks" /\ k = 1
    BY <1>2 DEF ListTypes, AreEntries
  <2>2. node = Anchor <=> walk = "tasks" /\ n + 1 = 1
    <3>1. output = <<>> <=> n = 0
      BY <1>2 DEF ListTypes
    <3>2. QED
      BY <3>1, ListAssumption DEF ListTypes
  <2>3. QED
    BY <1>2, <1>3, <2>1, <2>2
<1>5. AreEntries(output)'
  BY <1>3, <1>4 DEF AreEntries
<1>6. \A x \in seen' : \E k \in 1 .. (n + 1) : output'[k] = x
  <2>1. \A x \in seen : \E k \in 1 .. n : output[k] = x
    BY <1>2 DEF ListTypes
  <2>2. QED
    BY <1>2, <1>3, <2>1
<1>7. QED
  BY <1>1, <1>3, <1>5, <1>6

\* The entry node is pushed and the chain goes on with its pointer.
LEMMA PushedMore ==
  ASSUME ListTypes, NEW n \in Nat, n = Len(output), NEW c \in Nat \ {0},
         NEW cut \in [0 .. (c - 1) -> 0 .. n], PushedBy(output, cut, c, node),
         NEW o, Len(o) = n + 1, \A k \in 1 .. n : o[k] = output[k], o[n + 1] = node
  PROVE  PushedBy(o, cut, c, next[node])
<1>1. PICK f \in 0 .. n : f = cut[c - 1]
  OBVIOUS
<1>2. cut[0] = 0
  BY DEF PushedBy
<1>3. ASSUME NEW b \in 1 .. (c - 1)
      PROVE  cut[b - 1] <= cut[b] /\ Chain(o, cut[b - 1] + 1, cut[b], First(b))
  <2>1. cut[b - 1] <= cut[b] /\ Chain(output, cut[b - 1] + 1, cut[b], First(b))
    BY DEF PushedBy
  <2>2. b \in 0 .. (c - 1) /\ b - 1 \in 0 .. (c - 1)
    OBVIOUS
  <2>3. PICK i \in 1 .. (n + 1) : i = cut[b - 1] + 1
    BY <2>2
  <2>4. PICK j \in 0 .. n : j = cut[b]
    BY <2>2
  <2>5. Chain(output, i, j, First(b))
    BY <2>1, <2>3, <2>4
  <2>6. \A k \in i .. j : o[k] = output[k] /\ (k # j => o[k + 1] = output[k + 1])
    <3>1. \A k \in i .. j : k \in 1 .. n /\ (k # j => k + 1 \in 1 .. n)
      BY <2>3, <2>4
    <3>2. QED
      BY <3>1
  <2>7. IF i > j THEN First(b) = Terminator /\ walk # "tasks" ELSE First(b) = o[i]
    <3>1. IF i > j THEN First(b) = Terminator /\ walk # "tasks" ELSE First(b) = output[i]
      BY <2>5 DEF Chain
    <3>2. ~(i > j) => i \in i .. j
      BY <2>3, <2>4
    <3>3. QED
      BY <2>6, <3>1, <3>2
  <2>8. \A k \in i .. j : next[o[k]] = IF k = j THEN Terminator ELSE o[k + 1]
    BY <2>5, <2>6 DEF Chain
  <2>9. Chain(o, i, j, First(b))
    BY <2>7, <2>8 DEF Chain
  <2>10. QED
    BY <2>1, <2>3, <2>4, <2>9
<1>4. /\ f # n + 1 /\ o[f + 1] = First(c) /\ next[node] = next[o[n + 1]]
  <2>1. IF f = n THEN node = First(c)
        ELSE output[f + 1] = First(c) /\ node = next[output[n]]
    BY <1>1 DEF PushedBy
  <2>2. f # n => f + 1 \in 1 .. n
    BY <1>1
  <2>3. QED
    BY <1>1, <2>1, <2>2
<1>5. \A k \in (f + 1) .. n : next[o[k]] = o[k + 1]
  <2>1. \A k \in (f + 1) .. (n - 1) : next[output[k]] = output[k + 1]
    BY <1>1 DEF PushedBy
  <2>2. f # n => node = next[output[n]]
    BY <1>1 DEF PushedBy
  <2>3. ASSUME NEW k \in (f + 1) .. n PROVE next[o[k]] = o[k + 1]
    <3>1. k \in 1 .. n /\ o[k] = output[k]
      BY <1>1
    <3>2. CASE k = n
      BY <1>1, <2>2, <3>1, <3>2
    <3>3. CASE k # n
      <4>1. k \in (f + 1) .. (n - 1) /\ k + 1 \in 1 .. n
        BY <1>1, <3>3
      <4>2. QED
        BY <2>1, <3>1, <4>1
    <3>4. QED
      BY <3>2, <3>3
  <2>4. QED
    BY <2>3
<1>6. Len(o) - 1 = n /\ f # Len(o)
  BY <1>1
<1>7. QED
  BY <1>1, <1>2, <1>3, <1>4, <1>5, <1>6 DEF PushedBy

\* The walk goes on with the pointer of the entry it visits.
LEMMA VisitAlong ==
  ASSUME ListTypes, ListAlong, phase = "walking", node \in Nodes \/ walk = "tasks", Visit(next[node])
  PROVE  ListAlong'
<1>1. SUFFICES ASSUME ~changed PROVE ListAlong'
  BY DEF ListAlong, Visit
<1>2. /\ walk' = walk /\ next' = next /\ bucket' = bucket /\ output' = Append(output, node)
      /\ node' = next[node] /\ seen' = seen \cup {node}
  BY DEF Visit
<1>3. node \in Nodes \cup {Anchor}
  BY <1>2, PushTypes
<1>4. PICK n \in Nat : n = Len(output)
  BY DEF ListTypes
<1>5. /\ Len(output') = n + 1 /\ \A k \in 1 .. n : output'[k] = output[k]
      /\ output'[n + 1] = node
  BY <1>2, <1>3, <1>4, PushFacts
<1>6. /\ Chains' = Chains /\ Terminator' = Terminator /\ \A b : First(b)' = First(b)
      /\ \A s, i, j, p : Chain(s, i, j, p)' <=> Chain(s, i, j, p)
      /\ \A s, cut : ListedBy(s, cut)' <=> ListedBy(s, cut)
  BY <1>2, ListsStay
<1>7. PICK c \in Nat \ {0} : c = bucket
  BY ListAssumption DEF ListTypes, Chains
<1>8. PICK cut \in [0 .. (c - 1) -> 0 .. n] : PushedBy(output, cut, c, node)
  BY <1>1, <1>4, <1>7 DEF ListAlong
<1>9. PushedBy(output, cut, bucket, node)'
  <2>1. PushedBy(output', cut, c, next[node])
    BY <1>4, <1>5, <1>8, PushedMore
  <2>2. ASSUME NEW b \in 1 .. (c - 1)
        PROVE  cut[b - 1] <= cut[b] /\ Chain(output, cut[b - 1] + 1, cut[b], First(b))'
    <3>1. cut[b - 1] <= cut[b] /\ Chain(output', cut[b - 1] + 1, cut[b], First(b))
      BY <2>1 DEF PushedBy
    <3>2. QED
      BY <1>2, <1>6, <3>1 DEF Chain
  <2>3. /\ cut[0] = 0
        /\ IF cut[c - 1] = Len(output') THEN node' = First(c)
           ELSE output'[cut[c - 1] + 1] = First(c) /\ node' = next[output'[Len(output')]]
        /\ \A k \in (cut[c - 1] + 1) .. (Len(output') - 1) : next[output'[k]] = output'[k + 1]
    BY <1>2, <2>1 DEF PushedBy
  <2>4. QED
    BY <1>2, <1>6, <1>7, <2>2, <2>3 DEF PushedBy
<1>10. (\E d \in [0 .. (bucket - 1) -> 0 .. Len(output)] : PushedBy(output, d, bucket, node))'
  <2>1. cut \in [0 .. (c - 1) -> 0 .. (n + 1)]
    BY <1>8
  <2>2. QED
    BY <1>2, <1>5, <1>7, <1>9, <2>1
<1>11. ASSUME NEW s \in Seqs, NEW d \in [0 .. Chains -> 0 .. Len(s)], ListedBy(s, d)
       PROVE  Along(s, d)'
  <2>1. /\ n < d[c] /\ d[c] <= Len(s) /\ d[c] \in Nat /\ d[c - 1] <= n
        /\ \A k \in 1 .. n : s[k] = output[k]
        /\ node = s[n + 1]
        /\ next[node] = IF n + 1 = d[c] THEN Terminator ELSE s[n + 2]
    BY <1>1, <1>4, <1>7, <1>11, AtEntry
  <2>2. d[c - 1] <= n + 1
    <3>1. c - 1 \in 0 .. Chains /\ Len(s) \in Nat
      BY <1>7, SeqsFacts, ListAssumption DEF ListTypes, Chains
    <3>2. PICK z \in 0 .. Len(s) : z = d[c - 1]
      BY <3>1
    <3>3. QED
      BY <2>1, <3>1, <3>2
  <2>3. \A k \in 1 .. (n + 1) : s[k] = output'[k]
    <3>1. \A k \in 1 .. (n + 1) : k \in 1 .. n \/ k = n + 1
      OBVIOUS
    <3>2. QED
      BY <1>5, <2>1, <3>1
  <2>4. (n + 1) + 1 = n + 2 /\ n + 1 <= d[c]
    BY <2>1
  <2>5. bucket' = c /\ Len(output') = n + 1
    BY <1>2, <1>5, <1>7
  <2>6. QED
    BY <1>2, <1>6, <2>1, <2>2, <2>3, <2>4, <2>5 DEF Along
<1>12. QED
  BY <1>6, <1>10, <1>11 DEF ListAlong

\* Where the pointer is the one that ends a chain, the chain was pushed.
LEMMA ChainPushed ==
  ASSUME NEW o \in Seq(Nodes \cup {Anchor}), NEW c \in Nat \ {0},
         NEW cut \in [0 .. (c - 1) -> 0 .. Len(o)], PushedBy(o, cut, c, Terminator),
         walk = "tasks" => cut[c - 1] # Len(o)
  PROVE  cut[c - 1] <= Len(o) /\ Chain(o, cut[c - 1] + 1, Len(o), First(c))
<1>1. PICK n \in Nat : n = Len(o)
  OBVIOUS
<1>2. PICK f \in 0 .. n : f = cut[c - 1]
  BY <1>1
<1>3. /\ IF f = n THEN Terminator = First(c) ELSE o[f + 1] = First(c) /\ Terminator = next[o[n]]
      /\ \A k \in (f + 1) .. (n - 1) : next[o[k]] = o[k + 1]
  BY <1>1, <1>2 DEF PushedBy
<1>4. f + 1 > n <=> f = n
  BY <1>2
<1>5. \A k \in (f + 1) .. n : next[o[k]] = IF k = n THEN Terminator ELSE o[k + 1]
  <2>1. \A k \in (f + 1) .. n : f # n /\ (k = n \/ k \in (f + 1) .. (n - 1))
    BY <1>2
  <2>2. QED
    BY <1>3, <2>1
<1>6. Chain(o, f + 1, n, First(c))
  BY <1>1, <1>2, <1>3, <1>4, <1>5 DEF Chain
<1>7. QED
  BY <1>1, <1>2, <1>6

\* When the last chain was pushed, what was pushed is what is in memory.
LEMMA AllPushed ==
  ASSUME NEW o \in Seq(Nodes \cup {Anchor}), Len(o) <= MaxLimit, AreEntries(o),
         NEW cut \in [0 .. (Chains - 1) -> 0 .. Len(o)], PushedBy(o, cut, Chains, Terminator),
         walk = "tasks" => Len(o) # 0
  PROVE  o \in ListsInMemory
<1>1. PICK n \in Nat : n = Len(o)
  OBVIOUS
<1>2. PICK c \in Nat \ {0} : c = Chains
  BY ListAssumption DEF Chains
<1>3. cut[0] = 0
  BY DEF PushedBy
<1>4. walk = "tasks" => c = 1
  BY <1>2 DEF Chains
<1>5. cut[c - 1] <= n /\ Chain(o, cut[c - 1] + 1, n, First(c))
  BY <1>1, <1>2, <1>3, <1>4, ChainPushed
<1>6. PICK all : all = [b \in 0 .. c |-> IF b = c THEN n ELSE cut[b]]
  OBVIOUS
<1>7. all \in [0 .. c -> 0 .. n]
  BY <1>1, <1>2, <1>6
<1>8. all[0] = 0 /\ all[c] = n
  BY <1>2, <1>3, <1>6
<1>9. ASSUME NEW b \in 1 .. c
      PROVE  all[b - 1] <= all[b] /\ Chain(o, all[b - 1] + 1, all[b], First(b))
  <2>1. all[b - 1] = cut[b - 1]
    BY <1>2, <1>6
  <2>2. CASE b = c
    BY <1>5, <1>8, <2>1, <2>2
  <2>3. CASE b # c
    <3>1. b \in 1 .. (c - 1) /\ all[b] = cut[b]
      BY <1>2, <1>6, <2>3
    <3>2. QED
      BY <1>2, <2>1, <3>1 DEF PushedBy
  <2>4. QED
    BY <2>2, <2>3
<1>10. ListedBy(o, all)
  BY <1>1, <1>2, <1>8, <1>9 DEF ListedBy
<1>11. o \in Seqs
  <2>1. n \in 0 .. MaxLimit /\ o \in [1 .. n -> Nodes \cup {Anchor}]
    BY <1>1, ListAssumption
  <2>2. QED
    BY <2>1 DEF Seqs
<1>12. QED
  BY <1>1, <1>2, <1>7, <1>10, <1>11 DEF ListsInMemory

\* A list that comes back to an entry has it twice.
LEMMA RepeatsInMemory ==
  ASSUME ListTypes, ListAlong, phase = "walking", ~changed, node \in Nodes \/ walk = "tasks",
         node \in seen,
         NEW s \in Seqs, NEW cut \in [0 .. Chains -> 0 .. Len(s)], ListedBy(s, cut)
  PROVE  ~WithoutRepetition(s)
<1>1. PICK n \in Nat : n = Len(output)
  BY DEF ListTypes
<1>2. PICK e \in Nat : e = cut[bucket]
  BY AtEntry
<1>3. n < e /\ e <= Len(s) /\ Len(s) \in Nat /\ node = s[n + 1]
      /\ \A k \in 1 .. n : s[k] = output[k]
  BY <1>1, <1>2, AtEntry
<1>4. PICK k \in 1 .. n : output[k] = node
  BY <1>1 DEF ListTypes
<1>5. s[k] = s[n + 1] /\ k # n + 1 /\ k \in 1 .. Len(s) /\ n + 1 \in 1 .. Len(s)
  BY <1>3, <1>4
<1>6. DOMAIN s = 1 .. Len(s)
  BY SeqsFacts
<1>7. QED
  BY <1>5, <1>6 DEF WithoutRepetition

\* A list that goes on beyond the limit is longer, and one that goes on with a
\* null pointer is none.
LEMMA LongerInMemory ==
  ASSUME ListTypes, ListAlong, phase = "walking", ~changed, node \in Nodes \/ walk = "tasks",
         NEW s \in Seqs, NEW cut \in [0 .. Chains -> 0 .. Len(s)], ListedBy(s, cut)
  PROVE  /\ Len(output) + 1 <= Len(s) /\ Len(s) \in Nat
         /\ next[node] # Terminator => Len(output) + 2 <= Len(s) /\ next[node] # Null
<1>1. PICK n \in Nat : n = Len(output)
  BY DEF ListTypes
<1>2. PICK e \in Nat : e = cut[bucket]
  BY AtEntry
<1>3. n < e /\ e <= Len(s) /\ Len(s) \in Nat
      /\ next[node] = IF n + 1 = e THEN Terminator ELSE s[n + 2]
  BY <1>1, <1>2, AtEntry
<1>4. next[node] # Terminator => n + 2 <= Len(s) /\ n + 2 \in 1 .. Len(s) /\ next[node] = s[n + 2]
  BY <1>3
<1>5. \A k \in 1 .. Len(s) : s[k] # Null
  BY SeqsFacts, ListAssumption
<1>6. QED
  BY <1>1, <1>3, <1>4, <1>5

\* No list in memory goes on with a null pointer.
LEMMA NullInMemory ==
  ASSUME ListTypes, ListAlong, phase = "walking", ~changed, node = Null, walk = "list",
         NEW s \in Seqs, NEW cut \in [0 .. Chains -> 0 .. Len(s)], ListedBy(s, cut)
  PROVE  FALSE
<1>1. Along(s, cut)
  BY DEF ListAlong
<1>2. PICK n \in Nat : n = Len(output)
  BY DEF ListTypes
<1>3. bucket = 1 /\ Chains = 1 /\ Terminator = Anchor
  BY DEF ListTypes, Chains, Terminator
<1>4. Len(s) \in Nat
  BY SeqsFacts
<1>5. PICK e \in 0 .. Len(s) : e = cut[1]
  BY <1>3
<1>6. n <= e /\ node = IF n = e THEN Anchor ELSE s[n + 1]
  BY <1>1, <1>2, <1>3, <1>5 DEF Along
<1>7. n # e => n + 1 \in 1 .. Len(s)
  BY <1>4, <1>5, <1>6
<1>8. \A k \in 1 .. Len(s) : s[k] # Null
  BY SeqsFacts, ListAssumption
<1>9. QED
  BY <1>6, <1>7, <1>8, ListAssumption

\* A visit keeps the invariant.
LEMMA VisitExact ==
  ASSUME ListTypes, ListAlong, phase = "walking", node \in Nodes \/ walk = "tasks",
         walk = "tasks" => next[node] \in Nodes, Visit(next[node])
  PROVE  ListTypes' /\ ListAlong' /\ QuietWalkExact'
<1>1. /\ walk' = walk /\ next' = next /\ limit' = limit /\ changed' = changed /\ phase' = phase
      /\ bucket' = bucket /\ seen' = seen \cup {node} /\ output' = Append(output, node)
      /\ node' = next[node]
  BY DEF Visit
<1>2. /\ AreEntries(output)' /\ node \in Nodes \cup {Anchor}
      /\ \A x \in seen' : \E k \in 1 .. Len(output') : output'[k] = x
  BY <1>1, PushTypes
<1>3. /\ output' \in Seq(Nodes \cup {Anchor}) /\ Len(output') = Len(output) + 1 /\ Len(output) \in Nat
  BY <1>1, <1>2, PushFacts
<1>4. output' # <<>>
  BY <1>3
<1>5. node \in Cells(walk)
  BY <1>2, ListAssumption DEF Cells, ListTypes
<1>6. node' \in Pointers(walk)
  BY <1>1, <1>5 DEF ListTypes
<1>7. Chains' = Chains
  BY <1>1, ListsStay
<1>8. ListTypes'
  BY <1>1, <1>2, <1>3, <1>4, <1>6, <1>7, ListAssumption DEF ListTypes, Pointers
<1>9. QuietWalkExact'
  BY <1>1, EndsExact
<1>10. QED
  BY <1>8, <1>9, VisitAlong

\* A walk that ends keeps the invariant, if it ends as it should.
LEMMA EndExact ==
  ASSUME ListTypes, phase = "walking", NEW outcome \in {"done", "failed", "unreadable"},
         \/ End(outcome)
         \/ VisitLast(outcome) /\ (node \in Nodes \/ walk = "tasks"),
         ~changed /\ outcome = "done" => output' \in ListsInMemory,
         ~changed /\ outcome = "failed" =>
           \A s \in Seqs : \A cut \in [0 .. Chains -> 0 .. Len(s)] :
             ListedBy(s, cut) /\ Len(s) <= limit => ~WithoutRepetition(s)
  PROVE  ListTypes' /\ ListAlong' /\ QuietWalkExact'
<1>1. /\ walk' = walk /\ next' = next /\ limit' = limit /\ changed' = changed /\ phase' = outcome
      /\ bucket' = bucket /\ node' = node
  BY DEF VisitLast, End
<1>2. QuietWalkExact'
  BY <1>1, EndsExact
<1>3. ListAlong'
  BY <1>1 DEF ListAlong
<1>4. /\ output' \in Seq(Nodes \cup {Anchor})
      /\ \A x \in seen' : \E k \in 1 .. Len(output') : output'[k] = x
  <2>1. CASE End(outcome)
    BY <2>1 DEF End, ListTypes
  <2>2. CASE VisitLast(outcome) /\ (node \in Nodes \/ walk = "tasks")
    <3>1. seen' = seen \cup {node} /\ output' = Append(output, node)
      BY <2>2 DEF VisitLast
    <3>2. QED
      BY <1>1, <2>2, <3>1, PushTypes, PushFacts
  <2>3. QED
    BY <2>1, <2>2
<1>5. Chains' = Chains
  BY <1>1, ListsStay
<1>6. ListTypes'
  BY <1>1, <1>4, <1>5 DEF ListTypes
<1>7. QED
  BY <1>2, <1>3, <1>6

\* One turn of the loop over tasks.
LEMMA TaskExact ==
  ASSUME ListExactInv, TaskStep
  PROVE  ListTypes' /\ ListAlong' /\ QuietWalkExact'
<1>1. ListInv /\ ListTypes /\ ListAlong
  BY DEF ListExactInv
<1>2. phase = "walking" /\ walk = "tasks" /\ Terminator = Anchor /\ Chains = 1 /\ bucket = 1
  BY <1>1 DEF TaskStep, Terminator, Chains, ListTypes
<1>3. CASE Repeated
  BY <1>1, <1>2, <1>3, RepeatsInMemory, EndExact DEF Repeated
<1>4. CASE next[node] = Anchor /\ VisitLast("done")
  <2>1. ASSUME ~changed PROVE output' \in ListsInMemory
    <3>1. PICK n \in Nat : n = Len(output)
      BY <1>1 DEF ListTypes
    <3>2. PICK cut \in [0 .. (bucket - 1) -> 0 .. n] : PushedBy(output, cut, bucket, node)
      BY <1>1, <1>2, <2>1, <3>1 DEF ListAlong
    <3>3. walk' = walk /\ seen' = seen \cup {node} /\ output' = Append(output, node)
      BY <1>4 DEF VisitLast
    <3>4. AreEntries(output)' /\ node \in Nodes \cup {Anchor}
      BY <1>1, <1>2, <3>3, PushTypes
    <3>5. /\ output' \in Seq(Nodes \cup {Anchor}) /\ Len(output') = n + 1
          /\ \A k \in 1 .. n : output'[k] = output[k]
          /\ output'[n + 1] = node
      BY <1>1, <3>1, <3>3, <3>4, PushFacts
    <3>6. PICK o \in Seq(Nodes \cup {Anchor}) : o = output'
      BY <3>5
    <3>7. AreEntries(o)
      BY <3>3, <3>4, <3>6 DEF AreEntries
    <3>8. PushedBy(o, cut, Chains, Terminator)
      <4>1. PushedBy(o, cut, bucket, next[node])
        <5>1. bucket \in Nat \ {0}
          BY <1>2
        <5>2. QED
          BY <1>1, <3>1, <3>2, <3>5, <3>6, <5>1, PushedMore
      <4>2. QED
        BY <1>2, <1>4, <4>1
    <3>9. Len(o) <= MaxLimit /\ Len(o) # 0
      BY <1>1, <1>2, <3>1, <3>5, <3>6, ListAssumption DEF ListInv, ListTypes
    <3>10. cut \in [0 .. (Chains - 1) -> 0 .. Len(o)]
      BY <1>2, <3>1, <3>2, <3>5, <3>6
    <3>11. QED
      BY <1>2, <3>6, <3>7, <3>8, <3>9, <3>10, AllPushed
  <2>2. QED
    BY <1>1, <1>2, <1>4, <2>1, EndExact
<1>5. CASE next[node] # Anchor /\ Fits /\ next[node] # Null /\ Visit(next[node])
  <2>1. node \in Cells(walk)
    BY <1>1, <1>2 DEF ListTypes, Cells
  <2>2. next[node] \in Nodes
    BY <1>1, <1>2, <1>5, <2>1 DEF ListTypes, Pointers
  <2>3. QED
    BY <1>1, <1>2, <1>5, <2>2, VisitExact
<1>6. CASE next[node] # Anchor /\ ~(Fits /\ next[node] # Null) /\ VisitLast("failed")
  <2>1. ASSUME ~changed, NEW s \in Seqs, NEW cut \in [0 .. Chains -> 0 .. Len(s)], ListedBy(s, cut)
        PROVE  ~(Len(s) <= limit)
    <3>1. PICK n \in Nat : n = Len(output)
      BY <1>1 DEF ListTypes
    <3>2. Len(s) \in Nat /\ n + 2 <= Len(s) /\ next[node] # Null
      BY <1>1, <1>2, <1>6, <2>1, <3>1, LongerInMemory
    <3>3. ~(n + 1 < limit) /\ limit \in Nat
      BY <1>1, <1>6, <3>1, <3>2 DEF Fits, ListInv
    <3>4. QED
      BY <3>2, <3>3
  <2>2. QED
    BY <1>1, <1>2, <1>6, <2>1, EndExact
<1>7. QED
  BY <1>3, <1>4, <1>5, <1>6 DEF TaskStep

\* One turn of the loop over a list with a head.
LEMMA ListTurnExact ==
  ASSUME ListExactInv, ListStep
  PROVE  ListTypes' /\ ListAlong' /\ QuietWalkExact'
<1>1. ListInv /\ ListTypes /\ ListAlong
  BY DEF ListExactInv
<1>2. phase = "walking" /\ walk = "list" /\ Terminator = Anchor /\ Chains = 1 /\ bucket = 1
  BY <1>1 DEF ListStep, Terminator, Chains, ListTypes
<1>3. CASE node = Anchor /\ End("done")
  <2>1. ASSUME ~changed PROVE output \in ListsInMemory
    <3>1. PICK cut \in [0 .. (Chains - 1) -> 0 .. Len(output)] : PushedBy(output, cut, Chains, Terminator)
      BY <1>1, <1>2, <1>3, <2>1 DEF ListAlong
    <3>2. Len(output) <= MaxLimit
      BY <1>1, <1>2, ListAssumption DEF ListInv, ListTypes
    <3>3. QED
      BY <1>1, <1>2, <3>1, <3>2, AllPushed DEF ListTypes
  <2>2. output' = output
    BY <1>3 DEF End
  <2>3. QED
    BY <1>1, <1>2, <1>3, <2>1, <2>2, EndExact
<1>4. CASE node = Null /\ End("failed")
  BY <1>1, <1>2, <1>4, NullInMemory, EndExact
<1>5. CASE node \in Nodes /\ Repeated
  BY <1>1, <1>2, <1>5, RepeatsInMemory, EndExact DEF Repeated
<1>6. CASE node \in Nodes /\ Visit(next[node])
  BY <1>1, <1>2, <1>6, VisitExact
<1>7. CASE node \in Nodes /\ ~(next[node] = Anchor \/ Fits) /\ VisitLast("failed")
  <2>1. ASSUME ~changed, NEW s \in Seqs, NEW cut \in [0 .. Chains -> 0 .. Len(s)], ListedBy(s, cut)
        PROVE  ~(Len(s) <= limit)
    <3>1. PICK n \in Nat : n = Len(output)
      BY <1>1 DEF ListTypes
    <3>2. Len(s) \in Nat /\ n + 2 <= Len(s)
      BY <1>1, <1>2, <1>7, <2>1, <3>1, LongerInMemory
    <3>3. ~(n + 1 < limit) /\ limit \in Nat
      BY <1>1, <1>7, <3>1 DEF Fits, ListInv
    <3>4. QED
      BY <3>2, <3>3
  <2>2. QED
    BY <1>1, <1>2, <1>7, <2>1, EndExact
<1>8. QED
  BY <1>3, <1>4, <1>5, <1>6, <1>7 DEF ListStep

\* The walk comes to the end of a chain and goes on with the next bucket.
LEMMA BucketExact ==
  ASSUME ListTypes, ListAlong, phase = "walking", walk = "hash", node = Null, bucket < Buckets,
         bucket' = bucket + 1, node' = next[bucket + 1],
         UNCHANGED <<walk, limit, next, changed, phase, seen, output>>
  PROVE  ListTypes' /\ ListAlong' /\ QuietWalkExact'
<1>1. /\ Chains' = Chains /\ Terminator' = Terminator /\ \A b : First(b)' = First(b)
      /\ \A s, i, j, p : Chain(s, i, j, p)' <=> Chain(s, i, j, p)
      /\ \A s, cut : ListedBy(s, cut)' <=> ListedBy(s, cut)
      /\ \A s : AreEntries(s)' <=> AreEntries(s)
  BY ListsStay
<1>2. Chains = Buckets /\ Terminator = Null /\ Buckets \in Nat
  BY ListAssumption DEF Chains, Terminator
<1>3. PICK c \in Nat \ {0} : c = bucket /\ c < Buckets
  BY <1>2 DEF ListTypes
<1>4. c + 1 \in Cells(walk) /\ c + 1 \in 1 .. Chains
  BY <1>2, <1>3 DEF Cells
<1>5. node' = First(c + 1)
  BY <1>3 DEF First
<1>6. PICK n \in Nat : n = Len(output)
  BY DEF ListTypes
<1>7. ListTypes'
  <2>1. node' \in Nodes \cup {Null}
    BY <1>3, <1>4 DEF ListTypes, Pointers
  <2>2. AreEntries(output)'
    BY DEF ListTypes, AreEntries
  <2>3. QED
    BY <1>1, <1>3, <1>4, <2>1, <2>2 DEF ListTypes
<1>8. QuietWalkExact'
  BY EndsExact
<1>9. ASSUME ~changed PROVE (\E d \in [0 .. (bucket - 1) -> 0 .. Len(output)] : PushedBy(output, d, bucket, node))'
  <2>1. PICK cut \in [0 .. (c - 1) -> 0 .. n] : PushedBy(output, cut, c, Terminator)
    BY <1>2, <1>3, <1>6, <1>9 DEF ListAlong
  <2>2. cut[c - 1] <= n /\ Chain(output, cut[c - 1] + 1, n, First(c))
    BY <1>3, <1>6, <2>1, ChainPushed DEF ListTypes
  <2>3. PICK d : d = [b \in 0 .. c |-> IF b = c THEN n ELSE cut[b]]
    OBVIOUS
  <2>4. d \in [0 .. c -> 0 .. n] /\ d[c] = n
    BY <1>3, <1>6, <2>1, <2>3
  <2>5. d[0] = 0
    BY <1>3, <2>1, <2>3 DEF PushedBy
  <2>6. ASSUME NEW b \in 1 .. c
        PROVE  d[b - 1] <= d[b] /\ Chain(output, d[b - 1] + 1, d[b], First(b))
    <3>1. d[b - 1] = cut[b - 1]
      BY <1>3, <2>3
    <3>2. CASE b = c
      BY <2>2, <2>4, <3>1, <3>2
    <3>3. CASE b # c
      <4>1. b \in 1 .. (c - 1) /\ d[b] = cut[b]
        BY <1>3, <2>3, <3>3
      <4>2. QED
        BY <2>1, <3>1, <4>1 DEF PushedBy
    <3>4. QED
      BY <3>2, <3>3
  <2>7. bucket' - 1 = c /\ Len(output') = n /\ bucket' = c + 1
    BY <1>3, <1>6
  <2>8. ASSUME NEW b \in 1 .. c
        PROVE  d[b - 1] <= d[b] /\ Chain(output, d[b - 1] + 1, d[b], First(b))'
    <3>1. d[b - 1] <= d[b] /\ Chain(output, d[b - 1] + 1, d[b], First(b))
      BY <2>6
    <3>2. QED
      BY <1>1, <3>1 DEF Chain
  <2>9. \A k \in (n + 1) .. (n - 1) : FALSE
    OBVIOUS
  <2>10. PushedBy(output, d, bucket, node)'
    BY <1>1, <1>5, <2>4, <2>5, <2>7, <2>8, <2>9 DEF PushedBy
  <2>11. QED
    BY <2>4, <2>7, <2>10
<1>10. ASSUME ~changed, NEW s \in Seqs, NEW cut \in [0 .. Chains -> 0 .. Len(s)], ListedBy(s, cut)
       PROVE  Along(s, cut)'
  <2>1. Along(s, cut)
    BY <1>10 DEF ListAlong
  <2>2. Len(s) \in Nat /\ \A k \in 1 .. Len(s) : s[k] # Null
    BY SeqsFacts, ListAssumption
  <2>3. c \in 0 .. Chains /\ c + 1 \in 0 .. Chains
    BY <1>2, <1>3
  <2>4. PICK e \in 0 .. Len(s) : e = cut[c]
    BY <2>3
  <2>5. PICK g \in 0 .. Len(s) : g = cut[c + 1]
    BY <2>3
  <2>6. n <= e /\ (node = IF n = e THEN Null ELSE s[n + 1]) /\ \A k \in 1 .. n : s[k] = output[k]
    BY <1>2, <1>3, <1>6, <2>1, <2>4 DEF Along
  <2>7. n = e
    <3>1. n # e => n + 1 \in 1 .. Len(s)
      BY <2>2, <2>4, <2>6
    <3>2. QED
      BY <2>2, <2>6, <3>1
  <2>8. e <= g /\ Chain(s, e + 1, g, First(c + 1))
    <3>1. (c + 1) - 1 = c
      OBVIOUS
    <3>2. cut[(c + 1) - 1] <= cut[c + 1] /\ Chain(s, cut[(c + 1) - 1] + 1, cut[c + 1], First(c + 1))
      BY <1>4, <1>10 DEF ListedBy
    <3>3. QED
      BY <2>4, <2>5, <3>1, <3>2
  <2>9. First(c + 1) = IF n = g THEN Null ELSE s[n + 1]
    <3>1. IF e + 1 > g THEN First(c + 1) = Null ELSE First(c + 1) = s[e + 1]
      BY <1>2, <2>8 DEF Chain
    <3>2. QED
      BY <2>2, <2>4, <2>5, <2>7, <2>8, <3>1
  <2>10. bucket' = c + 1 /\ bucket' - 1 = c
    BY <1>3
  <2>11. QED
    BY <1>1, <1>2, <1>5, <1>6, <2>4, <2>5, <2>6, <2>7, <2>8, <2>9, <2>10 DEF Along
<1>11. ListAlong'
  BY <1>1, <1>9, <1>10 DEF ListAlong
<1>12. QED
  BY <1>7, <1>8, <1>11

\* One turn of the loops over a hash table.
LEMMA HashExact ==
  ASSUME ListExactInv, HashStep
  PROVE  ListTypes' /\ ListAlong' /\ QuietWalkExact'
<1>1. ListInv /\ ListTypes /\ ListAlong
  BY DEF ListExactInv
<1>2. phase = "walking" /\ walk = "hash" /\ Terminator = Null /\ Chains = Buckets
  BY <1>1 DEF HashStep, Terminator, Chains
<1>3. CASE node = Null /\ bucket < Buckets /\ bucket' = bucket + 1 /\ node' = next[bucket + 1]
           /\ UNCHANGED <<walk, limit, next, changed, phase, seen, output>>
  BY <1>1, <1>2, <1>3, BucketExact
<1>4. CASE node = Null /\ bucket = Buckets /\ End("done")
  <2>1. ASSUME ~changed PROVE output \in ListsInMemory
    <3>1. PICK cut \in [0 .. (Chains - 1) -> 0 .. Len(output)] : PushedBy(output, cut, Chains, Terminator)
      BY <1>1, <1>2, <1>4, <2>1 DEF ListAlong
    <3>2. Len(output) <= MaxLimit
      BY <1>1, <1>2, ListAssumption DEF ListInv, ListTypes
    <3>3. QED
      BY <1>1, <1>2, <3>1, <3>2, AllPushed DEF ListTypes
  <2>2. output' = output
    BY <1>4 DEF End
  <2>3. QED
    BY <1>1, <1>2, <1>4, <2>1, <2>2, EndExact
<1>5. CASE node # Null /\ Repeated
  <2>1. node \in Nodes
    BY <1>1, <1>2, <1>5 DEF ListTypes
  <2>2. QED
    BY <1>1, <1>2, <1>5, <2>1, RepeatsInMemory, EndExact DEF Repeated
<1>6. CASE node \in Nodes /\ Visit(next[node])
  BY <1>1, <1>2, <1>6, VisitExact
<1>7. CASE node \in Nodes /\ ~(Len(output) + 1 <= limit) /\ VisitLast("failed")
  <2>1. ASSUME ~changed, NEW s \in Seqs, NEW cut \in [0 .. Chains -> 0 .. Len(s)], ListedBy(s, cut)
        PROVE  ~(Len(s) <= limit)
    <3>1. PICK n \in Nat : n = Len(output)
      BY <1>1 DEF ListTypes
    <3>2. Len(s) \in Nat /\ n + 1 <= Len(s)
      BY <1>1, <1>2, <1>7, <2>1, <3>1, LongerInMemory
    <3>3. ~(n + 1 <= limit) /\ limit \in Nat
      BY <1>1, <1>7, <3>1 DEF ListInv
    <3>4. QED
      BY <3>2, <3>3
  <2>2. QED
    BY <1>1, <1>2, <1>7, <2>1, EndExact
<1>8. QED
  BY <1>3, <1>4, <1>5, <1>6, <1>7 DEF HashStep

\* Every step of a walk over a list, and of the guest, keeps the invariant.
LEMMA ListNextExact == ListExactInv /\ Next => ListExactInv'
<1>1. SUFFICES ASSUME ListExactInv, Next PROVE ListTypes' /\ ListAlong' /\ QuietWalkExact'
  BY ListNext DEF ListExactInv
<1>2. ListInv /\ ListTypes /\ ListAlong /\ QuietWalkExact
  BY <1>1 DEF ListExactInv
<1>3. CASE Start
  BY <1>1, <1>3, StartExact DEF ListExactInv
<1>4. CASE TaskStep
  BY <1>1, <1>4, TaskExact
<1>5. CASE ListStep
  BY <1>1, <1>5, ListTurnExact
<1>6. CASE HashStep
  BY <1>1, <1>6, HashExact
<1>7. CASE ReadFails
  <2>1. /\ phase' = "unreadable" /\ UNCHANGED <<walk, limit, next, changed, node, bucket, seen, output>>
    BY <1>7 DEF ReadFails, End
  <2>2. Chains' = Chains
    BY <2>1, ListsStay
  <2>3. ListTypes'
    BY <1>2, <2>1, <2>2 DEF ListTypes
  <2>4. QED
    BY <2>1, <2>3 DEF ListAlong, QuietWalkExact
<1>8. CASE \E cell \in Cells(walk), target \in Pointers(walk) : GuestRelinks(cell, target)
  <2>1. PICK cell \in Cells(walk), target \in Pointers(walk) : GuestRelinks(cell, target)
    BY <1>8
  <2>2. /\ changed' = TRUE /\ next' \in [Cells(walk) -> Pointers(walk)]
        /\ UNCHANGED <<walk, limit, phase, node, bucket, seen, output>>
    BY <1>2, <2>1 DEF GuestRelinks, ListTypes
  <2>3. Chains' = Chains /\ (AreEntries(output)' <=> AreEntries(output))
    BY <2>2 DEF Chains, AreEntries
  <2>4. ListTypes'
    BY <1>2, <2>2, <2>3 DEF ListTypes
  <2>5. QED
    BY <2>2, <2>4 DEF ListAlong, QuietWalkExact
<1>9. QED
  BY <1>1, <1>3, <1>4, <1>5, <1>6, <1>7, <1>8 DEF Next, Step

\* Walks over lists begin so.
LEMMA ListInitExact == Init => ListExactInv
<1>1. SUFFICES ASSUME Init PROVE ListExactInv
  OBVIOUS
<1>2. ListInv
  BY <1>1, ListAssumption DEF Init, ListInv
<1>3. walk \in {"tasks", "list", "hash"} /\ 1 \in 1 .. Chains
  BY <1>1, ListAssumption DEF Init, Chains
<1>4. ListTypes
  BY <1>1, <1>3 DEF Init, ListTypes
<1>5. QED
  BY <1>1, <1>2, <1>4 DEF Init, ListExactInv, ListAlong, QuietWalkExact

-----------------------------------------------------------------------------
(* What a walk over a table reports.                                       *)

\* A walk over a table is under way.
Tabling == phase \in {"counting", "walking"}

\* The words of memory, where the table is, and the values of the locals before
\* anything was read.
TableTypes ==
  /\ walk \in {"fds", "handles"}
  /\ changed \in Nat
  /\ code \in [level : 0 .. 2, page : 0 .. 7] /\ root \in [level : 0 .. 2, page : 0 .. 7]
  /\ memory \in [1 .. 7 -> [1 .. 2 -> Nat]]
  /\ phase = "start" =>
       /\ changed = 0 /\ known = 0 /\ index = 0 /\ output = <<>>
       /\ code = Tables!NoTable => count = 0
  /\ phase = "counting" => walk = "handles" /\ index = 0 /\ output = <<>>

\* A handle table only grows, and its directories lead to its leaves.
HandleTable ==
  walk = "handles" =>
    /\ count <= Tables!Capacity(code.level)
    /\ code = Tables!NoTable \/ code.page = Tables!RootPage(code.level)
    /\ \A p \in 5 .. 7 : memory[p] = Tables!Linked(code.level, p)
    /\ Tabling =>
         /\ code.page = Tables!RootPage(code.level) /\ root.page = Tables!RootPage(root.level)
         /\ root.level <= code.level

\* A descriptor table is the one the walk began with, or its larger copy; the
\* old one stays as it was when it was replaced, until its memory is reused.
DescriptorTable ==
  walk = "fds" =>
    /\ code.level = 0 /\ count <= 4
    /\ phase = "start" => code.page \in {0, 1} /\ count <= 2
    /\ Tabling =>
         /\ root.level = 0 /\ root.page = 1 /\ code.page \in {1, 3}
         /\ code.page = 1 => known = count /\ count <= 2
         /\ code.page = 3 => known = 2 /\ count = 4
         /\ code.page = 3 /\ ~reused =>
              /\ \A i \in 0 .. 1 : memory[1][1 + i] # 0 => <<i, memory[1][1 + i]>> \in ever
              /\ \A e \in always : memory[1][1 + e[1]] = e[2]

\* What was open all the time is open, and what is open was open some time.
Histories ==
  Tabling =>
    /\ always \subseteq Tables!OpenEntries /\ Tables!OpenEntries \subseteq ever
    /\ phase = "walking" => known <= count /\ \A e \in always : e[1] < known
    /\ changed = 0 =>
         /\ root = code /\ always = Tables!OpenEntries /\ ever = Tables!OpenEntries
         /\ phase = "walking" => known = count

\* What was reported so far.
ReportedSoFar ==
  phase = "walking" /\ Tables!SameTable =>
    /\ Tables!Reported \subseteq ever
    /\ \A e \in always : e[1] < index => e \in Tables!Reported

\* What a walk over a table relies on.
TableState == TableTypes /\ HandleTable /\ DescriptorTable /\ Histories

\* The inductive invariant of a walk over a table.
TableExactInv == TableInv /\ TableState /\ ReportedSoFar /\ Tables!TableExact

\* The page of an entry that a handle table's directories lead to.
LEMMA HandleLeaf ==
  ASSUME TableTypes, HandleTable, Tabling, walk = "handles",
         NEW i \in Nat, i < Tables!Capacity(root.level)
  PROVE  Tables!HandleEntry(i) = 1 + (i \div 2) /\ 1 + (i \div 2) \in 1 .. 3
<1>1. root.level \in 0 .. 2 /\ root.page = Tables!RootPage(root.level) /\ code.level \in 0 .. 2
      /\ root.level <= code.level
  BY DEF TableTypes, HandleTable
<1>2. code.level >= 1 => memory[5] = <<1, 2>>
  BY DEF HandleTable, Tables!Linked, Tables!Directory, Tables!Second, Tables!Top
<1>3. code.level = 2 => memory[6] = <<3, 0>> /\ memory[7] = <<5, 6>>
  BY DEF HandleTable, Tables!Linked, Tables!Directory, Tables!Second, Tables!Top
<1>4. CASE root.level = 0
  BY <1>1, <1>4 DEF Tables!HandleEntry, Tables!Capacity, Tables!RootPage
<1>5. CASE root.level = 1
  <2>1. i \in 0 .. 3 /\ root.page = 5
    BY <1>1, <1>5 DEF Tables!Capacity, Tables!RootPage, Tables!Directory
  <2>2. i \div 2 \in 0 .. 1 /\ (i \div 2) \div 2 = 0 /\ (i \div 2) % 2 = i \div 2
    BY <2>1
  <2>3. Tables!Word(5, i \div 2) = 1 + (i \div 2)
    BY <1>1, <1>2, <1>5, <2>2 DEF Tables!Word
  <2>4. QED
    BY <1>5, <2>1, <2>2, <2>3 DEF Tables!HandleEntry
<1>6. CASE root.level = 2
  <2>1. i \in 0 .. 5 /\ root.page = 7 /\ code.level = 2
    BY <1>1, <1>6 DEF Tables!Capacity, Tables!RootPage, Tables!Top
  <2>2. PICK w \in 0 .. 2 : w = i \div 2
    BY <2>1
  <2>3. w \div 2 \in 0 .. 1 /\ (w \div 2) \div 2 = 0 /\ (w \div 2) % 2 = w \div 2
    BY <2>2
  <2>4. Tables!Word(7, w \div 2) = 5 + (w \div 2)
    BY <1>3, <2>1, <2>3 DEF Tables!Word
  <2>5. w % 2 \in 0 .. 1 /\ (w % 2) \div 2 = 0 /\ (w % 2) % 2 = w % 2
    BY <2>2
  <2>6. Tables!Word(5 + (w \div 2), w % 2) = 1 + w
    <3>1. CASE w = 2
      <4>1. 5 + (w \div 2) = 6 /\ w % 2 = 0
        BY <3>1
      <4>2. QED
        BY <1>3, <2>1, <2>5, <3>1, <4>1 DEF Tables!Word
    <3>2. CASE w # 2
      <4>1. 5 + (w \div 2) = 5 /\ w % 2 = w /\ w \in 0 .. 1
        BY <2>2, <3>2
      <4>2. QED
        BY <1>2, <2>1, <2>5, <4>1 DEF Tables!Word
    <3>3. QED
      BY <3>1, <3>2
  <2>7. 5 + (w \div 2) \in Tables!Pages
    BY <2>3 DEF Tables!Pages
  <2>8. QED
    BY <1>6, <2>1, <2>2, <2>4, <2>6, <2>7 DEF Tables!HandleEntry
<1>7. QED
  BY <1>1, <1>4, <1>5, <1>6

\* An open entry has its place in the table.
LEMMA OpenFacts ==
  ASSUME NEW e \in Tables!OpenEntries, count \in Nat
  PROVE  e[1] \in Nat /\ e[1] < count /\ e = <<e[1], Tables!Entry(e[1])>> /\ Tables!Entry(e[1]) # 0
BY DEF Tables!OpenEntries

LEMMA OpenIs ==
  ASSUME NEW i \in Nat, count \in Nat, i < count, Tables!Entry(i) # 0
  PROVE  <<i, Tables!Entry(i)>> \in Tables!OpenEntries
BY DEF Tables!OpenEntries

\* The next read of the walk, if the table is the one it began with.
LEMMA TableReads ==
  ASSUME TableInv, TableState, phase = "walking", Tables!SameTable, index < known,
         NEW leaf, leaf = IF walk = "fds" THEN root.page + (index \div 2) ELSE Tables!HandleEntry(index)
  PROVE  /\ leaf \in Tables!Pages
         /\ memory[leaf][1 + (index % 2)] # 0 => <<index, memory[leaf][1 + (index % 2)]>> \in ever
         /\ \A e \in always : e[1] = index =>
              e = <<index, memory[leaf][1 + (index % 2)]>> /\ memory[leaf][1 + (index % 2)] # 0
<1>1. TableTypes /\ HandleTable /\ DescriptorTable /\ Histories /\ Tabling
  BY DEF TableState, Tabling
<1>2. index \in Nat /\ known \in Nat /\ count \in Nat /\ known <= count /\ index < count
  BY <1>1 DEF TableInv, Histories
<1>3. always \subseteq Tables!OpenEntries /\ Tables!OpenEntries \subseteq ever
  BY <1>1 DEF Histories
<1>4. PICK w : w = memory[leaf][1 + (index % 2)]
  OBVIOUS
<1>5. CASE leaf = Tables!Leaf(index) /\ leaf \in Tables!Pages
  <2>1. w = Tables!Entry(index)
    BY <1>4, <1>5 DEF Tables!Entry
  <2>2. w # 0 => <<index, w>> \in ever
    BY <1>2, <1>3, <2>1, OpenIs
  <2>3. \A e \in always : e[1] = index => e = <<index, w>> /\ w # 0
    BY <1>2, <1>3, <2>1, OpenFacts
  <2>4. QED
    BY <1>4, <1>5, <2>2, <2>3
<1>6. CASE walk = "handles"
  <2>1. index < Tables!Capacity(root.level)
    <3>1. known <= Tables!Capacity(root.level) /\ Tables!Capacity(root.level) \in Nat
      BY <1>6 DEF Tables!SameTable, Tables!Capacity
    <3>2. QED
      BY <1>2, <3>1
  <2>2. leaf = 1 + (index \div 2) /\ leaf \in 1 .. 3
    BY <1>1, <1>2, <1>6, <2>1, HandleLeaf
  <2>3. leaf = Tables!Leaf(index) /\ leaf \in Tables!Pages
    BY <1>6, <2>2 DEF Tables!Leaf, Tables!Pages
  <2>4. QED
    BY <1>4, <1>5, <2>3
<1>7. CASE walk = "fds"
  <2>1. /\ root.level = 0 /\ root.page = 1 /\ code.page \in {1, 3}
        /\ code.page = 1 => known = count /\ count <= 2
        /\ code.page = 3 => known = 2
        /\ code.page = 3 /\ ~reused =>
             /\ \A i \in 0 .. 1 : memory[1][1 + i] # 0 => <<i, memory[1][1 + i]>> \in ever
             /\ \A e \in always : memory[1][1 + e[1]] = e[2]
    BY <1>1, <1>7 DEF DescriptorTable
  <2>2. index \in 0 .. 1 /\ index \div 2 = 0 /\ index % 2 = index
    <3>1. index \in 0 .. 1
      BY <1>2, <2>1
    <3>2. QED
      BY <3>1
  <2>3. leaf = 1 /\ leaf \in Tables!Pages
    BY <1>7, <2>1, <2>2 DEF Tables!Pages
  <2>4. CASE code.page = 1
    <3>1. leaf = Tables!Leaf(index)
      BY <1>7, <2>2, <2>3, <2>4 DEF Tables!Leaf
    <3>2. QED
      BY <1>4, <1>5, <2>3, <3>1
  <2>5. CASE code.page = 3
    <3>1. ~reused
      <4>1. root # code
        BY <2>1, <2>5
      <4>2. QED
        BY <1>7, <4>1 DEF Tables!SameTable
    <3>2. w = memory[1][1 + index]
      BY <1>4, <2>2, <2>3
    <3>3. w # 0 => <<index, w>> \in ever
      BY <2>1, <2>2, <2>5, <3>1, <3>2
    <3>4. \A e \in always : e[2] # 0 /\ e = <<e[1], e[2]>>
      BY <1>2, <1>3, OpenFacts
    <3>5. \A e \in always : e[1] = index => e[2] = w
      BY <2>1, <2>5, <3>1, <3>2
    <3>6. QED
      BY <1>4, <2>3, <3>3, <3>4, <3>5
  <2>6. QED
    BY <2>1, <2>4, <2>5
<1>8. QED
  BY <1>1, <1>6, <1>7 DEF TableTypes

\* An undisturbed table is the one the walk began with.
LEMMA QuietIsSame ==
  ASSUME TableInv, TableState, phase = "walking", changed = 0
  PROVE  Tables!SameTable
<1>1. TableTypes /\ HandleTable /\ Histories /\ Tabling
  BY DEF TableState, Tabling
<1>2. root = code /\ known = count
  BY <1>1 DEF Histories
<1>3. QED
  BY <1>1, <1>2 DEF TableTypes, HandleTable, Tables!SameTable

\* What is read before the loop.
LEMMA RootExact ==
  ASSUME TableExactInv, Tables!ReadRoot
  PROVE  TableState' /\ ReportedSoFar' /\ Tables!TableExact'
<1>1. TableInv /\ TableTypes /\ HandleTable /\ DescriptorTable
  BY DEF TableExactInv, TableState
<1>2. /\ phase = "start" /\ root' = code /\ ever' = Tables!OpenEntries /\ always' = Tables!OpenEntries
      /\ phase' = IF code = Tables!NoTable THEN "done" ELSE IF walk = "fds" THEN "walking" ELSE "counting"
      /\ known' = IF walk = "fds" THEN count ELSE known
      /\ UNCHANGED <<walk, limit, output, changed, memory, code, count, index, reused>>
  BY DEF Tables!ReadRoot
<1>3. /\ changed = 0 /\ known = 0 /\ index = 0 /\ output = <<>> /\ (code = Tables!NoTable => count = 0)
      /\ count \in Nat
  BY <1>1, <1>2 DEF TableTypes, TableInv
<1>4. Tables!OpenEntries' = Tables!OpenEntries
  BY <1>2 DEF Tables!OpenEntries, Tables!Entry, Tables!Leaf
<1>5. Tables!Reported' = {}
  BY <1>2, <1>3 DEF Tables!Reported
<1>6. TableTypes'
  BY <1>1, <1>2, <1>3 DEF TableTypes
<1>7. HandleTable'
  <2>1. walk = "handles" /\ Tabling' => code.page = Tables!RootPage(code.level)
    BY <1>1, <1>2 DEF HandleTable, Tabling
  <2>2. code.level <= code.level
    <3>1. code.level \in 0 .. 2
      BY <1>1 DEF TableTypes
    <3>2. QED
      BY <3>1
  <2>3. QED
    BY <1>1, <1>2, <2>1, <2>2 DEF HandleTable, Tables!Linked, Tables!Capacity, Tables!RootPage
<1>8. DescriptorTable'
  <2>1. walk = "fds" /\ code.page = 0 => code = Tables!NoTable
    BY <1>1 DEF TableTypes, DescriptorTable, Tables!NoTable
  <2>2. QED
    BY <1>1, <1>2, <1>3, <2>1 DEF DescriptorTable, Tabling, TableTypes
<1>9. Histories'
  <2>1. \A e \in Tables!OpenEntries : e[1] < count
    BY <1>3, OpenFacts
  <2>2. count <= count /\ (phase' = "walking" => known' = count)
    BY <1>2, <1>3
  <2>3. QED
    BY <1>2, <1>4, <2>1, <2>2 DEF Histories
<1>10. ReportedSoFar'
  <2>1. \A e \in always' : ~(e[1] < index')
    BY <1>2, <1>3, OpenFacts
  <2>2. QED
    BY <1>5, <2>1 DEF ReportedSoFar
<1>11. Tables!TableExact'
  <2>1. phase' = "done" => Tables!OpenEntries = {}
    <3>1. ASSUME phase' = "done", NEW e \in Tables!OpenEntries PROVE FALSE
      BY <1>2, <1>3, <3>1, OpenFacts
    <3>2. QED
      BY <3>1
  <2>2. phase' # "failed"
    BY <1>2
  <2>3. QED
    BY <1>2, <1>4, <1>5, <2>1, <2>2 DEF Tables!TableExact
<1>12. QED
  BY <1>6, <1>7, <1>8, <1>9, <1>10, <1>11 DEF TableState

\* The length of a handle table.
LEMMA CountExact ==
  ASSUME TableExactInv, Tables!ReadCount
  PROVE  TableState' /\ ReportedSoFar' /\ Tables!TableExact'
<1>1. TableInv /\ TableTypes /\ HandleTable /\ DescriptorTable /\ Histories
  BY DEF TableExactInv, TableState
<1>2. /\ phase = "counting" /\ phase' = "walking" /\ known' = count
      /\ UNCHANGED <<walk, limit, output, changed, memory, code, count, root, index, reused, ever, always>>
  BY DEF Tables!ReadCount
<1>3. walk = "handles" /\ index = 0 /\ output = <<>> /\ count \in Nat /\ Tabling /\ Tabling'
  BY <1>1, <1>2 DEF TableTypes, TableInv, Tabling
<1>4. Tables!OpenEntries' = Tables!OpenEntries
  BY <1>2 DEF Tables!OpenEntries, Tables!Entry, Tables!Leaf
<1>5. Tables!Reported' = {}
  BY <1>2, <1>3 DEF Tables!Reported
<1>6. TableTypes'
  BY <1>1, <1>2, <1>3 DEF TableTypes
<1>7. HandleTable'
  BY <1>1, <1>2, <1>3 DEF HandleTable, Tables!Linked, Tables!Capacity, Tables!RootPage
<1>8. DescriptorTable'
  BY <1>2, <1>3 DEF DescriptorTable
<1>9. \A e \in always : e[1] \in Nat /\ e[1] < count
  BY <1>1, <1>3, OpenFacts DEF Histories
<1>10. Histories'
  BY <1>1, <1>2, <1>3, <1>4, <1>9 DEF Histories
<1>11. ReportedSoFar'
  BY <1>2, <1>3, <1>5, <1>9 DEF ReportedSoFar
<1>12. QED
  BY <1>2, <1>6, <1>7, <1>8, <1>10, <1>11 DEF TableState, Tables!TableExact

\* What depends on the table and not on how far the walk is.
LEMMA TableKept ==
  ASSUME UNCHANGED <<walk, changed, memory, code, count, root, known, reused, ever, always>>
  PROVE  /\ Tables!OpenEntries' = Tables!OpenEntries
         /\ Tables!SameTable' <=> Tables!SameTable
BY DEF Tables!OpenEntries, Tables!Entry, Tables!Leaf, Tables!SameTable, Tables!Capacity

\* An entry is read.
LEMMA EntryExact ==
  ASSUME TableExactInv, Tables!ReadEntry, index' = index + 1
  PROVE  TableState' /\ ReportedSoFar' /\ Tables!TableExact'
<1>1. TableInv /\ TableState /\ TableTypes /\ HandleTable /\ DescriptorTable /\ Histories /\ ReportedSoFar
  BY DEF TableExactInv, TableState
<1>2. PICK leaf : leaf = IF walk = "fds" THEN root.page + (index \div 2) ELSE Tables!HandleEntry(index)
  OBVIOUS
<1>3. PICK w : w = memory[leaf][1 + (index % 2)]
  OBVIOUS
<1>4. index \in Nat /\ index # index + 1
  BY <1>1 DEF TableInv
<1>5. /\ phase = "walking" /\ phase' = "walking" /\ index < known
      /\ output' = IF w = 0 THEN output ELSE Append(output, <<index, w>>)
      /\ UNCHANGED <<walk, limit, changed, memory, code, count, root, known, reused, ever, always>>
  <2>1. leaf \in Tables!Pages
    <3>1. leaf \notin Tables!Pages => Tables!Finish("failed")
      BY <1>2 DEF Tables!ReadEntry
    <3>2. QED
      BY <1>4, <3>1 DEF Tables!Finish, Tables!tableVars
  <2>2. QED
    BY <1>2, <1>3, <2>1 DEF Tables!ReadEntry
<1>6. /\ Tables!OpenEntries' = Tables!OpenEntries
      /\ Tables!SameTable' <=> Tables!SameTable
  BY <1>5, TableKept
<1>7. TableTypes'
  BY <1>1, <1>5 DEF TableTypes
<1>8. HandleTable'
  BY <1>1, <1>5 DEF HandleTable, Tabling, Tables!Linked, Tables!Capacity, Tables!RootPage
<1>9. DescriptorTable'
  BY <1>1, <1>5 DEF DescriptorTable, Tabling
<1>10. Histories'
  BY <1>1, <1>5, <1>6 DEF Histories, Tabling
<1>11. Tables!Reported' = IF w = 0 THEN Tables!Reported ELSE Tables!Reported \cup {<<index, w>>}
  <2>1. CASE w = 0
    BY <1>5, <2>1 DEF Tables!Reported
  <2>2. CASE w # 0
    <3>1. PICK n \in Nat : n = Len(output)
      BY <1>1 DEF TableInv
    <3>2. PICK T : T = Tables!Reported \cup {<<index, w>>}
      OBVIOUS
    <3>3. output \in Seq(T) /\ <<index, w>> \in T
      BY <1>1, <3>2, SeqMonotonic DEF TableInv
    <3>4. /\ DOMAIN output = 1 .. n /\ DOMAIN output' = 1 .. (n + 1)
          /\ \A i \in 1 .. n : output'[i] = output[i]
          /\ output'[n + 1] = <<index, w>>
      BY <1>5, <2>2, <3>1, <3>3
    <3>5. 1 .. (n + 1) = (1 .. n) \cup {n + 1}
      BY <3>1
    <3>6. QED
      BY <2>2, <3>4, <3>5 DEF Tables!Reported
  <2>3. QED
    BY <2>1, <2>2
<1>12. ReportedSoFar'
  <2>1. SUFFICES ASSUME Tables!SameTable
                 PROVE  /\ Tables!Reported' \subseteq ever
                        /\ \A e \in always : e[1] < index + 1 => e \in Tables!Reported'
    BY <1>5, <1>6 DEF ReportedSoFar
  <2>2. /\ w # 0 => <<index, w>> \in ever
        /\ \A e \in always : e[1] = index => e = <<index, w>> /\ w # 0
    BY <1>1, <1>2, <1>3, <1>5, <2>1, TableReads
  <2>3. Tables!Reported \subseteq ever /\ \A e \in always : e[1] < index => e \in Tables!Reported
    BY <1>1, <1>5, <2>1 DEF ReportedSoFar
  <2>4. \A e \in always : e[1] \in Nat
    BY <1>1, <1>5, OpenFacts DEF Histories, Tabling, TableInv
  <2>5. \A e \in always : e[1] < index + 1 => e[1] < index \/ e[1] = index
    BY <1>4, <2>4
  <2>6. QED
    BY <1>11, <2>2, <2>3, <2>5
<1>13. QED
  BY <1>5, <1>7, <1>8, <1>9, <1>10, <1>12 DEF TableState, Tables!TableExact

\* The walk ends as it should.
LEMMA FinishExact ==
  ASSUME TableExactInv, NEW outcome \in {"done", "failed", "unreadable"}, Tables!Finish(outcome),
         outcome = "done" => phase = "walking" /\ index = known,
         outcome = "failed" /\ changed = 0 => count > limit
  PROVE  TableState' /\ ReportedSoFar' /\ Tables!TableExact'
<1>1. TableInv /\ TableState /\ TableTypes /\ HandleTable /\ DescriptorTable /\ Histories /\ ReportedSoFar
  BY DEF TableExactInv, TableState
<1>2. /\ phase' = outcome
      /\ UNCHANGED <<walk, limit, output, changed, memory, code, count, root, known, index, reused,
                     ever, always>>
  BY DEF Tables!Finish, Tables!tableVars
<1>3. /\ Tables!OpenEntries' = Tables!OpenEntries
      /\ Tables!SameTable' <=> Tables!SameTable
  BY <1>2, TableKept
<1>4. ~Tabling' /\ phase' # "start" /\ phase' # "walking"
  BY <1>2 DEF Tabling
<1>5. TableState'
  BY <1>1, <1>2, <1>4 DEF TableState, TableTypes, HandleTable, DescriptorTable, Histories,
                          Tables!Linked, Tables!Capacity, Tables!RootPage, Tabling
<1>6. Tables!Reported' = Tables!Reported
  BY <1>2 DEF Tables!Reported
<1>7. Tables!TableExact'
  <2>1. CASE outcome = "done"
    <3>1. phase = "walking" /\ index = known /\ Tabling
      BY <2>1 DEF Tabling
    <3>2. \A e \in always : e[1] < index
      BY <1>1, <3>1 DEF Histories
    <3>3. Tables!SameTable => always \subseteq Tables!Reported /\ Tables!Reported \subseteq ever
      BY <1>1, <3>1, <3>2 DEF ReportedSoFar
    <3>4. changed = 0 => Tables!Reported = Tables!OpenEntries
      <4>1. changed = 0 => Tables!SameTable /\ always = Tables!OpenEntries /\ ever = Tables!OpenEntries
        BY <1>1, <3>1, QuietIsSame DEF Histories
      <4>2. QED
        BY <3>3, <4>1
    <3>5. QED
      BY <1>2, <1>3, <1>6, <2>1, <3>3, <3>4 DEF Tables!TableExact
  <2>2. CASE outcome # "done"
    BY <1>2, <2>2 DEF Tables!TableExact
  <2>3. QED
    BY <2>1, <2>2
<1>8. QED
  BY <1>4, <1>5, <1>7 DEF ReportedSoFar

\* The walk's steps.
LEMMA TableStepExact ==
  ASSUME TableExactInv, Tables!Step \/ Tables!ReadFails
  PROVE  TableState' /\ ReportedSoFar' /\ Tables!TableExact'
<1>1. TableInv /\ TableState /\ Histories
  BY DEF TableExactInv, TableState
<1>2. CASE Tables!EndTable
  <2>1. CASE phase = "walking" /\ known > limit /\ Tables!Finish("failed")
    <3>1. changed = 0 => known = count
      BY <1>1, <2>1 DEF Histories, Tabling
    <3>2. QED
      BY <2>1, <3>1, FinishExact
  <2>2. CASE phase = "walking" /\ known <= limit /\ index = known /\ Tables!Finish("done")
    BY <2>2, FinishExact
  <2>3. QED
    BY <1>2, <2>1, <2>2 DEF Tables!EndTable
<1>3. CASE Tables!ReadFails
  BY <1>3, FinishExact DEF Tables!ReadFails
<1>4. CASE Tables!ReadEntry
  <2>1. CASE index' = index + 1
    BY <1>4, <2>1, EntryExact
  <2>2. CASE index' # index + 1
    <3>1. PICK leaf : leaf = IF walk = "fds" THEN root.page + (index \div 2) ELSE Tables!HandleEntry(index)
      OBVIOUS
    <3>2. leaf \notin Tables!Pages /\ Tables!Finish("failed") /\ phase = "walking" /\ index < known
      BY <1>4, <2>2, <3>1 DEF Tables!ReadEntry
    <3>3. changed # 0
      BY <1>1, <3>1, <3>2, TableReads, QuietIsSame
    <3>4. QED
      BY <3>2, <3>3, FinishExact
  <2>3. QED
    BY <2>1, <2>2
<1>5. QED
  BY <1>2, <1>3, <1>4, RootExact, CountExact DEF Tables!Step

\* What every change by the guest keeps, however it leaves the table.
LEMMA GuestExact ==
  ASSUME TableExactInv, Tables!Guest, Tables!Remember,
         memory' \in [1 .. 7 -> [1 .. 2 -> Nat]], code' \in [level : 0 .. 2, page : 0 .. 7],
         count' \in Nat, count <= count', HandleTable', DescriptorTable',
         Tables!SameTable' => Tables!SameTable
  PROVE  TableState' /\ ReportedSoFar' /\ Tables!TableExact'
<1>1. TableInv /\ TableTypes /\ Histories /\ ReportedSoFar
  BY DEF TableExactInv, TableState
<1>2. /\ Tabling /\ Tabling' /\ changed' = changed + 1
      /\ UNCHANGED <<walk, limit, phase, output, root, known, index>>
  BY DEF Tables!Guest, Tabling
<1>3. ever' = ever \cup Tables!OpenEntries' /\ always' = always \cap Tables!OpenEntries'
  BY DEF Tables!Remember
<1>4. changed' \in Nat /\ changed' # 0
  BY <1>1, <1>2 DEF TableTypes
<1>5. TableTypes'
  BY <1>1, <1>2, <1>4 DEF TableTypes, Tabling
<1>6. Histories'
  <2>1. phase = "walking" => known <= count' /\ \A e \in always : e[1] < known
    <3>1. phase = "walking" => known <= count /\ \A e \in always : e[1] < known
      BY <1>1, <1>2 DEF Histories
    <3>2. known \in Nat /\ count \in Nat
      BY <1>1 DEF TableInv
    <3>3. QED
      BY <3>1, <3>2
  <2>2. QED
    BY <1>2, <1>3, <1>4, <2>1 DEF Histories
<1>7. Tables!Reported' = Tables!Reported
  BY <1>2 DEF Tables!Reported
<1>8. ReportedSoFar'
  BY <1>1, <1>2, <1>3, <1>7 DEF ReportedSoFar
<1>9. Tables!TableExact'
  BY <1>2, <1>4 DEF Tables!TableExact, Tabling
<1>10. QED
  BY <1>5, <1>6, <1>8, <1>9 DEF TableState

\* An entry of the table is written.
LEMMA StoreExact ==
  ASSUME TableExactInv, Tables!Guest, Tables!Remember, UNCHANGED <<code, count, reused>>,
         NEW i \in 0 .. 5, i < count, NEW word \in Nat,
         Tables!Store(Tables!Leaf(i), 1 + (i % 2), word)
  PROVE  TableState' /\ ReportedSoFar' /\ Tables!TableExact'
<1>1. TableInv /\ TableTypes /\ HandleTable /\ DescriptorTable
  BY DEF TableExactInv, TableState
<1>2. /\ Tabling /\ Tabling' /\ UNCHANGED <<walk, limit, phase, output, root, known, index>>
  BY DEF Tables!Guest, Tabling
<1>3. PICK slot \in 1 .. 2 : slot = 1 + (i % 2)
  OBVIOUS
<1>4. PICK p : p = Tables!Leaf(i)
  OBVIOUS
<1>5. /\ p \in 1 .. 4 /\ (walk = "fds" /\ code.page = 3 => p # 1)
  <2>1. CASE walk = "handles"
    BY <1>4, <2>1 DEF Tables!Leaf
  <2>2. CASE walk = "fds"
    <3>1. /\ p = code.page + (i \div 2) /\ code.page \in {1, 3} /\ count \in Nat
          /\ (code.page = 1 => count <= 2) /\ (code.page = 3 => count = 4)
      BY <1>1, <1>2, <1>4, <2>2 DEF Tables!Leaf, DescriptorTable, TableInv
    <3>2. CASE code.page = 1
      <4>1. i \in 0 .. 1
        BY <3>1, <3>2
      <4>2. i \div 2 = 0
        BY <4>1
      <4>3. QED
        BY <3>1, <3>2, <4>2
    <3>3. CASE code.page = 3
      <4>1. i \in 0 .. 3
        BY <3>1, <3>3
      <4>2. i \div 2 \in 0 .. 1
        BY <4>1
      <4>3. QED
        BY <3>1, <3>3, <4>2
    <3>4. QED
      BY <3>1, <3>2, <3>3
  <2>3. QED
    BY <1>1, <2>1, <2>2 DEF TableTypes
<1>6. memory' = [memory EXCEPT ![p][slot] = word]
  BY <1>3, <1>4 DEF Tables!Store
<1>7. /\ memory' \in [1 .. 7 -> [1 .. 2 -> Nat]]
      /\ \A q \in 1 .. 7 : q # p => memory'[q] = memory[q]
  BY <1>1, <1>3, <1>5, <1>6 DEF TableTypes
<1>8. HandleTable'
  <2>1. \A q \in 5 .. 7 : memory'[q] = memory[q]
    BY <1>5, <1>7
  <2>2. QED
    BY <1>1, <1>2, <2>1 DEF HandleTable, Tables!Linked, Tables!Capacity, Tables!RootPage
<1>9. DescriptorTable'
  <2>1. walk = "fds" /\ code.page = 3 => memory'[1] = memory[1]
    BY <1>5, <1>7
  <2>2. ever \subseteq ever' /\ always' \subseteq always
    BY DEF Tables!Remember
  <2>3. QED
    BY <1>1, <1>2, <2>1, <2>2 DEF DescriptorTable, Tabling
<1>10. Tables!SameTable' => Tables!SameTable
  BY <1>2 DEF Tables!SameTable, Tables!Capacity
<1>11. code' \in [level : 0 .. 2, page : 0 .. 7] /\ count' \in Nat /\ count <= count'
  BY <1>1 DEF TableTypes, TableInv
<1>12. QED
  BY <1>7, <1>8, <1>9, <1>10, <1>11, GuestExact

\* A handle table gets a level, or counts more entries.
LEMMA GrowExact ==
  ASSUME TableExactInv, Tables!GuestAddsLevel \/ Tables!GuestCounts
  PROVE  TableState' /\ ReportedSoFar' /\ Tables!TableExact'
<1>1. TableInv /\ TableTypes /\ HandleTable
  BY DEF TableExactInv, TableState
<1>2. /\ Tables!Guest /\ Tables!Remember /\ walk = "handles" /\ reused' = reused
      /\ Tabling /\ Tabling' /\ UNCHANGED <<walk, limit, phase, output, root, known, index>>
  BY DEF Tables!GuestAddsLevel, Tables!GuestCounts, Tables!Guest, Tabling
<1>3. /\ code.level \in 0 .. 2 /\ root.level \in 0 .. 2 /\ root.level <= code.level
      /\ root.page = Tables!RootPage(root.level) /\ code.page = Tables!RootPage(code.level)
      /\ count \in Nat /\ count <= Tables!Capacity(code.level)
      /\ \A p \in 5 .. 7 : memory[p] = Tables!Linked(code.level, p)
  BY <1>1, <1>2 DEF TableTypes, TableInv, HandleTable
<1>4. \A l \in 0 .. 2 : Tables!RootPage(l) \in 0 .. 7 /\ Tables!Capacity(l) \in Nat
  BY DEF Tables!RootPage, Tables!Capacity, Tables!Directory, Tables!Top
<1>5. DescriptorTable' /\ (Tables!SameTable' => Tables!SameTable)
  BY <1>2 DEF DescriptorTable, Tables!SameTable, Tables!Capacity
<1>6. CASE Tables!GuestAddsLevel
  <2>1. /\ code.level < 2 /\ code' = [level |-> code.level + 1, page |-> Tables!RootPage(code.level + 1)]
        /\ count' = count /\ count = Tables!Capacity(code.level)
        /\ memory' = [p \in 1 .. 7 |-> IF p >= 5 THEN Tables!Linked(code'.level, p) ELSE memory[p]]
    BY <1>6 DEF Tables!GuestAddsLevel, Tables!Pages, Tables!Directory
  <2>2. PICK l \in 1 .. 2 : l = code.level + 1
    BY <1>3, <2>1
  <2>3. code'.level = l /\ code'.page = Tables!RootPage(l) /\ code' \in [level : 0 .. 2, page : 0 .. 7]
    BY <1>4, <2>1, <2>2
  <2>4. \A p \in 1 .. 7 : Tables!Linked(l, p) \in [1 .. 2 -> Nat]
    BY DEF Tables!Linked, Tables!Directory, Tables!Second, Tables!Top
  <2>5. memory' \in [1 .. 7 -> [1 .. 2 -> Nat]]
    BY <1>1, <2>1, <2>3, <2>4 DEF TableTypes
  <2>6. \A p \in 5 .. 7 : memory'[p] = Tables!Linked(l, p)
    BY <2>1, <2>3
  <2>7. count <= Tables!Capacity(l) /\ root.level <= l
    BY <1>3, <2>1, <2>2 DEF Tables!Capacity
  <2>8. HandleTable'
    BY <1>2, <1>3, <2>1, <2>3, <2>6, <2>7 DEF HandleTable, Tables!Linked, Tables!Capacity, Tables!RootPage
  <2>9. QED
    BY <1>2, <1>3, <1>5, <2>1, <2>3, <2>5, <2>8, GuestExact
<1>7. CASE Tables!GuestCounts
  <2>1. count' = Tables!Capacity(code.level) /\ UNCHANGED <<memory, code>>
    BY <1>7 DEF Tables!GuestCounts
  <2>2. count' \in Nat /\ count <= count' /\ count' <= Tables!Capacity(code.level)
    BY <1>3, <1>4, <2>1
  <2>3. HandleTable'
    BY <1>2, <1>3, <2>1, <2>2 DEF HandleTable, Tables!Linked, Tables!Capacity, Tables!RootPage
  <2>4. QED
    BY <1>1, <1>2, <1>5, <2>1, <2>2, <2>3, GuestExact DEF TableTypes
<1>8. QED
  BY <1>6, <1>7

\* A descriptor table is replaced by its larger copy, or its memory is reused.
LEMMA ReplaceExact ==
  ASSUME TableExactInv, Tables!GuestExpands \/ \E o \in Objects : Tables!GuestReuses(o)
  PROVE  TableState' /\ ReportedSoFar' /\ Tables!TableExact'
<1>1. TableInv /\ TableTypes /\ DescriptorTable /\ Histories
  BY DEF TableExactInv, TableState
<1>2. /\ Tables!Guest /\ Tables!Remember /\ walk = "fds"
      /\ Tabling /\ Tabling' /\ UNCHANGED <<walk, limit, phase, output, root, known, index>>
  BY DEF Tables!GuestExpands, Tables!GuestReuses, Tables!Guest, Tabling
<1>3. /\ code.level = 0 /\ root.level = 0 /\ root.page = 1 /\ count \in Nat /\ known \in Nat
      /\ phase = "walking"
      /\ code.page = 1 => known = count
      /\ code.page = 3 => known = 2 /\ count = 4
  BY <1>1, <1>2 DEF TableTypes, TableInv, DescriptorTable, Tabling
<1>4. HandleTable'
  BY <1>2 DEF HandleTable
<1>5. /\ always \subseteq Tables!OpenEntries /\ Tables!OpenEntries \subseteq ever
      /\ ever \subseteq ever' /\ always' \subseteq always
  BY <1>1, <1>2 DEF Histories, Tables!Remember
<1>6. CASE Tables!GuestExpands
  <2>1. /\ code.page = 1 /\ count = 2 /\ count' = 4 /\ code' = [code EXCEPT !.page = 3]
        /\ memory' = [memory EXCEPT ![3] = memory[1]] /\ reused' = reused
    BY <1>6 DEF Tables!GuestExpands
  <2>2. code' \in [level : 0 .. 2, page : 0 .. 7] /\ code'.level = 0 /\ code'.page = 3
    BY <1>1, <1>3, <2>1 DEF TableTypes
  <2>3. memory' \in [1 .. 7 -> [1 .. 2 -> Nat]] /\ memory'[1] = memory[1]
    <3>1. PICK W : W = [1 .. 2 -> Nat]
      OBVIOUS
    <3>2. memory \in [1 .. 7 -> W] /\ memory[1] \in W
      BY <1>1, <3>1 DEF TableTypes
    <3>3. QED
      BY <2>1, <3>1, <3>2
  <2>4. \A i \in 0 .. 1 : Tables!Entry(i) = memory[1][1 + i]
    <3>1. \A i \in 0 .. 1 : i \div 2 = 0 /\ i % 2 = i
      OBVIOUS
    <3>2. QED
      BY <1>2, <2>1, <3>1 DEF Tables!Entry, Tables!Leaf
  <2>5. \A i \in 0 .. 1 : memory[1][1 + i] # 0 => <<i, memory[1][1 + i]>> \in ever
    <3>1. \A i \in 0 .. 1 : i \in Nat /\ i < count
      BY <2>1
    <3>2. QED
      BY <1>3, <1>5, <2>4, <3>1, OpenIs
  <2>6. \A e \in always : memory[1][1 + e[1]] = e[2]
    <3>1. \A e \in always : e[1] \in 0 .. 1 /\ e[2] = Tables!Entry(e[1])
      <4>1. ASSUME NEW e \in always PROVE e[1] \in 0 .. 1 /\ e[2] = Tables!Entry(e[1])
        <5>1. e[1] \in Nat /\ e[1] < count /\ e = <<e[1], Tables!Entry(e[1])>>
          BY <1>3, <1>5, OpenFacts
        <5>2. QED
          BY <2>1, <5>1
      <4>2. QED
        BY <4>1
    <3>2. QED
      BY <2>4, <3>1
  <2>7. DescriptorTable'
    BY <1>2, <1>3, <1>5, <2>1, <2>2, <2>3, <2>5, <2>6 DEF DescriptorTable, Tabling
  <2>8. Tables!SameTable' => Tables!SameTable
    <3>1. root = code
      BY <1>1, <1>3, <2>1 DEF TableTypes
    <3>2. QED
      BY <1>2, <3>1 DEF Tables!SameTable
  <2>9. count' \in Nat /\ count <= count'
    BY <2>1
  <2>10. QED
    BY <1>2, <1>4, <2>2, <2>3, <2>7, <2>8, <2>9, GuestExact
<1>7. ASSUME NEW o \in Objects, Tables!GuestReuses(o) PROVE TableState' /\ ReportedSoFar' /\ Tables!TableExact'
  <2>1. /\ code.page = 3 /\ reused' = TRUE /\ code' = code /\ count' = count
        /\ memory' = [memory EXCEPT ![1] = <<o, o>>]
    BY <1>7 DEF Tables!GuestReuses
  <2>2. <<o, o>> \in [1 .. 2 -> Nat]
    <3>1. o \in Nat
      BY TableAssumption
    <3>2. QED
      BY <3>1
  <2>3. memory' \in [1 .. 7 -> [1 .. 2 -> Nat]]
    BY <1>1, <2>1, <2>2 DEF TableTypes
  <2>4. DescriptorTable'
    BY <1>1, <1>2, <1>3, <2>1 DEF DescriptorTable, Tabling
  <2>5. root' # code'
    BY <1>2, <1>3, <2>1
  <2>6. ~Tables!SameTable'
    BY <1>2, <2>1, <2>5 DEF Tables!SameTable
  <2>7. code' \in [level : 0 .. 2, page : 0 .. 7] /\ count' \in Nat /\ count <= count'
    BY <1>1, <1>3, <2>1 DEF TableTypes
  <2>8. QED
    BY <1>2, <1>4, <2>3, <2>4, <2>6, <2>7, GuestExact
<1>8. QED
  BY <1>6, <1>7

\* Every step keeps the invariant.
LEMMA TableNextExact == TableExactInv /\ Tables!Next => TableExactInv'
<1>1. SUFFICES ASSUME TableExactInv, Tables!Next PROVE TableState' /\ ReportedSoFar' /\ Tables!TableExact'
  BY TableNext DEF TableExactInv
<1>2. ASSUME NEW i \in 0 .. 5, Tables!GuestCloses(i)
      PROVE  TableState' /\ ReportedSoFar' /\ Tables!TableExact'
  BY <1>1, <1>2, StoreExact DEF Tables!GuestCloses
<1>3. ASSUME NEW i \in 0 .. 5, NEW o \in Objects, Tables!GuestOpens(i, o)
      PROVE  TableState' /\ ReportedSoFar' /\ Tables!TableExact'
  <2>1. o \in Nat
    BY TableAssumption
  <2>2. QED
    BY <1>1, <1>3, <2>1, StoreExact DEF Tables!GuestOpens
<1>4. QED
  BY <1>1, <1>2, <1>3, TableStepExact, GrowExact, ReplaceExact DEF Tables!Next

\* Walks over tables begin so.
LEMMA TableInitExact == Tables!Init => TableExactInv
<1>1. SUFFICES ASSUME Tables!Init PROVE TableExactInv
  OBVIOUS
<1>2. /\ walk \in {"fds", "handles"} /\ limit \in Nat /\ phase = "start" /\ output = <<>>
      /\ changed = 0 /\ root = code /\ known = 0 /\ index = 0 /\ reused = FALSE
  BY <1>1, TableAssumption DEF Tables!Init
<1>3. /\ code.level \in 0 .. 2 /\ code \in [level : 0 .. 2, page : 0 .. 7]
      /\ walk = "fds" => code.level = 0 /\ code.page \in {0, 1}
      /\ code = Tables!NoTable \/ code.page = Tables!RootPage(code.level)
  BY <1>1, <1>2 DEF Tables!Init, Tables!NoTable, Tables!RootPage, Tables!Directory, Tables!Top
<1>4. /\ count \in Nat /\ count <= Tables!Capacity(code.level) /\ count <= 6
      /\ (code = Tables!NoTable => count = 0) /\ (walk = "fds" => count <= 2)
  BY <1>1, <1>2, <1>3 DEF Tables!Init, Tables!Capacity
<1>5. /\ memory \in [1 .. 7 -> [1 .. 2 -> Nat]]
      /\ \A p \in 5 .. 7 : memory[p] = Tables!Linked(code.level, p)
  <2>1. PICK open \in SUBSET (0 .. (count - 1)), o \in Objects :
          memory = [p \in 1 .. 7 |->
               IF p >= 5 THEN Tables!Linked(code.level, p)
               ELSE [s \in 1 .. 2 |-> IF 2 * p + s - 3 \in open THEN o ELSE 0]]
    BY <1>1 DEF Tables!Init, Tables!Pages, Tables!Directory
  <2>2. o \in Nat
    BY TableAssumption
  <2>3. \A p \in 1 .. 7 : Tables!Linked(code.level, p) \in [1 .. 2 -> Nat]
    BY DEF Tables!Linked, Tables!Directory, Tables!Second, Tables!Top
  <2>4. QED
    BY <2>1, <2>2, <2>3
<1>6. TableInv
  BY <1>2, <1>4 DEF TableInv, Tables!Reported
<1>7. ~Tabling
  BY <1>2 DEF Tabling
<1>8. TableState
  BY <1>2, <1>3, <1>4, <1>5, <1>7 DEF TableState, TableTypes, HandleTable, DescriptorTable, Histories
<1>9. QED
  BY <1>2, <1>6, <1>8 DEF TableExactInv, ReportedSoFar, Tables!TableExact

-----------------------------------------------------------------------------
(* What a climb returns.                                                   *)

\* A non-empty set of naturals has a least element.
LEMMA LeastNumber ==
  ASSUME NEW S \in SUBSET Nat, S # {}
  PROVE  \E m \in S : \A k \in S : m <= k
<1>1. PICK R : R = OpToRel(<, Nat)
  OBVIOUS
<1>2. \A x, y \in Nat : x < y => <<x, y>> \in R
  BY <1>1 DEF OpToRel
<1>3. IsWellFoundedOn(R, Nat)
  BY <1>1, NatLessThanWellFounded
<1>4. PICK m \in S : \A k \in S : ~(<<k, m>> \in R)
  BY <1>3, WFMin
<1>5. ASSUME NEW k \in S PROVE m <= k
  <2>1. k \in Nat /\ m \in Nat
    OBVIOUS
  <2>2. ~(k < m)
    BY <1>2, <1>4, <2>1
  <2>3. QED
    BY <2>1, <2>2
<1>6. QED
  BY <1>5

\* g[i] is what the first i functions in F make of x, in turn.
Turns(g, F, x, n) == g[0] = x /\ \A i \in 1 .. n : g[i] = F[i][g[i - 1]]

\* There are such results.
LEMMA TurnsExist ==
  ASSUME NEW S, NEW x \in S, NEW n \in Nat, NEW F, \A i \in 1 .. n : F[i] \in [S -> S]
  PROVE  \E g \in [0 .. n -> S] : Turns(g, F, x, n)
<1>1. SUFFICES ASSUME NEW T, T = {k \in Nat : k <= n /\ ~\E g \in [0 .. k -> S] : Turns(g, F, x, k)}, T # {} PROVE FALSE
  <2>1. SUFFICES ASSUME ~\E g \in [0 .. n -> S] : Turns(g, F, x, n) PROVE FALSE
    OBVIOUS
  <2>2. n \in {k \in Nat : k <= n /\ ~\E g \in [0 .. k -> S] : Turns(g, F, x, k)}
    BY <2>1
  <2>3. QED
    BY <1>1, <2>2
<1>2. PICK m \in T : \A k \in T : m <= k
  BY <1>1, LeastNumber
<1>3. m \in Nat /\ m <= n /\ ~\E g \in [0 .. m -> S] : Turns(g, F, x, m)
  BY <1>1
<1>4. CASE m = 0
  <2>1. PICK g : g = [i \in 0 .. 0 |-> x]
    OBVIOUS
  <2>2. g \in [0 .. 0 -> S] /\ Turns(g, F, x, 0)
    BY <2>1 DEF Turns
  <2>3. QED
    BY <1>3, <1>4, <2>2
<1>5. CASE m # 0
  <2>1. PICK k \in Nat : m = k + 1
    <3>1. m - 1 \in Nat /\ m = (m - 1) + 1
      BY <1>3, <1>5
    <3>2. QED
      BY <3>1
  <2>2. k \notin T /\ k <= n
    BY <1>2, <1>3, <2>1
  <2>3. PICK g \in [0 .. k -> S] : Turns(g, F, x, k)
    BY <1>1, <2>2
  <2>4. g \in [0 .. k -> S] /\ g[0] = x /\ \A i \in 1 .. k : g[i] = F[i][g[i - 1]]
    BY <2>3 DEF Turns
  <2>5. PICK y \in S : y = F[m][g[k]]
    <3>1. m \in 1 .. n /\ k \in 0 .. k
      BY <1>3, <1>5
    <3>2. QED
      BY <2>4, <3>1
  <2>6. PICK h : h = [i \in 0 .. m |-> IF i = m THEN y ELSE g[i]]
    OBVIOUS
  <2>7. \A i \in 0 .. m : i # m => i \in 0 .. k
    BY <1>3, <2>1
  <2>8. h \in [0 .. m -> S] /\ h[m] = y /\ \A i \in 0 .. k : h[i] = g[i]
    <3>1. \A i \in 0 .. k : i \in 0 .. m /\ i # m
      BY <2>1
    <3>2. m \in 0 .. m
      BY <1>3
    <3>3. h[m] = y /\ \A i \in 0 .. k : h[i] = g[i]
      BY <2>6, <3>1, <3>2
    <3>4. \A i \in 0 .. m : h[i] \in S
      BY <2>4, <2>7, <3>3
    <3>5. QED
      BY <2>6, <3>3, <3>4
  <2>9. ASSUME NEW i \in 1 .. m PROVE h[i] = F[i][h[i - 1]]
    <3>1. i - 1 \in 0 .. k
      BY <2>1
    <3>2. CASE i = m
      <4>1. i - 1 = k
        BY <2>1, <3>2
      <4>2. QED
        BY <2>5, <2>8, <3>1, <3>2, <4>1
    <3>3. CASE i # m
      <4>1. i \in 1 .. k /\ i \in 0 .. k
        BY <2>1, <3>3
      <4>2. QED
        BY <2>4, <2>8, <3>1, <4>1
    <3>4. QED
      BY <3>2, <3>3
  <2>10. h[0] = x
    BY <2>1, <2>4, <2>8
  <2>11. Turns(h, F, x, m)
    BY <2>8, <2>9, <2>10 DEF Turns
  <2>12. QED
    BY <1>3, <2>8, <2>11
<1>6. QED
  BY <1>4, <1>5

\* They are determined as far as the functions are.
LEMMA TurnsAgree ==
  ASSUME NEW x, NEW j \in Nat, NEW k \in Nat, NEW F, NEW G, NEW g, NEW h,
         Turns(g, F, x, j), Turns(h, G, x, k), \A i \in 1 .. j : F[i] = G[i], j <= k
  PROVE  \A n \in 0 .. j : g[n] = h[n]
<1>1. SUFFICES ASSUME NEW T, T = {n \in Nat : n <= j /\ g[n] # h[n]}, T # {} PROVE FALSE
  <2>1. SUFFICES ASSUME NEW n \in 0 .. j, g[n] # h[n] PROVE FALSE
    OBVIOUS
  <2>2. n \in {i \in Nat : i <= j /\ g[i] # h[i]}
    BY <2>1
  <2>3. QED
    BY <1>1, <2>2
<1>2. PICK m \in T : \A i \in T : m <= i
  BY <1>1, LeastNumber
<1>3. m \in Nat /\ m <= j /\ g[m] # h[m]
  BY <1>1
<1>4. m # 0
  BY <1>3 DEF Turns
<1>5. m - 1 \in Nat /\ ~(m <= m - 1) /\ m - 1 <= j /\ m \in 1 .. j /\ m \in 1 .. k
  BY <1>3, <1>4
<1>6. g[m - 1] = h[m - 1]
  BY <1>1, <1>2, <1>5
<1>7. g[m] = F[m][g[m - 1]] /\ h[m] = G[m][h[m - 1]]
  BY <1>5 DEF Turns
<1>8. QED
  BY <1>3, <1>5, <1>6, <1>7

\* A recursive definition by turns defines no other function.
LEMMA TurnsDefine ==
  ASSUME NEW S, NEW x \in S, NEW n \in Nat, NEW F, \A i \in 1 .. n : F[i] \in [S -> S]
  PROVE  \A g : g = [i \in 0 .. n |-> IF i = 0 THEN x ELSE F[i][g[i - 1]]] =>
                 g \in [0 .. n -> S] /\ Turns(g, F, x, n)
<1>1. PICK g \in [0 .. n -> S] : Turns(g, F, x, n)
  BY TurnsExist
<1>2. \A i \in 0 .. n : i # 0 => i \in 1 .. n
  OBVIOUS
<1>4. ASSUME NEW h, h = [i \in 0 .. n |-> IF i = 0 THEN x ELSE F[i][h[i - 1]]]
      PROVE  h \in [0 .. n -> S] /\ Turns(h, F, x, n)
  <2>1. Turns(h, F, x, n)
    <3>1. \A i \in 0 .. n : h[i] = IF i = 0 THEN x ELSE F[i][h[i - 1]]
      BY <1>4
    <3>2. 0 \in 0 .. n /\ \A i \in 1 .. n : i \in 0 .. n /\ i # 0
      OBVIOUS
    <3>3. QED
      BY <3>1, <3>2 DEF Turns
  <2>2. n <= n /\ \A i \in 1 .. n : F[i] = F[i]
    OBVIOUS
  <2>3. \A i \in 0 .. n : g[i] = h[i]
    BY <1>1, <2>1, <2>2, TurnsAgree
  <2>4. \A i \in 0 .. n : h[i] \in S
    BY <1>1, <2>3
  <2>5. QED
    BY <1>4, <2>1, <2>4
<1>5. QED
  BY <1>4

\* The places of an ascent.
LEMMA AscentTurns ==
  ASSUME NEW S, NEW x \in S, NEW F \in [S -> S], Paths!Height \in Nat
  PROVE  /\ Paths!Ascent(F, x) \in [0 .. Paths!Height -> S]
         /\ Paths!Ascent(F, x)[0] = x
         /\ \A i \in 1 .. Paths!Height : Paths!Ascent(F, x)[i] = F[Paths!Ascent(F, x)[i - 1]]
<1>1. PICK n \in Nat : n = Paths!Height
  OBVIOUS
<1>2. PICK G : G = [i \in 1 .. n |-> F]
  OBVIOUS
<1>3. \A i \in 1 .. n : G[i] = F /\ G[i] \in [S -> S]
  BY <1>2
<1>4. \A h : [i \in 0 .. n |-> IF i = 0 THEN x ELSE F[h[i - 1]]] =
             [i \in 0 .. n |-> IF i = 0 THEN x ELSE G[i][h[i - 1]]]
  <2>1. \A i \in 0 .. n : i # 0 => G[i] = F
    BY <1>3
  <2>2. QED
    BY <2>1
<1>5. \E h : h = [i \in 0 .. n |-> IF i = 0 THEN x ELSE F[h[i - 1]]]
  <2>1. PICK h \in [0 .. n -> S] : Turns(h, G, x, n)
    BY <1>3, TurnsExist
  <2>2. \A i \in 0 .. n : i # 0 => i \in 1 .. n
    OBVIOUS
  <2>3. \A i \in 0 .. n : h[i] = IF i = 0 THEN x ELSE F[h[i - 1]]
    BY <1>3, <2>1, <2>2 DEF Turns
  <2>4. h = [i \in 0 .. n |-> IF i = 0 THEN x ELSE F[h[i - 1]]]
    BY <2>1, <2>3
  <2>5. QED
    BY <2>4
<1>6. Paths!Ascent(F, x) = [i \in 0 .. n |-> IF i = 0 THEN x ELSE F[Paths!Ascent(F, x)[i - 1]]]
  BY <1>1, <1>5, Zenon DEF Paths!Ascent
<1>7. PICK a : a = Paths!Ascent(F, x)
  OBVIOUS
<1>8. a = [i \in 0 .. n |-> IF i = 0 THEN x ELSE G[i][a[i - 1]]]
  BY <1>4, <1>6, <1>7
<1>9. a \in [0 .. n -> S] /\ Turns(a, G, x, n)
  <2>1. \A g : g = [i \in 0 .. n |-> IF i = 0 THEN x ELSE G[i][g[i - 1]]] =>
               g \in [0 .. n -> S] /\ Turns(g, G, x, n)
    BY <1>3, TurnsDefine
  <2>2. QED
    BY <1>8, <2>1
<1>10. QED
  BY <1>1, <1>3, <1>7, <1>9 DEF Turns

\* What is prepended at a turn.
Prepends(S, c) == [i \in 1 .. Len(c) |-> [q \in Seq(S) |-> IF c[i] = Null THEN q ELSE <<c[i]>> \o q]]

\* Outward is the last of the turns that prepend.
LEMMA OutwardTurns ==
  ASSUME NEW S, NEW c \in Seq(S \cup {Null})
  PROVE  \E g \in [0 .. Len(c) -> Seq(S)] :
           Turns(g, Prepends(S, c), <<>>, Len(c)) /\ Paths!Outward(c) = g[Len(c)]
<1>1. PICK n \in Nat : n = Len(c)
  OBVIOUS
<1>2. PICK F : F = Prepends(S, c)
  OBVIOUS
<1>3. PICK Q : Q = Seq(S)
  OBVIOUS
<1>4. <<>> \in Q
  BY <1>3
<1>5. \A i \in 1 .. n : F[i] = [q \in Q |-> IF c[i] = Null THEN q ELSE <<c[i]>> \o q]
  BY <1>1, <1>2, <1>3 DEF Prepends
<1>6. \A i \in 1 .. n : F[i] \in [Q -> Q]
  <2>1. ASSUME NEW i \in 1 .. n, NEW q \in Q
        PROVE  (IF c[i] = Null THEN q ELSE <<c[i]>> \o q) \in Q
    <3>1. CASE c[i] = Null
      BY <3>1
    <3>2. CASE c[i] # Null
      <4>1. c[i] \in S
        BY <1>1, <3>2
      <4>2. <<c[i]>> \in Seq(S)
        BY <4>1
      <4>3. QED
        BY <1>3, <3>2, <4>2
    <3>3. QED
      BY <3>1, <3>2
  <2>2. QED
    BY <1>5, <2>1
<1>7. PICK h \in [0 .. n -> Q] : Turns(h, F, <<>>, n)
  BY <1>4, <1>6, TurnsExist
<1>8. \A i \in 1 .. n : h[i] = IF c[i] = Null THEN h[i - 1] ELSE <<c[i]>> \o h[i - 1]
  <2>1. \A i \in 1 .. n : h[i - 1] \in Q /\ h[i] = F[i][h[i - 1]]
    <3>1. \A i \in 1 .. n : i - 1 \in 0 .. n
      OBVIOUS
    <3>2. QED
      BY <1>7, <3>1 DEF Turns
  <2>2. QED
    BY <1>5, <2>1
<1>9. h[0] = <<>>
  BY <1>7 DEF Turns
<1>10. h = [i \in 0 .. n |->
             IF i = 0 THEN <<>> ELSE IF c[i] = Null THEN h[i - 1] ELSE <<c[i]>> \o h[i - 1]]
  <2>1. \A i \in 0 .. n : i # 0 => i \in 1 .. n
    OBVIOUS
  <2>2. \A i \in 0 .. n :
          h[i] = IF i = 0 THEN <<>> ELSE IF c[i] = Null THEN h[i - 1] ELSE <<c[i]>> \o h[i - 1]
    BY <1>8, <1>9, <2>1
  <2>3. QED
    BY <1>7, <2>2
<1>11. PICK g : /\ g = [i \in 0 .. n |->
                       IF i = 0 THEN <<>> ELSE IF c[i] = Null THEN g[i - 1] ELSE <<c[i]>> \o g[i - 1]]
                /\ Paths!Outward(c) = g[n]
  <2>1. \E g : g = [i \in 0 .. n |->
                   IF i = 0 THEN <<>> ELSE IF c[i] = Null THEN g[i - 1] ELSE <<c[i]>> \o g[i - 1]]
    BY <1>10
  <2>2. QED
    BY <1>1, <2>1, Zenon DEF Paths!Outward
<1>12. g[n] = h[n]
  <2>1. SUFFICES ASSUME NEW T, T = {i \in Nat : i <= n /\ g[i] # h[i]}, T # {} PROVE FALSE
    <3>1. SUFFICES ASSUME g[n] # h[n] PROVE FALSE
      OBVIOUS
    <3>2. n \in {i \in Nat : i <= n /\ g[i] # h[i]}
      BY <3>1
    <3>3. QED
      BY <2>1, <3>2
  <2>2. PICK m \in T : \A i \in T : m <= i
    BY <2>1, LeastNumber
  <2>3. m \in Nat /\ m <= n /\ g[m] # h[m] /\ m \in 0 .. n
    BY <2>1
  <2>4. g[m] = IF m = 0 THEN <<>> ELSE IF c[m] = Null THEN g[m - 1] ELSE <<c[m]>> \o g[m - 1]
    BY <1>11, <2>3
  <2>5. m # 0
    BY <1>9, <2>3, <2>4
  <2>6. m - 1 \in Nat /\ ~(m <= m - 1) /\ m - 1 <= n /\ m \in 1 .. n
    BY <2>3, <2>5
  <2>7. g[m - 1] = h[m - 1]
    BY <2>1, <2>2, <2>6
  <2>8. QED
    BY <1>8, <2>3, <2>4, <2>5, <2>6, <2>7
<1>13. QED
  BY <1>1, <1>2, <1>3, <1>7, <1>11, <1>12

\* One more is prepended, or not.
LEMMA OutwardNext ==
  ASSUME NEW S, NEW c \in Seq(S \cup {Null}), NEW x \in S \cup {Null}
  PROVE  /\ Paths!Outward(Append(c, x)) =
              IF x = Null THEN Paths!Outward(c) ELSE <<x>> \o Paths!Outward(c)
         /\ Paths!Outward(<<>>) = <<>>
<1>1. PICK n \in Nat : n = Len(c)
  OBVIOUS
<1>2. PICK T : T = S \cup {Null}
  OBVIOUS
<1>3. PICK d \in Seq(T) :
        d = Append(c, x) /\ Len(d) = n + 1 /\ d[n + 1] = x /\ \A i \in 1 .. n : d[i] = c[i]
  <2>1. c \in Seq(T) /\ x \in T
    BY <1>2
  <2>2. Append(c, x) \in Seq(T)
    BY <2>1
  <2>3. Len(Append(c, x)) = n + 1 /\ Append(c, x)[n + 1] = x /\ \A i \in 1 .. n : Append(c, x)[i] = c[i]
    BY <1>1, <2>1
  <2>4. QED
    BY <2>2, <2>3
<1>4. PICK g \in [0 .. n -> Seq(S)] : Turns(g, Prepends(S, c), <<>>, n) /\ Paths!Outward(c) = g[n]
  BY <1>1, OutwardTurns
<1>5. PICK h \in [0 .. (n + 1) -> Seq(S)] :
        Turns(h, Prepends(S, d), <<>>, n + 1) /\ Paths!Outward(d) = h[n + 1]
  <2>1. d \in Seq(S \cup {Null})
    BY <1>2, <1>3
  <2>2. \E h \in [0 .. Len(d) -> Seq(S)] :
          Turns(h, Prepends(S, d), <<>>, Len(d)) /\ Paths!Outward(d) = h[Len(d)]
    BY <2>1, OutwardTurns
  <2>3. QED
    BY <1>3, <2>2
<1>6. \A i \in 1 .. n : Prepends(S, c)[i] = Prepends(S, d)[i]
  <2>1. \A i \in 1 .. n : i \in 1 .. Len(c) /\ i \in 1 .. Len(d)
    BY <1>1, <1>3
  <2>2. QED
    BY <1>3, <2>1 DEF Prepends
<1>7. g[n] = h[n]
  <2>1. n <= n + 1 /\ n + 1 \in Nat /\ n \in 0 .. n
    OBVIOUS
  <2>2. PICK k \in Nat : k = n + 1
    BY <2>1
  <2>3. PICK F, G, e, p, q : F = Prepends(S, c) /\ G = Prepends(S, d) /\ e = <<>> /\ p = g /\ q = h
    OBVIOUS
  <2>4. Turns(p, F, e, n) /\ Turns(q, G, e, k) /\ (\A i \in 1 .. n : F[i] = G[i]) /\ n <= k
    BY <1>4, <1>5, <1>6, <2>1, <2>2, <2>3
  <2>5. \A i \in 0 .. n : p[i] = q[i]
    BY <2>4, TurnsAgree
  <2>6. QED
    BY <2>1, <2>3, <2>5
<1>8. h[n + 1] = IF x = Null THEN h[n] ELSE <<x>> \o h[n]
  <2>1. n + 1 \in 1 .. (n + 1) /\ (n + 1) - 1 = n /\ n \in 0 .. (n + 1)
    OBVIOUS
  <2>2. h[n + 1] = Prepends(S, d)[n + 1][h[n]]
    BY <1>5, <2>1 DEF Turns
  <2>3. Prepends(S, d)[n + 1] = [q \in Seq(S) |-> IF x = Null THEN q ELSE <<x>> \o q]
    BY <1>3, <2>1 DEF Prepends
  <2>4. h[n] \in Seq(S)
    BY <1>5, <2>1
  <2>5. QED
    BY <2>2, <2>3, <2>4
<1>9. Paths!Outward(<<>>) = <<>>
  <2>1. <<>> \in Seq(S \cup {Null}) /\ Len(<<>>) = 0
    OBVIOUS
  <2>2. PICK f \in [0 .. 0 -> Seq(S)] :
          Turns(f, Prepends(S, <<>>), <<>>, 0) /\ Paths!Outward(<<>>) = f[0]
    BY <2>1, OutwardTurns
  <2>3. QED
    BY <2>2 DEF Turns
<1>10. QED
  BY <1>3, <1>4, <1>5, <1>7, <1>8, <1>9

\* The types of a climb that was not disturbed.
Stands == Dentries \X (IF walk = "mounted" THEN Mounts ELSE {Null})

PathTypes ==
  /\ walk \in {"dentry", "mounted"}
  /\ parent \in [Dentries -> Dentries \cup {Null}]
  /\ walk = "mounted" =>
       /\ mroot \in [Mounts -> Dentries \cup {Null}]
       /\ mparent \in [Mounts -> Mounts \cup {Null}]
       /\ mpoint \in [Mounts -> Dentries \cup {Null}]
  /\ begin \in Stands /\ place \in Stands
  /\ components \in Seq(Dentries)

\* Where a climb can stand.
LEMMA StandFacts ==
  ASSUME PathTypes, NEW p \in Stands
  PROVE  /\ p = <<p[1], p[2]>> /\ p[1] \in Dentries /\ p[1] # Null
         /\ walk = "mounted" => p[2] \in Mounts /\ p[2] # Null
         /\ walk = "dentry" => p[2] = Null
         /\ p \in Paths!Places /\ p \in Dentries \X (Mounts \cup {Null})
BY PathAssumption DEF PathTypes, Stands, Paths!Places

\* GuestPaths counts as we do.
LEMMA SameSize == \A S : Paths!Cardinality(S) = Cardinality(S)
BY Zenon DEF Paths!Cardinality, Cardinality

\* The height is a number, and no climb visits more places.
LEMMA HeightFacts ==
  /\ Paths!Height \in Nat
  /\ IsFiniteSet(Dentries \X (Mounts \cup {Null}))
  /\ Cardinality(Dentries \X (Mounts \cup {Null})) = Paths!Height
<1>1. IsFiniteSet(Dentries) /\ IsFiniteSet(Mounts) /\ Null \notin Mounts
  BY PathAssumption
<1>2. IsFiniteSet(Mounts \cup {Null}) /\ Cardinality(Mounts \cup {Null}) = Cardinality(Mounts) + 1
  BY <1>1, FS_AddElement
<1>3. /\ IsFiniteSet(Dentries \X (Mounts \cup {Null}))
      /\ Cardinality(Dentries \X (Mounts \cup {Null})) = Cardinality(Dentries) * Cardinality(Mounts \cup {Null})
  BY <1>1, <1>2, FS_Product
<1>4. Cardinality(Dentries \X (Mounts \cup {Null})) \in Nat
  BY <1>3, FS_CardinalityType
<1>5. Paths!Height = Cardinality(Dentries) * (Cardinality(Mounts) + 1)
  BY SameSize DEF Paths!Height
<1>6. PICK c : c = Cardinality(Mounts) + 1
  OBVIOUS
<1>7. Paths!Height = Cardinality(Dentries \X (Mounts \cup {Null}))
  BY <1>2, <1>3, <1>5, <1>6
<1>8. QED
  BY <1>3, <1>4, <1>7

\* The places above the first one.
LEMMA PlacesAbove ==
  ASSUME PathTypes
  PROVE  /\ Paths!PlaceAbove \in [0 .. Paths!Height -> Paths!Places]
         /\ Paths!PlaceAbove[0] = begin
         /\ \A n \in 1 .. Paths!Height :
              Paths!PlaceAbove[n] = LET p == Paths!PlaceAbove[n - 1] IN
                IF Paths!Valid(p) /\ ~Paths!AtTop(p) THEN Paths!Above(p) ELSE p
<1>1. begin \in Paths!Places
  BY StandFacts DEF PathTypes
<1>2. ASSUME NEW p \in Paths!Places, Paths!Valid(p) PROVE Paths!Above(p) \in Paths!Places
  <2>1. p[1] \in Dentries /\ p[2] \in Mounts \cup {Null} /\ (walk = "mounted" => p[2] \in Mounts)
    BY <1>2 DEF Paths!Places, Paths!Valid
  <2>2. CASE Paths!AtMountRoot(p)
    <3>1. mpoint[p[2]] \in Dentries \cup {Null} /\ mparent[p[2]] \in Mounts \cup {Null}
      BY <2>1, <2>2 DEF PathTypes, Paths!AtMountRoot
    <3>2. QED
      BY <2>2, <3>1 DEF Paths!Above, Paths!Places
  <2>3. CASE ~Paths!AtMountRoot(p)
    <3>1. parent[p[1]] \in Dentries \cup {Null}
      BY <2>1 DEF PathTypes
    <3>2. QED
      BY <2>1, <2>3, <3>1 DEF Paths!Above, Paths!Places
  <2>4. QED
    BY <2>2, <2>3
<1>3. PICK F : F = Paths!Up
  OBVIOUS
<1>4. \A p \in Paths!Places : F[p] = IF Paths!Valid(p) /\ ~Paths!AtTop(p) THEN Paths!Above(p) ELSE p
  BY <1>3 DEF Paths!Up
<1>5. F \in [Paths!Places -> Paths!Places]
  BY <1>2, <1>3 DEF Paths!Up
<1>6. PICK S : S = Paths!Places
  OBVIOUS
<1>7. PICK a : a = Paths!Ascent(F, begin)
  OBVIOUS
<1>8. a \in [0 .. Paths!Height -> S] /\ a[0] = begin /\ \A i \in 1 .. Paths!Height : a[i] = F[a[i - 1]]
  BY <1>1, <1>5, <1>6, <1>7, HeightFacts, AscentTurns
<1>9. Paths!PlaceAbove = a
  BY <1>3, <1>7 DEF Paths!PlaceAbove
<1>10. \A i \in 1 .. Paths!Height : i - 1 \in 0 .. Paths!Height
  BY HeightFacts
<1>11. QED
  BY <1>4, <1>6, <1>8, <1>9, <1>10

\* A climb goes no further than the top, nor than a place that leads nowhere.
LEMMA StaysThere ==
  ASSUME PathTypes, NEW k \in 0 .. Paths!Height,
         Paths!AtTop(Paths!PlaceAbove[k]) \/ ~Paths!Valid(Paths!PlaceAbove[k])
  PROVE  Paths!PlaceAbove[Paths!Height] = Paths!PlaceAbove[k]
<1>0. PICK N \in Nat : N = Paths!Height
  BY HeightFacts
<1>1. PICK P : P = Paths!PlaceAbove
  OBVIOUS
<1>2. \A n \in 1 .. N : P[n - 1] = P[k] => P[n] = P[k]
  BY <1>0, <1>1, PlacesAbove
<1>3. SUFFICES ASSUME NEW T, T = {n \in Nat : k <= n /\ n <= N /\ P[n] # P[k]}, T # {} PROVE FALSE
  <2>1. SUFFICES ASSUME P[N] # P[k] PROVE FALSE
    BY <1>0, <1>1
  <2>2. N \in {n \in Nat : k <= n /\ n <= N /\ P[n] # P[k]}
    BY <1>0, <1>1, <2>1
  <2>3. QED
    BY <1>3, <2>2
<1>4. PICK m \in T : \A i \in T : m <= i
  BY <1>3, LeastNumber
<1>5. m \in Nat /\ k <= m /\ m <= N /\ P[m] # P[k]
  BY <1>3
<1>6. m # k
  BY <1>5
<1>7. m - 1 \in Nat /\ ~(m <= m - 1) /\ k <= m - 1 /\ m - 1 <= N /\ m \in 1 .. N
  BY <1>0, <1>1, <1>5, <1>6
<1>8. P[m - 1] = P[k]
  BY <1>3, <1>4, <1>7
<1>9. QED
  BY <1>2, <1>5, <1>7, <1>8

\* A climb that comes back to a place comes to no others.
LEMMA GoesAround ==
  ASSUME PathTypes, NEW k \in 0 .. Paths!Height, NEW j \in 0 .. (k - 1),
         Paths!PlaceAbove[k] = Paths!PlaceAbove[j]
  PROVE  \E i \in 0 .. (k - 1) : Paths!PlaceAbove[Paths!Height] = Paths!PlaceAbove[i]
<1>0. PICK N \in Nat : N = Paths!Height
  BY HeightFacts
<1>1. PICK P : P = Paths!PlaceAbove
  OBVIOUS
<1>2. \A m \in 1 .. N, n \in 1 .. N : P[n - 1] = P[m - 1] => P[n] = P[m]
  BY <1>0, <1>1, PlacesAbove
<1>3. SUFFICES ASSUME NEW T, T = {n \in Nat : n <= N /\ \A i \in 0 .. (k - 1) : P[n] # P[i]}, T # {} PROVE FALSE
  <2>1. SUFFICES ASSUME \A i \in 0 .. (k - 1) : P[N] # P[i] PROVE FALSE
    BY <1>0, <1>1
  <2>2. N \in {n \in Nat : n <= N /\ \A i \in 0 .. (k - 1) : P[n] # P[i]}
    BY <1>0, <1>1, <2>1
  <2>3. QED
    BY <1>3, <2>2
<1>4. PICK m \in T : \A i \in T : m <= i
  BY <1>3, LeastNumber
<1>5. m \in Nat /\ m <= N /\ \A i \in 0 .. (k - 1) : P[m] # P[i]
  BY <1>3
<1>6. m > 0 /\ k \in Nat /\ k <= N
  BY <1>0, <1>1, <1>5
<1>7. m - 1 \in Nat /\ ~(m <= m - 1) /\ m - 1 <= N /\ m \in 1 .. N
  BY <1>5, <1>6
<1>8. PICK i \in 0 .. (k - 1) : P[m - 1] = P[i]
  BY <1>3, <1>4, <1>7
<1>9. i + 1 \in 1 .. N /\ (i + 1) - 1 = i
  BY <1>6
<1>10. P[m] = P[i + 1]
  BY <1>2, <1>7, <1>8, <1>9
<1>11. i + 1 \in 0 .. (k - 1) \/ i + 1 = k
  BY <1>6
<1>12. QED
  BY <1>0, <1>1, <1>5, <1>10, <1>11

\* The first place at the top.
LEMMA TopIs ==
  ASSUME PathTypes, NEW k \in 0 .. Paths!Height,
         Paths!Valid(Paths!PlaceAbove[k]), Paths!AtTop(Paths!PlaceAbove[k]),
         \A j \in 0 .. (k - 1) : ~Paths!AtTop(Paths!PlaceAbove[j])
  PROVE  Paths!HasTop /\ Paths!StepsToTop = k
<1>1. Paths!HasTop
  BY StaysThere DEF Paths!HasTop
<1>2. PICK t : t = Paths!StepsToTop
  OBVIOUS
<1>3. /\ t \in 0 .. Paths!Height /\ Paths!AtTop(Paths!PlaceAbove[t])
      /\ \A j \in 0 .. (t - 1) : ~Paths!AtTop(Paths!PlaceAbove[j])
  BY <1>2 DEF Paths!StepsToTop
<1>4. t = k
  <2>1. t \in Nat /\ k \in Nat
    BY <1>3, HeightFacts
  <2>2. ~(t < k) /\ ~(k < t)
    <3>1. t < k => t \in 0 .. (k - 1)
      BY <2>1
    <3>2. k < t => k \in 0 .. (t - 1)
      BY <2>1
    <3>3. QED
      BY <1>3, <3>1, <3>2
  <2>3. QED
    BY <2>1, <2>2
<1>5. QED
  BY <1>1, <1>2, <1>4

\* The top is beyond the places that are not it.
LEMMA TopBeyond ==
  ASSUME PathTypes, NEW k \in 0 .. Paths!Height, Paths!HasTop,
         \A j \in 0 .. k : ~Paths!AtTop(Paths!PlaceAbove[j])
  PROVE  Paths!StepsToTop \in (k + 1) .. Paths!Height
<1>0. PICK N \in Nat : N = Paths!Height
  BY HeightFacts
<1>1. PICK P : P = Paths!PlaceAbove
  OBVIOUS
<1>2. PICK T : T = {n \in Nat : n <= N /\ Paths!AtTop(P[n])}
  OBVIOUS
<1>3. N \in T
  BY <1>0, <1>1, <1>2 DEF Paths!HasTop
<1>4. PICK m \in T : \A i \in T : m <= i
  BY <1>2, <1>3, LeastNumber
<1>5. m \in 0 .. N /\ Paths!AtTop(P[m]) /\ \A j \in 0 .. (m - 1) : ~Paths!AtTop(P[j])
  <2>1. m \in Nat /\ m <= N /\ Paths!AtTop(P[m])
    BY <1>2, <1>4
  <2>2. ASSUME NEW j \in 0 .. (m - 1), Paths!AtTop(P[j]) PROVE FALSE
    <3>1. j \in Nat /\ j <= N /\ ~(m <= j)
      BY <2>1
    <3>2. QED
      BY <1>2, <1>4, <2>2, <3>1
  <2>3. QED
    BY <2>1, <2>2
<1>6. PICK t : t = Paths!StepsToTop
  OBVIOUS
<1>7. t \in 0 .. N /\ Paths!AtTop(P[t])
  BY <1>0, <1>1, <1>5, <1>6 DEF Paths!StepsToTop
<1>8. k < t
  <2>1. t \in Nat /\ k \in Nat
    BY <1>0, <1>1, <1>7
  <2>2. ~(t <= k)
    <3>1. t <= k => t \in 0 .. k
      BY <2>1
    <3>2. QED
      BY <1>0, <1>1, <1>7, <3>1
  <2>3. QED
    BY <2>1, <2>2
<1>9. QED
  BY <1>0, <1>1, <1>6, <1>7, <1>8

\* How far an undisturbed climb has come: k steps, all to new places that lead
\* on; it has pushed the names of the places it left.
Climbed(k) ==
  /\ k \in 0 .. Paths!Height
  /\ place = Paths!PlaceAbove[k]
  /\ seen = {Paths!PlaceAbove[j] : j \in 0 .. (k - 1)} /\ Cardinality(seen) = k
  /\ seen \subseteq Stands
  /\ \A j \in 0 .. (k - 1) :
       Paths!Valid(Paths!PlaceAbove[j]) /\ ~Paths!AtTop(Paths!PlaceAbove[j])
  /\ Len(components) = Cardinality(Paths!CountedBelow(k))
  /\ Paths!Path = Paths!Outward(Paths!Contributions(k))

\* A climb that crosses over to another mount has read where to.
Crossing ==
  phase = "crossing" =>
    /\ walk = "mounted" /\ place \notin seen
    /\ Paths!AtMountRoot(place) /\ upper = mparent[place[2]] /\ upper # place[2] /\ upper # Null

\* A climb that is under way has followed the ancestry so far.
PathFollowed ==
  ~changed => PathTypes /\ (Paths!Running => Crossing /\ \E k \in Nat : Climbed(k))

\* The inductive invariant of a climb.
PathExactInv == PathInv /\ PathFollowed /\ Paths!QuietPathExact

\* What depends on the memory of the guest only.
LEMMA PathsStay ==
  ASSUME UNCHANGED <<walk, parent, name, mroot, mparent, mpoint, begin>>
  PROVE  /\ Paths!PlaceAbove' = Paths!PlaceAbove
         /\ Paths!HasTop' <=> Paths!HasTop
         /\ Paths!StepsToTop' = Paths!StepsToTop
         /\ Paths!ExpectedPath' = Paths!ExpectedPath
         /\ Paths!Counted' = Paths!Counted
         /\ \A p : /\ Paths!Valid(p)' <=> Paths!Valid(p)
                   /\ Paths!AtTop(p)' <=> Paths!AtTop(p)
                   /\ Paths!AtMountRoot(p)' <=> Paths!AtMountRoot(p)
         /\ \A n : /\ Paths!Contributions(n)' = Paths!Contributions(n)
                   /\ Paths!CountedBelow(n)' = Paths!CountedBelow(n)
<1>1. \A p : /\ Paths!Valid(p)' <=> Paths!Valid(p)
             /\ Paths!AtTop(p)' <=> Paths!AtTop(p)
             /\ Paths!AtMountRoot(p)' <=> Paths!AtMountRoot(p)
             /\ Paths!Above(p)' = Paths!Above(p)
             /\ Paths!Contributes(p)' <=> Paths!Contributes(p)
             /\ Paths!Counts(p)' <=> Paths!Counts(p)
  BY DEF Paths!Valid, Paths!AtTop, Paths!AtMountRoot, Paths!Above, Paths!Contributes, Paths!Counts
<1>2. Paths!Up' = Paths!Up
  BY <1>1 DEF Paths!Up
<1>3. Paths!PlaceAbove' = Paths!PlaceAbove
  BY <1>2 DEF Paths!PlaceAbove
<1>4. Paths!HasTop' <=> Paths!HasTop
  BY <1>1, <1>3 DEF Paths!HasTop
<1>5. Paths!StepsToTop' = Paths!StepsToTop
  BY <1>1, <1>3 DEF Paths!StepsToTop
<1>6. \A n : Paths!Contributions(n)' = Paths!Contributions(n)
  BY <1>1, <1>3 DEF Paths!Contributions
<1>7. \A n : Paths!CountedBelow(n)' = Paths!CountedBelow(n)
  BY <1>1, <1>3 DEF Paths!CountedBelow
<1>8. Paths!ExpectedPath' = Paths!ExpectedPath
  BY <1>5, <1>6 DEF Paths!ExpectedPath
<1>9. Paths!Counted' = Paths!Counted
  BY <1>5, <1>7 DEF Paths!Counted
<1>10. QED
  BY <1>1, <1>3, <1>4, <1>5, <1>6, <1>7, <1>8, <1>9

\* A climb at a new place has not come as far as the height.
LEMMA RoomAbove ==
  ASSUME PathInv, PathTypes, NEW k \in Nat, Climbed(k), place \notin seen
  PROVE  k < Paths!Height
<1>1. PICK D : D = Dentries \X (Mounts \cup {Null})
  OBVIOUS
<1>2. \A p \in Stands : p \in D
  BY <1>1, StandFacts
<1>3. seen \cup {place} \subseteq D
  BY <1>2 DEF Climbed, PathTypes
<1>4. IsFiniteSet(seen) /\ Cardinality(seen) = k
  BY DEF PathInv, Climbed
<1>5. Cardinality(seen \cup {place}) = k + 1
  BY <1>4, FS_AddElement
<1>6. Cardinality(seen \cup {place}) <= Cardinality(D)
  BY <1>1, <1>3, HeightFacts, FS_Subset
<1>7. Cardinality(D) = Paths!Height /\ Paths!Height \in Nat
  BY <1>1, HeightFacts
<1>8. QED
  BY <1>5, <1>6, <1>7

\* The names of one place more.
LEMMA ContributionsNext ==
  ASSUME PathTypes, NEW k \in Nat, k <= Paths!Height
  PROVE  /\ Paths!Contributions(k) \in Seq(Dentries \cup {Null})
         /\ Paths!Contributions(k + 1) =
              Append(Paths!Contributions(k),
                     IF Paths!Contributes(Paths!PlaceAbove[k]) THEN Paths!PlaceAbove[k][1] ELSE Null)
         /\ Paths!Contributions(0) = <<>>
<1>1. PICK T : T = Dentries \cup {Null}
  OBVIOUS
<1>2. PICK c : c = [i \in 1 .. (k + 1) |->
                    IF Paths!Contributes(Paths!PlaceAbove[i - 1]) THEN Paths!PlaceAbove[i - 1][1] ELSE Null]
  OBVIOUS
<1>3. \A i \in 1 .. (k + 1) : c[i] \in T
  <2>1. \A i \in 1 .. (k + 1) : i - 1 \in 0 .. Paths!Height
    BY HeightFacts
  <2>2. \A n \in 0 .. Paths!Height : Paths!PlaceAbove[n][1] \in T
    <3>1. \A n \in 0 .. Paths!Height : Paths!PlaceAbove[n] \in Paths!Places
      BY PlacesAbove
    <3>2. \A p \in Paths!Places : p[1] \in T
      BY <1>1 DEF Paths!Places
    <3>3. QED
      BY <3>1, <3>2
  <2>3. QED
    BY <1>1, <1>2, <2>1, <2>2
<1>4. Paths!Contributions(k + 1) = c
  BY <1>2 DEF Paths!Contributions
<1>5. Paths!Contributions(k) = [i \in 1 .. k |-> c[i]]
  <2>1. \A i \in 1 .. k : i \in 1 .. (k + 1)
    OBVIOUS
  <2>2. QED
    BY <1>2, <2>1 DEF Paths!Contributions
<1>6. PICK b : b = [i \in 1 .. k |-> c[i]]
  OBVIOUS
<1>7. b \in Seq(T) /\ Len(b) = k
  <2>1. b \in [1 .. k -> T]
    BY <1>3, <1>6
  <2>2. QED
    BY <2>1
<1>8. c = Append(b, c[k + 1])
  <2>1. c[k + 1] \in T
    BY <1>3
  <2>2. /\ Append(b, c[k + 1]) \in Seq(T) /\ Len(Append(b, c[k + 1])) = k + 1
        /\ \A i \in 1 .. k : Append(b, c[k + 1])[i] = b[i]
        /\ Append(b, c[k + 1])[k + 1] = c[k + 1]
    BY <1>7, <2>1
  <2>3. \A i \in 1 .. k : b[i] = c[i]
    BY <1>6
  <2>4. \A i \in 1 .. (k + 1) : i \in 1 .. k \/ i = k + 1
    OBVIOUS
  <2>5. c \in Seq(T) /\ Len(c) = k + 1
    <3>1. c \in [1 .. (k + 1) -> T] /\ k + 1 \in Nat
      BY <1>2, <1>3
    <3>2. QED
      BY <3>1
  <2>6. \A i \in 1 .. (k + 1) : Append(b, c[k + 1])[i] = c[i]
    BY <2>2, <2>3, <2>4
  <2>7. QED
    BY <2>2, <2>5, <2>6
<1>9. c[k + 1] = IF Paths!Contributes(Paths!PlaceAbove[k]) THEN Paths!PlaceAbove[k][1] ELSE Null
  <2>1. k + 1 \in 1 .. (k + 1) /\ (k + 1) - 1 = k
    OBVIOUS
  <2>2. QED
    BY <1>2, <2>1
<1>10. Paths!Contributions(0) = <<>>
  BY DEF Paths!Contributions
<1>11. QED
  BY <1>1, <1>4, <1>5, <1>6, <1>7, <1>8, <1>9, <1>10

\* What the limit counts of one place more.
LEMMA CountedNext ==
  ASSUME NEW k \in Nat
  PROVE  /\ IsFiniteSet(Paths!CountedBelow(k)) /\ Cardinality(Paths!CountedBelow(k)) \in Nat
         /\ Cardinality(Paths!CountedBelow(k + 1)) =
              Cardinality(Paths!CountedBelow(k)) + (IF Paths!Counts(Paths!PlaceAbove[k]) THEN 1 ELSE 0)
         /\ \A m \in Nat : k <= m =>
              Cardinality(Paths!CountedBelow(k)) <= Cardinality(Paths!CountedBelow(m))
         /\ Cardinality(Paths!CountedBelow(0)) = 0
<1>1. \A m \in Nat : Paths!CountedBelow(m) \subseteq 0 .. (m - 1)
  BY DEF Paths!CountedBelow
<1>2. \A m \in Nat : IsFiniteSet(Paths!CountedBelow(m))
  <2>1. \A m \in Nat : IsFiniteSet(0 .. (m - 1))
    BY FS_Interval
  <2>2. QED
    BY <1>1, <2>1, FS_Subset
<1>3. Cardinality(Paths!CountedBelow(k)) \in Nat
  BY <1>2, FS_CardinalityType
<1>4. ASSUME NEW m \in Nat, k <= m
      PROVE  Cardinality(Paths!CountedBelow(k)) <= Cardinality(Paths!CountedBelow(m))
  <2>1. Paths!CountedBelow(k) \subseteq Paths!CountedBelow(m)
    BY <1>4 DEF Paths!CountedBelow
  <2>2. QED
    BY <1>2, <2>1, FS_Subset
<1>5. Cardinality(Paths!CountedBelow(k + 1)) =
        Cardinality(Paths!CountedBelow(k)) + (IF Paths!Counts(Paths!PlaceAbove[k]) THEN 1 ELSE 0)
  <2>1. \A j : j \in 0 .. ((k + 1) - 1) <=> j \in 0 .. (k - 1) \/ j = k
    OBVIOUS
  <2>2. k \notin Paths!CountedBelow(k)
    BY <1>1
  <2>3. CASE Paths!Counts(Paths!PlaceAbove[k])
    <3>1. Paths!CountedBelow(k + 1) = Paths!CountedBelow(k) \cup {k}
      BY <2>1, <2>3 DEF Paths!CountedBelow
    <3>2. QED
      BY <1>2, <2>2, <2>3, <3>1, FS_AddElement
  <2>4. CASE ~Paths!Counts(Paths!PlaceAbove[k])
    <3>1. Paths!CountedBelow(k + 1) = Paths!CountedBelow(k)
      BY <2>1, <2>4 DEF Paths!CountedBelow
    <3>2. QED
      BY <1>3, <2>4, <3>1
  <2>5. QED
    BY <2>3, <2>4
<1>6. Cardinality(Paths!CountedBelow(0)) = 0
  <2>1. Paths!CountedBelow(0) = {}
    BY DEF Paths!CountedBelow
  <2>2. QED
    BY <2>1, FS_EmptySet
<1>7. QED
  BY <1>2, <1>3, <1>4, <1>5, <1>6

\* A turn of the loop pushes the name of the place it leaves, if it counts.
LEMMA TurnNames ==
  ASSUME PathTypes, NEW k \in Nat, Climbed(k), NEW pushed,
         \/ pushed = <<place[1]>> /\ Paths!Counts(place)
         \/ pushed = <<>> /\ ~Paths!Counts(place),
         components' = components \o pushed,
         UNCHANGED <<walk, parent, name, mroot, mparent, mpoint, begin>>
  PROVE  /\ components' \in Seq(Dentries)
         /\ Len(components') = Cardinality(Paths!CountedBelow(k + 1))
         /\ Paths!Path' = Paths!Outward(Paths!Contributions(k + 1))
<1>1. /\ k <= Paths!Height /\ place = Paths!PlaceAbove[k]
      /\ Len(components) = Cardinality(Paths!CountedBelow(k))
      /\ Paths!Path = Paths!Outward(Paths!Contributions(k))
  BY HeightFacts DEF Climbed
<1>2. PICK d \in Dentries : d = place[1]
  BY StandFacts DEF PathTypes
<1>3. components \in Seq(Dentries)
  BY DEF PathTypes
<1>4. PICK n \in Nat : n = Len(components)
  BY <1>3
<1>5. PICK c \in Seq(Dentries \cup {Null}), x \in Dentries \cup {Null} :
        /\ c = Paths!Contributions(k) /\ Paths!Contributions(k + 1) = Append(c, x)
        /\ x = IF Paths!Contributes(place) THEN d ELSE Null
  <2>1. /\ Paths!Contributions(k) \in Seq(Dentries \cup {Null})
        /\ Paths!Contributions(k + 1) =
              Append(Paths!Contributions(k), IF Paths!Contributes(place) THEN d ELSE Null)
    BY <1>1, <1>2, ContributionsNext
  <2>2. (IF Paths!Contributes(place) THEN d ELSE Null) \in Dentries \cup {Null}
    BY <1>2
  <2>3. QED
    BY <2>1, <2>2
<1>6. Paths!Outward(Append(c, x)) = IF x = Null THEN Paths!Outward(c) ELSE <<x>> \o Paths!Outward(c)
  BY OutwardNext
<1>7. Cardinality(Paths!CountedBelow(k + 1)) =
        Cardinality(Paths!CountedBelow(k)) + (IF Paths!Counts(place) THEN 1 ELSE 0)
  BY <1>1, CountedNext
<1>8. CASE pushed = <<>> /\ ~Paths!Counts(place)
  <2>1. components' = components
    BY <1>3, <1>8
  <2>2. ~Paths!Contributes(place)
    BY <1>8 DEF PathTypes, Paths!Counts, Paths!Contributes
  <2>3. Paths!Path' = Paths!Path
    BY <2>1 DEF Paths!Path, Paths!Retained
  <2>4. x = Null
    BY <1>5, <2>2
  <2>5. Len(components') = Cardinality(Paths!CountedBelow(k + 1))
    BY <1>1, <1>4, <1>7, <1>8, <2>1
  <2>6. QED
    BY <1>1, <1>3, <1>5, <1>6, <2>1, <2>3, <2>4, <2>5
<1>9. CASE pushed = <<place[1]>> /\ Paths!Counts(place)
  <2>1. /\ components' \in Seq(Dentries) /\ Len(components') = n + 1 /\ components'[n + 1] = d
        /\ \A i \in 1 .. n : components'[i] = components[i]
    BY <1>2, <1>3, <1>4, <1>9
  <2>2. Paths!Contributes(place) <=> name[d] = "named"
    BY <1>2, <1>9 DEF PathTypes, Paths!Counts, Paths!Contributes, Paths!AtMountRoot
  <2>3. PICK r : r = [i \in 1 .. n |-> Paths!Retained(components[i])]
    OBVIOUS
  <2>4. PICK T : T = Dentries \cup {Null}
    OBVIOUS
  <2>5. r \in Seq(T) /\ Len(r) = n
    <3>1. \A i \in 1 .. n : Paths!Retained(components[i]) \in T
      BY <1>3, <1>4, <2>4 DEF Paths!Retained
    <3>2. r \in [1 .. n -> T]
      BY <2>3, <3>1
    <3>3. QED
      BY <3>2
  <2>6. x = Paths!Retained(d) /\ x \in T
    BY <1>5, <2>2, <2>4 DEF Paths!Retained
  <2>7. PICK s : s = [i \in 1 .. (n + 1) |-> Paths!Retained(components'[i])]
    OBVIOUS
  <2>8. s = Append(r, x)
    <3>1. /\ Append(r, x) \in Seq(T) /\ Len(Append(r, x)) = n + 1 /\ Append(r, x)[n + 1] = x
          /\ \A i \in 1 .. n : Append(r, x)[i] = r[i]
      BY <2>5, <2>6
    <3>2. \A i \in 1 .. (n + 1) : i \in 1 .. n \/ i = n + 1
      OBVIOUS
    <3>3. \A i \in 1 .. n : r[i] = Paths!Retained(components'[i])
      BY <2>1, <2>3
    <3>4. \A i \in 1 .. (n + 1) : Append(r, x)[i] = s[i]
      <4>1. \A i \in 1 .. (n + 1) : s[i] = Paths!Retained(components'[i])
        BY <2>7
      <4>2. Paths!Retained(components'[n + 1]) = x
        BY <2>1, <2>6
      <4>3. QED
        BY <3>1, <3>2, <3>3, <4>1, <4>2
    <3>5. s \in Seq(T) /\ Len(s) = n + 1
      <4>1. \A i \in 1 .. (n + 1) : Append(r, x)[i] \in T
        BY <3>1
      <4>2. PICK m \in Nat : m = n + 1
        OBVIOUS
      <4>3. \A i \in 1 .. m : Paths!Retained(components'[i]) \in T
        BY <2>7, <3>4, <4>1, <4>2
      <4>4. s \in [1 .. m -> T]
        BY <2>7, <4>2, <4>3
      <4>5. QED
        BY <4>2, <4>4
    <3>6. QED
      BY <3>1, <3>4, <3>5
  <2>9. Paths!Path = Paths!Outward(r)
    BY <1>4, <2>3 DEF Paths!Path
  <2>10. Paths!Path' = Paths!Outward(s)
    <3>1. \A y : Paths!Retained(y)' = Paths!Retained(y)
      BY DEF Paths!Retained
    <3>2. PICK e : e = components'
      OBVIOUS
    <3>3. [i \in 1 .. Len(components) |-> Paths!Retained(components[i])]' = [i \in 1 .. (n + 1) |-> Paths!Retained(e[i])]
      BY <2>1, <3>1, <3>2
    <3>4. QED
      BY <2>7, <3>2, <3>3 DEF Paths!Path
  <2>11. Paths!Outward(s) = IF x = Null THEN Paths!Outward(r) ELSE <<x>> \o Paths!Outward(r)
    <3>1. r \in Seq(Dentries \cup {Null})
      BY <2>4, <2>5
    <3>2. QED
      BY <2>8, <3>1, OutwardNext
  <2>12. Paths!Path' = Paths!Outward(Paths!Contributions(k + 1))
    BY <1>1, <1>5, <1>6, <2>9, <2>10, <2>11
  <2>13. Len(components') = Cardinality(Paths!CountedBelow(k + 1))
    BY <1>1, <1>4, <1>7, <1>9, <2>1
  <2>14. QED
    BY <2>1, <2>12, <2>13
<1>10. QED
  BY <1>8, <1>9

\* The next place is the one above.
LEMMA NextPlace ==
  ASSUME PathInv, PathTypes, NEW k \in Nat, Climbed(k), place \notin seen,
         Paths!Valid(place), ~Paths!AtTop(place)
  PROVE  k + 1 \in 0 .. Paths!Height /\ Paths!PlaceAbove[k + 1] = Paths!Above(place)
<1>1. k < Paths!Height /\ Paths!Height \in Nat
  BY RoomAbove, HeightFacts
<1>2. k + 1 \in 1 .. Paths!Height /\ (k + 1) - 1 = k
  BY <1>1
<1>3. place = Paths!PlaceAbove[k]
  BY DEF Climbed
<1>4. Paths!PlaceAbove[k + 1] = LET p == Paths!PlaceAbove[(k + 1) - 1] IN
                IF Paths!Valid(p) /\ ~Paths!AtTop(p) THEN Paths!Above(p) ELSE p
  BY <1>2, PlacesAbove
<1>5. QED
  BY <1>2, <1>3, <1>4

\* The climb goes on at the place above.
LEMMA ClimbExact ==
  ASSUME PathInv, PathTypes, NEW k \in Nat, Climbed(k), place \notin seen,
         Paths!Valid(place), ~Paths!AtTop(place),
         NEW pushed,
         \/ pushed = <<place[1]>> /\ Paths!Counts(place)
         \/ pushed = <<>> /\ ~Paths!Counts(place),
         NEW to \in Stands, to = Paths!Above(place), Paths!Climb(to, pushed)
  PROVE  PathFollowed' /\ Paths!QuietPathExact'
<1>1. /\ UNCHANGED <<walk, limit, parent, name, mroot, mparent, mpoint, begin, changed>>
      /\ components' = components \o pushed /\ place' = to /\ seen' = seen \cup {place}
      /\ phase' = "walking"
  BY DEF Paths!Climb, Paths!memory
<1>2. /\ components' \in Seq(Dentries)
      /\ Len(components') = Cardinality(Paths!CountedBelow(k + 1))
      /\ Paths!Path' = Paths!Outward(Paths!Contributions(k + 1))
  BY <1>1, TurnNames
<1>3. k + 1 \in 0 .. Paths!Height /\ Paths!PlaceAbove[k + 1] = to
  BY NextPlace
<1>4. Stands' = Stands
  BY <1>1 DEF Stands
<1>5. PathTypes'
  BY <1>1, <1>2, <1>4 DEF PathTypes
<1>6. PICK m \in Nat : m = k + 1
  OBVIOUS
<1>7. \A j : j \in 0 .. (m - 1) <=> j \in 0 .. (k - 1) \/ j = k
  BY <1>6
<1>8. /\ place = Paths!PlaceAbove[k] /\ place \in Stands
      /\ seen = {Paths!PlaceAbove[j] : j \in 0 .. (k - 1)}
      /\ Cardinality(seen) = k /\ seen \subseteq Stands
      /\ \A j \in 0 .. (k - 1) :
           Paths!Valid(Paths!PlaceAbove[j]) /\ ~Paths!AtTop(Paths!PlaceAbove[j])
  BY DEF Climbed, PathTypes
<1>9. seen' = {Paths!PlaceAbove[j] : j \in 0 .. (m - 1)} /\ seen' \subseteq Stands
  BY <1>1, <1>7, <1>8
<1>10. Cardinality(seen') = m
  BY <1>1, <1>6, <1>8, FS_AddElement DEF PathInv
<1>11. \A j \in 0 .. (m - 1) :
           Paths!Valid(Paths!PlaceAbove[j]) /\ ~Paths!AtTop(Paths!PlaceAbove[j])
  BY <1>7, <1>8
<1>12. Climbed(m)'
  <2>1. /\ Paths!PlaceAbove' = Paths!PlaceAbove
        /\ \A p : /\ Paths!Valid(p)' <=> Paths!Valid(p)
                  /\ Paths!AtTop(p)' <=> Paths!AtTop(p)
        /\ Paths!Contributions(m)' = Paths!Contributions(m)
        /\ Paths!CountedBelow(m)' = Paths!CountedBelow(m)
    BY <1>1, PathsStay
  <2>2. Cardinality(seen)' = m /\ Cardinality(Paths!CountedBelow(m))' = Len(components')
    BY <1>2, <1>6, <1>10, <2>1
  <2>3. Paths!Outward(Paths!Contributions(m))' = Paths!Path'
    BY <1>2, <1>6, <2>1
  <2>4. m \in 0 .. Paths!Height /\ place' = Paths!PlaceAbove'[m]
    BY <1>1, <1>3, <1>6, <2>1
  <2>5. (seen \subseteq Stands)' /\ seen' = {Paths!PlaceAbove'[j] : j \in 0 .. (m - 1)}
    BY <1>4, <1>9, <2>1
  <2>6. (\A j \in 0 .. (m - 1) :
           Paths!Valid(Paths!PlaceAbove[j]) /\ ~Paths!AtTop(Paths!PlaceAbove[j]))'
    BY <1>11, <2>1
  <2>7. QED
    BY <2>2, <2>3, <2>4, <2>5, <2>6 DEF Climbed
<1>13. Crossing' /\ Paths!QuietPathExact'
  BY <1>1 DEF Crossing, Paths!QuietPathExact
<1>14. QED
  BY <1>5, <1>12, <1>13 DEF PathFollowed

\* What a climb that ends leaves alone.
LEMMA StopStays ==
  ASSUME PathTypes, NEW o \in {"done", "failed"}, NEW pushed \in Seq(Dentries), Paths!Stop(o, pushed)
  PROVE  /\ UNCHANGED <<walk, limit, parent, name, mroot, mparent, mpoint, begin, changed>>
         /\ components' = components \o pushed /\ phase' = o
         /\ PathFollowed'
<1>1. /\ UNCHANGED <<walk, limit, parent, name, mroot, mparent, mpoint, begin, changed, place>>
      /\ components' = components \o pushed /\ phase' = o
  BY DEF Paths!Stop, Paths!memory
<1>2. components' \in Seq(Dentries)
  BY <1>1 DEF PathTypes
<1>3. PathTypes'
  BY <1>1, <1>2 DEF PathTypes, Stands
<1>4. ~Paths!Running'
  BY <1>1 DEF Paths!Running
<1>5. QED
  BY <1>1, <1>3, <1>4 DEF PathFollowed

\* The climb ends at the top.
LEMMA TopExact ==
  ASSUME PathInv, PathTypes, NEW k \in Nat, Climbed(k),
         Paths!Valid(place), Paths!AtTop(place),
         NEW pushed,
         \/ pushed = <<place[1]>> /\ Paths!Counts(place)
         \/ pushed = <<>> /\ ~Paths!Counts(place),
         Paths!Stop("done", pushed)
  PROVE  PathFollowed' /\ Paths!QuietPathExact'
<1>1. pushed \in Seq(Dentries)
  <2>1. place[1] \in Dentries
    BY StandFacts DEF PathTypes
  <2>2. <<place[1]>> \in Seq(Dentries) /\ <<>> \in Seq(Dentries)
    BY <2>1
  <2>3. QED
    BY <2>2
<1>2. /\ UNCHANGED <<walk, limit, parent, name, mroot, mparent, mpoint, begin, changed>>
      /\ components' = components \o pushed /\ phase' = "done" /\ PathFollowed'
  BY <1>1, StopStays
<1>3. Paths!Path' = Paths!Outward(Paths!Contributions(k + 1))
  BY <1>2, TurnNames
<1>4. Paths!HasTop /\ Paths!StepsToTop = k
  BY TopIs DEF Climbed
<1>5. Paths!ExpectedPath = Paths!Outward(Paths!Contributions(k + 1))
  BY <1>4 DEF Paths!ExpectedPath
<1>6. Paths!HasTop' /\ Paths!ExpectedPath' = Paths!ExpectedPath
  BY <1>2, <1>4, PathsStay
<1>7. QED
  BY <1>2, <1>3, <1>5, <1>6 DEF Paths!QuietPathExact

\* The climb fails when the ancestry has no top, or one beyond the limit.
LEMMA FailExact ==
  ASSUME ~(Paths!HasTop /\ Paths!Counted < limit), phase' = "failed",
         UNCHANGED <<walk, limit, parent, name, mroot, mparent, mpoint, begin, changed>>
  PROVE  Paths!QuietPathExact'
<1>1. (Paths!HasTop' <=> Paths!HasTop) /\ Paths!Counted' = Paths!Counted
  BY PathsStay
<1>2. QED
  BY <1>1 DEF Paths!QuietPathExact

\* A null pointer ends the ancestry without a top.
LEMMA NowhereAbove ==
  ASSUME PathInv, PathTypes, NEW k \in Nat, Climbed(k),
         \/ ~Paths!Valid(place)
         \/ /\ place \notin seen /\ Paths!Valid(place) /\ ~Paths!AtTop(place)
            /\ ~Paths!Valid(Paths!Above(place))
  PROVE  ~Paths!HasTop
<1>1. k \in 0 .. Paths!Height /\ place = Paths!PlaceAbove[k]
  BY DEF Climbed
<1>2. CASE ~Paths!Valid(place)
  <2>1. Paths!PlaceAbove[Paths!Height] = place
    BY <1>1, <1>2, StaysThere
  <2>2. QED
    BY <1>2, <2>1 DEF Paths!HasTop
<1>3. CASE /\ place \notin seen /\ Paths!Valid(place) /\ ~Paths!AtTop(place)
           /\ ~Paths!Valid(Paths!Above(place))
  <2>1. PICK m \in 0 .. Paths!Height : Paths!PlaceAbove[m] = Paths!Above(place)
    BY <1>3, NextPlace
  <2>2. Paths!PlaceAbove[Paths!Height] = Paths!Above(place)
    BY <1>3, <2>1, StaysThere
  <2>3. QED
    BY <1>3, <2>2 DEF Paths!HasTop
<1>4. QED
  BY <1>2, <1>3

\* Nor does an ancestry that comes back have one.
LEMMA CircleAbove ==
  ASSUME PathTypes, NEW k \in Nat, Climbed(k), place \in seen
  PROVE  ~Paths!HasTop
<1>1. k \in 0 .. Paths!Height /\ place = Paths!PlaceAbove[k]
  BY DEF Climbed
<1>2. PICK j \in 0 .. (k - 1) : Paths!PlaceAbove[k] = Paths!PlaceAbove[j]
  BY <1>1 DEF Climbed
<1>3. PICK i \in 0 .. (k - 1) : Paths!PlaceAbove[Paths!Height] = Paths!PlaceAbove[i]
  BY <1>1, <1>2, GoesAround
<1>4. ~Paths!AtTop(Paths!PlaceAbove[i])
  BY DEF Climbed
<1>5. QED
  BY <1>3, <1>4 DEF Paths!HasTop

\* As many names as the limit, and not yet at the top.
LEMMA TooManyNames ==
  ASSUME PathInv, PathTypes, NEW k \in Nat, Climbed(k), ~Paths!AtTop(place),
         Cardinality(Paths!CountedBelow(k + 1)) >= limit
  PROVE  ~(Paths!HasTop /\ Paths!Counted < limit)
<1>1. SUFFICES ASSUME Paths!HasTop PROVE ~(Paths!Counted < limit)
  OBVIOUS
<1>2. k \in 0 .. Paths!Height /\ place = Paths!PlaceAbove[k]
  BY DEF Climbed
<1>3. \A j \in 0 .. k : j \in 0 .. (k - 1) \/ j = k
  OBVIOUS
<1>4. \A j \in 0 .. k : ~Paths!AtTop(Paths!PlaceAbove[j])
  BY <1>2, <1>3 DEF Climbed
<1>5. PICK m \in Nat : m = k + 1
  OBVIOUS
<1>6. PICK t \in Nat : t = Paths!StepsToTop /\ m <= t
  <2>1. Paths!StepsToTop \in (k + 1) .. Paths!Height
    BY <1>1, <1>2, <1>4, TopBeyond
  <2>2. QED
    BY <1>5, <2>1
<1>7. PICK a \in Nat : a = Cardinality(Paths!CountedBelow(m))
  BY CountedNext
<1>8. PICK b \in Nat : b = Cardinality(Paths!CountedBelow(t))
  BY CountedNext
<1>9. a <= b
  BY <1>6, <1>7, <1>8, CountedNext
<1>10. Paths!Counted = b
  BY <1>6, <1>8, SameSize DEF Paths!Counted
<1>11. a >= limit /\ limit \in Nat
  BY <1>5, <1>7 DEF PathInv
<1>12. QED
  BY <1>9, <1>10, <1>11

\* A climb that stops short fails rightly.
LEMMA StopExact ==
  ASSUME PathTypes, NEW pushed \in Seq(Dentries), Paths!Stop("failed", pushed),
         ~(Paths!HasTop /\ Paths!Counted < limit)
  PROVE  PathFollowed' /\ Paths!QuietPathExact'
BY StopStays, FailExact

\* One turn of the loop of dentry_path.
LEMMA DentryExact ==
  ASSUME PathInv, PathTypes, NEW k \in Nat, Climbed(k), Paths!DentryStep
  PROVE  PathFollowed' /\ Paths!QuietPathExact'
<1>1. /\ walk = "dentry" /\ place \notin seen /\ place \in Stands
      /\ place[1] \in Dentries /\ place[1] # Null /\ place[2] = Null
  BY StandFacts DEF Paths!DentryStep, PathTypes
<1>2. PICK d \in Dentries, up \in Dentries \cup {Null} : d = place[1] /\ up = parent[d]
  BY <1>1 DEF PathTypes
<1>3. PICK pushed : pushed = Paths!Pushed(d)
  OBVIOUS
<1>4. Paths!Counts(place) <=> name[d] = "named"
  BY <1>1, <1>2 DEF Paths!Counts, Paths!Contributes, Paths!AtMountRoot
<1>5. \/ pushed = <<place[1]>> /\ Paths!Counts(place)
      \/ pushed = <<>> /\ ~Paths!Counts(place)
  BY <1>2, <1>3, <1>4 DEF Paths!Pushed
<1>6. pushed \in Seq(Dentries)
  <2>1. <<place[1]>> \in Seq(Dentries) /\ <<>> \in Seq(Dentries)
    BY <1>1
  <2>2. QED
    BY <1>5, <2>1
<1>7. /\ Paths!Valid(place) /\ (Paths!AtTop(place) <=> up = d)
      /\ Paths!Above(place) = <<up, Null>>
  BY <1>1, <1>2 DEF Paths!Valid, Paths!AtTop, Paths!Above, Paths!AtMountRoot
<1>8. CASE up = Null /\ Paths!Stop("failed", pushed)
  <2>1. ~Paths!AtTop(place) /\ ~Paths!Valid(Paths!Above(place))
    BY <1>1, <1>2, <1>7, <1>8 DEF Paths!Valid
  <2>2. ~Paths!HasTop
    BY <1>1, <1>7, <2>1, NowhereAbove
  <2>3. QED
    BY <1>6, <1>8, <2>2, StopExact
<1>9. CASE up = d /\ Paths!Stop("done", pushed)
  BY <1>5, <1>7, <1>9, TopExact
<1>10. CASE up # Null /\ up # d /\ Len(components \o pushed) >= limit /\ Paths!Stop("failed", pushed)
  <2>1. UNCHANGED <<walk, parent, name, mroot, mparent, mpoint, begin>> /\ components' = components \o pushed
    BY <1>10 DEF Paths!Stop, Paths!memory
  <2>2. Len(components \o pushed) = Cardinality(Paths!CountedBelow(k + 1))
    BY <1>5, <2>1, TurnNames
  <2>3. ~(Paths!HasTop /\ Paths!Counted < limit)
    BY <1>7, <1>10, <2>2, TooManyNames
  <2>4. QED
    BY <1>6, <1>10, <2>3, StopExact
<1>11. CASE up # Null /\ up # d /\ Paths!Climb(<<up, Null>>, pushed)
  <2>1. PICK to : to = <<up, Null>>
    OBVIOUS
  <2>2. to \in Stands /\ to = Paths!Above(place) /\ Paths!Climb(to, pushed)
    BY <1>1, <1>7, <1>11, <2>1 DEF Stands
  <2>3. QED
    BY <1>1, <1>5, <1>7, <1>11, <2>2, ClimbExact
<1>12. \/ up = Null /\ Paths!Stop("failed", pushed)
       \/ up = d /\ Paths!Stop("done", pushed)
       \/ up # Null /\ up # d /\ Len(components \o pushed) >= limit /\ Paths!Stop("failed", pushed)
       \/ up # Null /\ up # d /\ Paths!Climb(<<up, Null>>, pushed)
  <2>1. CASE up = Null
    BY <1>1, <1>2, <1>3, <2>1 DEF Paths!DentryStep, Paths!Dentry
  <2>2. CASE up = d
    BY <1>1, <1>2, <1>3, <2>2 DEF Paths!DentryStep, Paths!Dentry
  <2>3. CASE up # Null /\ up # d
    BY <1>2, <1>3, <2>3 DEF Paths!DentryStep, Paths!Dentry
  <2>4. QED
    BY <2>1, <2>2, <2>3
<1>13. QED
  BY <1>8, <1>9, <1>10, <1>11, <1>12

\* At the root of a mount.
LEMMA RootFacts ==
  ASSUME PathTypes, walk = "mounted", mroot[place[2]] = place[1]
  PROVE  /\ Paths!AtMountRoot(place) /\ Paths!Valid(place) /\ ~Paths!Counts(place)
         /\ Paths!AtTop(place) <=> mparent[place[2]] = place[2]
         /\ Paths!Above(place) = <<mpoint[place[2]], mparent[place[2]]>>
         /\ place[2] \in Mounts /\ place[2] # Null /\ <<>> \in Seq(Dentries)
         /\ mpoint[place[2]] \in Dentries \cup {Null} /\ mparent[place[2]] \in Mounts \cup {Null}
<1>1. place \in Stands /\ place[1] # Null /\ place[2] \in Mounts /\ place[2] # Null
  BY StandFacts DEF PathTypes
<1>2. Paths!AtMountRoot(place)
  BY DEF Paths!AtMountRoot
<1>3. Paths!Valid(place) /\ ~Paths!Counts(place) /\ (Paths!AtTop(place) <=> mparent[place[2]] = place[2])
  BY <1>1, <1>2 DEF Paths!Valid, Paths!Counts, Paths!AtTop
<1>4. Paths!Above(place) = <<mpoint[place[2]], mparent[place[2]]>>
  BY <1>2 DEF Paths!Above
<1>5. mpoint[place[2]] \in Dentries \cup {Null} /\ mparent[place[2]] \in Mounts \cup {Null}
  BY <1>1 DEF PathTypes
<1>6. QED
  BY <1>1, <1>2, <1>3, <1>4, <1>5

\* mounted_path reads the parent of the mount.
LEMMA MountExact ==
  ASSUME PathInv, PathTypes, NEW k \in Nat, Climbed(k), Paths!MountStep
  PROVE  PathFollowed' /\ Paths!QuietPathExact'
<1>1. walk = "mounted" /\ place \notin seen /\ mroot[place[2]] = place[1]
  BY DEF Paths!MountStep, Paths!Mount, Paths!Dentry
<1>2. PICK up \in Mounts \cup {Null} : up = mparent[place[2]]
  BY <1>1, RootFacts
<1>3. CASE up = Null /\ Paths!Stop("failed", <<>>)
  <2>1. ~Paths!AtTop(place) /\ ~Paths!Valid(Paths!Above(place))
    BY <1>1, <1>2, <1>3, RootFacts DEF Paths!Valid
  <2>2. ~Paths!HasTop
    BY <1>1, <2>1, NowhereAbove, RootFacts
  <2>3. PICK pushed \in Seq(Dentries) : pushed = <<>>
    BY <1>1, RootFacts
  <2>4. QED
    BY <1>3, <2>2, <2>3, StopExact
<1>4. CASE up = place[2] /\ Paths!Stop("done", <<>>)
  <2>1. PICK pushed : pushed = <<>>
    OBVIOUS
  <2>2. QED
    BY <1>1, <1>2, <1>4, <2>1, RootFacts, TopExact
<1>5. CASE /\ up # Null /\ up # place[2] /\ phase' = "crossing" /\ upper' = up
           /\ UNCHANGED <<walk, limit, Paths!memory, changed, place, begin, seen, components>>
  <2>1. UNCHANGED <<walk, limit, parent, name, mroot, mparent, mpoint, begin, changed, place, seen, components>>
    BY <1>5 DEF Paths!memory
  <2>2. PathTypes'
    BY <2>1 DEF PathTypes, Stands
  <2>3. Paths!Path' = Paths!Path
    BY <2>1 DEF Paths!Path, Paths!Retained
  <2>4. Climbed(k)'
    <3>1. /\ Paths!PlaceAbove' = Paths!PlaceAbove
          /\ \A p : /\ Paths!Valid(p)' <=> Paths!Valid(p)
                    /\ Paths!AtTop(p)' <=> Paths!AtTop(p)
          /\ Paths!Contributions(k)' = Paths!Contributions(k)
          /\ Paths!CountedBelow(k)' = Paths!CountedBelow(k)
      BY <2>1, PathsStay
    <3>2. QED
      BY <2>1, <2>3, <3>1 DEF Climbed, Stands
  <2>5. Crossing'
    BY <1>1, <1>2, <1>5, <2>1 DEF Crossing, Paths!AtMountRoot
  <2>6. QED
    BY <1>5, <2>2, <2>4, <2>5 DEF PathFollowed, Paths!QuietPathExact
<1>6. \/ up = Null /\ Paths!Stop("failed", <<>>)
      \/ up = place[2] /\ Paths!Stop("done", <<>>)
      \/ /\ up # Null /\ up # place[2] /\ phase' = "crossing" /\ upper' = up
         /\ UNCHANGED <<walk, limit, Paths!memory, changed, place, begin, seen, components>>
  <2>1. place[2] # Null
    BY <1>1, RootFacts
  <2>2. CASE up = Null
    BY <1>2, <2>1, <2>2 DEF Paths!MountStep, Paths!Mount
  <2>3. CASE up = place[2]
    BY <1>2, <2>1, <2>3 DEF Paths!MountStep, Paths!Mount
  <2>4. CASE up # Null /\ up # place[2]
    BY <1>2, <2>4 DEF Paths!MountStep, Paths!Mount
  <2>5. QED
    BY <2>2, <2>3, <2>4
<1>7. QED
  BY <1>3, <1>4, <1>5, <1>6

\* It crosses over to the mountpoint.
LEMMA CrossExact ==
  ASSUME PathInv, PathTypes, NEW k \in Nat, Climbed(k), Crossing, Paths!Cross
  PROVE  PathFollowed' /\ Paths!QuietPathExact'
<1>1. /\ walk = "mounted" /\ place \notin seen /\ mroot[place[2]] = place[1]
      /\ upper = mparent[place[2]] /\ upper # place[2] /\ upper # Null
  BY DEF Paths!Cross, Crossing, Paths!AtMountRoot
<1>2. PICK d \in Dentries \cup {Null} : d = mpoint[place[2]]
  BY <1>1, RootFacts
<1>3. ~Paths!AtTop(place) /\ Paths!Valid(place) /\ Paths!Above(place) = <<d, upper>> /\ ~Paths!Counts(place)
  BY <1>1, <1>2, RootFacts
<1>4. PICK pushed \in Seq(Dentries) : pushed = <<>>
  BY <1>1, RootFacts
<1>5. CASE d = Null /\ Paths!Stop("failed", <<>>)
  <2>1. ~Paths!Valid(Paths!Above(place))
    BY <1>3, <1>5 DEF Paths!Valid
  <2>2. ~Paths!HasTop
    BY <1>1, <1>3, <2>1, NowhereAbove
  <2>3. QED
    BY <1>4, <1>5, <2>2, StopExact
<1>6. CASE d # Null /\ Paths!Climb(<<d, upper>>, <<>>)
  <2>1. PICK to : to = <<d, upper>>
    OBVIOUS
  <2>2. upper \in Mounts
    BY <1>1, RootFacts
  <2>3. to \in Stands /\ to = Paths!Above(place) /\ Paths!Climb(to, pushed)
    BY <1>1, <1>3, <1>4, <1>6, <2>1, <2>2 DEF Stands
  <2>4. PICK q : q = <<>>
    OBVIOUS
  <2>5. Paths!Climb(to, q)
    BY <1>4, <2>3, <2>4
  <2>6. QED
    BY <1>1, <1>3, <2>3, <2>4, <2>5, ClimbExact
<1>7. QED
  BY <1>2, <1>5, <1>6 DEF Paths!Cross, Paths!Mount

\* One turn of the loop of mounted_path below the root of the mount.
LEMMA BelowExact ==
  ASSUME PathInv, PathTypes, NEW k \in Nat, Climbed(k), Paths!BelowStep
  PROVE  PathFollowed' /\ Paths!QuietPathExact'
<1>1. walk = "mounted" /\ place \notin seen /\ mroot[place[2]] # place[1]
  BY DEF Paths!BelowStep, Paths!Mount, Paths!Dentry
<1>2. /\ place \in Stands /\ place[1] \in Dentries /\ place[1] # Null
      /\ place[2] \in Mounts /\ place[2] # Null
  BY <1>1, StandFacts DEF PathTypes
<1>3. PICK m \in Mounts, d \in Dentries, up \in Dentries \cup {Null} :
        m = place[2] /\ d = place[1] /\ up = parent[d]
  BY <1>2 DEF PathTypes
<1>4. ~Paths!AtMountRoot(place)
  BY <1>1 DEF Paths!AtMountRoot
<1>5. ~Paths!AtTop(place) /\ Paths!Counts(place) /\ Paths!Above(place) = <<up, m>>
  BY <1>1, <1>3, <1>4 DEF Paths!AtTop, Paths!Counts, Paths!Above
<1>6. Paths!Valid(place) <=> mroot[m] # Null
  BY <1>1, <1>2, <1>3 DEF Paths!Valid
<1>7. PICK empty \in Seq(Dentries) : empty = <<>>
  <2>1. <<>> \in Seq(Dentries)
    OBVIOUS
  <2>2. QED
    BY <2>1
<1>8. PICK pushed \in Seq(Dentries) : pushed = <<d>> /\ Len(components \o pushed) = Len(components) + 1
  <2>1. <<d>> \in Seq(Dentries) /\ Len(<<d>>) = 1
    OBVIOUS
  <2>2. components \in Seq(Dentries)
    BY DEF PathTypes
  <2>3. Len(components \o <<d>>) = Len(components) + 1
    BY <2>1, <2>2
  <2>4. QED
    BY <2>1, <2>3
<1>9. CASE mroot[m] = Null /\ Paths!Stop("failed", <<>>)
  <2>1. ~Paths!HasTop
    BY <1>6, <1>9, NowhereAbove
  <2>2. QED
    BY <1>7, <1>9, <2>1, StopExact
<1>10. CASE Len(components) + 1 >= limit /\ Paths!Stop("failed", <<d>>)
  <2>1. UNCHANGED <<walk, parent, name, mroot, mparent, mpoint, begin>> /\ components' = components \o pushed
    BY <1>8, <1>10 DEF Paths!Stop, Paths!memory
  <2>2. PICK q : q = <<place[1]>>
    OBVIOUS
  <2>3. components' = components \o q
    BY <1>3, <1>8, <2>1, <2>2
  <2>4. Len(components \o pushed) = Cardinality(Paths!CountedBelow(k + 1))
    BY <1>5, <2>1, <2>2, <2>3, TurnNames
  <2>5. ~(Paths!HasTop /\ Paths!Counted < limit)
    BY <1>5, <1>8, <1>10, <2>4, TooManyNames
  <2>6. QED
    BY <1>8, <1>10, <2>5, StopExact
<1>11. CASE mroot[m] # Null /\ up = Null /\ Paths!Stop("failed", <<d>>)
  <2>1. ~Paths!Valid(Paths!Above(place))
    BY <1>5, <1>11 DEF Paths!Valid
  <2>2. ~Paths!HasTop
    BY <1>1, <1>5, <1>6, <1>11, <2>1, NowhereAbove
  <2>3. QED
    BY <1>8, <1>11, <2>2, StopExact
<1>12. CASE mroot[m] # Null /\ up # Null /\ Paths!Climb(<<up, m>>, <<d>>)
  <2>1. PICK to : to = <<up, m>>
    OBVIOUS
  <2>2. PICK q : q = <<place[1]>>
    OBVIOUS
  <2>3. to \in Stands /\ to = Paths!Above(place) /\ Paths!Climb(to, q)
    BY <1>1, <1>3, <1>5, <1>12, <2>1, <2>2 DEF Stands
  <2>4. QED
    BY <1>1, <1>5, <1>6, <1>12, <2>2, <2>3, ClimbExact
<1>13. \/ mroot[m] = Null /\ Paths!Stop("failed", <<>>)
       \/ Len(components) + 1 >= limit /\ Paths!Stop("failed", <<d>>)
       \/ mroot[m] # Null /\ up = Null /\ Paths!Stop("failed", <<d>>)
       \/ mroot[m] # Null /\ up # Null /\ Paths!Climb(<<up, m>>, <<d>>)
  <2>1. CASE mroot[m] = Null
    BY <1>3, <2>1 DEF Paths!BelowStep, Paths!Mount, Paths!Dentry
  <2>2. CASE mroot[m] # Null /\ Len(components) + 1 >= limit
    BY <1>3, <2>2 DEF Paths!BelowStep, Paths!Mount, Paths!Dentry
  <2>3. CASE mroot[m] # Null /\ ~(Len(components) + 1 >= limit)
    BY <1>3, <2>3 DEF Paths!BelowStep, Paths!Mount, Paths!Dentry
  <2>4. QED
    BY <2>1, <2>2, <2>3
<1>14. QED
  BY <1>9, <1>10, <1>11, <1>12, <1>13

\* A step of the walk or of the guest is lost on a climb that was disturbed.
LEMMA DisturbedExact == Paths!Next /\ changed => PathFollowed' /\ Paths!QuietPathExact'
<1>1. Paths!Next => changed' = changed \/ changed' = TRUE
  BY DEF Paths!Next, Paths!Step, Paths!Repeated, Paths!DentryStep, Paths!MountStep,
         Paths!Cross, Paths!BelowStep, Paths!Climb, Paths!Stop, Paths!End, Paths!ReadFails,
         Paths!GuestMoves, Paths!GuestRemounts
<1>2. Paths!Next /\ changed => changed'
  BY <1>1, Zenon
<1>3. QED
  BY <1>2 DEF PathFollowed, Paths!QuietPathExact

\* Every step of a climb, and of the guest, keeps the invariant.
LEMMA PathNextExact == PathExactInv /\ Paths!Next => PathExactInv'
<1>1. SUFFICES ASSUME PathExactInv, Paths!Next, ~changed PROVE PathFollowed' /\ Paths!QuietPathExact'
  BY PathNext, DisturbedExact DEF PathExactInv
<1>2. PathInv /\ PathTypes
  BY <1>1 DEF PathExactInv, PathFollowed
<1>3. ASSUME Paths!Running PROVE Crossing /\ \E k \in Nat : Climbed(k)
  BY <1>1, <1>3 DEF PathExactInv, PathFollowed
<1>4. ASSUME NEW o \in {"failed", "unreadable"}, Paths!End(o)
      PROVE  PathFollowed' /\ phase' = o /\
             UNCHANGED <<walk, limit, parent, name, mroot, mparent, mpoint, begin, changed>>
  <2>1. /\ UNCHANGED <<walk, limit, parent, name, mroot, mparent, mpoint, begin, changed, place, components>>
        /\ phase' = o
    BY <1>4 DEF Paths!End, Paths!memory
  <2>2. PathTypes'
    BY <1>2, <2>1 DEF PathTypes, Stands
  <2>3. ~Paths!Running'
    BY <2>1 DEF Paths!Running
  <2>4. QED
    BY <2>1, <2>2, <2>3 DEF PathFollowed
<1>5. CASE Paths!Repeated
  <2>1. Paths!Running /\ place \in seen /\ Paths!End("failed")
    BY <1>5 DEF Paths!Repeated, Paths!Running
  <2>2. PICK k \in Nat : Climbed(k)
    BY <1>3, <2>1
  <2>3. ~Paths!HasTop
    BY <1>2, <2>1, <2>2, CircleAbove
  <2>4. QED
    BY <1>4, <2>1, <2>3, FailExact
<1>6. CASE Paths!DentryStep
  <2>1. PICK k \in Nat : Climbed(k)
    BY <1>3, <1>6 DEF Paths!DentryStep, Paths!Running
  <2>2. QED
    BY <1>2, <1>6, <2>1, DentryExact
<1>7. CASE Paths!MountStep
  <2>1. PICK k \in Nat : Climbed(k)
    BY <1>3, <1>7 DEF Paths!MountStep, Paths!Running
  <2>2. QED
    BY <1>2, <1>7, <2>1, MountExact
<1>8. CASE Paths!Cross
  <2>1. Crossing /\ \E k \in Nat : Climbed(k)
    BY <1>3, <1>8 DEF Paths!Cross, Paths!Running
  <2>2. QED
    BY <1>2, <1>8, <2>1, CrossExact
<1>9. CASE Paths!BelowStep
  <2>1. PICK k \in Nat : Climbed(k)
    BY <1>3, <1>9 DEF Paths!BelowStep, Paths!Running
  <2>2. QED
    BY <1>2, <1>9, <2>1, BelowExact
<1>10. CASE Paths!ReadFails
  <2>1. PathFollowed' /\ phase' = "unreadable"
    BY <1>4, <1>10 DEF Paths!ReadFails
  <2>2. QED
    BY <2>1 DEF Paths!QuietPathExact
<1>11. ASSUME NEW d, NEW up, Paths!GuestMoves(d, up) PROVE PathFollowed' /\ Paths!QuietPathExact'
  BY <1>11 DEF Paths!GuestMoves, PathFollowed, Paths!QuietPathExact
<1>12. ASSUME NEW m, NEW d, NEW up, Paths!GuestRemounts(m, d, up) PROVE PathFollowed' /\ Paths!QuietPathExact'
  BY <1>12 DEF Paths!GuestRemounts, PathFollowed, Paths!QuietPathExact
<1>13. QED
  BY <1>1, <1>5, <1>6, <1>7, <1>8, <1>9, <1>10, <1>11, <1>12 DEF Paths!Next, Paths!Step

\* Climbs begin so.
LEMMA PathInitExact == Paths!Init => PathExactInv
<1>1. SUFFICES ASSUME Paths!Init PROVE PathExactInv
  OBVIOUS
<1>2. /\ walk \in {"dentry", "mounted"} /\ limit \in 1 .. MaxLimit /\ phase = "walking"
      /\ place = begin /\ seen = {} /\ components = <<>>
  BY <1>1, PathAssumption DEF Paths!Init
<1>3. begin \in Stands
  BY <1>1, <1>2, PathAssumption DEF Paths!Init, Stands
<1>4. IsFiniteSet(seen) /\ Cardinality(seen) = 0
  BY <1>2, FS_EmptySet
<1>5. PathInv
  BY <1>2, <1>4, ListAssumption DEF PathInv
<1>6. walk = "mounted" =>
        /\ mroot \in [Mounts -> Dentries \cup {Null}]
        /\ mparent \in [Mounts -> Mounts \cup {Null}]
        /\ mpoint \in [Mounts -> Dentries \cup {Null}]
  BY <1>1 DEF Paths!Init, Paths!MountFields
<1>7. PathTypes
  BY <1>1, <1>2, <1>3, <1>6 DEF Paths!Init, PathTypes
<1>8. Climbed(0)
  <2>1. 0 \in 0 .. Paths!Height /\ place = Paths!PlaceAbove[0]
    BY <1>2, <1>7, HeightFacts, PlacesAbove
  <2>2. Len(components) = Cardinality(Paths!CountedBelow(0))
    BY <1>2, CountedNext
  <2>3. Paths!Path = Paths!Outward(Paths!Contributions(0))
    <3>1. Paths!Contributions(0) = <<>>
      BY <1>7, HeightFacts, ContributionsNext
    <3>2. [i \in 1 .. Len(components) |-> Paths!Retained(components[i])] = <<>>
      BY <1>2
    <3>3. QED
      BY <3>1, <3>2 DEF Paths!Path
  <2>4. 0 .. (0 - 1) = {}
    OBVIOUS
  <2>5. QED
    BY <1>2, <1>4, <2>1, <2>2, <2>3, <2>4 DEF Climbed
<1>9. Crossing /\ Paths!QuietPathExact
  BY <1>2 DEF Crossing, Paths!QuietPathExact
<1>10. QED
  BY <1>5, <1>7, <1>8, <1>9 DEF PathExactInv, PathFollowed

-----------------------------------------------------------------------------
(* What a query returns.                                                   *)

\* The inductive invariant of a query is that of its walk.
QueryExactInv ==
  /\ walk \in Walks \cup PathWalks \cup TableWalks
  /\ ListQuery => ListExactInv
  /\ PathQuery => PathExactInv
  /\ TableQuery => TableExactInv

\* A query begins with the invariant of its walk.
LEMMA InitQueryExact == InitQuery => QueryExactInv
<1>1. ASSUME Init PROVE QueryExactInv
  <2>1. ListQuery /\ ListExactInv
    BY <1>1, ListInitExact DEF Init, ListQuery
  <2>2. QED
    BY <2>1, OneKind DEF QueryExactInv, ListQuery
<1>2. ASSUME Paths!Init PROVE QueryExactInv
  <2>1. PathQuery /\ PathExactInv
    BY <1>2, PathInitExact DEF Paths!Init, PathQuery
  <2>2. QED
    BY <2>1, OneKind DEF QueryExactInv, PathQuery
<1>3. ASSUME Tables!Init PROVE QueryExactInv
  <2>1. TableQuery /\ TableExactInv
    BY <1>3, TableInitExact DEF Tables!Init, TableQuery
  <2>2. QED
    BY <2>1, OneKind DEF QueryExactInv, TableQuery
<1>4. QED
  BY <1>1, <1>2, <1>3 DEF InitQuery

\* Nothing happens to a list walk.
LEMMA ListStutters == ListExactInv /\ UNCHANGED vars => ListExactInv'
<1>1. SUFFICES ASSUME ListExactInv, UNCHANGED vars PROVE ListExactInv'
  OBVIOUS
<1>2. UNCHANGED <<walk, limit, next, changed, phase, node, bucket, seen, output>>
  BY <1>1 DEF vars
<1>3. /\ Chains' = Chains /\ Terminator' = Terminator /\ ListsInMemory' = ListsInMemory
      /\ \A s : AreEntries(s)' <=> AreEntries(s)
      /\ \A s, cut : ListedBy(s, cut)' <=> ListedBy(s, cut)
      /\ \A o, cut, c, p : PushedBy(o, cut, c, p)' <=> PushedBy(o, cut, c, p)
  BY <1>2, ListsStay
<1>4. ListInv /\ ListTypes => ListInv' /\ ListTypes'
  BY <1>2, <1>3 DEF ListInv, ListTypes
<1>5. \A s, cut : Along(s, cut)' <=> Along(s, cut)
  BY <1>2, <1>3 DEF Along
<1>6. ListAlong => ListAlong'
  BY <1>2, <1>3, <1>5 DEF ListAlong
<1>7. QuietWalkExact => QuietWalkExact'
  BY <1>2, <1>3 DEF QuietWalkExact, WithoutRepetition
<1>8. QED
  BY <1>1, <1>4, <1>6, <1>7 DEF ListExactInv

\* Nothing happens to a climb.
LEMMA PathStutters ==
  PathExactInv /\ UNCHANGED <<walk, limit, changed, phase, seen, pathVars>> => PathExactInv'
<1>1. SUFFICES ASSUME PathExactInv, UNCHANGED <<walk, limit, changed, phase, seen, pathVars>>
               PROVE  PathExactInv'
  OBVIOUS
<1>2. UNCHANGED <<walk, limit, changed, phase, seen, parent, name, mroot, mparent, mpoint,
                  place, upper, begin, components>>
  BY <1>1 DEF pathVars
<1>3. /\ Paths!PlaceAbove' = Paths!PlaceAbove
      /\ Paths!HasTop' <=> Paths!HasTop
      /\ Paths!ExpectedPath' = Paths!ExpectedPath
      /\ Paths!Counted' = Paths!Counted
      /\ \A p : /\ Paths!Valid(p)' <=> Paths!Valid(p)
                /\ Paths!AtTop(p)' <=> Paths!AtTop(p)
                /\ Paths!AtMountRoot(p)' <=> Paths!AtMountRoot(p)
      /\ \A n : /\ Paths!Contributions(n)' = Paths!Contributions(n)
                /\ Paths!CountedBelow(n)' = Paths!CountedBelow(n)
  BY <1>2, PathsStay
<1>4. Paths!Path' = Paths!Path /\ Stands' = Stands
  BY <1>2 DEF Paths!Path, Paths!Retained, Stands
<1>5. (PathInv => PathInv') /\ (PathTypes => PathTypes') /\ (Crossing => Crossing')
  BY <1>2, <1>3, <1>4 DEF PathInv, PathTypes, Crossing
<1>6. \A k \in Nat : Climbed(k) => Climbed(k)'
  BY <1>2, <1>3, <1>4 DEF Climbed
<1>7. PathFollowed => PathFollowed'
  BY <1>2, <1>5, <1>6 DEF PathFollowed, Paths!Running
<1>8. Paths!QuietPathExact => Paths!QuietPathExact'
  BY <1>2, <1>3, <1>4 DEF Paths!QuietPathExact
<1>9. QED
  BY <1>1, <1>5, <1>7, <1>8 DEF PathExactInv

\* Nothing happens to a walk over a table.
LEMMA TableStutters == TableExactInv /\ UNCHANGED Tables!vars => TableExactInv'
<1>1. SUFFICES ASSUME TableExactInv, UNCHANGED Tables!vars PROVE TableExactInv'
  OBVIOUS
<1>2. UNCHANGED <<walk, limit, phase, output, changed, memory, code, count, root, known, index,
                  reused, ever, always>>
  BY <1>1 DEF Tables!vars, Tables!tableVars
<1>3. /\ Tables!Reported' = Tables!Reported /\ Tables!OpenEntries' = Tables!OpenEntries
      /\ Tables!SameTable' <=> Tables!SameTable
  BY <1>2 DEF Tables!Reported, Tables!OpenEntries, Tables!Entry, Tables!Leaf, Tables!SameTable
<1>4. TableInv => TableInv'
  BY <1>2, <1>3 DEF TableInv
<1>5. TableState => TableState'
  BY <1>2, <1>3 DEF TableState, TableTypes, HandleTable, DescriptorTable, Histories, Tabling
<1>6. ReportedSoFar /\ Tables!TableExact => ReportedSoFar' /\ Tables!TableExact'
  BY <1>2, <1>3 DEF ReportedSoFar, Tables!TableExact
<1>7. QED
  BY <1>1, <1>4, <1>5, <1>6 DEF TableExactInv

\* Every step keeps the invariant of its own walk.
LEMMA QueryStepExact == QueryExactInv /\ [NextQuery]_queryVars => QueryExactInv'
<1> SUFFICES ASSUME QueryExactInv, [NextQuery]_queryVars PROVE QueryExactInv'
  OBVIOUS
<1>1. CASE UNCHANGED queryVars
  <2>1. UNCHANGED vars /\ UNCHANGED pathVars /\ UNCHANGED tableVars
    BY <1>1 DEF queryVars
  <2>2. UNCHANGED <<walk, limit, changed, phase, seen, pathVars>>
    BY <2>1 DEF vars
  <2>3. UNCHANGED Tables!vars
    BY <2>1 DEF vars, tableVars, Tables!vars, Tables!tableVars
  <2>4. QED
    BY <2>1, <2>2, <2>3, ListStutters, PathStutters, TableStutters
       DEF QueryExactInv, ListQuery, PathQuery, TableQuery
<1>2. CASE ListStepOrGuest
  <2>1. walk' = walk /\ ListQuery /\ ListExactInv'
    BY <1>2, WalkKept, ListNextExact DEF NextQuery, ListStepOrGuest, QueryExactInv
  <2>2. QED
    BY <2>1, OneKind DEF QueryExactInv, ListQuery, PathQuery, TableQuery
<1>3. CASE PathStepOrGuest
  <2>1. walk' = walk /\ PathQuery /\ PathExactInv'
    BY <1>3, WalkKept, PathNextExact DEF NextQuery, PathStepOrGuest, QueryExactInv
  <2>2. QED
    BY <2>1, OneKind DEF QueryExactInv, ListQuery, PathQuery, TableQuery
<1>4. CASE TableStepOrGuest
  <2>1. walk' = walk /\ TableQuery /\ TableExactInv'
    BY <1>4, WalkKept, TableNextExact DEF NextQuery, TableStepOrGuest, QueryExactInv
  <2>2. QED
    BY <2>1, OneKind DEF QueryExactInv, ListQuery, PathQuery, TableQuery
<1>5. QED
  BY <1>1, <1>2, <1>3, <1>4 DEF NextQuery

\* Whatever the links, dentries, mounts and tables of the guest are, a walk that
\* the guest does not disturb returns exactly the list, path or table in memory,
\* and fails only if the list is not closed or not within the limit, the ancestry
\* has no root within the limit, or the table is too long.  What a walk reports of
\* a table that changes meanwhile was open at some time, and it reports all that
\* was open throughout.
THEOREM QueriesExact == Queries => []WalkExact
<1>1. Queries => []QueryExactInv
  BY InitQueryExact, QueryStepExact, PTL DEF Queries
<1>2. QueryExactInv => WalkExact
  BY DEF QueryExactInv, ListExactInv, PathExactInv, TableExactInv, WalkExact
<1>3. QED
  BY <1>1, <1>2, PTL

-----------------------------------------------------------------------------
(* Loads of files.                                                         *)

\* All units that a file or a decoded stream of the model can have.
Units ==
  ArtifactUnits \union MapUnits \union JsonUnits \union RecordUnits \union SymbolUnits
  \union {<<"skip">>, <<"symbol", Min(SymbolNames), Min(Values)>>}

LoadTypes ==
  /\ maximum \in Nat
  /\ load # "pdb" => maximum <= Top
  /\ load = "prefix" => maximum < Top
  /\ file \in Seq(Units) /\ stream \in Seq(Units)
  /\ encoded \in Seq(Units) /\ data \in Seq(Units)
  /\ edits \in Nat

\* The lengths at each stage.  A PDB is compared when it is opened, and is as
\* long as then if nobody has changed it.
LoadLengths ==
  /\ stage \in {"reopen", "stream", "types"} => load = "pdb"
  /\ stage = "decode" => load = "kdmp"
  /\ stage \in {"open", "read", "reopen"} /\ load = "pdb" => data = <<>>
  /\ stage = "open" => data = <<>>
  /\ load # "pdb" => Len(data) <= CaptureLimit
  /\ load # "pdb" /\ stage \in {"read", "decode", "loaded"} => Len(data) <= maximum
  /\ load # "pdb" => Len(encoded) <= maximum
  /\ load = "pdb" => stage # "loaded"
  /\ load = "pdb" /\ edits = 0 => Len(data) <= maximum
  /\ stage = "stream" /\ edits = 0 => Len(file) <= maximum

Begins(s, t) == Len(s) <= Len(t) /\ \A i \in 1..Len(s) : s[i] = t[i]

\* What was captured is the beginning of what is read, unless others cut the
\* file or wrote over it.
LoadContents ==
  /\ edits = 0 => grown
  /\ stage \in {"open", "read"} /\ load # "pdb" /\ grown => Begins(data, file)
  /\ stage = "decode" => Begins(data, stream)
  /\ stage = "decode" /\ grown => Compressed(file)

LoadInv == LoadTypes /\ LoadLengths /\ LoadContents /\ LoadExact

\* A sequence that begins another one is cut from it, and is it if as long.
LEMMA BeginsFacts ==
  ASSUME NEW s \in Seq(Units), NEW t \in Seq(Units), Begins(s, t)
  PROVE  /\ s = SubSeq(t, 1, Len(s))
         /\ Len(t) <= Len(s) => s = t
         /\ Compressed(s) => Compressed(t)
<1>1. Len(s) \in Nat /\ Len(t) \in Nat /\ Len(s) <= Len(t)
  BY DEF Begins
<1>2. s = SubSeq(t, 1, Len(s))
  BY <1>1 DEF Begins
<1>3. s = SubSeq(s, 1, Len(s))
  BY <1>1
<1>4. Len(t) <= Len(s) => s = t
  BY <1>1 DEF Begins
<1>5. Compressed(s) => Compressed(t)
  BY <1>1 DEF Begins, Compressed
<1>6. QED
  BY <1>1, <1>2, <1>3, <1>4, <1>5

\* A chunk of t is appended to s.
LEMMA ChunkFacts ==
  ASSUME NEW s \in Seq(Units), NEW t \in Seq(Units), NEW n \in Nat, Len(s) + n <= Len(t),
         NEW r, r = s \o SubSeq(t, Len(s) + 1, Len(s) + n)
  PROVE  r \in Seq(Units) /\ Len(r) = Len(s) + n /\ (Begins(s, t) => Begins(r, t))
<1>1. PICK c : c = SubSeq(t, Len(s) + 1, Len(s) + n)
  OBVIOUS
<1>2. Len(s) \in Nat /\ Len(t) \in Nat
  OBVIOUS
<1>3. /\ c \in Seq(Units) /\ Len(c) = n
      /\ \A i \in 1..n : c[i] = t[Len(s) + i]
  BY <1>1, <1>2
<1>4. /\ r \in Seq(Units) /\ Len(r) = Len(s) + n
      /\ \A i \in 1..Len(r) : r[i] = IF i <= Len(s) THEN s[i] ELSE c[i - Len(s)]
  BY <1>1, <1>2, <1>3
<1>5. ASSUME Begins(s, t), NEW i \in 1..Len(r) PROVE r[i] = t[i]
  <2>1. CASE i <= Len(s)
    BY <1>2, <1>4, <1>5, <2>1 DEF Begins
  <2>2. CASE ~(i <= Len(s))
    <3>1. i - Len(s) \in 1..n /\ Len(s) + (i - Len(s)) = i
      BY <1>2, <1>4, <1>5, <2>2
    <3>2. QED
      BY <1>3, <1>4, <1>5, <2>2, <3>1
  <2>3. QED
    BY <2>1, <2>2
<1>6. QED
  BY <1>4, <1>5 DEF Begins

\* Sequences that UpTo enumerates.
LEMMA UpToUnits ==
  ASSUME NEW S, S \subseteq Units, NEW n \in Int
  PROVE  UpTo(S, n) \subseteq Seq(Units)
<1> SUFFICES ASSUME NEW k \in 0..n, NEW f \in [1..k -> S] PROVE f \in Seq(Units)
  BY DEF UpTo
<1>1. f \in [1..k -> Units] /\ k \in Nat
  OBVIOUS
<1>2. QED
  BY <1>1

\* A load begins within its limit and with nothing captured.
LEMMA InitLoads == LoadsInit => LoadInv
<1> SUFFICES ASSUME LoadsInit PROVE LoadInv
  OBVIOUS
<1>0. /\ Top \in Nat \ {0} /\ TextLimit \in Nat /\ TextLimit < Top /\ PdbLimit \in Nat
      /\ TextLength \in Nat
  BY LoadAssumption, ProfileAssumption
<1>1. Streams \subseteq Seq(Units) /\ UpTo(MapUnits, TextLength) \subseteq Seq(Units)
      /\ UpTo(JsonUnits, TextLength) \subseteq Seq(Units)
  <2>1. ArtifactUnits \subseteq Units /\ MapUnits \subseteq Units /\ JsonUnits \subseteq Units
    BY DEF Units
  <2>2. QED
    BY <1>0, <2>1, UpToUnits DEF Streams
<1>2. PdbFiles \subseteq Seq(Units)
  <2>1. SymbolUnits \union {<<"skip">>} \subseteq Units /\ RecordUnits \subseteq Units
    BY DEF Units
  <2>2. UpTo(SymbolUnits \union {<<"skip">>}, TextLength) \subseteq Seq(Units)
    BY <1>0, <2>1, UpToUnits
  <2>3. UpTo(RecordUnits, PdbLimit - 1) \subseteq Seq(Units)
    BY <1>0, <2>1, UpToUnits
  <2>4. PICK u : u = <<"symbol", Min(SymbolNames), Min(Values)>>
    OBVIOUS
  <2>5. u \in Units
    BY <2>4 DEF Units
  <2>6. ASSUME NEW t \in UpTo(RecordUnits, PdbLimit - 1) PROVE <<u>> \o t \in Seq(Units)
    BY <2>3, <2>5
  <2>7. QED
    BY <2>2, <2>4, <2>6 DEF PdbFiles
<1>3. ASSUME NEW kind, NEW limits, NEW contents, InitLoad(kind, limits, contents)
      PROVE  /\ load = kind /\ maximum \in limits /\ file \in contents
             /\ edits = 0 /\ grown /\ stage = "open" /\ stream = <<>>
             /\ encoded = <<>> /\ data = <<>>
  BY <1>3 DEF InitLoad
<1>4. /\ file \in Seq(Units)
      /\ edits = 0 /\ stage = "open" /\ stream = <<>>
      /\ encoded = <<>> /\ data = <<>>
      /\ maximum \in Nat
      /\ load # "pdb" => maximum <= Top
      /\ load = "prefix" => maximum < Top
  BY <1>0, <1>1, <1>2, <1>3 DEF LoadsInit
<1>5. grown
  BY <1>3 DEF LoadsInit
<1>6. LoadTypes
  BY <1>4 DEF LoadTypes
<1>7. LoadLengths
  BY <1>0, <1>4 DEF LoadLengths, CaptureLimit
<1>8. LoadContents
  BY <1>4, <1>5 DEF LoadContents, Begins
<1>9. LoadExact
  BY <1>4 DEF LoadExact, Loaded
<1>10. QED
  BY <1>6, <1>7, <1>8, <1>9 DEF LoadInv

\* What a step leaves alone that only moves the load on.
Kept == UNCHANGED <<load, maximum, file, edits, grown, stream, encoded, data>>

\* A load ends without a result, or goes on with what it has.
LEMMA StageMoves ==
  ASSUME LoadInv, Kept,
         \/ stage' \in {"unreadable", "parsed", "malformed"}
         \/ stage' = stage
         \/ stage' = "reopen" /\ load = "pdb" /\ data = <<>>
  PROVE  LoadInv'
<1>1. LoadTypes'
  BY DEF LoadInv, LoadTypes, Kept
<1>2. LoadLengths'
  BY DEF LoadInv, LoadLengths, CaptureLimit, Kept
<1>3. LoadContents'
  BY DEF LoadInv, LoadContents, Begins, Compressed, Kept
<1>4. LoadExact'
  BY DEF LoadInv, LoadExact, Loaded, Compressed, IsPageDump, Kept
<1>5. QED
  BY <1>1, <1>2, <1>3, <1>4 DEF LoadInv

\* A load is refused: there is a reason if nobody has changed the file.
LEMMA Refused ==
  ASSUME LoadInv, Kept, stage' = "refused",
         edits = 0 =>
           \/ maximum = 0 \/ Len(file) > maximum
           \/ load = "kdmp" /\ Compressed(file) /\ (Len(stream) > maximum \/ ~IsPageDump(stream))
  PROVE  LoadInv'
<1>1. LoadTypes'
  BY DEF LoadInv, LoadTypes, Kept
<1>2. LoadLengths'
  BY DEF LoadInv, LoadLengths, CaptureLimit, Kept
<1>3. LoadContents'
  BY DEF LoadInv, LoadContents, Begins, Compressed, Kept
<1>4. LoadExact'
  BY DEF LoadExact, Loaded, Compressed, IsPageDump, Kept
<1>5. QED
  BY <1>1, <1>2, <1>3, <1>4 DEF LoadInv

\* The size is compared.
LEMMA InspectKeeps == LoadInv /\ Inspect => LoadInv'
<1> SUFFICES ASSUME LoadInv, Inspect PROVE LoadInv'
  OBVIOUS
<1>1. stage = "open" /\ load # "pdb" /\ Kept
  BY DEF Inspect, EndLoad, Kept
<1>2. CASE stage' = "refused" /\ (maximum = 0 \/ Len(file) > maximum)
  BY <1>1, <1>2, Refused
<1>3. CASE stage' = "read"
  <2>1. LoadTypes'
    BY <1>1 DEF LoadInv, LoadTypes, Kept
  <2>2. LoadLengths'
    <3>1. data = <<>> /\ maximum \in Nat
      BY <1>1 DEF LoadInv, LoadLengths, LoadTypes
    <3>2. Len(data') <= maximum'
      BY <1>1, <3>1 DEF Kept
    <3>3. QED
      BY <1>1, <1>3, <3>1, <3>2 DEF LoadInv, LoadLengths, CaptureLimit, Kept
  <2>3. LoadContents'
    BY <1>1, <1>3 DEF LoadInv, LoadContents, Begins, Compressed, Kept
  <2>4. LoadExact'
    BY <1>3 DEF LoadExact, Loaded
  <2>5. QED
    BY <2>1, <2>2, <2>3, <2>4 DEF LoadInv
<1>4. QED
  BY <1>2, <1>3 DEF Inspect, EndLoad

\* What is read from is typed, and what was captured begins it.
LEMMA SourceFacts ==
  ASSUME LoadInv, Reading
  PROVE  /\ load # "pdb" /\ Source \in Seq(Units) /\ data \in Seq(Units)
         /\ maximum \in Nat /\ Top \in Nat
         /\ Len(data) \in Nat /\ Len(Source) \in Nat /\ Len(data) <= maximum
         /\ CaptureLimit = IF load = "prefix" \/ maximum = Top THEN maximum ELSE maximum + 1
         /\ Available = IF Len(Source) > Len(data) THEN Len(Source) - Len(data) ELSE 0
         /\ stage \in {"read", "decode"}
         /\ stage = "read" => Source = file
         /\ stage = "decode" => Source = stream /\ load = "kdmp"
         /\ stage = "decode" \/ grown => Begins(data, Source)
         /\ edits = 0 => grown
<1>1. stage \in {"read", "decode"} /\ load # "pdb"
  BY DEF Reading
<1>2. /\ maximum \in Nat /\ Top \in Nat /\ file \in Seq(Units) /\ stream \in Seq(Units)
      /\ data \in Seq(Units)
  BY LoadAssumption DEF LoadInv, LoadTypes
<1>3. CaptureLimit = IF load = "prefix" \/ maximum = Top THEN maximum ELSE maximum + 1
  BY DEF CaptureLimit
<1>4. Len(data) <= maximum /\ (stage = "decode" => load = "kdmp")
  BY <1>1 DEF LoadInv, LoadLengths
<1>5. /\ stage = "read" => Source = file
      /\ stage = "decode" => Source = stream
  BY DEF Source
<1>6. /\ stage = "decode" \/ grown => Begins(data, Source)
      /\ edits = 0 => grown
  BY <1>1, <1>5 DEF LoadInv, LoadContents
<1>7. QED
  BY <1>1, <1>2, <1>3, <1>4, <1>5, <1>6 DEF Available

\* A chunk is read and the length compared again.
LEMMA ReadChunkKeeps ==
  ASSUME LoadInv, NEW amount \in 1..ChunkSize, ReadChunk(amount)
  PROVE  LoadInv'
<1>1. Reading /\ amount \in Nat /\ amount >= 1
  BY LoadAssumption DEF ReadChunk
<1>2. /\ load # "pdb" /\ Source \in Seq(Units) /\ data \in Seq(Units)
      /\ maximum \in Nat /\ Top \in Nat
      /\ Len(data) \in Nat /\ Len(Source) \in Nat /\ Len(data) <= maximum
      /\ CaptureLimit = IF load = "prefix" \/ maximum = Top THEN maximum ELSE maximum + 1
      /\ Available = IF Len(Source) > Len(data) THEN Len(Source) - Len(data) ELSE 0
      /\ stage \in {"read", "decode"}
      /\ stage = "read" => Source = file
      /\ stage = "decode" => Source = stream /\ load = "kdmp"
      /\ stage = "decode" \/ grown => Begins(data, Source)
      /\ edits = 0 => grown
  BY <1>1, SourceFacts
<1>3. Len(data) + amount <= Len(Source) /\ Len(data) + amount <= CaptureLimit
  BY <1>1, <1>2 DEF ReadChunk, Remaining
<1>4. /\ data' \in Seq(Units) /\ Len(data') = Len(data) + amount
      /\ Begins(data, Source) => Begins(data', Source)
  <2>1. PICK r : r = data'
    OBVIOUS
  <2>2. r = data \o SubSeq(Source, Len(data) + 1, Len(data) + amount)
    BY <2>1 DEF ReadChunk
  <2>3. /\ data \in Seq(Units) /\ Source \in Seq(Units) /\ amount \in Nat
        /\ Len(data) + amount <= Len(Source)
    BY <1>1, <1>2, <1>3
  <2>4. r \in Seq(Units) /\ Len(r) = Len(data) + amount /\ (Begins(data, Source) => Begins(r, Source))
    BY <2>2, <2>3, ChunkFacts DEF Begins
  <2>5. QED
    BY <2>1, <2>4
<1>5. /\ stage' = IF load # "prefix" /\ Len(data') > maximum THEN "refused" ELSE stage
      /\ UNCHANGED <<load, maximum, file, edits, grown, stream, encoded>>
  BY DEF ReadChunk, TooLong
<1>6. LoadTypes'
  BY <1>4, <1>5 DEF LoadInv, LoadTypes
<1>7. LoadLengths'
  <2>1. CaptureLimit' = CaptureLimit /\ Len(data') <= CaptureLimit
    BY <1>3, <1>4, <1>5 DEF CaptureLimit
  <2>2. stage' \in {"read", "decode"} => Len(data') <= maximum
    BY <1>2, <1>4, <1>5, <2>1
  <2>3. stage' \in {"read", "decode", "refused"} /\ (stage' = "decode" => load = "kdmp")
    BY <1>2, <1>5
  <2>4. Len(encoded) <= maximum
    BY <1>2 DEF LoadInv, LoadLengths
  <2>5. QED
    BY <1>2, <1>5, <2>1, <2>2, <2>3, <2>4 DEF LoadLengths
<1>8. LoadContents'
  <2>1. stage' = "read" => stage = "read" /\ Source = file
    BY <1>2, <1>5
  <2>2. stage' = "decode" => stage = "decode" /\ Source = stream
    BY <1>2, <1>5
  <2>3. stage' \in {"read", "decode", "refused"}
    BY <1>2, <1>5
  <2>4. /\ stage' = "read" /\ grown => Begins(data', file)
        /\ stage' = "decode" => Begins(data', stream)
        /\ stage' = "decode" /\ grown => Compressed(file)
    BY <1>2, <1>4, <2>1, <2>2 DEF LoadInv, LoadContents
  <2>5. QED
    BY <1>2, <1>5, <2>3, <2>4 DEF LoadContents, Begins, Compressed
<1>9. LoadExact'
  <2>1. stage' # "loaded"
    BY <1>2, <1>5
  <2>2. ASSUME stage' = "refused", edits = 0
        PROVE  \/ Len(file) > maximum
               \/ load = "kdmp" /\ Compressed(file) /\ Len(stream) > maximum
    <3>1. Len(data') > maximum
      BY <1>2, <1>5, <2>2
    <3>2. Len(Source) > maximum
      BY <1>2, <1>3, <1>4, <3>1
    <3>3. stage = "decode" => Compressed(file)
      BY <1>2, <2>2 DEF LoadInv, LoadContents
    <3>4. QED
      BY <1>2, <3>2, <3>3
  <2>3. QED
    BY <1>5, <2>1, <2>2 DEF LoadExact, Loaded, Compressed
<1>10. QED
  BY <1>6, <1>7, <1>8, <1>9 DEF LoadInv

\* The loop was left at the end of what is read, or a prefix is complete.
LEMMA CapturedKeeps ==
  ASSUME LoadInv, Reading, NEW decoded \in Streams, Captured(decoded),
         \/ Len(Source) <= Len(data)
         \/ load = "prefix" /\ Len(data) >= maximum
  PROVE  LoadInv'
<1>2. /\ load # "pdb" /\ Source \in Seq(Units) /\ data \in Seq(Units)
      /\ maximum \in Nat /\ Top \in Nat
      /\ Len(data) \in Nat /\ Len(Source) \in Nat /\ Len(data) <= maximum
      /\ stage \in {"read", "decode"}
      /\ stage = "read" => Source = file
      /\ stage = "decode" => Source = stream /\ load = "kdmp"
      /\ stage = "decode" \/ grown => Begins(data, Source)
      /\ edits = 0 => grown
  BY SourceFacts
<1>3. ASSUME Begins(data, Source)
      PROVE  /\ data = SubSeq(Source, 1, Len(data))
             /\ Len(Source) <= Len(data) => data = Source
             /\ Compressed(data) => Compressed(Source)
  BY <1>2, <1>3, BeginsFacts
<1>4. CASE stage = "read" /\ load = "kdmp" /\ Compressed(data)
  <2>1. /\ stage' = "decode" /\ stream' = decoded /\ encoded' = data /\ data' = <<>>
        /\ UNCHANGED <<load, maximum, file, edits, grown>>
    BY <1>4 DEF Captured
  <2>2. decoded \in Seq(Units)
    <3>1. ArtifactUnits \subseteq Units /\ TextLength \in Int
      BY ProfileAssumption DEF Units
    <3>2. QED
      BY <3>1, UpToUnits DEF Streams
  <2>3. LoadTypes'
    BY <2>1, <2>2 DEF LoadInv, LoadTypes
  <2>4. LoadLengths'
    BY <1>2, <1>4, <2>1 DEF LoadLengths, CaptureLimit
  <2>5. LoadContents'
    <3>1. grown => Compressed(file)
      BY <1>2, <1>3, <1>4
    <3>2. Begins(<<>>, decoded)
      BY <2>2 DEF Begins
    <3>3. QED
      BY <1>2, <2>1, <3>1, <3>2 DEF LoadContents, Compressed
  <2>6. LoadExact'
    BY <2>1 DEF LoadExact, Loaded
  <2>7. QED
    BY <2>3, <2>4, <2>5, <2>6 DEF LoadInv
<1>5. CASE ~(stage = "read" /\ load = "kdmp" /\ Compressed(data))
  <2>1. Kept /\ stage' = IF stage = "decode" /\ ~IsPageDump(data) THEN "refused" ELSE "loaded"
    BY <1>5 DEF Captured, EndLoad, Kept
  <2>2. CASE stage = "decode"
    <3>1. data = stream
      BY <1>2, <1>3, <2>2
    <3>2. grown => Compressed(file)
      BY <2>2 DEF LoadInv, LoadContents
    <3>3. CASE ~IsPageDump(data)
      BY <1>2, <2>1, <2>2, <3>1, <3>2, <3>3, Refused
    <3>4. CASE IsPageDump(data)
      <4>1. stage' = "loaded" /\ load = "kdmp"
        BY <1>2, <2>1, <2>2, <3>4
      <4>2. LoadTypes'
        BY <2>1 DEF LoadInv, LoadTypes, Kept
      <4>3. LoadLengths'
        BY <1>2, <2>1, <4>1 DEF LoadInv, LoadLengths, CaptureLimit, Kept
      <4>4. LoadContents'
        BY <2>1, <4>1 DEF LoadInv, LoadContents, Kept
      <4>5. LoadExact'
        BY <1>2, <2>1, <3>1, <3>2, <4>1 DEF LoadExact, Loaded, Compressed, Kept
      <4>6. QED
        BY <4>2, <4>3, <4>4, <4>5 DEF LoadInv
    <3>5. QED
      BY <3>3, <3>4
  <2>3. CASE stage = "read"
    <3>1. stage' = "loaded"
      BY <2>1, <2>3
    <3>2. LoadTypes'
      BY <2>1 DEF LoadInv, LoadTypes, Kept
    <3>3. LoadLengths'
      BY <1>2, <2>1, <3>1 DEF LoadInv, LoadLengths, CaptureLimit, Kept
    <3>4. LoadContents'
      BY <2>1, <3>1 DEF LoadInv, LoadContents, Kept
    <3>5. LoadExact'
      <4>2. ASSUME grown, load = "prefix", Len(file) > maximum
            PROVE  data = SubSeq(file, 1, maximum)
        <5>1. Len(data) = maximum
          BY <1>2, <2>3, <4>2
        <5>2. QED
          BY <1>2, <1>3, <2>3, <4>2, <5>1
      <4>3. ASSUME grown, load # "prefix" \/ ~(Len(file) > maximum) PROVE data = file
        <5>1. Len(file) <= Len(data)
          BY <1>2, <2>3, <4>3
        <5>2. QED
          BY <1>2, <1>3, <2>3, <4>3, <5>1
      <4>4. grown => ~(load = "kdmp" /\ Compressed(file))
        BY <1>5, <2>3, <4>3
      <4>5. /\ load' = load /\ maximum' = maximum /\ file' = file /\ edits' = edits
            /\ (grown' <=> grown) /\ stream' = stream /\ data' = data
            /\ Compressed(file)' = Compressed(file)
        BY <2>1 DEF Kept
      <4>6. QED
        BY <1>2, <3>1, <4>2, <4>3, <4>4, <4>5 DEF LoadExact, Loaded
    <3>6. QED
      BY <3>2, <3>3, <3>4, <3>5 DEF LoadInv
  <2>4. QED
    BY <1>2, <2>2, <2>3
<1>6. QED
  BY <1>4, <1>5

\* The loop is left.
LEMMA LeaveKeeps ==
  ASSUME LoadInv, NEW decoded \in Streams, EndOfFile(decoded) \/ Full(decoded)
  PROVE  LoadInv'
<1>1. Reading
  BY DEF EndOfFile, Full
<1>2. /\ load # "pdb" /\ Source \in Seq(Units) /\ data \in Seq(Units)
      /\ maximum \in Nat /\ Top \in Nat
      /\ Len(data) \in Nat /\ Len(Source) \in Nat /\ Len(data) <= maximum
      /\ CaptureLimit = IF load = "prefix" \/ maximum = Top THEN maximum ELSE maximum + 1
      /\ Available = IF Len(Source) > Len(data) THEN Len(Source) - Len(data) ELSE 0
      /\ stage \in {"read", "decode"}
      /\ stage = "read" => Source = file
      /\ stage = "decode" => Source = stream /\ load = "kdmp"
      /\ edits = 0 => grown
  BY <1>1, SourceFacts
<1>3. CASE EndOfFile(decoded)
  <2>1. Len(Source) <= Len(data) /\ Captured(decoded)
    BY <1>2, <1>3 DEF EndOfFile
  <2>2. QED
    BY <1>1, <2>1, CapturedKeeps
<1>4. CASE Full(decoded)
  <2>1. Len(data) >= maximum
    BY <1>2, <1>4 DEF Full, Remaining
  <2>2. CASE load # "prefix" /\ Available > 0
    <3>1. stage' = "refused" /\ Kept
      BY <1>4, <2>2 DEF Full, EndLoad, Kept
    <3>2. Len(Source) > maximum
      BY <1>2, <2>1, <2>2
    <3>3. stage = "decode" /\ edits = 0 => Compressed(file)
      BY <1>2 DEF LoadInv, LoadContents
    <3>4. edits = 0 =>
           \/ maximum = 0 \/ Len(file) > maximum
           \/ load = "kdmp" /\ Compressed(file) /\ (Len(stream) > maximum \/ ~IsPageDump(stream))
      BY <1>2, <3>2, <3>3
    <3>5. QED
      BY <3>1, <3>4, Refused
  <2>3. CASE ~(load # "prefix" /\ Available > 0)
    <3>1. Captured(decoded)
      BY <1>4, <2>3 DEF Full
    <3>2. \/ Len(Source) <= Len(data)
          \/ load = "prefix" /\ Len(data) >= maximum
      BY <1>2, <2>1, <2>3
    <3>3. QED
      BY <1>1, <3>1, <3>2, CapturedKeeps
  <2>4. QED
    BY <2>2, <2>3
<1>5. QED
  BY <1>3, <1>4

\* Others change the file.
LEMMA EditedKeeps ==
  ASSUME LoadInv, NEW contents \in Seq(Units), NEW appended \in BOOLEAN,
         Edited(contents, appended), appended /\ Begins(data, file) => Begins(data, contents)
  PROVE  LoadInv'
<1>1. /\ stage \in {"open", "read", "reopen", "stream"} /\ file' = contents
      /\ edits' = edits + 1
      /\ UNCHANGED <<load, maximum, stage, stream, encoded, data>>
  BY DEF Edited
<1>2. grown' => grown /\ appended
  BY Zenon DEF Edited
<1>3. edits' \in Nat /\ edits' # 0
  BY <1>1 DEF LoadInv, LoadTypes
<1>4. LoadTypes'
  BY <1>1, <1>3 DEF LoadInv, LoadTypes
<1>5. LoadLengths'
  BY <1>1, <1>3 DEF LoadInv, LoadLengths, CaptureLimit
<1>6. LoadContents'
  <2>1. stage' \in {"open", "read"} /\ load' # "pdb" /\ grown' => Begins(data, contents)
    BY <1>1, <1>2 DEF LoadInv, LoadContents
  <2>2. Begins(data, contents) => Begins(data', file')
    BY <1>1
  <2>3. QED
    BY <1>1, <1>3, <2>1, <2>2 DEF LoadContents, Begins
<1>7. LoadExact'
  BY <1>1 DEF LoadExact, Loaded
<1>8. QED
  BY <1>4, <1>5, <1>6, <1>7 DEF LoadInv

\* The three ways to change it.
LEMMA EditKeeps ==
  ASSUME LoadInv, EditStep(Foreign)
  PROVE  LoadInv'
<1>0. file \in Seq(Units) /\ data \in Seq(Units) /\ Len(file) \in Nat /\ Len(data) \in Nat
  BY DEF LoadInv, LoadTypes
<1>1. Foreign \subseteq Units
  BY DEF Foreign, Units
<1>2. ASSUME NEW unit \in Foreign, Grow(unit) PROVE LoadInv'
  <2>1. PICK c : c = Append(file, unit)
    OBVIOUS
  <2>2. c \in Seq(Units) /\ Len(c) = Len(file) + 1 /\ \A i \in 1..Len(file) : c[i] = file[i]
    BY <1>0, <1>1, <2>1
  <2>3. Begins(data, file) => Begins(data, c)
    BY <1>0, <2>2 DEF Begins
  <2>4. Edited(c, TRUE)
    BY <1>2, <2>1 DEF Grow
  <2>5. QED
    BY <2>2, <2>3, <2>4, EditedKeeps
<1>3. ASSUME NEW length \in 0..MaxLength, Cut(length) PROVE LoadInv'
  <2>1. SubSeq(file, 1, length) \in Seq(Units)
    <3>1. length \in Nat /\ length < Len(file)
      BY <1>3, LoadAssumption DEF Cut
    <3>2. QED
      BY <1>0, <3>1
  <2>2. Edited(SubSeq(file, 1, length), FALSE)
    BY <1>3 DEF Cut
  <2>3. QED
    BY <2>1, <2>2, EditedKeeps
<1>4. ASSUME NEW i \in 1..MaxLength, NEW unit \in Foreign, Overwrite(i, unit) PROVE LoadInv'
  <2>1. [file EXCEPT ![i] = unit] \in Seq(Units)
    <3>1. unit \in Units
      BY <1>1
    <3>2. PICK n \in Nat : n = Len(file)
      BY <1>0
    <3>3. file \in [1..n -> Units]
      BY <1>0, <3>2
    <3>4. PICK c : c = [file EXCEPT ![i] = unit]
      OBVIOUS
    <3>5. c \in [1..n -> Units]
      BY <3>1, <3>3, <3>4
    <3>6. c \in Seq(Units)
      BY <3>2, <3>5
    <3>7. QED
      BY <3>4, <3>6
  <2>2. Edited([file EXCEPT ![i] = unit], FALSE)
    BY <1>4 DEF Overwrite
  <2>3. QED
    BY <2>1, <2>2, EditedKeeps
<1>5. QED
  BY <1>2, <1>3, <1>4 DEF EditStep

\* Texts are parsed, and a PDB is opened, read, opened again and read.
LEMMA ParseKeeps == LoadInv /\ ParseStep => LoadInv'
<1> SUFFICES ASSUME LoadInv, ParseStep PROVE LoadInv'
  OBVIOUS
<1>1. CASE ParseSystemMap \/ ParseJson
  <2>1. Kept /\ stage' \in {"parsed", "malformed"}
    BY <1>1 DEF ParseSystemMap, ParseJson, Finish, Kept
  <2>2. QED
    BY <2>1, StageMoves
<1>2. CASE OpenPdb \/ ReopenPdb
  <2>1. /\ Kept /\ load = "pdb" /\ data = <<>>
        /\ \/ Len(file) > maximum /\ stage' = "refused"
           \/ ~(Len(file) > maximum) /\ stage' \in {"read", "stream"}
    BY <1>2 DEF OpenPdb, ReopenPdb, Finish, Kept, LoadInv, LoadLengths
  <2>2. CASE Len(file) > maximum /\ stage' = "refused"
    BY <2>1, <2>2, Refused
  <2>3. CASE ~(Len(file) > maximum) /\ stage' \in {"read", "stream"}
    <3>1. Len(file) \in Nat /\ maximum \in Nat /\ Len(file) <= maximum
      BY <2>3 DEF LoadInv, LoadTypes
    <3>2. LoadTypes'
      BY <2>1 DEF LoadInv, LoadTypes, Kept
    <3>3. LoadLengths'
      BY <2>1, <2>3, <3>1 DEF LoadInv, LoadLengths, Kept
    <3>4. LoadContents'
      BY <2>1, <2>3 DEF LoadInv, LoadContents, Kept
    <3>5. LoadExact'
      BY <2>3 DEF LoadExact, Loaded
    <3>6. QED
      BY <3>2, <3>3, <3>4, <3>5 DEF LoadInv
  <2>4. QED
    BY <2>1, <2>2, <2>3
<1>3. CASE ReadPdbSymbols
  <2>1. /\ Kept /\ load = "pdb" /\ data = <<>>
        /\ stage' \in {"reopen", "malformed"}
    BY <1>3 DEF ReadPdbSymbols, Finish, Kept, LoadInv, LoadLengths
  <2>2. QED
    BY <2>1, StageMoves
<1>4. CASE ReadPdbTypes
  <2>1. /\ stage = "stream" /\ stage' = "types" /\ data' = file /\ load = "pdb"
        /\ UNCHANGED <<load, maximum, file, edits, grown, stream, encoded>>
    BY <1>4 DEF ReadPdbTypes, LoadInv, LoadLengths
  <2>2. LoadTypes'
    BY <2>1 DEF LoadInv, LoadTypes
  <2>3. LoadLengths'
    BY <2>1 DEF LoadInv, LoadLengths
  <2>4. LoadContents'
    BY <2>1 DEF LoadInv, LoadContents
  <2>5. LoadExact'
    BY <2>1 DEF LoadExact, Loaded
  <2>6. QED
    BY <2>2, <2>3, <2>4, <2>5 DEF LoadInv
<1>5. CASE NextClass \/ ReadFieldList
  <2>1. Kept /\ stage' \in {"parsed", "malformed", stage}
    BY <1>5 DEF NextClass, ReadFieldList, Finish, Kept, loadVars
  <2>2. QED
    BY <2>1, StageMoves
<1>6. QED
  BY <1>1, <1>2, <1>3, <1>4, <1>5 DEF ParseStep, PdbStep

\* Every step keeps the invariant.
LEMMA LoadsStep == LoadInv /\ [LoadsNext]_loadsVars => LoadInv'
<1> SUFFICES ASSUME LoadInv, [LoadsNext]_loadsVars PROVE LoadInv'
  OBVIOUS
<1>1. CASE LoadStep(Streams)
  BY <1>1, InspectKeeps, ReadChunkKeeps, LeaveKeeps DEF LoadStep
<1>2. CASE LoadFails
  <2>1. Kept /\ stage' = "unreadable"
    BY <1>2 DEF LoadFails, EndLoad, Kept
  <2>2. QED
    BY <2>1, StageMoves
<1>3. CASE UNCHANGED loadsVars
  <2>1. Kept /\ stage' = stage
    BY <1>3 DEF loadsVars, loadVars, Kept
  <2>2. QED
    BY <2>1, StageMoves
<1>4. QED
  BY <1>1, <1>2, <1>3, ParseKeeps, EditKeeps DEF LoadsNext, LoadSteps

\* The invariant holds of every load.
LEMMA LoadsInvariant == LoadsSpec => []LoadInv
<1>1. QED
  BY InitLoads, LoadsStep, PTL DEF LoadsSpec

\* Whatever others do to a file, and whatever a decoder produces, a load holds at
\* most one unit more than its limit, or than twice its limit while a compressed
\* dump is held beside what is decoded from it, and returns at most its limit; a
\* PDB is within it if nobody changes it.
THEOREM LoadsBounded == LoadsSpec => []LoadBounded
<1>1. LoadInv => LoadBounded
  <2> SUFFICES ASSUME LoadInv PROVE LoadBounded
    OBVIOUS
  <2>1. maximum \in Nat /\ Top \in Nat /\ Len(data) \in Nat /\ Len(encoded) \in Nat
    BY LoadAssumption DEF LoadInv, LoadTypes
  <2>2. encoded = <<>> => Len(encoded) = 0
    OBVIOUS
  <2>3. 1 * maximum = maximum /\ 2 * maximum = maximum + maximum
    BY <2>1
  <2>4. CASE load = "pdb"
    BY <2>4 DEF LoadInv, LoadLengths, LoadBounded
  <2>5. CASE load # "pdb"
    <3>1. /\ Len(encoded) <= maximum
          /\ Len(data) <= maximum + (IF maximum < Top THEN 1 ELSE 0)
          /\ stage = "loaded" => Len(data) <= maximum
      BY <2>1, <2>5 DEF LoadInv, LoadTypes, LoadLengths, CaptureLimit
    <3>2. QED
      BY <2>1, <2>2, <2>3, <2>5, <3>1 DEF LoadBounded
  <2>6. QED
    BY <2>4, <2>5
<1>2. QED
  BY <1>1, LoadsInvariant, PTL

\* A load of a file that at most grows returns the file as it was when its end was
\* met, its prefix or the decoded dump; one that nobody disturbs is refused only
\* for a reason.
THEOREM LoadsExact == LoadsSpec => []LoadExact
<1>1. LoadInv => LoadExact
  BY DEF LoadInv
<1>2. QED
  BY <1>1, LoadsInvariant, PTL

=============================================================================
