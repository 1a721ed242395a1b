----------------------------- MODULE GuestPaths -----------------------------
(***************************************************************************)
(* LinuxIntrospector::dentry_path and mounted_path: the reconstruction of  *)
(* a path from the dentries and mounts of a guest that may be running.     *)
(* Both climb from a dentry to its parent; mounted_path steps over to the  *)
(* mountpoint in the parent mount when it reaches the root of a mount.     *)
(* Unlike the list walks, the limit bounds the components and not the      *)
(* steps: dentries without a name add none, so that only the set of seen   *)
(* places guarantees an end.                                               *)
(*                                                                         *)
(* A name is "named" (a component), "slash" (the name "/") or "empty".     *)
(* A component is the dentry it was read from.                             *)
(***************************************************************************)
EXTENDS Integers, Sequences, FiniteSets

CONSTANTS
    Dentries,     \* the dentries of the guest
    Mounts,       \* the mounts of the guest
    FirstDentries, FirstMounts,  \* where climbs begin; one of each is enough,
                                 \* as dentries and mounts are interchangeable
    Null,         \* the null pointer
    Names,        \* the kinds of name considered
    Walks,        \* the walks considered
    MaxLimit      \* the largest component_limit a caller passes

VARIABLES
    walk,         \* the walk under way
    limit,        \* component_limit
    parent,       \* guest memory: d_parent of every dentry
    name,         \* guest memory: the kind of name of every dentry
    mroot,        \* guest memory: the root dentry of every mount
    mparent,      \* guest memory: the parent of every mount
    mpoint,       \* guest memory: the mountpoint of every mount
    changed,      \* whether the guest wrote since the walk began
    phase,        \* "walking", "crossing", "done", "failed" or "unreadable"
    place,        \* <<current_dentry, current_mount>>
    upper,        \* the local variable parent_mount, while crossing
    begin,        \* the place the walk began at
    seen,         \* the local variable seen
    components    \* the dentries whose names were pushed, innermost first

memory == <<parent, name, mroot, mparent, mpoint>>
vars == <<walk, limit, memory, changed, phase, place, upper, begin, seen, components>>

MountFields(w, S) == IF w = "mounted" THEN [Mounts -> S] ELSE {[m \in Mounts |-> Null]}

Init ==
    /\ walk \in Walks
    /\ limit \in 1 .. MaxLimit
    /\ parent \in [Dentries -> Dentries \cup {Null}]
    /\ name \in [Dentries -> Names]
    /\ mroot \in MountFields(walk, Dentries \cup {Null})
    /\ mparent \in MountFields(walk, Mounts \cup {Null})
    /\ mpoint \in MountFields(walk, Dentries \cup {Null})
    /\ changed = FALSE
    /\ phase = "walking"
    /\ begin \in FirstDentries \X (IF walk = "mounted" THEN FirstMounts ELSE {Null})
    /\ place = begin /\ upper = Null /\ seen = {} /\ components = <<>>

Dentry == place[1]
Mount == place[2]

End(outcome) ==
    /\ phase' = outcome
    /\ UNCHANGED <<walk, limit, memory, changed, place, upper, begin, seen, components>>

(* Mutant: the climb does not remember where it has been.                  *)
ClimbForgets(to, pushed) ==
    /\ components' = components \o pushed
    /\ place' = to
    /\ phase' = "walking"
    /\ UNCHANGED <<walk, limit, memory, changed, upper, begin, seen>>

(* The loop goes on at another place.                                      *)
Climb(to, pushed) ==
    /\ seen' = seen \cup {place}
    /\ components' = components \o pushed
    /\ place' = to
    /\ phase' = "walking"
    /\ UNCHANGED <<walk, limit, memory, changed, upper, begin>>

Stop(outcome, pushed) ==
    /\ seen' = seen \cup {place}
    /\ components' = components \o pushed
    /\ phase' = outcome
    /\ UNCHANGED <<walk, limit, memory, changed, place, upper, begin>>

(* seen.insert returned false.                                             *)
Repeated == phase = "walking" /\ place \in seen /\ End("failed")

(* A dentry whose name is neither empty nor "/" adds a component.          *)
Pushed(d) == IF name[d] = "named" THEN <<d>> ELSE <<>>

(* One turn of the loop of dentry_path.  The path ends at the dentry that  *)
(* is its own parent; the limit is compared only when it does not.         *)
DentryStep ==
    /\ phase = "walking" /\ walk = "dentry" /\ place \notin seen
    /\ LET pushed == Pushed(Dentry)
           up == parent[Dentry]
       IN  CASE up = Null   -> Stop("failed", pushed)
             [] up = Dentry -> Stop("done", pushed)
             [] OTHER       -> IF Len(components \o pushed) >= limit
                               THEN Stop("failed", pushed)
                               ELSE Climb(<<up, Null>>, pushed)

(* mounted_path at the root of a mount: it ends at the mount that is its   *)
(* own parent.                                                             *)
MountStep ==
    /\ phase = "walking" /\ walk = "mounted" /\ place \notin seen
    /\ mroot[Mount] = Dentry
    /\ LET up == mparent[Mount]
       IN  CASE up = Null  -> Stop("failed", <<>>)
             [] up = Mount -> Stop("done", <<>>)
             [] OTHER      -> /\ phase' = "crossing" /\ upper' = up
                              /\ UNCHANGED <<walk, limit, memory, changed, place, begin,
                                             seen, components>>

(* The mountpoint is a second read: the guest may have remounted since the *)
(* parent was read.                                                        *)
Cross ==
    /\ phase = "crossing"
    /\ IF mpoint[Mount] = Null THEN Stop("failed", <<>>)
       ELSE Climb(<<mpoint[Mount], upper>>, <<>>)

(* mounted_path below the root of a mount.  Every name is pushed and       *)
(* counted here, also "/" and the empty one, which retain removes at the   *)
(* end, and the limit is compared although the next dentry may be the last.*)
BelowStep ==
    /\ phase = "walking" /\ walk = "mounted" /\ place \notin seen
    /\ mroot[Mount] # Dentry
    /\ CASE mroot[Mount] = Null -> Stop("failed", <<>>)
         [] mroot[Mount] # Null /\ Len(components) + 1 >= limit -> Stop("failed", <<Dentry>>)
         [] OTHER -> IF parent[Dentry] = Null
                     THEN Stop("failed", <<Dentry>>)
                     ELSE Climb(<<parent[Dentry], Mount>>, <<Dentry>>)

Running == phase \in {"walking", "crossing"}

(* Any read of guest memory fails; so does an allocation, and a name that  *)
(* is too long.                                                            *)
ReadFails == Running /\ End("unreadable")

(* The guest moves a dentry, or a mount.                                   *)
GuestMoves(d, up) ==
    /\ Running
    /\ parent' = [parent EXCEPT ![d] = up]
    /\ parent' # parent
    /\ changed' = TRUE
    /\ UNCHANGED <<walk, limit, name, mroot, mparent, mpoint, phase, place, upper, begin,
                   seen, components>>

GuestRemounts(m, d, up) ==
    /\ Running /\ walk = "mounted"
    /\ mpoint' = [mpoint EXCEPT ![m] = d]
    /\ mparent' = [mparent EXCEPT ![m] = up]
    /\ <<mpoint, mparent>>' # <<mpoint, mparent>>
    /\ changed' = TRUE
    /\ UNCHANGED <<walk, limit, parent, name, mroot, phase, place, upper, begin, seen, components>>

Step == Repeated \/ DentryStep \/ MountStep \/ Cross \/ BelowStep

Next ==
    \/ Step
    \/ ReadFails
    \/ \E d \in Dentries, up \in Dentries \cup {Null} : GuestMoves(d, up)
    \/ \E m \in Mounts, d \in Dentries \cup {Null}, up \in Mounts \cup {Null} :
           GuestRemounts(m, d, up)

Spec == Init /\ [][Next]_vars

(* retain and reverse: what is not Null, each before the ones inside it.   *)
Outward(c) ==
    LET path[i \in 0 .. Len(c)] ==
            IF i = 0 THEN <<>>
            ELSE IF c[i] = Null THEN path[i - 1] ELSE <<c[i]>> \o path[i - 1]
    IN  path[Len(c)]

(* The path as returned; retain is a no-op after dentry_path.              *)
Retained(d) == IF name[d] = "named" THEN d ELSE Null
Path == Outward([i \in 1 .. Len(components) |-> Retained(components[i])])

-----------------------------------------------------------------------------
(* Every variable keeps its type; in particular a walk never stands on a   *)
(* null dentry or a null mount, whatever pointers it reads.                *)
TypeOK ==
    /\ walk \in Walks /\ limit \in 1 .. MaxLimit /\ changed \in BOOLEAN
    /\ phase \in {"walking", "crossing", "done", "failed", "unreadable"}
    /\ phase = "crossing" => upper \in Mounts
    /\ place \in Dentries \X (IF walk = "mounted" THEN Mounts ELSE {Null})
    /\ seen \subseteq Dentries \X (Mounts \cup {Null})
    /\ \A i \in DOMAIN components : components[i] \in Dentries

(* Whatever the guest moves meanwhile, a path that is returned is made     *)
(* from at most component_limit names, and each came from a place of its   *)
(* own.                                                                    *)
PathBounded ==
    /\ phase = "done" => Len(components) <= limit
    /\ Len(components) <= Cardinality(seen)

(* The place above a place, and the places without one: the kernel's rule  *)
(* for both walks.                                                         *)
AtMountRoot(p) == walk = "mounted" /\ mroot[p[2]] = p[1]

Above(p) ==
    IF AtMountRoot(p) THEN <<mpoint[p[2]], mparent[p[2]]>> ELSE <<parent[p[1]], p[2]>>

AtTop(p) ==
    IF walk = "mounted" THEN AtMountRoot(p) /\ mparent[p[2]] = p[2] ELSE parent[p[1]] = p[1]

Valid(p) == p[1] # Null /\ (walk = "mounted" => p[2] # Null /\ mroot[p[2]] # Null)

Height == Cardinality(Dentries) * (Cardinality(Mounts) + 1)

(* The place n steps above the first one, as far as there is one.          *)
Places == (Dentries \cup {Null}) \X (Mounts \cup {Null})
Up == [p \in Places |-> IF Valid(p) /\ ~AtTop(p) THEN Above(p) ELSE p]

Ascent(up, first) ==
    LET at[n \in 0 .. Height] == IF n = 0 THEN first ELSE up[at[n - 1]]
    IN  at

PlaceAbove == Ascent(Up, begin)

HasTop == Valid(PlaceAbove[Height]) /\ AtTop(PlaceAbove[Height])

(* The number of steps to the top.                                         *)
StepsToTop == CHOOSE n \in 0 .. Height :
                  /\ AtTop(PlaceAbove[n])
                  /\ \A k \in 0 .. (n - 1) : ~AtTop(PlaceAbove[k])

(* The dentries of the first n places that have a name of their own; the   *)
(* roots of mounts are left out.                                           *)
Contributes(p) == ~AtMountRoot(p) /\ name[p[1]] = "named"

Contributions(n) ==
    [i \in 1 .. n |-> IF Contributes(PlaceAbove[i - 1]) THEN PlaceAbove[i - 1][1] ELSE Null]

ExpectedPath == Outward(Contributions(StepsToTop + 1))

(* What the limit counts: names on the way up, before the top is reached;  *)
(* mounted_path counts the nameless ones too.                              *)
Counts(p) == IF walk = "mounted" THEN ~AtMountRoot(p) ELSE Contributes(p)
CountedBelow(n) == {k \in 0 .. (n - 1) : Counts(PlaceAbove[k])}
Counted == Cardinality(CountedBelow(StepsToTop))

(* While the guest leaves its dentries and mounts alone, a walk succeeds   *)
(* exactly when the ancestry reaches a top with fewer counted names than   *)
(* the limit, and then it returns the names of that ancestry in order.     *)
QuietPathExact ==
    ~changed =>
        /\ phase = "done" => HasTop /\ Path = ExpectedPath
        /\ phase = "failed" => ~(HasTop /\ Counted < limit)

=============================================================================
