----------------------------- MODULE GuestWalks -----------------------------
(***************************************************************************)
(* The walks of the introspectors over the data structures of a guest that *)
(* may be running: a query is one walk over a list (GuestLists), one climb *)
(* through dentries and mounts (GuestPaths) or one pass over a table       *)
(* (GuestTables).  They share the caller's limit, the set of places seen   *)
(* and the way a walk ends; the guest's memory and the other locals belong *)
(* to one of them.                                                         *)
(***************************************************************************)
EXTENDS GuestLists

CONSTANTS
    Dentries,     \* the dentries of the guest
    Mounts,       \* the mounts of the guest
    FirstDentries, FirstMounts,  \* where climbs begin
    Names,        \* the kinds of name considered
    PathWalks,    \* the climbs considered
    TableWalks,   \* the tables considered
    TableLimits,  \* the limits for tables
    Objects,      \* what tables refer to
    MaxChanges    \* bound: how often the guest changes a table during a walk

ASSUME PathAssumption ==
    /\ PathWalks \subseteq {"dentry", "mounted"}
    /\ Names \subseteq {"named", "slash", "empty"}
    /\ FirstDentries \subseteq Dentries /\ FirstMounts \subseteq Mounts
    /\ Null \notin Dentries \cup Mounts
    /\ IsFiniteSet(Dentries) /\ IsFiniteSet(Mounts)

ASSUME TableAssumption ==
    /\ TableWalks \subseteq {"fds", "handles"}
    /\ TableLimits \subseteq Nat \ {0} /\ MaxChanges \in Nat
    /\ \A o \in Objects : o \in Nat /\ o > 7

VARIABLES parent, name, mroot, mparent, mpoint, place, upper, begin, components
VARIABLES memory, code, count, root, known, index, reused, ever, always

Paths == INSTANCE GuestPaths WITH Walks <- PathWalks
Tables == INSTANCE GuestTables WITH Walks <- TableWalks, Limits <- TableLimits

listVars == <<next, node, bucket, output>>
pathVars == <<parent, name, mroot, mparent, mpoint, place, upper, begin, components>>

tableVars == <<memory, code, count, root, known, index, reused, ever, always>>
queryVars == <<vars, pathVars, tableVars>>

ListQuery == walk \in Walks
PathQuery == walk \in PathWalks
TableQuery == walk \in TableWalks

NoList == next = Null /\ node = Null /\ bucket = 1
NoPath ==
    /\ parent = Null /\ name = Null /\ mroot = Null /\ mparent = Null /\ mpoint = Null
    /\ place = Null /\ upper = Null /\ begin = Null /\ components = <<>>
NoTable ==
    /\ memory = Null /\ code = Null /\ count = 0 /\ root = Null /\ known = 0 /\ index = 0
    /\ reused = FALSE /\ ever = {} /\ always = {}

InitQuery ==
    \/ Init /\ NoPath /\ NoTable
    \/ Paths!Init /\ NoList /\ output = <<>> /\ NoTable
    \/ Tables!Init /\ NoList /\ seen = {} /\ NoPath

ListStepOrGuest == ListQuery /\ Next /\ UNCHANGED <<pathVars, tableVars>>
PathStepOrGuest == PathQuery /\ Paths!Next /\ UNCHANGED <<listVars, tableVars>>
TableStepOrGuest == TableQuery /\ Tables!Next /\ UNCHANGED <<next, node, bucket, seen, pathVars>>

NextQuery == ListStepOrGuest \/ PathStepOrGuest \/ TableStepOrGuest

QueryStep ==
    \/ ListQuery /\ Step /\ UNCHANGED <<pathVars, tableVars>>
    \/ PathQuery /\ Paths!Step /\ UNCHANGED <<listVars, tableVars>>
    \/ TableQuery /\ Tables!Step /\ UNCHANGED <<next, node, bucket, seen, pathVars>>

Queries == InitQuery /\ [][NextQuery]_queryVars

(* The walk is a loop of one thread that nothing blocks; the guest is not  *)
(* required to do anything, nor to stop writing.                           *)
FairQueries == Queries /\ WF_queryVars(QueryStep)

-----------------------------------------------------------------------------
(* Every variable of the query under way keeps its type; in particular a   *)
(* walk never stands on a null dentry or mount.                            *)
QueryTypeOK ==
    /\ ListQuery => TypeOK
    /\ PathQuery => Paths!TypeOK

(* Whatever the guest relinks or moves meanwhile, a list walk reports no   *)
(* entry twice and no more entries than the caller's limit (OutputBounded) *)
(* and a path has at most component_limit components, each from a place of *)
(* its own (PathBounded); a table walk reports no index twice              *)
(* (TableBounded).                                                         *)
WalkBounded ==
    /\ ListQuery => OutputBounded
    /\ PathQuery => Paths!PathBounded
    /\ TableQuery => Tables!TableBounded

(* A walk that the guest does not disturb succeeds exactly when the list   *)
(* is closed, or the root is reached, within the limit; it then returns    *)
(* exactly that list (QuietWalkExact), or the names from the root down,    *)
(* across mounts (QuietPathExact), or the table's open entries.  A table   *)
(* that the guest changes is reported with every entry that stays open and *)
(* none that never was, unless a handle table grew between the read of its *)
(* level and that of its length, or the guest reused the memory of a       *)
(* descriptor table it had replaced (TableExact).                          *)
WalkExact ==
    /\ ListQuery => QuietWalkExact
    /\ PathQuery => Paths!QuietPathExact
    /\ TableQuery => Tables!TableExact

(* A walk ends, however the guest links and relinks its nodes, dentries and *)
(* mounts, and also when no dentry has a name for the limit to count.       *)
WalkEnds == <>(phase \in {"done", "failed", "unreadable"})

=============================================================================
