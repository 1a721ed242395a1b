CONSTANTS
    Nodes = {n1, n2, n3}
    Anchor = Anchor
    Null = Null
    Buckets = 2
    Walks = {"tasks", "list", "hash"}
    MaxLimit = 2
    Dentries = {d1, d2}
    Mounts = {m1, m2}
    FirstDentries = {d1}
    FirstMounts = {m1}
    Names = {"named", "slash"}
    PathWalks = {"dentry", "mounted"}
    TableWalks = {"fds", "handles"}
    TableLimits = {3, 6}
    Objects = {101, 102}
    MaxChanges = 2
SPECIFICATION FairQueries
INVARIANTS WalkBounded WalkExact
PROPERTIES WalkEnds
CHECK_DEADLOCK FALSE
