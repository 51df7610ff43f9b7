CONSTANTS
    c1 = c1
    r1 = r1
    r2 = r2
    r3 = r3
    q1 = q1
    q2 = q2
    g1 = g1
    l1 = l1
    l2 = l2
    p1 = p1
    d1 = d1
    d2 = d2
    home = home
    other = other
    po1 = po1
    po2 = po2
    None = None
    Children <- MCChildren
    Rooms <- MCRooms
    Requests <- MCRequests
    Shifts <- MCRequests
    Editors <- MCRequests
    Contacts <- MCContacts
    Links <- MCLinks
    Staff <- MCStaff
    Designations <- MCDesignations
    Facilities <- MCFacilities
    FacilityOf <- MCFacilityOf
    Policies <- MCPolicies
    Leases <- MCLeases
    Terms <- MCTerms
    StaffTerms <- MCStaffTerms
    PolicyTerms <- MCPolicyTerms
    Counts <- MCCounts
    m1 = m1
    m2 = m2
    Teachers = {1, 2}
    Images = {1, 2, 3}
    Contents = {x1, x2}
    Models = {m1, m2}
    Calls = {q1, q2}
    MinAccepted = 2
    MaxAccepted = 2
    MaxStaff = 1
    MaxTime = 1
    MaxEvents = 3
    MaxStaffEvents = 3
    MaxActiveLinks = 1
    MaxRevision = 3
    MaxReports = 2
    k1 = k1
    k2 = k2
    a1 = a1
    a2 = a2
    t1 = t1
    t2 = t2
    f1 = f1
    f2 = f2
    Kids = {k1, k2}
    Requesters = {q1, q2}
    Tenants = {home, other}
    Organizations = {o1}
    Subjects = {g1}
    Actors = {a1, a2}
    Rows = {1, 2, 3}
    Ttl = 2
    Cooldown = 2
    MaxTick = 3
    Nil = None
    Nodes = {d1}
    Credentials = {q1, q2}
    Paths = {x1, x2}
    Nobody = None
    Tables = {t1, t2}
    Functions = {f1, f2}
    Privileges = {"SELECT", "INSERT"}
    Classified <- MCClassified
    FunctionGrants = {f1}
    MaxDrift = 2
SPECIFICATION MCSpec
INVARIANTS Inv OneRoomAtATime AuditExplains ReleasedByRight PoliciesDisjoint VerdictSound EnrollmentInv AccessInv
PROPERTIES ReleaseUpToDate
SYMMETRY Symmetry
CHECK_DEADLOCK FALSE
