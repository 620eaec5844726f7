SPECIFICATION FairSpec
CONSTANTS
    Emails = {e1}
    PartnerIds = {1, 2, 3, 4, 5, 6, 7, 8, 9, 10}
    Procs = {p1, p2}
    None = None
INVARIANTS TypeOK ParentsBounded ChildrenBounded BookedForMappedPartner PartnersBelongTogether
PROPERTIES AttemptEnds
CHECK_DEADLOCK FALSE
