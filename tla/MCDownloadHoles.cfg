CONSTANTS
    Ids <- McIds
    Versions <- McVersions
    Chains = {c1, c2}
    PageSize = 2
    StartTop = 2
    MaxDelUpTo = 1
    Cost <- McCost
    MaxHappens = 4
SYMMETRY ChainSymmetry
SPECIFICATION Spec
INVARIANTS NoGapForgotten FewRequests DeletedStayHidden
PROPERTIES EachAnswerHelps
CHECK_DEADLOCK FALSE
