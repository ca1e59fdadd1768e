CONSTANT
    MaxDepth = 5
SPECIFICATION Spec
INVARIANTS
    FollowsDocument
PROPERTY
    NotStarved
