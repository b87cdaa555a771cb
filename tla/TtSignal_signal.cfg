SPECIFICATION Spec
CONSTANTS
    MaxPosts = 5
    Lossy = TRUE
    Unprompted = 3
INVARIANTS Awake Quiet
PROPERTIES ImplementsBell Settles
CHECK_DEADLOCK FALSE
