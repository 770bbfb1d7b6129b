SPECIFICATION Spec
CONSTANTS
    c1 = c1
    c2 = c2
    Outbox = Outbox
    User = User
    Steps <- TwoSteps
    Consumers <- Pair
    MaxAttempts = 3
    MaxDisturbed = 1
SYMMETRY AnyOrder
INVARIANTS StepsTell CompletionSound KeepsMoving
CHECK_DEADLOCK FALSE
