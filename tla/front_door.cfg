CONSTANTS
    Request = {x1, x2}
    Email = {y1, y2}
    Alias = {z1, z2}
    MaxInvite = 2
    MaxCode = 2
    MaxInterrupted = 1
    OtpMaxAttempts = 1
    p1 = p1
    p2 = p2
    Delivery = {x1, x2}
    Mail = {y1, y2}
    Hotel = {p1}
    Letter <- AnyLetter
    Parent <- Parents
    Policies <- Lists
    Required = {"flash", "trial"}
    MaxAddress = 2
    MaxRedelivery = 1
    MaxAttachments = 2
SPECIFICATION FrontDoorSpec
SYMMETRY FrontDoorAlike
CHECK_DEADLOCK FALSE
INVARIANTS
    SignupSafe
    IntakeSafe
