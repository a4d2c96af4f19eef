SPECIFICATION Spec
CONSTANTS
    Names = {ana, bob}
    Addresses = {ip1}
    Burst = 2
    Hour = 3
    Minute = 1
    Logins = {l1, l2}
    MaxTime = 6
PROPERTIES NeverForgets
CHECK_DEADLOCK FALSE
