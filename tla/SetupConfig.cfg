CONSTANTS
    Net = {n1, n2}
    Host = {h1}
    AuthKey = {k1}
    None = None
    Shell = {uart}
    Uart = uart
    FlashFails = TRUE
    MaxLosses = 2
SPECIFICATION Spec
 
PROPERTY NetworksKept
