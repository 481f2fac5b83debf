SPECIFICATION Spec
CONSTANTS
    Tasks = {t1, t2}
    Operators = {t1, t2}
    Orders = {o1}
    LossCap = 1
    TimeoutTicks = 1
    MaxStops = 2
    MaxLoss = 1
PROPERTIES
    ReArmCountedThisStop
