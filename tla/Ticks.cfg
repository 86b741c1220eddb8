SPECIFICATION FairSpec
CONSTANTS
    Irqs = {0, 1}
    Clients = {client}
    Nobody = nobody
    TickRange = 4
    US = 6
    Rate = 2
    Timer = 0
    AlarmIds = {a, b}
    Head = head
    Null = null
    Intervals = {0, 2}
    Periods = {0, 3}
    Times <- MCTimes
INVARIANTS TypeOK Alone RightHandler Ring
PROPERTIES OnTime TimeComes WallClock
