\* A console queue of one, an event channel of one, two re-reads in flight.
SPECIFICATION PanelSpec
CONSTANTS
    Nothing = Nothing
    QueueCap = 1
    EventCap = 1
    MaxVersion = 2
    Loads = {l1, l2}
INVARIANTS
    QuietListsAreCurrent
PROPERTIES
    ResultsDoNotYank
CHECK_DEADLOCK FALSE
