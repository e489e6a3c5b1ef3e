\* The same instance, with every goroutine running: does the event loop go on?
SPECIFICATION FairPanelSpec
CONSTANTS
    Nothing = Nothing
    QueueCap = 1
    EventCap = 1
    MaxVersion = 1
    Loads = {l1}
PROPERTIES
    LoopStaysResponsive
CHECK_DEADLOCK FALSE
