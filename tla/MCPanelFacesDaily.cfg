\* The same event on two days.
SPECIFICATION Spec
CONSTANTS
    AllFaces <- FourFaces
    Settings <- SomeSettings
    Events <- DailyEvents
    KeyOf <- KeyOfEvent
    NoEvent <- Nothing
    NoAnswer <- Unanswered
    Requests = {1, 2}
    MaxChanges = 0
PROPERTIES
    NewEventRaises
