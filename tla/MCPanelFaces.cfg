\* Two polls in flight, two changes of settings, two different events.
SPECIFICATION Spec
CONSTANTS
    AllFaces <- FourFaces
    Settings <- SomeSettings
    Events <- TwoEvents
    KeyOf <- KeyOfEvent
    NoEvent <- Nothing
    NoAnswer <- Unanswered
    Requests = {1, 2}
    MaxChanges = 2
INVARIANTS
    TypeOK
PROPERTIES
    ReturnsToBefore
    FacesFollowSettings
    DarkAgain
