\* Faces that come and go while a hold runs.
SPECIFICATION Spec
CONSTANTS
    AllFaces <- FourFaces
    Settings <- SomeSettings
    Events <- OneEvent
    KeyOf <- KeyOfEvent
    NoEvent <- Nothing
    NoAnswer <- Unanswered
    Requests = {1, 2}
    MaxChanges = 1
PROPERTIES
    HoldGivesBack
