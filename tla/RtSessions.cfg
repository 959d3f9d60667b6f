SPECIFICATION Spec
CONSTANTS
    Members = {m1}
    Manager = manager
    MaxEvents = 2
    MaxToggles = 2
PROPERTIES AdmissionFollowed
