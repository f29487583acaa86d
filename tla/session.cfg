\* Two tasks on one device, of every firmware and kind the gates tell apart.
SPECIFICATION Spec
SYMMETRY Alike
CONSTANTS
    t1 = t1
    t2 = t2
    None = None
    Tasks <- TwoTasks
    Profiles <- Devices
    Values <- Setpoints
    FullScale <- Scale
INVARIANTS
    Understood
    RoutesOpen
PROPERTIES
    LabelsTrue
    SetpointSound
