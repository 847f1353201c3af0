SPECIFICATION CameraSpec
CONSTANTS
    MaxCalls = 3
    Files = {f1, f2}
    None = None
SYMMETRY Symmetry
CHECK_DEADLOCK FALSE
INVARIANTS CameraTypeOK NothingRunsUnheld ViewShowsCamera BarShowsUpload
