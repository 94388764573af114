CONSTANTS
    a = a
    b = b
    x = x
    y = y
    v1 = v1
    v2 = v2
    Names = {a, b}
    Paths <- SmallPaths
    Chunks = {x}
    Volumes = {v1, v2}
    Overlay = Overlay
    Directory = Directory
    Nothing = Nothing
SPECIFICATION Spec
PROPERTIES
    InPlaceKeeps
VIEW View
SYMMETRY SmallSymmetry
