SPECIFICATION Spec
SYMMETRY Alike
CONSTANTS
    a = a
    b = b
    f = f
    g = g
    b1 = b1
    b2 = b2
    Nothing = Nothing
    Theirs = Theirs
    op = op
    Unattended = Unattended
    Path = {a, b}
    Folder = {f, g}
    FolderOf <- Apart
    Bytes = {b1, b2}
    Job = {op, Unattended}
    Overlap = FALSE
    MassMin = 20
    MaxChanges = 2
    MaxFaults = 1
INVARIANT TypeOK
INVARIANT SeenStands
PROPERTY RelocationLeavesCopy
PROPERTY OwnersCopiesStay
PROPERTY NotMissedWhileThere
PROPERTY MissingIsNoticed
