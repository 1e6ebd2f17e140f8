CONSTANTS
    t1 = t1 t2 = t2 h1 = h1 h2 = h2 h3 = h3 s1 = s1 s2 = s2 s3 = s3
    Tasks = {t1, t2}
    Sectors = {s1, s2, s3}
    Settings <- MCSettings
    Blank = 0
    Garbage = garbage
    None = None
SPECIFICATION Spec
SYMMETRY Symmetry
INVARIANTS SharingSound Coherent CommitIsDurable
