\* Two readers of two descriptors beyond the initial table.
SPECIFICATION Spec
CONSTANTS
    Threads = {t1, t2}
    Outside = {}
    j1 = j1
    j2 = j2
    Jobs = {j1, j2}
    On <- Readers
    InitSize = 2
    MaxGen = 2
    MaxOps = 2
    MaxHups = 0
    Nobody = Nobody
PROPERTY TableGrows
