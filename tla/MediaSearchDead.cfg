SPECIFICATION Spec
CONSTANTS
    r1 = r1
    r2 = r2
    r3 = r3
    title = title
    artist = artist
    Requests <- MCRequests
    Targets <- MCTargets
INVARIANT ResultsMeetTheirTask
