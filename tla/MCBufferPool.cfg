\* Three requests share two BufferValues and up to three buffers.
CONSTANTS
    q1 = q1
    q2 = q2
    q3 = q3
    Requests <- MCRequests
    MaxBufs = 3
    MaxValues = 2
SPECIFICATION Spec
INVARIANT BuffersExclusive
CHECK_DEADLOCK FALSE
