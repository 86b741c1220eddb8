\* Two of the four registers and two words; two clocks between accesses, a
\* third of what a Nios II/e takes.
SPECIFICATION Spec
CONSTANTS
    Addresses = {0, 2}
    Data = {0, 7}
    MinGap = 2
INVARIANTS WritesArrive ReadsReturn NoContention
