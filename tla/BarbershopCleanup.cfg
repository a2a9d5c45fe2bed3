SPECIFICATION Spec
CONSTANTS
    visitors = 2
    barbers = 2
    chairs = 1
    NULL = NULL
PROPERTIES
    BarbersEndedAtCleanup
