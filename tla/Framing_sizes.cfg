CONSTANTS
    MTUs = {200, 600, 1500, 1948, 1949, 3949}
    Sizes = {1, 199, 200, 201, 250, 251, 599, 600, 601, 1500, 1501, 1948, 1949, 3000, 3001}
    Pads = {250, 700}
SPECIFICATION Spec
INVARIANTS TypeOK FrameFits WholeOrNothing StaleNeverOpens
