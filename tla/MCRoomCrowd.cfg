SPECIFICATION Spec
CONSTANTS
    Users = {u1, u2, u3, u4}
    NumDesks = 1
    NoUser = NoUser
SYMMETRY UserSymmetry
PROPERTY PickedDeskSeats
