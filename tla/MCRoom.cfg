SPECIFICATION Spec
CONSTANTS
    Users = {u1, u2, u3}
    NumDesks = 2
    NoUser = NoUser
SYMMETRY UserSymmetry
INVARIANTS
    TypeOK
    SeatsAgree
    NobodyMissing
PROPERTIES
    PlayersStay
    DesksRunGames
