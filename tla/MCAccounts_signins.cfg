SPECIFICATION Spec
CONSTANTS
    Name = {admin, bob, eve}
    Admin = admin
    admin = admin
    bob = bob
    eve = eve
    Play <- AllPlays
SYMMETRY Symmetry
INVARIANTS LastAdminStays SessionsCurrent PlacesAgree MediaClaimWhole
CHECK_DEADLOCK FALSE
