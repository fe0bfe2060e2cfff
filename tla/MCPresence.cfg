CONSTANTS
    u1 = u1
    Conn = {1, 2, 3}
    User = {u1}
    UserOf <- OneUser
    Room = {r1, r2}
    MaxRooms = 1
    Budgets <- MCBudgets
SPECIFICATION FairSpec
INVARIANTS Registered PresenceFollows RoomsFollow
PROPERTY Settles
