CONSTANTS
    Users = {u1}
    Requests = {r1, r2}
    MaxTokens = 3
    NoUser = NoUser
SPECIFICATION Spec
PROPERTY FamilyRevoked
