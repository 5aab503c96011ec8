CONSTANTS
    Methods = {"sudo", "su"}
    Passwords = {"none", "right", "wrong"}
    MaxTries = 3
SPECIFICATION BecomeSpec
INVARIANTS
    PasswordOnlyWhenAsked
    SuccessIsReal
PROPERTIES
    HandshakeReturns
