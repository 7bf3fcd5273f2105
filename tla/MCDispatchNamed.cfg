SPECIFICATION Spec
CONSTANTS
    Half = 2
    Strings = {"f", "g"}
    Payloads = {}
    Methods = {"f", "g"}
    Signatures <- MCNumberSignatures
    Arguments <- MCNumberArguments
    Names = {1, 2}
    MaxArguments = 2
INVARIANT
    NamedArrive
CHECK_DEADLOCK FALSE
