SPECIFICATION Spec
CONSTANTS
    Half = 2
    Strings = {"f", "g"}
    Payloads = {}
    Methods = {"f", "g"}
    Signatures <- MCStringSignatures
    Arguments <- MCStringArguments
    Names = {1, 2}
    MaxArguments = 2
INVARIANT
    StringsArrive
CHECK_DEADLOCK FALSE
