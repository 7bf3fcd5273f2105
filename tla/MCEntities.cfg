SPECIFICATION MCSpec
CONSTANTS
    Half = 2
    Strings = {"f", "g", "s", "t"}
    Payloads = {"x", "y"}
    Methods = {"f", "g"}
    Signatures <- MCSignatures
    Arguments <- MCArguments
    Names = {1, 2}
    MaxArguments = 2
    IdValues <- MCIdValues
    MethodValues <- MCMethodValues
    ParamsValues <- MCParamsValues
    ResultValues <- MCResultValues
    ErrorValues <- MCErrorValues
    BatchValues <- MCBatchValues
INVARIANTS
    NumbersArrive
    FirstFailureStops
    IdComesBack
    ContentsCurrent
    NoOldAnswer
    ExceptionNamesRequest
    BatchAccounts
CHECK_DEADLOCK FALSE
