SPECIFICATION LifeSpec
CONSTANTS
    Half = 2
    Strings = {"s", "t"}
    Payloads = {"x", "y"}
    IdValues <- MCIdValues
    MethodValues <- MCMethodValues
    ParamsValues <- MCParamsValues
    ResultValues <- MCResultValues
    ErrorValues <- MCErrorValues
    BatchValues <- MCBatchValues
INVARIANT
    ErrorSurvives
