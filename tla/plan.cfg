SPECIFICATION Spec
CONSTANTS
    Text <- MCText
    MaxT = 6
    Orders = {"serial", "ready"}
    Modes = {"layer_serial", "token_serial"}
    LastOnly = {TRUE, FALSE}
INVARIANTS
    TypeOK
    LogitsSeeThePrefix
    StateHoldsThePrefix
    AccountsMatchExecution
