SPECIFICATION BatchLedgerSpec
CONSTANTS
    ta = ta
    tb = tb
    Batches = {1, 2, 3}
    Tenant <- MCTenant
    Handled = {1, 3}
    Passes = {p1}
    Window = 1
    MaxAttempts = 2
    None = None
PROPERTIES
    NoTenantStarves
