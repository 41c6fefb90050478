SPECIFICATION Spec
CONSTANTS
    a1 = a1
    a2 = a2
    none = none
    NULL = none
    Tables <- RouteTables
    Actors = {a1, a2}
    TemplateTypes = {1}
    MaxRows <- MCMaxRows
    MaxStarts = 3
    MaxDeaths = 1
    TenantNames = {"default"}
    FieldSlugs = {"s"}
    Domains = {1}
    MaxRequests = 2
    MaxTogether = 4
CONSTRAINT Together
INVARIANTS
    RowsBelong
    StartsRepair
    OneDefaultTheme
SYMMETRY Symmetry
CHECK_DEADLOCK FALSE
