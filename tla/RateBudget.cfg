\* Two connections of one IP that come and go; a request costs half a refill.
SPECIFICATION Spec
CONSTANTS
    Conns = {r1, r2}
    Ips = {"ip1"}
    IpOf <- AllOne
    Cost = 2
    IpRate = 1
    IpBurst = 3
    CmdRate = 1
    CmdBurst = 4
    CreateRate = 1
    CreateBurst = 2
    IdleTtl = 3
    MaxTime = 6
SYMMETRY ConnSymmetry
INVARIANTS
    IpBudget
