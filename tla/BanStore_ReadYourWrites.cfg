CONSTANTS
    s1 = s1
    s2 = s2
    Servers <- MCServers
    BanLists <- MCBanLists
    MaxLimit <- MCMaxLimit
SPECIFICATION Spec
INVARIANT ReadYourWrites
