SPECIFICATION Spec
CONSTANTS
    own = own
    twin1 = twin1
    twin2 = twin2
    a = a
    b = b
    Proxy = {own, twin1, twin2}
    Realm = {1, 2}
    Address = {a, b}
    Load = {0}
    RealmOf <- MCRealmOf
    AddressOf <- MCAddressOf
    RealmTable = {1, 2}
    MaxEvents = 2
    Build = {5875, 8606}
    RealmBuild <- MCRealmBuild
    SecurityOf <- MCSecurityOf
    GmLevel = 0
    CharAmount <- MCCharAmount
    none = none
INVARIANTS
    GoodbyeFindsItsProxy
