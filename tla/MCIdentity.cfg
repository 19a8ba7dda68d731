SPECIFICATION FairSpec
CONSTANTS
    Address = {"x", "w"}
    Login = "me"
    Entry = {"x", "@d"}
    Covers <- x_covers
    AlsoMe = {"@d"}
    Mail = {1}
    From <- from
    To <- to
    Kind <- kind
    Hall <- hall
    NoReply = {}
    Colleague = {}
    RoleBatch = 1
    PerTick = 1
    Nobody = "nobody"
    MaxFaults = 0
PROPERTY OwnerIsSelf
