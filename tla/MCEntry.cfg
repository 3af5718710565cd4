SPECIFICATION EntrySpec
CONSTANTS
    Calls = {c1, c2}
    Keys = {"k1", "k2"}
    Local = {"k2"}
    Names = {"a", "b"}
    Invites = {"i1", "i2", "i3"}
    NameOn <- MCNameOn
    Holders <- MCHolders
    NoKey = NoKey
    Agents = {bot, tool}
    Default = "person"
    Browsers = {"browser"}
    Sent = {"chat", "approve", "control"}
    Nothing = Nothing
    People = {"ann", "bob"}
    SigningKeys = {ka, kb, kc}
    Owner = "ann"
    OwnerKey = ka
    Nobody = Nobody
    MaxSeq = 4
SYMMETRY Symmetric
CHECK_DEADLOCK FALSE
INVARIANTS
    MembersAreInvited
    AnnouncedOnce
    
    AgentsDecideNothing
    RiskIsShown
    HonestVerifies
    DamageIsSeen
