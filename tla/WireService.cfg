SPECIFICATION FairSpec
CONSTANTS
    lead = lead
    sub = sub
    cli = cli
    leadAlias = leadAlias
    m1 = m1
    m2 = m2
    m3 = m3
    r1 = r1
    r2 = r2
    Agents <- WithCli
    Spellings <- CliSpellings
    Canon <- CliCanon
    NoMsg = NoMsg
    Msgs = {m1, m2}
    Commands = {m1, m2}
    Senders = {cli}
    ToLists <- AliasAndSub
    Receivers = {lead, sub}
    Ackers = {sub}
    Leavers = {leadAlias}
    Readers = {r1}
INVARIANTS
    TypeOK
PROPERTIES
    NoLostWakeUp
    
