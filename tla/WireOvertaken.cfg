SPECIFICATION Spec
CONSTANTS
    lead = lead
    sub = sub
    cli = cli
    leadAlias = leadAlias
    m1 = m1
    m2 = m2
    m3 = m3
    r1 = r1
    r2 = r2
    Agents <- MCAgents
    Spellings <- MCSpellings
    Canon <- MCCanon
    NoMsg = NoMsg
    Msgs = {m1, m2}
    Commands = {}
    Senders = {lead}
    ToLists <- SubOnly
    Receivers <- MCSpellings
    Ackers = {}
    Leavers = {}
    Readers = {r1}
INVARIANTS
    NothingSkipped
