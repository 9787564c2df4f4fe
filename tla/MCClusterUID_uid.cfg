CONSTANTS
    Symbols <- MCSymbols
    NameStrings <- MCNameStrings
    IngressKeys <- MCIngressKeys
    FieldLengths <- MCFieldLengths
    NameLenLimit = 14
    MaxNEGLabel = 8
    Flags <- MCFlags
    NewUids <- MCNewUids
    Edits <- MCEdits
    Key <- MCKey
    None = None
    MaxChanges = 3
    MaxEdits = 2
    MaxFaults = 2
SPECIFICATION FairSpec
INVARIANTS
    OneUid
    WorkingIngressKeepsUid
    NamesLeadBack
    NegLabelFits
PROPERTIES
    RecordedUidKept
    
