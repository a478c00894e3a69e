SPECIFICATION StoresSpec
CONSTANTS
    Null = Null  Gone = Gone  i1 = i1  i2 = i2
    \* FakeIDSlots
    Primaries = {fp1}  Tokens = {ft1, ft2}  Handlers = {i1, i2}
    MaxFaults = 1  MaxCrashes = 1  MaxKeyLoss = 1
    \* AuthSessions
    SessionIDs = {i1, i2}  Requests = {i1, i2}  Emails = {i1, i2}
    NoSession = NoSession  NoEmail = NoEmail
    Bearer = 1  Refresh = 2  MaxDay = 3  MaxTokens = 3
    \* Tenants
    TenantIDs = {i1, i2}  Claimants = {c1, c2}  Rightful = c1  Invitees = {j1}
    Purgers = {p1}  MaxPurgeFaults = 1  MaxDKIM = 1  MaxEdits = 3
    \* GroupKeys
    GroupUsers = {a1, i1, i2}  Admins = {a1}  Devices = {i1, i2}  AdminOf <- MCAdminOf
    NotMember = NotMember  MaxRotations = 2  MaxJoins = 1
    \* KTLog
    LogUsers = {l1, l2}  LogGroups = {l2}  LogHashes = {k1, k2}  NoHash = NoHash  Publishers = {q1}  MaxEpoch = 2
    \* DriveShares
    Owner = o  Friends = {i1, i2}  Clients = {i1, i2}  DriveDocs = {x1}
    NoShare = NoShare  MaxAdvances = 2
    \* DriveFiles
    DriveFolders = {i1, i2}  DriveFileIDs = {y1}  Recipients = {z1}
    Retention = 1  UploadAge = 1  MaxHour = 3  MaxActs = 4
    \* RateLimits
    Processes = {i3}  Calls = {i1, i2}  Shared = Shared
    SendLimit = 2  RampLimit = 1  DayTicks = 2  ConnTicks = 1  RampTicks = 1
    FirstTick = 1  MaxTick = 3  MaxCounters = 2  MaxOutages = 1
    \* GatewayLimits
    Addresses = {a1, a2}  SketchRows = {1, 2}  HashChoices <- MCHashChoices
    MinuteTicks = 2  DayTicksGw = 3  RateLimit = 1  BurstLimit = 1  DailyLimit = 1  MaxGwTick = 3
    \* PaymentTokens
    SigningTiers = {"paid", "fakeid_mint"}  MaxKeys = 2  MaxMishaps = 2
    \* BlindSignatures
    PrimeP = 3  PrimeQ = 11  PubExp = 3  PrivExp = 7  MaxGlitches = 1
    \* Mailbox
    Mails = {i1, i2}  CustomFolders = {f1}  Labels = {v1}
    BatchSize = 1  MaxSaves = 2  MaxMailCalls = 3
    \* PeerCerts
    PoolMembers = {i1, i2}  MaxTLSKeys = 2  MaxPeerFaults = 2
    \* DKIMPool
    Selectors = {i1, i2}  Builds = {b1, b2, b3}  FirstBuild = b1  MaxPoolFaults = 1
    \* Calendar
    Organizer = o  Guests = {g1}  Repliers = {a1}  ReplyMails = {i1, i2}
    MaxCalTime = 2  MaxCalEdits = 1
    \* Contacts
    OldRow = l1  NewRows = {i1, i2}  ContactGroups = {g1}  Adders = {a1}
    MaxContactCalls = 3  MaxMergeFaults = 1
    \* SenderPolicy
    MailDomain = d1  OtherDomains = {d2}  SPFLimit = 3
    MaxTerms = 2  MaxOtherTerms = 1  MaxHosts = 2
SYMMETRY Symmetry
INVARIANTS
    TokenUsedOnce OneFakeIDPerPrimary CredentialsSurviveRestart SignedHistory
    SessionsHold TenantsHold GroupKeysHold DriveHolds LimitsHold TokensHold
    MailboxHolds PoolsHold  PolicyHolds
CHECK_DEADLOCK FALSE
