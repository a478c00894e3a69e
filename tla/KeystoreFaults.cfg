SPECIFICATION Spec
CONSTANTS
    p1 = p1  p2 = p2  dkim = dkim  m1 = m1  m2 = m2  k1 = k1  k2 = k2
    nAdd = nAdd  nRev = nRev  nKey = nKey  nKey2 = nKey2  nList = nList
    Zero = Zero  None = None  NoKey = NoKey
    Procs <- MCProcs
    Roles = {dkim}
    Measurements <- MCMeasurements
    Keys = {k1, k2}
    Nonces <- MCNonces
    SignedProofs <- MCSignedProofs
    Requests <- MCRequests
    MaxRequests = 3
    MaxBoots = 2
    MaxFaults = 1
    MaxDaily = 0
SYMMETRY Symmetry
INVARIANTS TypeOK RootedInOperator WriteProofUsedOnce DelegatorStillMember AckedWriteInForce AuditInv
PROPERTIES WriteOnceKey CustodySpec
CHECK_DEADLOCK FALSE
