----------------------------- MODULE EdgeProofs -----------------------------
(***************************************************************************)
(* Proofs about the components of MCStores that face the outside: the      *)
(* published key log, the limiters of the gateway and of mail, payment     *)
(* tokens and the checks of a sender's identity.  As in StoresProofs, a    *)
(* component's invariant is shown for its own steps; the others leave its  *)
(* state alone.                                                            *)
(***************************************************************************)
EXTENDS MCStores, FiniteSetTheorems, TLAPS

-----------------------------------------------------------------------------
(* The key transparency log, for any set of users, hashes and publishers   *)
(* and any number of epochs.                                               *)

(* A user whose leaf a root signed still has a leaf in that epoch: later   *)
(* writes replace leaves and never remove one.                             *)
LeavesStay ==
  \A e \in 1..latest, u \in LogUsers : root[e][u] # NoHash => leaf[e][u] # NoHash

(* The inductive invariant.                                                *)
LogInv == LogTypeOK /\ LeavesStay /\ SignedHistory

-----------------------------------------------------------------------------
(* The leaves an advance signs are leaves.                                 *)
LEMMA CarryType ==
  ASSUME LogTypeOK, latest < MaxEpoch
  PROVE  CarryForward(latest + 1) \in LogLeaves
<1>1. latest + 1 \in LogEpochs /\ (latest + 1 > 1 => (latest + 1) - 1 \in LogEpochs)
  BY LogAssumption DEF LogTypeOK, LogEpochs
<1>2. leaf[latest + 1] \in LogLeaves
  BY <1>1 DEF LogTypeOK
<1>3. latest + 1 > 1 => leaf[(latest + 1) - 1] \in LogLeaves
  BY <1>1 DEF LogTypeOK
<1> QED BY <1>2, <1>3 DEF CarryForward, LogLeaves

(* Initially nothing is written, signed or under way.                      *)
LEMMA LogStart ==
  ASSUME LogInit
  PROVE  LogInv
<1>1. 1 \in LogEpochs /\ 0 \in 0..MaxEpoch
  BY LogAssumption DEF LogEpochs
<1>2. NoLeaves \in LogLeaves
  BY DEF NoLeaves, LogLeaves
<1>3. LogTypeOK
  BY <1>1, <1>2 DEF LogInit, LogTypeOK, Publication
<1>4. LeavesStay /\ SignedHistory
  BY DEF LogInit, LeavesStay, SignedHistory
<1> QED BY <1>3, <1>4 DEF LogInv

(* A publisher that asks for the next epoch, with or without success.      *)
LEMMA PublishStep ==
  ASSUME LogInv, NEW p \in Publishers, NEW u \in LogUsers, NEW h \in LogHashes, NEW ok \in BOOLEAN,
         Publish(p, u, h, ok)
  PROVE  LogInv'
<1> USE DEF LogInv
<1>1. NextEpoch(ok) \in LogEpochs
  BY LogAssumption DEF LogTypeOK, LogEpochs, NextEpoch
<1>2. pub' = [pub EXCEPT ![p] = [pc |-> "write", user |-> u, hash |-> h, epoch |-> NextEpoch(ok)]]
  BY DEF Publish
<1>3. [pc |-> "write", user |-> u, hash |-> h, epoch |-> NextEpoch(ok)] \in Publication
  BY <1>1 DEF Publication
<1>4. pub' \in [Publishers -> Publication]
  BY <1>2, <1>3 DEF LogTypeOK
<1>5. LogTypeOK'
  BY <1>4 DEF LogTypeOK, Publish
<1>6. LeavesStay' /\ SignedHistory'
  BY DEF LeavesStay, SignedHistory, Publish
<1> QED BY <1>5, <1>6

(* A publisher that is done, whether or not its leaf went in: one that     *)
(* replaces a leaf is a group's.                                           *)
LEMMA PublishedStep ==
  ASSUME LogInv, NEW p \in Publishers, Published(p),
         \/ UNCHANGED leaf
         \/ /\ WriteLeaf(p)
            /\ pub[p].user \in LogGroups \/ leaf[pub[p].epoch][pub[p].user] = NoHash
  PROVE  LogInv'
<1> DEFINE e0 == pub[p].epoch
           u0 == pub[p].user
           h0 == pub[p].hash
<1>1. e0 \in LogEpochs /\ u0 \in LogUsers /\ h0 \in LogHashes /\ h0 # NoHash /\ pub[p].pc = "write"
  BY LogAssumption DEF LogInv, LogTypeOK, Publication, Published
<1>2. latest' = latest /\ root' = root
  BY DEF Published
<1>3. latest \in 0..MaxEpoch /\ \A e \in 1..latest : e \in LogEpochs
  BY LogAssumption DEF LogInv, LogTypeOK, LogEpochs
<1>4. pub' \in [Publishers -> Publication]
  <2>1. pub[p] \in Publication BY DEF LogInv, LogTypeOK
  <2>2. [pub[p] EXCEPT !.pc = "idle"] \in Publication BY <2>1 DEF Publication
  <2>3. pub' = [pub EXCEPT ![p] = [pub[p] EXCEPT !.pc = "idle"]] BY DEF Published
  <2> QED BY <2>2, <2>3 DEF LogInv, LogTypeOK
<1>5. CASE UNCHANGED leaf
  BY <1>2, <1>4, <1>5 DEF LogInv, LogTypeOK, LeavesStay, SignedHistory
<1>6. ASSUME WriteLeaf(p), u0 \in LogGroups \/ leaf[e0][u0] = NoHash
      PROVE  LogInv'
  <2>1. leaf' = [leaf EXCEPT ![e0] = [leaf[e0] EXCEPT ![u0] = h0]]
    BY <1>6 DEF WriteLeaf
  <2>2. leaf[e0] \in LogLeaves
    BY <1>1 DEF LogInv, LogTypeOK
  <2>3. leaf' \in [LogEpochs -> LogLeaves]
    <3>1. [leaf[e0] EXCEPT ![u0] = h0] \in LogLeaves
      BY <1>1, <2>2 DEF LogLeaves
    <3> QED BY <2>1, <3>1 DEF LogInv, LogTypeOK
  <2>4. \A e \in LogEpochs, u \in LogUsers : <<e, u>> # <<e0, u0>> => leaf'[e][u] = leaf[e][u]
    BY <2>1, <2>2, <1>1 DEF LogInv, LogTypeOK, LogLeaves
  <2>5. leaf'[e0][u0] = h0
    BY <2>1, <2>2, <1>1 DEF LogInv, LogTypeOK, LogLeaves
  <2>6. LogTypeOK'
    BY <1>1, <1>2, <1>4, <2>3 DEF LogInv, LogTypeOK
  <2>7. LeavesStay'
    BY <1>1, <1>2, <1>3, <2>4, <2>5 DEF LogInv, LeavesStay
  <2>8. SignedHistory'
    <3>1. ASSUME NEW e \in 1..latest, NEW u \in LogUsers \ LogGroups, root[e][u] # NoHash
          PROVE  leaf'[e][u] = root[e][u]
      <4>1. leaf[e][u] = root[e][u] BY <3>1 DEF LogInv, SignedHistory
      <4>2. <<e, u>> # <<e0, u0>> BY <3>1, <4>1, <1>6
      <4> QED BY <3>1, <4>1, <4>2, <1>3, <2>4
    <3> QED BY <3>1, <1>2 DEF LogInv, SignedHistory
  <2> QED BY <2>6, <2>7, <2>8 DEF LogInv
<1> QED BY <1>5, <1>6

(* The transaction that signs the next epoch.                              *)
LEMMA AdvanceStep ==
  ASSUME LogInv, AdvanceEpochTx
  PROVE  LogInv'
<1> DEFINE e0 == latest + 1
           ls == CarryForward(e0)
<1>1. latest < MaxEpoch /\ latest \in 0..MaxEpoch /\ e0 \in LogEpochs /\ e0 \in 1..MaxEpoch
  BY LogAssumption DEF LogInv, LogTypeOK, LogEpochs, AdvanceEpochTx
<1>2. ls \in LogLeaves
  BY <1>1, CarryType DEF LogInv
<1>3. /\ leaf' = [leaf EXCEPT ![e0] = ls] /\ root' = [root EXCEPT ![e0] = ls] /\ latest' = e0
      /\ pub' = pub
  BY DEF AdvanceEpochTx
<1>4. LogTypeOK'
  BY <1>1, <1>2, <1>3 DEF LogInv, LogTypeOK
<1>5. leaf'[e0] = ls /\ root'[e0] = ls
  BY <1>1, <1>3 DEF LogInv, LogTypeOK
<1>6. \A e \in 1..latest : e \in LogEpochs /\ leaf'[e] = leaf[e] /\ root'[e] = root[e]
  <2>1. \A e \in 1..latest : e \in LogEpochs /\ e # e0
    BY <1>1, LogAssumption DEF LogEpochs
  <2>2. \A e \in LogEpochs : e # e0 => leaf'[e] = leaf[e] /\ root'[e] = root[e]
    BY <1>3 DEF LogInv, LogTypeOK
  <2> QED BY <2>1, <2>2
<1>7. \A e \in 1..latest' : e = e0 \/ e \in 1..latest
  BY <1>1, <1>3
<1>8. LeavesStay'
  BY <1>5, <1>6, <1>7 DEF LogInv, LeavesStay
<1>9. \A e \in 1..latest', u \in LogUsers \ LogGroups : root'[e][u] # NoHash => leaf'[e][u] = root'[e][u]
  BY <1>5, <1>6, <1>7 DEF LogInv, SignedHistory
<1>10. \A e \in 1..latest', u \in LogUsers : e > 1 /\ root'[e - 1][u] # NoHash => root'[e][u] # NoHash
  <2> SUFFICES ASSUME NEW e \in 1..latest', NEW u \in LogUsers, e > 1, root'[e - 1][u] # NoHash
               PROVE  root'[e][u] # NoHash
    OBVIOUS
  <2>1. CASE e \in 1..latest
    <3>1. e - 1 \in 1..latest BY <1>1, <2>1
    <3> QED BY <2>1, <3>1, <1>6 DEF LogInv, SignedHistory
  <2>2. CASE e = e0
    <3>1. e0 - 1 = latest /\ latest \in 1..latest BY <1>1, <2>2
    <3>2. leaf[latest][u] # NoHash
      BY <2>2, <3>1, <1>6 DEF LogInv, LeavesStay
    <3>3. ls[u] # NoHash
      BY <2>2, <3>1, <3>2 DEF CarryForward
    <3> QED BY <2>2, <3>3, <1>5
  <2> QED BY <2>1, <2>2, <1>7
<1>11. SignedHistory'
  BY <1>9, <1>10 DEF SignedHistory
<1> QED BY <1>4, <1>8, <1>11 DEF LogInv

-----------------------------------------------------------------------------
(* Every step keeps the invariant.                                         *)
LEMMA LogStep ==
  ASSUME LogInv, [LogNext]_logVars
  PROVE  LogInv'
<1>1. CASE UNCHANGED logVars
  BY <1>1 DEF logVars, LogInv, LogTypeOK, LeavesStay, SignedHistory
<1>2. ASSUME NEW p \in Publishers, NEW u \in LogUsers, NEW h \in LogHashes, NEW ok \in BOOLEAN,
             Publish(p, u, h, ok)
      PROVE  LogInv'
  BY <1>2, PublishStep
<1>3. ASSUME NEW p \in Publishers, AddLeaf(p)
      PROVE  LogInv'
  BY <1>3, PublishedStep DEF AddLeaf
<1>4. ASSUME NEW p \in Publishers, AddOrUpdateLeaf(p)
      PROVE  LogInv'
  BY <1>4, PublishedStep DEF AddOrUpdateLeaf
<1>5. CASE AdvanceEpochTx
  BY <1>5, AdvanceStep
<1> QED BY <1>1, <1>2, <1>3, <1>4, <1>5 DEF LogNext

(* The inductive invariant holds in every behaviour of the log: types,     *)
(* leaves that stay, and the signed history.                               *)
THEOREM LogInvariant == LogSpec => []LogInv
<1>1. LogInit => LogInv BY LogStart
<1>2. LogInv /\ [LogNext]_logVars => LogInv' BY LogStep
<1> QED BY <1>1, <1>2, PTL DEF LogSpec

(* However many publishers race AdvanceEpochTx or are told epoch 1 by a    *)
(* failed query, a user in a signed root is in every later one, and the    *)
(* leaf the root commits to is the one kt_leaves shows for a user (not     *)
(* for a group, whose leaf AddOrUpdateLeaf overwrites).                    *)
THEOREM HistoryIsSigned == LogSpec => []SignedHistory
<1>1. LogInv => SignedHistory BY DEF LogInv
<1> QED BY <1>1, LogInvariant, PTL

-----------------------------------------------------------------------------
(* The limits of the gateway.                                              *)

(* The order of the natural numbers.                                       *)
Less == {ss \in Nat \X Nat : ss[1] < ss[2]}

LEMMA LessWellFounded == IsWellFoundedOn(Less, Nat)
  BY NatLessThanWellFounded DEF OpToRel, Less

(* A set of counts has a least one, the estimate of a sketch.              *)
LEMMA LeastCount ==
    ASSUME NEW S \in SUBSET Nat, S # {}
    PROVE  Min(S) \in S /\ \A y \in S : Min(S) <= y
  <1>1. \E x \in S : \A y \in S : ~ (<<y, x>> \in Less)
    BY LessWellFounded, WFMin
  <1>2. \A x, y \in S : ~ (<<y, x>> \in Less) => x <= y
    BY DEF Less
  <1>3. \E x \in S : \A y \in S : x <= y
    BY <1>1, <1>2
  <1> QED
    BY <1>3, Zenon DEF Min

(* The cells of row r that addresses are counted in.                       *)
Column(h, r) == {h[r][b] : b \in Addresses}

(* The sketch s of limiter l counts at least what the limiter let pass in  *)
(* its window, unless the salt was replaced in it (re): then the requests  *)
(* of before, at most the limit, are not counted.  The salt is replaced at *)
(* most once in a window, and never inside that of the daily cap.          *)
LimiterOK(l, s, p, re) ==
    /\ s.hash \in HashChoices
    /\ DOMAIN s.cells = SketchRows
    /\ \A r \in SketchRows : s.cells[r] \in [Column(s.hash, r) -> Nat]
    /\ s.windowStart \in 0..gwClock /\ s.saltRotated \in 0..gwClock
    /\ p \in [Addresses -> Nat]
    /\ \A b \in Addresses : p[b] <= (IF re THEN 2 * Limit(l) ELSE Limit(l))
    /\ \A b \in Addresses, r \in SketchRows :
         p[b] <= s.cells[r][s.hash[r][b]] + (IF re THEN Limit(l) ELSE 0)
    /\ re => s.saltRotated >= s.windowStart
    /\ l = "daily" => ~re /\ s.saltRotated = s.windowStart

GwInv ==
    /\ gwClock \in 0..MaxGwTick
    /\ \A l \in Limiters : LimiterOK(l, sketch[l], passed[l], l \in resalted)
    /\ DOMAIN passed = Limiters /\ passed = [l \in Limiters |-> passed[l]]
    /\ DOMAIN sketch = Limiters /\ sketch = [l \in Limiters |-> sketch[l]]
    /\ resalted \subseteq Limiters
    /\ authCount \in [count: 0..(RateLimit + 1), start: 0..gwClock]
    /\ authPassed \in Nat /\ authPassed <= authCount.count /\ authPassed <= RateLimit
    /\ watched \in {"sketches", "bucket"} /\ leaked = FALSE

LEMMA LimitsAreNumbers ==
    \A l \in Limiters : Limit(l) \in Nat /\ Window(l) \in Nat \ {0} /\ saltCap(l) \in Nat /\ saltCap(l) >= Window(l)
                        /\ (l = "daily" => saltCap(l) = Window(l))
  BY GatewayAssumption DEF Limiters, Limit, Window, saltCap

LEMMA GwQuota == GwInv => GwTypeOK /\ RequestQuota
  <1> SUFFICES ASSUME GwInv PROVE GwTypeOK /\ RequestQuota
    OBVIOUS
  <1>1. \A l \in Limiters : passed[l] \in [Addresses -> Nat]
    BY DEF GwInv, LimiterOK
  <1>2. passed \in [Limiters -> [Addresses -> Nat]]
    BY <1>1 DEF GwInv
  <1>3. GwTypeOK
    BY <1>2 DEF GwInv, GwTypeOK, LimiterOK
  <1>4. ASSUME NEW l \in Limiters, NEW a \in Addresses
        PROVE  passed[l][a] <= Limit(l) * (IF l \in resalted THEN 2 ELSE 1)
    <2>1. Limit(l) \in Nat
      BY LimitsAreNumbers
    <2>2. passed[l][a] \in Nat
      BY <1>2
    <2>3. passed[l][a] <= (IF l \in resalted THEN 2 * Limit(l) ELSE Limit(l))
      BY DEF GwInv, LimiterOK
    <2> QED
      BY <2>1, <2>2, <2>3
  <1>5. "daily" \notin resalted
    BY DEF GwInv, LimiterOK, Limiters
  <1> QED
    BY <1>3, <1>4, <1>5 DEF GwInv, RequestQuota

LEMMA NewSketchOK ==
    ASSUME NEW h \in HashChoices, NEW l \in Limiters, gwClock = 0
    PROVE  LimiterOK(l, NewSketch(h, 0), NonePassed, FALSE)
  <1> DEFINE s == NewSketch(h, 0)
  <1>1. s.hash = h /\ s.cells = Cells(h) /\ s.windowStart = 0 /\ s.saltRotated = 0
    BY DEF NewSketch
  <1>2. DOMAIN Cells(h) = SketchRows
    BY DEF Cells
  <1>3. \A r \in SketchRows : Cells(h)[r] \in [Column(h, r) -> Nat]
    BY DEF Cells, Column
  <1>4. \A b \in Addresses, r \in SketchRows : Cells(h)[r][h[r][b]] = 0
    BY DEF Cells
  <1>5. NonePassed \in [Addresses -> Nat] /\ \A b \in Addresses : NonePassed[b] = 0
    BY DEF NonePassed
  <1>6. Limit(l) \in Nat
    BY LimitsAreNumbers
  <1> HIDE DEF s
  <1>7. LimiterOK(l, s, NonePassed, FALSE)
    BY <1>1, <1>2, <1>3, <1>4, <1>5, <1>6 DEF LimiterOK
  <1> QED
    BY <1>7 DEF s

LEMMA GwStart == GwInit => GwInv
  <1> SUFFICES ASSUME GwInit PROVE GwInv
    OBVIOUS
  <1>1. PICK h \in HashChoices : sketch = [l \in Limiters |-> NewSketch(h, 0)]
    BY DEF GwInit
  <1>2. gwClock = 0 /\ resalted = {} /\ passed = [l \in Limiters |-> NonePassed]
    BY DEF GwInit
  <1>3. \A l \in Limiters : LimiterOK(l, NewSketch(h, 0), NonePassed, FALSE)
    BY <1>2, NewSketchOK
  <1>4. \A l \in Limiters : sketch[l] = NewSketch(h, 0) /\ passed[l] = NonePassed /\ (l \in resalted) = FALSE
    BY <1>1, <1>2
  <1>5. \A l \in Limiters : LimiterOK(l, sketch[l], passed[l], l \in resalted)
    BY <1>3, <1>4
  <1>6. authCount \in [count: 0..(RateLimit + 1), start: 0..gwClock] /\ authPassed = 0 /\ authCount.count = 0
    BY GatewayAssumption DEF GwInit
  <1>7. gwClock \in 0..MaxGwTick
    BY <1>2, GatewayAssumption
  <1> QED
    BY <1>1, <1>2, <1>5, <1>6, <1>7, GatewayAssumption DEF GwInit, GwInv

(* The sketch after what is due, and after the request is counted.         *)
LEMMA RequestCounted ==
    ASSUME NEW l \in Limiters, NEW a \in Addresses, NEW h \in HashChoices, gwClock \in Nat,
           LimiterOK(l, sketch[l], passed[l], l \in resalted),
           NEW s, s = Increment(Refreshed(l, IF SaltDue(l) THEN h ELSE sketch[l].hash), a),
           NEW p, p = IF WindowDue(l) THEN NonePassed ELSE passed[l],
           NEW re \in BOOLEAN, re <=> (~WindowDue(l) /\ (l \in resalted \/ SaltDue(l)))
    PROVE  /\ LimiterOK(l, s, p, re)
           /\ Estimate(s, a) <= Limit(l) => LimiterOK(l, s, [p EXCEPT ![a] = @ + 1], re)
  <1> DEFINE k == IF SaltDue(l) THEN h ELSE sketch[l].hash
             old == IF SaltDue(l) \/ WindowDue(l) THEN Cells(k) ELSE sketch[l].cells
             more == IF re THEN Limit(l) ELSE 0
  <1>1. k \in HashChoices
    BY DEF LimiterOK
  <1>2. /\ Refreshed(l, k).cells = old /\ Refreshed(l, k).hash = k
        /\ Refreshed(l, k).windowStart = (IF WindowDue(l) THEN gwClock ELSE sketch[l].windowStart)
        /\ Refreshed(l, k).saltRotated = (IF SaltDue(l) THEN gwClock ELSE sketch[l].saltRotated)
    BY DEF Refreshed
  <1>3. /\ s.cells = [r \in SketchRows |-> [old[r] EXCEPT ![k[r][a]] = @ + 1]]
        /\ s.hash = k
        /\ s.windowStart = (IF WindowDue(l) THEN gwClock ELSE sketch[l].windowStart)
        /\ s.saltRotated = (IF SaltDue(l) THEN gwClock ELSE sketch[l].saltRotated)
    BY <1>2 DEF Increment, Refreshed
  <1>4. Limit(l) \in Nat /\ Window(l) \in Nat /\ saltCap(l) \in Nat /\ saltCap(l) >= Window(l)
        /\ (l = "daily" => saltCap(l) = Window(l))
    BY LimitsAreNumbers
  <1>5. /\ sketch[l].windowStart \in Nat /\ sketch[l].saltRotated \in Nat
        /\ sketch[l].windowStart <= gwClock /\ sketch[l].saltRotated <= gwClock
        /\ l \in resalted => sketch[l].saltRotated >= sketch[l].windowStart
        /\ l = "daily" => l \notin resalted /\ sketch[l].saltRotated = sketch[l].windowStart
    BY DEF LimiterOK
  <1>6. SaltDue(l) /\ l \in resalted => WindowDue(l)
    BY <1>4, <1>5 DEF SaltDue, WindowDue
  <1>7. l = "daily" => ~re /\ s.saltRotated = s.windowStart
    BY <1>3, <1>4, <1>5, ZenonT(40) DEF SaltDue, WindowDue
  <1>8. re => s.saltRotated >= s.windowStart
    <2> SUFFICES ASSUME re PROVE s.saltRotated >= s.windowStart
      OBVIOUS
    <2>1. s.windowStart = sketch[l].windowStart
      BY <1>3, Zenon
    <2>2. CASE SaltDue(l)
      <3>1. s.saltRotated = gwClock
        BY <1>3, <2>2, Zenon
      <3>2. gwClock >= sketch[l].windowStart
        BY <1>5
      <3> QED
        BY <2>1, <3>1, <3>2, Zenon
    <2>3. CASE ~SaltDue(l)
      <3>1. s.saltRotated = sketch[l].saltRotated /\ l \in resalted
        BY <1>3, <2>3, Zenon
      <3> QED
        BY <2>1, <3>1, <1>5, Zenon
    <2> QED
      BY <2>2, <2>3
  <1>9. s.windowStart \in 0..gwClock /\ s.saltRotated \in 0..gwClock
    <2>1. s.windowStart \in {gwClock, sketch[l].windowStart}
      BY <1>3, Zenon
    <2>2. s.saltRotated \in {gwClock, sketch[l].saltRotated}
      BY <1>3, Zenon
    <2>3. \A n \in Nat : n <= gwClock => \A x \in {gwClock, n} : x \in 0..gwClock
      OBVIOUS
    <2> QED
      BY <2>1, <2>2, <2>3, <1>5, Zenon
  <1>10. \A r \in SketchRows : old[r] \in [Column(k, r) -> Nat]
    <2> SUFFICES ASSUME NEW r \in SketchRows PROVE old[r] \in [Column(k, r) -> Nat]
      OBVIOUS
    <2>1. CASE SaltDue(l) \/ WindowDue(l)
      <3>1. old[r] = Cells(k)[r]
        BY <2>1
      <3> HIDE DEF k, old
      <3> QED
        BY <3>1 DEF Cells, Column
    <2>2. CASE ~(SaltDue(l) \/ WindowDue(l))
      BY <2>2 DEF LimiterOK
    <2> QED
      BY <2>1, <2>2
  <1>11. p \in [Addresses -> Nat]
    BY DEF LimiterOK, NonePassed
  <1>12. \A b \in Addresses : p[b] <= (IF re THEN 2 * Limit(l) ELSE Limit(l))
    <2> SUFFICES ASSUME NEW b \in Addresses PROVE p[b] <= (IF re THEN 2 * Limit(l) ELSE Limit(l))
      OBVIOUS
    <2>1. CASE WindowDue(l)
      BY <2>1, <1>4 DEF NonePassed
    <2>2. CASE ~WindowDue(l)
      <3>1. p[b] = passed[l][b] /\ p[b] \in Nat
        BY <2>2, <1>11
      <3>2. passed[l][b] <= (IF l \in resalted THEN 2 * Limit(l) ELSE Limit(l))
        BY DEF LimiterOK
      <3> QED
        BY <2>2, <3>1, <3>2, <1>4
    <2> QED
      BY <2>1, <2>2
  <1>13. \A b \in Addresses, r \in SketchRows : p[b] <= old[r][k[r][b]] + more
    <2> SUFFICES ASSUME NEW b \in Addresses, NEW r \in SketchRows PROVE p[b] <= old[r][k[r][b]] + more
      OBVIOUS
    <2>0. old[r][k[r][b]] \in Nat /\ more \in Nat /\ p[b] \in Nat
      <3>1. k[r][b] \in Column(k, r)
        BY DEF Column
      <3>2. old[r] \in [Column(k, r) -> Nat]
        BY <1>10
      <3>3. more \in Nat /\ p[b] \in Nat
        BY <1>4, <1>11
      <3> HIDE DEF old, k
      <3> QED
        BY <3>1, <3>2, <3>3
    <2>1. CASE WindowDue(l)
      <3>1. p[b] = 0
        BY <2>1 DEF NonePassed
      <3> QED
        BY <3>1, <2>0
    <2>2. CASE ~WindowDue(l) /\ SaltDue(l)
      <3>1. l \notin resalted /\ re
        BY <2>2, <1>6
      <3>2. p[b] <= Limit(l)
        BY <2>2, <3>1 DEF LimiterOK
      <3> QED
        BY <3>1, <3>2, <2>0, <1>4
    <2>3. CASE ~WindowDue(l) /\ ~SaltDue(l)
      BY <2>3 DEF LimiterOK
    <2> QED
      BY <2>1, <2>2, <2>3
  <1> HIDE DEF old, more
  <1>14. more = IF re THEN Limit(l) ELSE 0
    BY DEF more
  <1>15. \A r \in SketchRows : s.cells[r] = [old[r] EXCEPT ![k[r][a]] = @ + 1]
    BY <1>3
  <1> HIDE DEF k
  <1>16. \A r \in SketchRows : s.cells[r] \in [Column(k, r) -> Nat]
    <2> SUFFICES ASSUME NEW r \in SketchRows PROVE s.cells[r] \in [Column(k, r) -> Nat]
      OBVIOUS
    <2>1. old[r] \in [Column(k, r) -> Nat] /\ s.cells[r] = [old[r] EXCEPT ![k[r][a]] = @ + 1]
      BY <1>10, <1>15
    <2>2. k[r][a] \in Column(k, r)
      BY DEF Column
    <2> QED
      BY <2>1, <2>2
  <1>17. \A r \in SketchRows, b \in Addresses :
            /\ old[r][k[r][b]] \in Nat
            /\ s.cells[r][k[r][b]] = old[r][k[r][b]] + (IF k[r][b] = k[r][a] THEN 1 ELSE 0)
    <2> SUFFICES ASSUME NEW r \in SketchRows, NEW b \in Addresses
                 PROVE  /\ old[r][k[r][b]] \in Nat
                        /\ s.cells[r][k[r][b]] = old[r][k[r][b]] + (IF k[r][b] = k[r][a] THEN 1 ELSE 0)
      OBVIOUS
    <2>1. k[r][a] \in Column(k, r) /\ k[r][b] \in Column(k, r)
      BY DEF Column
    <2>2. old[r] \in [Column(k, r) -> Nat]
      BY <1>10
    <2>3. s.cells[r] = [old[r] EXCEPT ![k[r][a]] = @ + 1]
      BY <1>15
    <2> QED
      BY <2>1, <2>2, <2>3
  <1>18. DOMAIN s.cells = SketchRows
    BY <1>3
  <1>21. s.hash = k
    BY <1>3
  <1>19. LimiterOK(l, s, p, re)
    <2>1. \A b \in Addresses, r \in SketchRows : p[b] <= s.cells[r][k[r][b]] + more
      <3> SUFFICES ASSUME NEW b \in Addresses, NEW r \in SketchRows PROVE p[b] <= s.cells[r][k[r][b]] + more
        OBVIOUS
      <3>1. p[b] <= old[r][k[r][b]] + more /\ p[b] \in Nat /\ more \in Nat
        BY <1>4, <1>11, <1>13, <1>14
      <3> QED
        BY <3>1, <1>17
    <2> QED
      BY <2>1, <1>1, <1>21, <1>7, <1>8, <1>9, <1>11, <1>12, <1>14, <1>16, <1>18 DEF LimiterOK
  <1>20. ASSUME Estimate(s, a) <= Limit(l) PROVE LimiterOK(l, s, [p EXCEPT ![a] = @ + 1], re)
    <2> DEFINE q == [p EXCEPT ![a] = @ + 1]
    <2>1. q \in [Addresses -> Nat] /\ \A b \in Addresses : q[b] = IF b = a THEN p[a] + 1 ELSE p[b]
      BY <1>11
    <2> HIDE DEF q
    <2>2. \A b \in Addresses, r \in SketchRows : q[b] <= s.cells[r][k[r][b]] + more
      <3> SUFFICES ASSUME NEW b \in Addresses, NEW r \in SketchRows PROVE q[b] <= s.cells[r][k[r][b]] + more
        OBVIOUS
      <3>1. /\ p[b] <= old[r][k[r][b]] + more /\ p[b] \in Nat /\ more \in Nat
            /\ p[a] <= old[r][k[r][a]] + more /\ p[a] \in Nat
        BY <1>4, <1>11, <1>13, <1>14
      <3>2. CASE b = a
        BY <3>1, <3>2, <2>1, <1>17
      <3>3. CASE b # a
        BY <3>1, <3>3, <2>1, <1>17
      <3> QED
        BY <3>2, <3>3
    <2>3. PICK r \in SketchRows : Estimate(s, a) = s.cells[r][k[r][a]] /\ Estimate(s, a) \in Nat
      <3> DEFINE S == {s.cells[r][k[r][a]] : r \in SketchRows}
      <3>1. S \in SUBSET Nat
        BY <1>17
      <3>2. S # {}
        BY GatewayAssumption
      <3>3. Estimate(s, a) = Min(S)
        BY <1>21, Zenon DEF Estimate
      <3>4. Min(S) \in S
        BY <3>1, <3>2, LeastCount
      <3> QED
        BY <3>1, <3>3, <3>4
    <2>4. q[a] <= Limit(l) + more
      <3>1. q[a] <= s.cells[r][k[r][a]] + more /\ q[a] \in Nat /\ more \in Nat
        BY <2>1, <2>2, <1>4, <1>14
      <3> QED
        BY <3>1, <2>3, <1>20, <1>4
    <2>5. \A b \in Addresses : q[b] <= (IF re THEN 2 * Limit(l) ELSE Limit(l))
      <3>1. q[a] <= (IF re THEN 2 * Limit(l) ELSE Limit(l))
        BY <2>1, <2>4, <1>4, <1>14
      <3> QED
        BY <3>1, <2>1, <1>12
    <2>6. LimiterOK(l, s, q, re)
      BY <2>1, <2>2, <2>5, <1>1, <1>21, <1>7, <1>8, <1>9, <1>14, <1>16, <1>18 DEF LimiterOK
    <2> QED
      BY <2>6 DEF q
  <1> QED
    BY <1>19, <1>20

(* Limiters that do not see the request stay as they are.                  *)
LEMMA KeptByRequest ==
    ASSUME GwInv, NEW a \in Addresses, NEW q \in ApiRequests, apiHandler(a, q.space, q.endpoint, q.cred)
    PROVE  GwInv'
  <1> DEFINE bp == gatewayBackendPath(q.space, q.endpoint)
             first == IF bp \in rateLimitedPaths THEN {"rate"} ELSE {}
             second == IF bp \in regLimitedPaths THEN {"burst", "daily"} ELSE {}
  <1>1. first \cup second \subseteq Limiters
    BY DEF Limiters
  <1>2. PICK h \in Salts(first \cup second), ls \in SUBSET (first \cup second) :
          /\ allow(ls, a, Counted(first \cup second, a, h))
          /\ leaked' = (leaked \/ ( /\ Accepting(ls, a, Counted(first \cup second, a, h)) = first \cup second
                                    /\ mayProxy(bp, q.cred)
                                    /\ q.endpoint = "inbox" /\ ~q.cred))
          /\ UNCHANGED <<watched, gwClock, authCount, authPassed>>
    <2> DEFINE refused(c) == Accepting(first, a, c) # first
               consulted(c) == IF refused(c) THEN first ELSE first \cup second
    <2>1. PICK c \in {Counted(first \cup second, a, h) : h \in Salts(first \cup second)} :
            /\ allow(consulted(c), a, c)
            /\ leaked' = (leaked \/ ( /\ Accepting(consulted(c), a, c) = first \cup second
                                      /\ mayProxy(bp, q.cred)
                                      /\ q.endpoint = "inbox" /\ ~q.cred))
            /\ UNCHANGED <<watched, gwClock, authCount, authPassed>>
      BY DEF apiHandler
    <2>2. PICK h \in Salts(first \cup second) : c = Counted(first \cup second, a, h)
      OBVIOUS
    <2>3. consulted(c) \in SUBSET (first \cup second)
      OBVIOUS
    <2> HIDE DEF first, second, bp, consulted
    <2> QED
      BY <2>1, <2>2, <2>3
  <1>3. h \in HashChoices
    BY DEF Salts, GwInv, LimiterOK, Limiters
  <1>4. ~leaked'
    <2>1. bp = <<IF q.space = "fakeid" THEN "fakeid" ELSE "primary", q.endpoint>>
      BY DEF gatewayBackendPath
    <2>2. q.endpoint = "inbox" => ~(bp \in publicPaths) /\ ~isPublicPrefix(bp)
      BY <2>1 DEF publicPaths, isPublicPrefix
    <2> QED
      BY <1>2, <2>2 DEF mayProxy, GwInv
  <1> DEFINE all == first \cup second
             s == Counted(all, a, h)
             p(l) == IF WindowDue(l) THEN NonePassed ELSE passed[l]
  <1>5. ls \subseteq all /\ all \subseteq Limiters
    BY <1>1, <1>2
  <1>6. /\ sketch' = [l \in Limiters |-> IF l \in ls THEN s[l] ELSE sketch[l]]
        /\ passed' = [l \in Limiters |-> IF l \notin ls THEN passed[l]
                                         ELSE IF l \in Accepting(ls, a, s) THEN [p(l) EXCEPT ![a] = @ + 1] ELSE p(l)]
        /\ resalted' = {l \in Limiters : IF l \in ls /\ WindowDue(l) THEN FALSE
                                         ELSE l \in resalted \/ (l \in ls /\ SaltDue(l))}
    BY <1>2 DEF allow
  <1> HIDE DEF first, second, all
  <1>7. \A l \in ls : s[l] = Increment(Refreshed(l, IF SaltDue(l) THEN h ELSE sketch[l].hash), a)
    BY <1>5 DEF Counted
  <1> HIDE DEF s
  <1>8. gwClock' = gwClock /\ gwClock \in Nat
    BY <1>2, GatewayAssumption DEF GwInv
  <1>9. ASSUME NEW l \in Limiters
        PROVE  LimiterOK(l, sketch'[l], passed'[l], l \in resalted')
    <2>1. LimiterOK(l, sketch[l], passed[l], l \in resalted)
      BY DEF GwInv
    <2>2. CASE l \notin ls
      <3>1. sketch'[l] = sketch[l] /\ passed'[l] = passed[l] /\ (l \in resalted') = (l \in resalted)
        BY <2>2, <1>6
      <3> QED
        BY <2>1, <3>1
    <2>3. CASE l \in ls
      <3>1. PICK re \in BOOLEAN : re <=> (~WindowDue(l) /\ (l \in resalted \/ SaltDue(l)))
        OBVIOUS
      <3>2. sketch'[l] = s[l] /\ (l \in resalted') = re
        BY <2>3, <3>1, <1>6
      <3>3. LimiterOK(l, s[l], p(l), re)
        BY <2>1, <2>3, <3>1, <1>3, <1>7, <1>8, RequestCounted
      <3>4. Estimate(s[l], a) <= Limit(l) => LimiterOK(l, s[l], [p(l) EXCEPT ![a] = @ + 1], re)
        BY <2>1, <2>3, <3>1, <1>3, <1>7, <1>8, RequestCounted
      <3>5. CASE l \in Accepting(ls, a, s)
        <4>1. passed'[l] = [p(l) EXCEPT ![a] = @ + 1] /\ Estimate(s[l], a) <= Limit(l)
          BY <2>3, <3>5, <1>6 DEF Accepting
        <4> QED
          BY <4>1, <3>2, <3>4
      <3>6. CASE l \notin Accepting(ls, a, s)
        <4>1. passed'[l] = p(l)
          BY <2>3, <3>6, <1>6
        <4> QED
          BY <4>1, <3>2, <3>3
      <3> QED
        BY <3>5, <3>6
    <2> QED
      BY <2>2, <2>3
  <1>10. \A l \in Limiters : LimiterOK(l, sketch[l], passed[l], l \in resalted)'
    BY <1>8, <1>9 DEF LimiterOK, Limit
  <1>11. /\ DOMAIN passed' = Limiters /\ passed' = [l \in Limiters |-> passed'[l]]
         /\ DOMAIN sketch' = Limiters /\ sketch' = [l \in Limiters |-> sketch'[l]]
         /\ resalted' \subseteq Limiters
    BY <1>6
  <1>12. leaked' = FALSE
    BY <1>2, <1>4
  <1> QED
    BY <1>2, <1>8, <1>10, <1>11, <1>12 DEF GwInv

LEMMA GwStep ==
    ASSUME GwInv, [GwNext]_gwVars
    PROVE  GwInv'
  <1> USE GatewayAssumption
  <1>1. CASE GwTick
    <2>1. gwClock' \in 0..MaxGwTick /\ gwClock' = gwClock + 1 /\ gwClock \in Nat
          /\ UNCHANGED <<watched, sketch, authCount, passed, resalted, leaked, authPassed>>
      BY <1>1 DEF GwTick, GwInv
    <2>2. authCount' \in [count: 0..(RateLimit + 1), start: 0..gwClock']
      BY <2>1 DEF GwInv
    <2>3. \A l \in Limiters : LimiterOK(l, sketch[l], passed[l], l \in resalted)'
      <3> SUFFICES ASSUME NEW l \in Limiters PROVE LimiterOK(l, sketch[l], passed[l], l \in resalted)'
        OBVIOUS
      <3>1. LimiterOK(l, sketch[l], passed[l], l \in resalted)
        BY DEF GwInv
      <3>2. sketch[l].windowStart \in 0..gwClock' /\ sketch[l].saltRotated \in 0..gwClock'
        BY <2>1, <3>1 DEF LimiterOK
      <3> QED
        BY <2>1, <3>1, <3>2 DEF LimiterOK, Limit
    <2> QED
      BY <2>1, <2>2, <2>3 DEF GwInv
  <1>2. CASE AllowAuthenticated
    <2>1. UNCHANGED <<watched, gwClock, sketch, passed, resalted, leaked>>
      BY <1>2 DEF AllowAuthenticated
    <2>2. authCount.count \in 0..(RateLimit + 1) /\ authCount.start \in 0..gwClock /\ gwClock \in Nat
          /\ authPassed \in Nat /\ authPassed <= authCount.count /\ authPassed <= RateLimit
      BY DEF GwInv
    <2>3. /\ authCount' \in [count: 0..(RateLimit + 1), start: 0..gwClock]
          /\ authPassed' \in Nat /\ authPassed' <= authCount'.count /\ authPassed' <= RateLimit
      <3> DEFINE fresh == gwClock - authCount.start >= MinuteTicks \/ authCount.count = 0
      <3>1. CASE fresh
        <4>1. authCount' = [count |-> 1, start |-> gwClock] /\ authPassed' = 1
          BY <1>2, <3>1 DEF AllowAuthenticated
        <4> QED
          BY <4>1, <2>2
      <3>2. CASE ~fresh
        <4>1. /\ authCount' = [authCount EXCEPT !.count = @ + 1] /\ authCount.count <= RateLimit
              /\ authPassed' = authPassed + (IF authCount.count + 1 <= RateLimit THEN 1 ELSE 0)
          BY <1>2, <3>2 DEF AllowAuthenticated
        <4>2. authCount'.count = authCount.count + 1 /\ authCount'.start = authCount.start
              /\ authCount' \in [count: 0..(RateLimit + 1), start: 0..gwClock]
          BY <4>1, <2>2 DEF GwInv
        <4> QED
          BY <4>1, <4>2, <2>2
      <3> QED
        BY <3>1, <3>2
    <2>4. \A l \in Limiters : LimiterOK(l, sketch[l], passed[l], l \in resalted)'
      BY <2>1 DEF GwInv, LimiterOK, Limit
    <2> QED
      BY <2>1, <2>3, <2>4 DEF GwInv
  <1>3. CASE \E a \in Addresses, q \in ApiRequests : apiHandler(a, q.space, q.endpoint, q.cred)
    BY <1>3, KeptByRequest
  <1>4. CASE UNCHANGED gwVars
    BY <1>4 DEF gwVars, GwInv, LimiterOK, Limit
  <1> QED
    BY <1>1, <1>2, <1>3, <1>4 DEF GwNext

LEMMA GatewayPart ==
    ASSUME [StoresNext]_storesVars
    PROVE  [GwNext]_gwVars
  BY DEF StoresNext, Only, storesVars
-----------------------------------------------------------------------------
(* The mail limits.                                                        *)

(* The end of the day of t, from what division does.                       *)
LEMMA DayOf ==
    ASSUME NEW t \in Nat, NEW d \in Nat \ {0}
    PROVE  /\ t \div d \in Nat /\ t % d \in 0..(d - 1)
           /\ t = (t \div d) * d + (t % d)
  OBVIOUS

LEMMA MidnightComes ==
    ASSUME NEW t \in Nat
    PROVE  Midnight(t) \in Nat /\ t < Midnight(t) /\ Midnight(t) <= t + DayTicks
  <1>1. DayTicks \in Nat \ {0}
    BY RateAssumption
  <1>2. PICK q \in Nat, r \in 0..(DayTicks - 1) : q = t \div DayTicks /\ t = q * DayTicks + r
    BY <1>1, DayOf
  <1>3. Midnight(t) = q * DayTicks + DayTicks
    BY <1>2 DEF Midnight
  <1>4. PICK m \in Nat : m = q * DayTicks
    BY <1>1, <1>2
  <1> QED
    BY <1>1, <1>2, <1>3, <1>4

LEMMA SameDay ==
    ASSUME NEW t \in Nat, (t + 1) % DayTicks # 0
    PROVE  Midnight(t + 1) = Midnight(t)
  <1>1. DayTicks \in Nat \ {0}
    BY RateAssumption
  <1>2. PICK q \in Nat, r \in 0..(DayTicks - 1) : q = t \div DayTicks /\ t = q * DayTicks + r
    BY <1>1, DayOf
  <1>3. PICK p \in Nat, w \in 0..(DayTicks - 1) :
            p = (t + 1) \div DayTicks /\ w = (t + 1) % DayTicks /\ t + 1 = p * DayTicks + w
    BY <1>1, DayOf
  <1>4. CASE p >= q + 1
    <2>0. p - (q + 1) \in Nat /\ p = q + 1 + (p - (q + 1))
      BY <1>4, <1>2, <1>3
    <2>1. PICK n \in Nat : p = q + 1 + n
      BY <2>0
    <2>2. p * DayTicks = q * DayTicks + DayTicks + n * DayTicks
      BY <2>1, <1>1, <1>2
    <2>3. PICK m \in Nat, k \in Nat : m = n * DayTicks /\ k = q * DayTicks
      BY <1>1, <1>2, <2>1
    <2> QED
      BY <2>2, <2>3, <1>1, <1>2, <1>3
  <1>5. CASE q >= p + 1
    <2>0. q - (p + 1) \in Nat /\ q = p + 1 + (q - (p + 1))
      BY <1>5, <1>2, <1>3
    <2>1. PICK n \in Nat : q = p + 1 + n
      BY <2>0
    <2>2. q * DayTicks = p * DayTicks + DayTicks + n * DayTicks
      BY <2>1, <1>1, <1>3
    <2>3. PICK m \in Nat, k \in Nat : m = n * DayTicks /\ k = p * DayTicks
      BY <1>1, <1>3, <2>1
    <2> QED
      BY <2>2, <2>3, <1>1, <1>2, <1>3
  <1>6. CASE p = q
    BY <1>6, <1>2, <1>3 DEF Midnight
  <1> QED
    BY <1>2, <1>3, <1>4, <1>5, <1>6

(* The counter a span is a window of, and the spans there are.             *)
CounterOf(s) ==
    CASE s[1] = "redis" -> redis[s[2]] [] s[1] = "memory" -> inMemory[s[2]] [] OTHER -> heap[s[2]]

Spans ==
    ({"redis"} \X (Processes \cup {Shared}) \X Int) \cup ({"memory"} \X Processes \X Int)
        \cup ({"account"} \X (1..Len(heap)) \X Int)

(* A ticket stands for one thing let through: the window and what its      *)
(* counter showed then.  A window that is over does not come back, and the *)
(* counter of the current one has reached what the tickets say.            *)
Stamped(x) ==
    /\ x[1][3] <= CounterOf(x[1]).end
    /\ x[1][3] = CounterOf(x[1]).end => x[2] <= CounterOf(x[1]).count

Tickets(g) ==
    /\ g \subseteq spans \X (1..SendLimit)
    /\ IsFiniteSet(g) /\ Cardinality(g) = today
    /\ \A x \in g : Stamped(x)

Current(s) == <<"redis", Shared, s>>

(* With a shared key that always answered, everything was let through by   *)
(* the current window and one before it; by the current one alone, unless  *)
(* it began today.                                                         *)
TwoWindows ==
    /\ \E e \in Int : spans \subseteq {Current(e), Current(redis[Shared].end)}
    /\ redis[Shared].end < Midnight(clock) => spans \subseteq {Current(redis[Shared].end)}

Drawn == IsFiniteSet(spans) /\ spans \subseteq Spans /\ \E g : Tickets(g)

(* A key that was used expires within a day.                               *)
KeysExpire ==
    \A k \in Processes \cup {Shared} : /\ redis[k].end <= clock + DayTicks
                                       /\ redis[k].count = 0 => redis[k].end = -1

CallsOK == \A c \in Calls : call[c].at = "decide" => call[c].process \in Processes

RateInv ==
    /\ RateTypeOK /\ Drawn /\ KeysExpire /\ CallsOK
    /\ useRedis /\ outages = 0 /\ limiter # "conn" => TwoWindows

LEMMA RateQuota == RateInv => RateTypeOK /\ SendQuota
  <1> SUFFICES ASSUME RateInv PROVE SendQuota
    BY DEF RateInv
  <1>1. PICK g : Tickets(g)
    BY DEF RateInv, Drawn
  <1>2. IsFiniteSet(1..SendLimit) /\ Cardinality(1..SendLimit) = SendLimit /\ SendLimit \in Nat
    BY FS_Interval, RateAssumption
  <1>3. /\ IsFiniteSet(spans \X (1..SendLimit))
        /\ Cardinality(spans \X (1..SendLimit)) = Cardinality(spans) * SendLimit
        /\ Cardinality(spans) \in Nat
    BY <1>2, FS_Product, FS_CardinalityType DEF RateInv, Drawn
  <1>4. Cardinality(g) <= Cardinality(spans) * SendLimit
    BY <1>1, <1>3, FS_Subset DEF Tickets
  <1>5. today <= SendLimit * Cardinality(spans)
    <2>1. Cardinality(spans) * SendLimit = SendLimit * Cardinality(spans)
      BY <1>2, <1>3
    <2> QED
      BY <1>1, <1>4, <2>1 DEF Tickets
  <1>6. ASSUME useRedis, outages = 0, limiter # "conn" PROVE Cardinality(spans) <= 2
    <2>1. PICK e \in Int : spans \subseteq {Current(e), Current(redis[Shared].end)}
      BY <1>6 DEF RateInv, TwoWindows
    <2>2. \A x, y : IsFiniteSet({x, y}) /\ Cardinality({x, y}) \in Nat /\ Cardinality({x, y}) <= 2
      <3> SUFFICES ASSUME NEW x, NEW y
                   PROVE  IsFiniteSet({x, y}) /\ Cardinality({x, y}) \in Nat /\ Cardinality({x, y}) <= 2
        OBVIOUS
      <3>1. IsFiniteSet({x}) /\ Cardinality({x}) = 1
        BY FS_Singleton
      <3>2. {x, y} = {x} \cup {y}
        OBVIOUS
      <3> QED
        BY <3>1, <3>2, FS_AddElement
    <2> DEFINE T == {Current(e), Current(redis[Shared].end)}
    <2>3. IsFiniteSet(T) /\ Cardinality(T) \in Nat /\ Cardinality(T) <= 2
      BY <2>2
    <2>4. spans \in SUBSET T
      BY <2>1
    <2> HIDE DEF T
    <2>5. Cardinality(spans) <= Cardinality(T)
      BY <2>3, <2>4, FS_Subset
    <2> QED
      BY <2>3, <2>5, <1>3
  <1> QED
    BY <1>5, <1>6 DEF SendQuota

LEMMA RateStart == RateInit => RateInv
  <1> SUFFICES ASSUME RateInit PROVE RateInv
    OBVIOUS
  <1>1. NoCounter \in Counter /\ NoCounter.end = -1 /\ NoCounter.count = 0
    BY RateAssumption DEF NoCounter, Counter
  <1>2. Len(heap) = 0 /\ heap \in Seq(AccountCounter)
    BY DEF RateInit
  <1>3. Idle \in [at: {"idle", "decide"}, process: Processes \cup {Shared}, seen: 0..Len(heap), read: 0..MaxTick]
        /\ Idle.at = "idle"
    BY <1>2, RateAssumption DEF Idle
  <1>4. RateTypeOK
    BY <1>1, <1>2, <1>3, RateAssumption DEF RateInit, RateTypeOK
  <1>5. spans = {} /\ today = 0
    BY DEF RateInit
  <1>6. Tickets({})
    BY <1>5, FS_EmptySet DEF Tickets
  <1>7. \A k \in Processes \cup {Shared} : redis[k].end <= clock + DayTicks /\ redis[k].end = -1
    BY <1>1, RateAssumption DEF RateInit
  <1>8. \A c \in Calls : call[c].at = "idle"
    BY <1>3 DEF RateInit
  <1>9. TwoWindows
    BY <1>5 DEF TwoWindows
  <1> QED
    BY <1>4, <1>5, <1>6, <1>7, <1>8, <1>9, FS_EmptySet DEF RateInv, Drawn, KeysExpire, CallsOK

(* A counter moves on: its window is replaced by a later one, or it counts *)
(* further in it.                                                          *)
Advance(b, d) == b.end <= d.end /\ (b.end = d.end => b.count <= d.count)
Grows(b, d) == b.end < d.end \/ (b.end = d.end /\ b.count < d.count)

Moves ==
    /\ \A k \in Processes \cup {Shared} : Advance(redis[k], redis'[k])
    /\ \A i \in Processes : Advance(inMemory[i], inMemory'[i])
    /\ Len(heap) <= Len(heap') /\ \A n \in 1..Len(heap) : Advance(heap[n], heap'[n])

LEMMA Counters ==
    ASSUME NEW x, NEW e
    PROVE  /\ CounterOf(<<"redis", x, e>>) = redis[x]
           /\ CounterOf(<<"memory", x, e>>) = inMemory[x]
           /\ CounterOf(<<"account", x, e>>) = heap[x]
           /\ CounterOf(<<"redis", x, e>>)' = redis'[x]
           /\ CounterOf(<<"memory", x, e>>)' = inMemory'[x]
           /\ CounterOf(<<"account", x, e>>)' = heap'[x]
  BY DEF CounterOf

(* The fields of the counters are numbers.                                 *)
LEMMA CounterFields ==
    ASSUME RateTypeOK
    PROVE  /\ \A k \in Processes \cup {Shared} : redis[k].end \in Int /\ redis[k].count \in Nat
           /\ \A i \in Processes : inMemory[i].end \in Int /\ inMemory[i].count \in Nat
           /\ Len(heap) \in Nat
           /\ \A n \in 1..Len(heap) : heap[n] \in AccountCounter /\ heap[n].end \in Int /\ heap[n].count \in Nat
           /\ clock \in Nat
  <1> USE RateAssumption
  <1>1. \A b \in Counter : b.end \in Int /\ b.count \in Nat
    BY DEF Counter
  <1>2. \A b \in AccountCounter : b.end \in Int /\ b.count \in Nat
    BY DEF AccountCounter
  <1>3. Len(heap) \in Nat /\ \A n \in 1..Len(heap) : heap[n] \in AccountCounter
    BY DEF RateTypeOK
  <1> QED
    BY <1>1, <1>2, <1>3 DEF RateTypeOK

LEMMA CounterFieldsNext ==
    ASSUME RateTypeOK'
    PROVE  /\ \A k \in Processes \cup {Shared} : redis'[k].end \in Int /\ redis'[k].count \in Nat
           /\ \A i \in Processes : inMemory'[i].end \in Int /\ inMemory'[i].count \in Nat
           /\ Len(heap') \in Nat
           /\ \A n \in 1..Len(heap') : heap'[n].end \in Int /\ heap'[n].count \in Nat
  <1> USE RateAssumption
  <1>1. \A b \in Counter : b.end \in Int /\ b.count \in Nat
    BY DEF Counter
  <1>2. \A b \in AccountCounter : b.end \in Int /\ b.count \in Nat
    BY DEF AccountCounter
  <1>3. Len(heap') \in Nat /\ \A n \in 1..Len(heap') : heap'[n] \in AccountCounter
    BY DEF RateTypeOK
  <1> QED
    BY <1>1, <1>2, <1>3 DEF RateTypeOK

LEMMA SpansMove ==
    ASSUME RateTypeOK, RateTypeOK', Moves, NEW s \in Spans
    PROVE  /\ s \in Spans'
           /\ Advance(CounterOf(s), CounterOf(s)')
           /\ s[3] \in Int /\ CounterOf(s).end \in Int /\ CounterOf(s).count \in Nat
           /\ CounterOf(s)'.end \in Int /\ CounterOf(s)'.count \in Nat
  <1>1. CASE s \in {"redis"} \X (Processes \cup {Shared}) \X Int
    <2>1. PICK k \in Processes \cup {Shared}, e \in Int : s = <<"redis", k, e>>
      BY <1>1
    <2>2. k \in Processes \cup {Shared}
      OBVIOUS
    <2>3. s \in Spans'
      BY <2>1, <2>2 DEF Spans
    <2>4. CounterOf(s) = redis[k] /\ CounterOf(s)' = redis'[k] /\ s[3] = e
      BY <2>1, Counters
    <2>5. Advance(redis[k], redis'[k])
      BY DEF Moves
    <2>6. redis[k].end \in Int /\ redis[k].count \in Nat
      BY CounterFields
    <2>7. redis'[k].end \in Int /\ redis'[k].count \in Nat
      BY <2>2, CounterFieldsNext
    <2> QED
      BY <2>3, <2>4, <2>5, <2>6, <2>7
  <1>2. CASE s \in {"memory"} \X Processes \X Int
    <2>1. PICK i \in Processes, e \in Int : s = <<"memory", i, e>>
      BY <1>2
    <2>2. i \in Processes
      OBVIOUS
    <2>3. s \in Spans'
      BY <2>1, <2>2 DEF Spans
    <2>4. CounterOf(s) = inMemory[i] /\ CounterOf(s)' = inMemory'[i] /\ s[3] = e
      BY <2>1, Counters
    <2>5. Advance(inMemory[i], inMemory'[i])
      BY DEF Moves
    <2>6. inMemory[i].end \in Int /\ inMemory[i].count \in Nat
      BY CounterFields
    <2>7. inMemory'[i].end \in Int /\ inMemory'[i].count \in Nat
      BY <2>2, CounterFieldsNext
    <2> QED
      BY <2>3, <2>4, <2>5, <2>6, <2>7
  <1>3. CASE s \in {"account"} \X (1..Len(heap)) \X Int
    <2>1. PICK n \in 1..Len(heap), e \in Int : s = <<"account", n, e>>
      BY <1>3
    <2>2. n \in 1..Len(heap')
      BY CounterFields, CounterFieldsNext DEF Moves
    <2>3. s \in Spans'
      BY <2>1, <2>2 DEF Spans
    <2>4. CounterOf(s) = heap[n] /\ CounterOf(s)' = heap'[n] /\ s[3] = e
      BY <2>1, Counters
    <2>5. Advance(heap[n], heap'[n])
      BY DEF Moves
    <2>6. heap[n].end \in Int /\ heap[n].count \in Nat
      BY CounterFields
    <2>7. heap'[n].end \in Int /\ heap'[n].count \in Nat
      BY <2>2, CounterFieldsNext
    <2> QED
      BY <2>3, <2>4, <2>5, <2>6, <2>7
  <1> QED
    BY <1>1, <1>2, <1>3 DEF Spans

(* Tickets stay good while the counters move on.                           *)
LEMMA TicketsStayGood ==
    ASSUME RateTypeOK, RateTypeOK', Moves, spans \subseteq Spans, NEW g, Tickets(g)
    PROVE  spans \subseteq Spans' /\ \A x \in g : Stamped(x)'
  <1>1. spans \subseteq Spans'
    BY SpansMove
  <1> SUFFICES ASSUME NEW x \in g PROVE Stamped(x)'
    BY <1>1
  <1>2. x[1] \in Spans /\ x[2] \in Nat /\ Stamped(x)
    BY RateAssumption DEF Tickets
  <1>3. PICK b, d : b = CounterOf(x[1]) /\ d = CounterOf(x[1])'
    OBVIOUS
  <1>4. /\ Advance(b, d) /\ x[1][3] \in Int
        /\ b.end \in Int /\ b.count \in Nat /\ d.end \in Int /\ d.count \in Nat
    BY <1>2, <1>3, SpansMove
  <1>5. x[1][3] <= b.end /\ (x[1][3] = b.end => x[2] <= b.count)
    BY <1>2, <1>3 DEF Stamped
  <1>6. x[1][3] <= d.end /\ (x[1][3] = d.end => x[2] <= d.count)
    BY <1>2, <1>4, <1>5 DEF Advance
  <1> QED
    BY <1>3, <1>6 DEF Stamped

LEMMA NothingLetThrough ==
    ASSUME RateInv, RateTypeOK', Moves, UNCHANGED <<today, spans>>
    PROVE  Drawn'
  <1>1. PICK g : Tickets(g)
    BY DEF RateInv, Drawn
  <1>2. spans \subseteq Spans' /\ \A x \in g : Stamped(x)'
    BY <1>1, TicketsStayGood DEF RateInv, Drawn
  <1>3. Tickets(g)'
    BY <1>1, <1>2 DEF Tickets
  <1> QED
    BY <1>2, <1>3 DEF RateInv, Drawn

LEMMA OneLetThrough ==
    ASSUME RateInv, RateTypeOK', Moves, NEW s \in Spans', today' = today + 1, spans' = spans \cup {s},
           NEW d, d = CounterOf(s)', s[3] = d.end, d.count \in 1..SendLimit,
           s \in Spans => Grows(CounterOf(s), d)
    PROVE  Drawn'
  <1>1. PICK g : Tickets(g)
    BY DEF RateInv, Drawn
  <1>2. spans \subseteq Spans' /\ \A x \in g : Stamped(x)'
    BY <1>1, TicketsStayGood DEF RateInv, Drawn
  <1> DEFINE t == <<s, d.count>>
  <1>3. t \notin g
    <2> SUFFICES ASSUME t \in g PROVE FALSE
      OBVIOUS
    <2>1. s \in Spans /\ Stamped(t) /\ t[1] = s /\ t[2] = d.count
      BY <1>1 DEF Tickets, RateInv, Drawn
    <2>2. PICK b : b = CounterOf(s)
      OBVIOUS
    <2>3. b.end \in Int /\ b.count \in Nat /\ d.end \in Int /\ d.count \in Nat /\ Grows(b, d)
      BY <2>1, <2>2, SpansMove DEF RateInv
    <2>4. d.end <= b.end /\ (d.end = b.end => d.count <= b.count)
      BY <2>1, <2>2 DEF Stamped
    <2> QED
      BY <2>3, <2>4 DEF Grows
  <1>4. Stamped(t)'
    <2>1. t[1] = s /\ t[2] = d.count
      OBVIOUS
    <2>2. d.end \in Int /\ d.count \in Nat
      <3>1. d.count \in Nat
        BY RateAssumption
      <3>2. s[3] \in Int
        BY DEF Spans
      <3> QED
        BY <3>1, <3>2
    <2> HIDE DEF t
    <2> QED
      BY <2>1, <2>2 DEF Stamped
  <1>5. IsFiniteSet(g \cup {t}) /\ Cardinality(g \cup {t}) = Cardinality(g) + 1
    <2> HIDE DEF t
    <2> QED
      BY <1>1, <1>3, FS_AddElement DEF Tickets
  <1>6. Tickets(g \cup {t})'
    <2>1. g \cup {t} \subseteq spans' \X (1..SendLimit)
      BY <1>1 DEF Tickets
    <2>2. Cardinality(g \cup {t}) = today'
      BY <1>1, <1>5 DEF Tickets
    <2> HIDE DEF t
    <2> QED
      BY <2>1, <2>2, <1>2, <1>4, <1>5 DEF Tickets
  <1>7. IsFiniteSet(spans')
    BY FS_AddElement DEF RateInv, Drawn
  <1> HIDE DEF t
  <1> QED
    BY <1>2, <1>6, <1>7 DEF Drawn

(* What a step may do to the tally: nothing, or one more by a window whose *)
(* counter has just counted it.                                            *)
LetThrough ==
    \/ UNCHANGED <<today, spans>>
    \/ \E s \in Spans' : /\ today' = today + 1 /\ spans' = spans \cup {s}
                         /\ s[3] = CounterOf(s)'.end /\ CounterOf(s)'.count \in 1..SendLimit
                         /\ s \in Spans => Grows(CounterOf(s), CounterOf(s)')

LEMMA TallyKept == ASSUME RateInv, RateTypeOK', Moves, LetThrough PROVE Drawn'
  <1>1. CASE UNCHANGED <<today, spans>>
    BY <1>1, NothingLetThrough
  <1>2. CASE ~ UNCHANGED <<today, spans>>
    <2>1. PICK s \in Spans' : /\ today' = today + 1 /\ spans' = spans \cup {s}
                              /\ s[3] = CounterOf(s)'.end /\ CounterOf(s)'.count \in 1..SendLimit
                              /\ s \in Spans => Grows(CounterOf(s), CounterOf(s)')
      BY <1>2 DEF LetThrough
    <2>2. PICK d : d = CounterOf(s)'
      OBVIOUS
    <2>3. s[3] = d.end /\ d.count \in 1..SendLimit /\ (s \in Spans => Grows(CounterOf(s), d))
      BY <2>1, <2>2
    <2> QED
      BY <2>1, <2>2, <2>3, OneLetThrough
  <1> QED
    BY <1>1, <1>2

LEMMA WindowFacts ==
    /\ CounterWindow \in Nat \ {0} /\ CounterWindow <= DayTicks /\ DayTicks \in Nat
    /\ limiter # "conn" => CounterWindow = DayTicks
  BY RateAssumption DEF CounterWindow

(* What the script makes of a key.                                         *)
Incremented(k, r) ==
    /\ r \in Counter /\ r.end \in Int /\ r.count \in Nat \ {0} /\ Grows(redis[k], r)
    /\ r.end <= clock + DayTicks
    /\ redis[k].end <= clock => r.end = clock + CounterWindow
    /\ redis[k].end > clock => r.end = redis[k].end

LEMMA ScriptCounts ==
    ASSUME RateInv, NEW k \in Processes \cup {Shared}, luaIncr(k, clock).counter.count <= SendLimit + 1
    PROVE  /\ Incremented(k, luaIncr(k, clock).counter)
           /\ luaIncr(k, clock).allowed <=> luaIncr(k, clock).counter.count <= SendLimit
  <1> USE RateAssumption
  <1>1. PICK b : b = redis[k]
    OBVIOUS
  <1>2. /\ b.end \in Int /\ b.count \in Nat /\ clock \in 0..MaxTick /\ b.end <= clock + DayTicks
        /\ b.count = 0 => b.end = -1
    BY <1>1, CounterFields DEF RateInv, KeysExpire, RateTypeOK
  <1> DEFINE old == IF b.end <= clock THEN 0 ELSE b.count
             r == [count |-> old + 1, end |-> IF old = 0 THEN clock + CounterWindow ELSE b.end]
  <1>3. luaIncr(k, clock) = [allowed |-> old + 1 <= SendLimit, counter |-> r]
    BY <1>1 DEF luaIncr
  <1>4. luaIncr(k, clock).counter = r /\ (luaIncr(k, clock).allowed <=> r.count <= SendLimit)
    <2>1. r.count = old + 1
      OBVIOUS
    <2> HIDE DEF r, old
    <2>2. luaIncr(k, clock).counter = r
      BY <1>3
    <2>3. PICK a \in BOOLEAN : a <=> old + 1 <= SendLimit
      OBVIOUS
    <2>4. luaIncr(k, clock) = [allowed |-> a, counter |-> r]
      BY <1>3, <2>3
    <2>5. luaIncr(k, clock).allowed = a
      BY <2>4
    <2> QED
      BY <2>1, <2>2, <2>3, <2>5
  <1>5. r.count <= SendLimit + 1
    BY <1>4
  <1>6. CASE b.end <= clock
    <2>1. r = [count |-> 1, end |-> clock + CounterWindow]
      BY <1>6
    <2> HIDE DEF r
    <2>2. r.end = clock + CounterWindow /\ r.count = 1 /\ r \in Counter
      BY <2>1, <1>2, WindowFacts DEF Counter
    <2>3. Incremented(k, r)
      BY <2>2, <1>1, <1>2, <1>6, WindowFacts DEF Incremented, Grows
    <2> QED
      BY <1>4, <2>3
  <1>7. CASE b.end > clock
    <2>1. b.count # 0 /\ b.end >= 0
      BY <1>2, <1>7
    <2>2. old = b.count
      BY <1>7, <1>2
    <2>3. r = [count |-> b.count + 1, end |-> b.end]
      BY <2>1, <2>2
    <2> HIDE DEF r, old
    <2>4. r.end = b.end /\ r.count = b.count + 1
      BY <2>3
    <2>5. r \in Counter
      BY <2>1, <2>3, <2>4, <1>2, <1>5 DEF Counter
    <2>6. Incremented(k, r)
      BY <2>4, <2>5, <1>1, <1>2, <1>7 DEF Incremented, Grows
    <2> QED
      BY <1>4, <2>6
  <1> QED
    BY <1>2, <1>6, <1>7

LEMMA KeyWritten ==
    ASSUME RateInv, NEW k \in Processes \cup {Shared}, NEW r, Incremented(k, r),
           redis' = [redis EXCEPT ![k] = r], UNCHANGED clock
    PROVE  /\ redis' \in [Processes \cup {Shared} -> Counter] /\ redis'[k] = r
           /\ \A j \in Processes \cup {Shared} : Advance(redis[j], redis'[j])
           /\ KeysExpire'
  <1>1. redis \in [Processes \cup {Shared} -> Counter]
    BY DEF RateInv, RateTypeOK
  <1>2. /\ redis' \in [Processes \cup {Shared} -> Counter] /\ redis'[k] = r
        /\ \A j \in (Processes \cup {Shared}) \ {k} : redis'[j] = redis[j]
    BY <1>1 DEF Incremented
  <1>3. \A j \in Processes \cup {Shared} : redis[j].end \in Int /\ redis[j].count \in Nat
    BY CounterFields DEF RateInv
  <1>4. ASSUME NEW j \in Processes \cup {Shared}
        PROVE  /\ Advance(redis[j], redis'[j]) /\ redis'[j].end <= clock + DayTicks
               /\ redis'[j].count = 0 => redis'[j].end = -1
    <2>1. CASE j = k
      BY <2>1, <1>2, <1>3 DEF Incremented, Grows, Advance
    <2>2. CASE j # k
      BY <2>2, <1>2, <1>3 DEF RateInv, KeysExpire, Advance
    <2> QED
      BY <2>1, <2>2
  <1> QED
    BY <1>2, <1>4 DEF KeysExpire

(* A window of the shared key that begins today outlasts the day.          *)
LEMMA WindowAdded ==
    ASSUME RateInv, TwoWindows, limiter # "conn", NEW r, Incremented(Shared, r), redis'[Shared] = r, UNCHANGED clock,
           spans' = spans \/ spans' = spans \cup {Current(r.end)}
    PROVE  TwoWindows'
  <1>1. PICK b : b = redis[Shared]
    OBVIOUS
  <1>2. b.end \in Int /\ r.end \in Int /\ clock \in Nat
    BY <1>1, CounterFields DEF RateInv, Incremented
  <1>3. Midnight(clock) \in Nat /\ clock < Midnight(clock) /\ Midnight(clock) <= clock + DayTicks
    BY <1>2, MidnightComes
  <1>4. CASE b.end <= clock
    <2>1. r.end = clock + DayTicks /\ b.end < Midnight(clock)
      BY <1>1, <1>2, <1>3, <1>4, WindowFacts DEF Incremented
    <2>2. spans \subseteq {Current(b.end)}
      BY <1>1, <2>1 DEF TwoWindows
    <2>3. ~ (r.end < Midnight(clock))
      BY <2>1, <1>2, <1>3, RateAssumption
    <2>4. spans' \subseteq {Current(b.end), Current(r.end)}
      BY <2>2
    <2> QED
      BY <2>3, <2>4, <1>2 DEF TwoWindows, Current
  <1>5. CASE b.end > clock
    <2>1. r.end = b.end
      BY <1>1, <1>5 DEF Incremented
    <2>2. PICK e \in Int : spans \subseteq {Current(e), Current(b.end)}
      BY <1>1 DEF TwoWindows
    <2>3. spans' \subseteq {Current(e), Current(r.end)}
      BY <2>1, <2>2
    <2>4. r.end < Midnight(clock) => spans' \subseteq {Current(r.end)}
      BY <2>1, <1>1 DEF TwoWindows
    <2> QED
      BY <2>3, <2>4 DEF TwoWindows, Current
  <1> QED
    BY <1>2, <1>4, <1>5

LEMMA MemoryWritten ==
    ASSUME RateInv, NEW i \in Processes, NEW d \in Counter, inMemory' = [inMemory EXCEPT ![i] = d],
           Advance(inMemory[i], d), NEW ok \in BOOLEAN,
           ok => Grows(inMemory[i], d) /\ d.count \in 1..SendLimit, Decide(ok, <<"memory", i, d.end>>)
    PROVE  /\ inMemory' \in [Processes -> Counter] /\ today' \in Nat
           /\ \A j \in Processes : Advance(inMemory[j], inMemory'[j])
           /\ LetThrough
  <1>1. inMemory \in [Processes -> Counter] /\ today \in Nat
    BY DEF RateInv, RateTypeOK
  <1>2. /\ inMemory' \in [Processes -> Counter] /\ inMemory'[i] = d
        /\ \A j \in Processes \ {i} : inMemory'[j] = inMemory[j]
    BY <1>1
  <1>3. \A j \in Processes : Advance(inMemory[j], inMemory'[j])
    BY <1>2, CounterFields DEF Advance, RateInv
  <1>4. CASE ~ ok
    BY <1>1, <1>2, <1>3, <1>4 DEF Decide, LetThrough
  <1>5. CASE ok
    <2> DEFINE s == <<"memory", i, d.end>>
    <2>1. today' = today + 1 /\ spans' = spans \cup {s}
      BY <1>5 DEF Decide
    <2>2. d.end \in Int
      BY RateAssumption DEF Counter
    <2>3. s \in Spans'
      BY <2>2 DEF Spans
    <2>4. CounterOf(s) = inMemory[i] /\ CounterOf(s)' = d /\ s[3] = d.end
      <3>1. CounterOf(s) = inMemory[i]
        BY Counters
      <3>2. CounterOf(s)' = inMemory'[i]
        BY Counters
      <3> QED
        BY <3>1, <3>2, <1>2
    <2> HIDE DEF s
    <2>5. LetThrough
      BY <2>1, <2>3, <2>4, <1>5 DEF LetThrough
    <2> QED
      BY <1>1, <1>2, <1>3, <2>1, <2>5
  <1> QED
    BY <1>4, <1>5

LEMMA MemoryCounts ==
    ASSUME RateInv, NEW i \in Processes, allowInMemory(i)
    PROVE  /\ inMemory' \in [Processes -> Counter] /\ today' \in Nat
           /\ \A j \in Processes : Advance(inMemory[j], inMemory'[j])
           /\ LetThrough
  <1> USE RateAssumption
  <1>1. PICK b : b = inMemory[i]
    OBVIOUS
  <1>2. b \in Counter /\ b.end \in Int /\ b.count \in Nat /\ clock \in 0..MaxTick /\ inMemory \in [Processes -> Counter]
    BY <1>1, CounterFields DEF RateInv, RateTypeOK
  <1>3. CASE clock > b.end
    <2> DEFINE d == [count |-> 1, end |-> clock + CounterWindow]
    <2>1. d \in Counter /\ Grows(b, d) /\ Advance(b, d) /\ d.count \in 1..SendLimit
      BY <1>2, <1>3, WindowFacts DEF Counter, Grows, Advance
    <2>2. inMemory' = [inMemory EXCEPT ![i] = d]
      BY <1>1, <1>3 DEF allowInMemory
    <2> HIDE DEF d
    <2>3. inMemory'[i] = d
      BY <2>1, <2>2, <1>2
    <2>4. Decide(TRUE, <<"memory", i, d.end>>)
      BY <2>3, <1>1, <1>3 DEF allowInMemory, Decide
    <2> QED
      BY <2>1, <2>2, <2>4, <1>1, MemoryWritten
  <1>4. CASE ~ (clock > b.end)
    <2> DEFINE d == [b EXCEPT !.count = @ + 1]
    <2>1. b.count <= SendLimit /\ inMemory' = [inMemory EXCEPT ![i] = d]
      BY <1>1, <1>4 DEF allowInMemory
    <2>2. d \in Counter /\ d.count = b.count + 1 /\ d.end = b.end
      BY <2>1, <1>2 DEF Counter
    <2> HIDE DEF d
    <2>3. inMemory'[i] = d
      BY <2>1, <2>2, <1>2
    <2>4. PICK ok \in BOOLEAN : ok <=> b.count + 1 <= SendLimit
      OBVIOUS
    <2>5. Decide(ok, <<"memory", i, d.end>>)
      BY <2>3, <2>4, <1>1, <1>4 DEF allowInMemory, Decide
    <2>6. Grows(b, d) /\ Advance(b, d) /\ (ok => d.count \in 1..SendLimit)
      BY <2>2, <2>4, <1>2 DEF Grows, Advance
    <2> QED
      BY <2>1, <2>2, <2>5, <2>6, <1>1, MemoryWritten
  <1> QED
    BY <1>3, <1>4

LEMMA TenantCounts ==
    ASSUME RateInv, NEW i \in Processes, AllowTenantInMemory(i)
    PROVE  /\ inMemory' \in [Processes -> Counter] /\ today' \in Nat
           /\ \A j \in Processes : Advance(inMemory[j], inMemory'[j])
           /\ LetThrough
  <1> USE RateAssumption
  <1>1. PICK o : o = inMemory[i]
    OBVIOUS
  <1>2. o \in Counter /\ o.end \in Int /\ o.count \in Nat /\ clock \in 0..MaxTick /\ inMemory \in [Processes -> Counter]
    BY <1>1, CounterFields DEF RateInv, RateTypeOK
  <1>3. PICK b : b = IF clock > o.end THEN [count |-> 0, end |-> Midnight(clock)] ELSE o
    OBVIOUS
  <1>4. b \in Counter /\ b.end \in Int /\ b.count \in Nat /\ Advance(o, b)
    <2>1. CASE clock > o.end
      <3>1. PICK m \in Nat : m = Midnight(clock) /\ clock < m /\ m <= clock + DayTicks
        BY <1>2, MidnightComes
      <3>2. b = [count |-> 0, end |-> m]
        BY <1>3, <2>1, <3>1
      <3>3. b \in Counter /\ b.end = m /\ b.count = 0
        BY <3>1, <3>2, <1>2 DEF Counter
      <3> QED
        BY <3>1, <3>3, <2>1, <1>2 DEF Advance
    <2>2. CASE ~ (clock > o.end)
      <3>1. b = o
        BY <1>3, <2>2
      <3> QED
        BY <3>1, <1>2 DEF Advance
    <2> QED
      BY <2>1, <2>2
  <1>5. PICK ok \in BOOLEAN : ok <=> b.count < SendLimit
    OBVIOUS
  <1>6. PICK d : d = IF ok THEN [b EXCEPT !.count = @ + 1] ELSE b
    OBVIOUS
  <1>7. inMemory' = [inMemory EXCEPT ![i] = d] /\ Decide(ok, <<"memory", i, b.end>>)
    BY <1>1, <1>3, <1>5, <1>6 DEF AllowTenantInMemory, Decide
  <1>8. d \in Counter /\ d.end = b.end /\ d.count = IF ok THEN b.count + 1 ELSE b.count
    BY <1>4, <1>5, <1>6 DEF Counter
  <1>9. Advance(o, d) /\ (ok => Grows(o, d) /\ d.count \in 1..SendLimit)
    BY <1>2, <1>4, <1>5, <1>8 DEF Grows, Advance
  <1> QED
    BY <1>1, <1>7, <1>8, <1>9, MemoryWritten

LEMMA KeyCounted ==
    ASSUME RateInv, NEW k \in Processes \cup {Shared}, NEW r, Incremented(k, r), r.count <= SendLimit + 1,
           redis' = [redis EXCEPT ![k] = r], UNCHANGED <<clock, heap>>,
           NEW ok \in BOOLEAN, ok <=> r.count <= SendLimit, Decide(ok, <<"redis", k, r.end>>)
    PROVE  today' \in Nat /\ LetThrough
  <1>1. today \in Nat /\ redis'[k] = r
    BY KeyWritten DEF RateInv, RateTypeOK
  <1>2. CASE ~ ok
    BY <1>1, <1>2 DEF Decide, LetThrough
  <1>3. CASE ok
    <2> DEFINE s == <<"redis", k, r.end>>
    <2>1. today' = today + 1 /\ spans' = spans \cup {s}
      BY <1>3 DEF Decide
    <2>2. s \in Spans'
      BY DEF Spans, Incremented
    <2>3. CounterOf(s) = redis[k] /\ CounterOf(s)' = r /\ s[3] = r.end
      <3>1. CounterOf(s) = redis[k]
        BY Counters
      <3>2. CounterOf(s)' = redis'[k]
        BY Counters
      <3> QED
        BY <3>1, <3>2, <1>1
    <2>4. Grows(redis[k], r) /\ r.count \in 1..SendLimit
      BY <1>3, RateAssumption DEF Incremented
    <2> HIDE DEF s
    <2>5. LetThrough
      BY <2>1, <2>2, <2>3, <2>4 DEF LetThrough
    <2> QED
      BY <1>1, <2>1, <2>5
  <1> QED
    BY <1>2, <1>3

(* A question to Redis, answered or not.                                   *)
LEMMA RedisAsked ==
    ASSUME RateInv, NEW i \in Processes, AllowRedis(i), UNCHANGED <<limiter, useRedis, clock, heap>>
    PROVE  /\ redis' \in [Processes \cup {Shared} -> Counter] /\ inMemory' \in [Processes -> Counter]
           /\ outages' \in 0..MaxOutages /\ today' \in Nat
           /\ Moves /\ LetThrough /\ KeysExpire'
           /\ (useRedis /\ outages = 0 /\ limiter # "conn" => TwoWindows)'
  <1> DEFINE k == hashIP(i)
             r == luaIncr(k, clock).counter
             written == redis' = [redis EXCEPT ![k] = r]
  <1>1. k \in Processes \cup {Shared}
    BY DEF hashIP
  <1>2. r.count <= SendLimit + 1 => Incremented(k, r) /\ (luaIncr(k, clock).allowed <=> r.count <= SendLimit)
    BY <1>1, ScriptCounts
  <1>3. \A j \in Processes \cup {Shared} : redis[j].end \in Int /\ redis[j].count \in Nat
    BY CounterFields DEF RateInv
  <1>4. \A j \in Processes : inMemory[j].end \in Int /\ inMemory[j].count \in Nat
    BY CounterFields DEF RateInv
  <1>5. Len(heap) \in Nat /\ Len(heap) <= Len(heap') /\ \A n \in 1..Len(heap) : Advance(heap[n], heap'[n])
    BY CounterFields DEF RateInv, Advance
  <1>6. CASE /\ r.count <= SendLimit + 1 /\ written
             /\ Decide(luaIncr(k, clock).allowed, <<"redis", k, r.end>>) /\ UNCHANGED <<inMemory, outages>>
    <2> HIDE DEF k, r
    <2>1. Incremented(k, r)
      BY <1>2, <1>6
    <2>2. PICK ok \in BOOLEAN : ok <=> r.count <= SendLimit
      OBVIOUS
    <2>3. Decide(ok, <<"redis", k, r.end>>)
      BY <2>2, <1>2, <1>6 DEF Decide
    <2>4. today' \in Nat /\ LetThrough
      BY <2>1, <2>2, <2>3, <1>1, <1>6, KeyCounted
    <2>5. /\ redis' \in [Processes \cup {Shared} -> Counter] /\ redis'[k] = r
          /\ \A j \in Processes \cup {Shared} : Advance(redis[j], redis'[j])
          /\ KeysExpire'
      BY <2>1, <1>1, <1>6, KeyWritten
    <2>6. Moves
      BY <2>5, <1>4, <1>5, <1>6 DEF Moves, Advance
    <2>7. ASSUME useRedis, outages = 0, limiter # "conn" PROVE TwoWindows'
      <3>1. k = Shared /\ TwoWindows
        BY <2>7 DEF k, hashIP, RateInv
      <3>2. spans' = spans \/ spans' = spans \cup {Current(r.end)}
        BY <2>3, <3>1 DEF Decide, Current
      <3> QED
        BY <3>1, <3>2, <2>1, <2>5, <2>7, WindowAdded
    <2>8. inMemory' \in [Processes -> Counter] /\ outages' \in 0..MaxOutages
      BY <1>6 DEF RateInv, RateTypeOK
    <2>9. (useRedis /\ outages = 0 /\ limiter # "conn" => TwoWindows)'
      BY <2>7, <1>6
    <2> QED
      BY <2>4, <2>5, <2>6, <2>8, <2>9
  <1>7. CASE /\ outages < MaxOutages /\ outages' = outages + 1 /\ allowInMemory(i)
             /\ redis' = redis \/ (r.count <= SendLimit + 1 /\ written)
    <2> HIDE DEF k, r
    <2>1. outages' \in 0..MaxOutages /\ outages' # 0
      BY <1>7, RateAssumption DEF RateInv, RateTypeOK
    <2>2. /\ inMemory' \in [Processes -> Counter] /\ today' \in Nat
          /\ \A j \in Processes : Advance(inMemory[j], inMemory'[j])
          /\ LetThrough
      BY <1>7, MemoryCounts
    <2>3. /\ redis' \in [Processes \cup {Shared} -> Counter]
          /\ \A j \in Processes \cup {Shared} : Advance(redis[j], redis'[j])
          /\ KeysExpire'
      <3>1. CASE redis' = redis
        BY <3>1, <1>3 DEF RateInv, RateTypeOK, KeysExpire, Advance
      <3>2. CASE r.count <= SendLimit + 1 /\ written
        BY <3>2, <1>1, <1>2, KeyWritten
      <3> QED
        BY <3>1, <3>2, <1>7
    <2>4. Moves
      BY <2>2, <2>3, <1>5 DEF Moves
    <2> QED
      BY <2>1, <2>2, <2>3, <2>4
  <1>8. \/ /\ r.count <= SendLimit + 1 /\ written
           /\ Decide(luaIncr(k, clock).allowed, <<"redis", k, r.end>>) /\ UNCHANGED <<inMemory, outages>>
        \/ /\ outages < MaxOutages /\ outages' = outages + 1 /\ allowInMemory(i)
           /\ redis' = redis \/ (~ (r.count > SendLimit + 1) /\ written)
    BY DEF AllowRedis
  <1>9. ~ (r.count > SendLimit + 1) => r.count <= SendLimit + 1
    <2>1. PICK old \in Nat : r.count = old + 1
      <3>1. redis[k].end \in Int /\ redis[k].count \in Nat /\ clock \in Nat
        BY <1>1, CounterFields DEF RateInv
      <3>2. r.count = (IF redis[k].end <= clock THEN 0 ELSE redis[k].count) + 1
        BY DEF luaIncr
      <3> HIDE DEF k, r
      <3> QED
        BY <3>1, <3>2
    <2> HIDE DEF r
    <2> QED
      BY <2>1, RateAssumption
  <1> HIDE DEF r, k
  <1> QED
    BY <1>6, <1>7, <1>8, <1>9

(* The parts of the invariant once the step has written the counters.      *)
LEMMA RateKept ==
    ASSUME RateInv, RateTypeOK', Moves, LetThrough, KeysExpire', CallsOK',
           (useRedis /\ outages = 0 /\ limiter # "conn" => TwoWindows)'
    PROVE  RateInv'
  BY TallyKept DEF RateInv

LEMMA ConnAsked == ASSUME RateInv, NEW i \in Processes, AllowConn(i) \/ AllowTenant(i) PROVE RateInv'
  <1>1. UNCHANGED <<limiter, useRedis, clock, counters, heap, call>>
    BY DEF AllowConn, AllowTenant
  <1>2. CallsOK'
    BY <1>1 DEF RateInv, CallsOK
  <1>3. CASE useRedis
    <2>1. AllowRedis(i)
      BY <1>3 DEF AllowConn, AllowTenant
    <2>2. /\ redis' \in [Processes \cup {Shared} -> Counter] /\ inMemory' \in [Processes -> Counter]
          /\ outages' \in 0..MaxOutages /\ today' \in Nat
          /\ Moves /\ LetThrough /\ KeysExpire'
          /\ (useRedis /\ outages = 0 /\ limiter # "conn" => TwoWindows)'
      BY <2>1, <1>1, RedisAsked
    <2>3. RateTypeOK'
      BY <2>2, <1>1 DEF RateInv, RateTypeOK
    <2> QED
      BY <2>2, <2>3, <1>2, RateKept
  <1>4. CASE ~ useRedis
    <2>1. allowInMemory(i) \/ AllowTenantInMemory(i)
      BY <1>4 DEF AllowConn, AllowTenant
    <2>2. UNCHANGED <<redis, outages>>
      BY <1>4 DEF AllowConn, AllowTenant
    <2>3. /\ inMemory' \in [Processes -> Counter] /\ today' \in Nat
          /\ \A j \in Processes : Advance(inMemory[j], inMemory'[j])
          /\ LetThrough
      BY <2>1, MemoryCounts, TenantCounts
    <2>4. RateTypeOK'
      BY <2>2, <2>3, <1>1 DEF RateInv, RateTypeOK
    <2>5. Moves
      <3>1. Len(heap) \in Nat /\ \A n \in 1..Len(heap) : heap[n].end \in Int /\ heap[n].count \in Nat
        BY CounterFields DEF RateInv
      <3>2. \A j \in Processes \cup {Shared} : redis[j].end \in Int /\ redis[j].count \in Nat
        BY CounterFields DEF RateInv
      <3> QED
        BY <2>2, <2>3, <1>1, <3>1, <3>2 DEF Moves, Advance
    <2>6. KeysExpire'
      BY <2>2, <1>1 DEF RateInv, KeysExpire
    <2> QED
      BY <2>3, <2>4, <2>5, <2>6, <1>1, <1>2, <1>4, RateKept
  <1> QED
    BY <1>3, <1>4

(* The counters the account actions leave alone.                           *)
LEMMA HeapMoves ==
    ASSUME RateInv, UNCHANGED <<redis, inMemory>>, Len(heap) <= Len(heap'),
           \A n \in 1..Len(heap) : Advance(heap[n], heap'[n])
    PROVE  Moves
  BY CounterFields DEF RateInv, Moves, Advance

LEMMA NewCounterOK ==
    ASSUME NEW t \in 0..MaxTick
    PROVE  [count |-> 0, end |-> Midnight(t), created |-> t] \in AccountCounter
  <1> USE RateAssumption
  <1>1. PICK m \in Nat : m = Midnight(t) /\ t < m /\ m <= t + DayTicks
    BY MidnightComes
  <1>2. m \in 0..(MaxTick + DayTicks)
    BY <1>1
  <1> QED
    BY <1>1, <1>2 DEF AccountCounter

LEMMA RegisterKeeps == ASSUME RateInv, NEW i \in Processes, RegisterAccount(i) PROVE RateInv'
  <1> DEFINE ac == [count |-> 0, end |-> Midnight(clock), created |-> clock]
  <1>1. ac \in AccountCounter
    BY NewCounterOK DEF RateInv, RateTypeOK
  <1>2. /\ heap' = Append(heap, ac) /\ counters' = [counters EXCEPT ![i] = Len(heap) + 1]
        /\ Len(heap) < MaxCounters
        /\ UNCHANGED <<limiter, useRedis, clock, redis, inMemory, call, outages, today, spans>>
    BY DEF RegisterAccount, NewAccountCounter
  <1> HIDE DEF ac
  <1>3. heap \in Seq(AccountCounter) /\ Len(heap) \in Nat
    BY DEF RateInv, RateTypeOK
  <1>4. /\ heap' \in Seq(AccountCounter) /\ Len(heap') = Len(heap) + 1
        /\ \A n \in 1..Len(heap) : heap'[n] = heap[n]
    BY <1>1, <1>2, <1>3
  <1>5. Moves
    BY <1>2, <1>3, <1>4, HeapMoves, CounterFields DEF RateInv, Advance
  <1>6. RateTypeOK'
    <2>1. counters' \in [Processes -> 0..Len(heap')]
      BY <1>2, <1>3, <1>4 DEF RateInv, RateTypeOK
    <2>2. call' \in [Calls -> [at: {"idle", "decide"}, process: Processes \cup {Shared}, seen: 0..Len(heap'),
                               read: 0..MaxTick]]
      BY <1>2, <1>3, <1>4 DEF RateInv, RateTypeOK
    <2>3. Len(heap') <= MaxCounters
      BY <1>2, <1>3, <1>4, RateAssumption
    <2> QED
      BY <2>1, <2>2, <2>3, <1>2, <1>4 DEF RateInv, RateTypeOK
  <1>7. KeysExpire' /\ CallsOK' /\ LetThrough
    BY <1>2 DEF RateInv, KeysExpire, CallsOK, LetThrough
  <1>8. (useRedis /\ outages = 0 /\ limiter # "conn" => TwoWindows)'
    BY <1>2 DEF RateInv, TwoWindows
  <1> QED
    BY <1>5, <1>6, <1>7, <1>8, RateKept

(* The window of an account's counter at the time the call has read.       *)
LEMMA RolledOK ==
    ASSUME NEW ac \in AccountCounter, NEW t \in 0..MaxTick
    PROVE  Rolled(ac, t) \in AccountCounter /\ Advance(ac, Rolled(ac, t))
  <1> USE RateAssumption
  <1>1. ac.end \in Nat /\ ac.count \in Nat
    BY DEF AccountCounter
  <1>2. PICK m \in Nat : m = Midnight(t) /\ t < m /\ m <= t + DayTicks
    BY MidnightComes
  <1>3. CASE t > ac.end
    <2>1. PICK b : b = [ac EXCEPT !.count = 0, !.end = m]
      OBVIOUS
    <2>2. Rolled(ac, t) = b
      BY <2>1, <1>2, <1>3 DEF Rolled
    <2>3. m \in 0..(MaxTick + DayTicks)
      BY <1>2
    <2>4. b \in AccountCounter /\ b.end = m
      <3>1. PICK q \in 0..MaxTick : q = ac.created
        BY DEF AccountCounter
      <3>2. b = [count |-> 0, end |-> m, created |-> q]
        BY <2>1, <3>1 DEF AccountCounter
      <3> QED
        BY <3>1, <3>2, <2>3 DEF AccountCounter
    <2> QED
      BY <2>2, <2>4, <1>1, <1>2, <1>3 DEF Advance
  <1>4. CASE ~ (t > ac.end)
    <2>1. Rolled(ac, t) = ac
      BY <1>4 DEF Rolled
    <2> QED
      BY <2>1, <1>1 DEF Advance
  <1> QED
    BY <1>3, <1>4

(* Counting on an account's counter, up to a limit.                        *)
LEMMA AccountCounted ==
    ASSUME NEW o \in AccountCounter, NEW ac \in AccountCounter, Advance(o, ac),
           NEW top \in 1..SendLimit, NEW ok \in BOOLEAN, ok <=> ac.count < top,
           NEW d, d = IF ok THEN [ac EXCEPT !.count = @ + 1] ELSE ac
    PROVE  /\ d \in AccountCounter /\ d.end = ac.end /\ d.end \in Int /\ Advance(o, d)
           /\ ok => Grows(o, d) /\ d.count \in 1..SendLimit
  <1> USE RateAssumption
  <1>1. o.end \in Int /\ o.count \in Nat /\ ac.end \in Int /\ ac.count \in 0..SendLimit
    BY DEF AccountCounter
  <1>2. CASE ok
    <2>1. d = [ac EXCEPT !.count = @ + 1] /\ ac.count + 1 \in 1..SendLimit
      BY <1>1, <1>2
    <2>2. d \in AccountCounter /\ d.end = ac.end /\ d.count = ac.count + 1
      BY <2>1 DEF AccountCounter
    <2> QED
      BY <2>1, <2>2, <1>1 DEF Advance, Grows
  <1>3. CASE ~ ok
    BY <1>1, <1>3
  <1> QED
    BY <1>2, <1>3

(* The tally after a decision on the counter of index n.                   *)
LEMMA AccountDecided ==
    ASSUME RateInv, NEW n \in 1..Len(heap'), NEW d, heap'[n] = d, d.end \in Int, NEW ok \in BOOLEAN,
           ok => d.count \in 1..SendLimit /\ (n \in 1..Len(heap) => Grows(heap[n], d)),
           Decide(ok, <<"account", n, d.end>>)
    PROVE  today' \in Nat /\ LetThrough
  <1>1. today \in Nat
    BY DEF RateInv, RateTypeOK
  <1>2. CASE ~ ok
    BY <1>1, <1>2 DEF Decide, LetThrough
  <1>3. CASE ok
    <2> DEFINE s == <<"account", n, d.end>>
    <2>1. today' = today + 1 /\ spans' = spans \cup {s}
      BY <1>3 DEF Decide
    <2>2. s \in Spans'
      BY DEF Spans
    <2>3. CounterOf(s) = heap[n] /\ CounterOf(s)' = d /\ s[3] = d.end
      <3>1. CounterOf(s) = heap[n]
        BY Counters
      <3>2. CounterOf(s)' = heap'[n]
        BY Counters
      <3> QED
        BY <3>1, <3>2
    <2>4. s \in Spans => n \in 1..Len(heap)
      BY DEF Spans
    <2> HIDE DEF s
    <2>5. LetThrough
      BY <2>1, <2>2, <2>3, <2>4, <1>3 DEF LetThrough
    <2> QED
      BY <1>1, <2>1, <2>5
  <1> QED
    BY <1>2, <1>3

LEMMA RampKeeps ==
    ASSUME RateInv, NEW c \in Calls, NEW i \in Processes, NEW free \in BOOLEAN, AllowRamp(c, i, free)
    PROVE  RateInv'
  <1> USE RateAssumption
  <1>1. /\ UNCHANGED <<limiter, useRedis, clock, redis, inMemory, counters, outages>>
        /\ clock \in 0..MaxTick /\ today \in Nat /\ counters \in [Processes -> 0..Len(heap)]
        /\ heap \in Seq(AccountCounter) /\ Len(heap) \in Nat /\ Len(heap) <= MaxCounters
    BY SMTT(30) DEF RateInv, RateTypeOK, AllowRamp
  <1>2. PICK n \in 0..Len(heap) : n = counters[i]
    BY <1>1
  <1>3. \A j \in 1..Len(heap) : heap[j] \in AccountCounter /\ heap[j].end \in Int /\ heap[j].count \in Nat
    BY CounterFields DEF RateInv
  <1> DEFINE young == free /\ n # 0 /\ clock < heap[n].created + RampTicks
             taken == [call EXCEPT ![c] = [at |-> "decide", process |-> i, seen |-> n, read |-> clock]]
             CallSet == [at: {"idle", "decide"}, process: Processes \cup {Shared}, seen: 0..Len(heap),
                         read: 0..MaxTick]
  <1>4. taken \in [Calls -> CallSet] /\ \A x \in Calls : taken[x].at = "decide" => taken[x].process \in Processes
    <2>1. call \in [Calls -> CallSet] /\ \A x \in Calls : call[x].at = "decide" => call[x].process \in Processes
      BY DEF RateInv, RateTypeOK, CallsOK
    <2> DEFINE new == [at |-> "decide", process |-> i, seen |-> n, read |-> clock]
    <2>2. new \in CallSet /\ new.process \in Processes
      BY <1>1, <1>2
    <2> HIDE DEF new, CallSet
    <2>3. [call EXCEPT ![c] = new] \in [Calls -> CallSet]
      BY <2>1, <2>2
    <2>4. \A x \in Calls : [call EXCEPT ![c] = new][x] = IF x = c THEN new ELSE call[x]
      BY <2>1
    <2>5. taken = [call EXCEPT ![c] = new]
      BY DEF new
    <2> QED
      BY <2>1, <2>2, <2>3, <2>4, <2>5
  <1>5. call' \in {call, taken}
    BY <1>2 DEF AllowRamp
  <1>6. CASE ~ young
    <2>1. heap' = heap /\ UNCHANGED <<today, spans>>
      BY <1>2, <1>6 DEF AllowRamp
    <2>2. call' \in [Calls -> CallSet] /\ CallsOK'
      <3> HIDE DEF taken, CallSet
      <3>1. call \in [Calls -> CallSet]
        BY DEF RateInv, RateTypeOK, CallSet
      <3> QED
        BY <1>4, <1>5, <3>1 DEF RateInv, CallsOK
    <2>3. RateTypeOK'
      BY <2>1, <2>2, <1>1 DEF RateInv, RateTypeOK
    <2>4. Moves
      BY <2>1, <1>1, <1>3, HeapMoves DEF Advance
    <2>5. LetThrough /\ KeysExpire'
      BY <2>1, <1>1 DEF LetThrough, RateInv, KeysExpire
    <2>6. (useRedis /\ outages = 0 /\ limiter # "conn" => TwoWindows)'
      BY <2>1, <1>1 DEF RateInv, TwoWindows
    <2> QED
      BY <2>2, <2>3, <2>4, <2>5, <2>6, RateKept
  <1>7. CASE young
    <2>1. n \in 1..Len(heap)
      BY <1>1, <1>2, <1>7
    <2>2. PICK o \in AccountCounter : o = heap[n]
      BY <2>1, <1>3
    <2>3. PICK ac \in AccountCounter : ac = Rolled(o, clock) /\ Advance(o, ac)
      BY <1>1, RolledOK
    <2>4. PICK ok \in BOOLEAN : ok <=> ac.count < RampLimit
      OBVIOUS
    <2>5. PICK d : d = IF ok THEN [ac EXCEPT !.count = @ + 1] ELSE ac
      OBVIOUS
    <2>6. /\ d \in AccountCounter /\ d.end = ac.end /\ d.end \in Int /\ Advance(o, d)
          /\ ok => Grows(o, d) /\ d.count \in 1..SendLimit
      <3>1. RampLimit \in 1..SendLimit
        OBVIOUS
      <3> QED
        BY <2>3, <2>4, <2>5, <3>1, AccountCounted, ZenonT(60)
    <2>7. heap' = [heap EXCEPT ![n] = d]
      BY <1>2, <1>7, <2>2, <2>3, <2>4, <2>5 DEF AllowRamp
    <2>8. /\ heap' \in Seq(AccountCounter) /\ Len(heap') = Len(heap) /\ heap'[n] = d
          /\ \A j \in (1..Len(heap)) \ {n} : heap'[j] = heap[j]
      BY <2>1, <2>6, <2>7, <1>1
    <2>9. \A j \in 1..Len(heap) : Advance(heap[j], heap'[j])
      BY <2>2, <2>6, <2>8, <1>3 DEF Advance
    <2>10. Moves
      BY <2>8, <2>9, <1>1, HeapMoves
    <2>11. today' \in Nat /\ LetThrough
      <3>1. CASE useRedis
        <4>1. UNCHANGED <<today, spans>>
          BY <3>1 DEF AllowRamp
        <4> QED
          BY <4>1, <1>1 DEF LetThrough
      <3>2. CASE ~ useRedis
        <4>1. Decide(ok, <<"account", n, d.end>>)
          BY <3>2, <1>2, <1>7, <2>2, <2>3, <2>4, <2>6 DEF AllowRamp, Decide
        <4> QED
          BY <4>1, <2>1, <2>2, <2>6, <2>8, AccountDecided
      <3> QED
        BY <3>1, <3>2
    <2>12. call' \in [Calls -> CallSet] /\ CallsOK'
      <3> HIDE DEF taken, CallSet
      <3>1. call \in [Calls -> CallSet]
        BY DEF RateInv, RateTypeOK, CallSet
      <3> QED
        BY <1>4, <1>5, <3>1 DEF RateInv, CallsOK
    <2>13. RateTypeOK'
      BY <2>8, <2>11, <2>12, <1>1 DEF RateInv, RateTypeOK
    <2>14. KeysExpire'
      BY <1>1 DEF RateInv, KeysExpire
    <2>15. (useRedis /\ outages = 0 /\ limiter # "conn" => TwoWindows)'
      <3>1. useRedis => UNCHANGED spans
        BY DEF AllowRamp
      <3> QED
        BY <3>1, <1>1 DEF RateInv, TwoWindows
    <2> QED
      BY <2>10, <2>11, <2>12, <2>13, <2>14, <2>15, RateKept
  <1> QED
    BY <1>6, <1>7

(* The second section of Allow without Redis.                              *)
LEMMA AccountAsked ==
    ASSUME RateInv, NEW c \in Calls, call[c].at = "decide", AllowAccount(c)
    PROVE  /\ heap' \in Seq(AccountCounter) /\ Len(heap') \in Nat /\ Len(heap') <= MaxCounters
           /\ Len(heap) <= Len(heap') /\ \A n \in 1..Len(heap) : Advance(heap[n], heap'[n])
           /\ counters' \in [Processes -> 0..Len(heap')]
           /\ today' \in Nat /\ LetThrough
  <1> USE RateAssumption
  <1>1. /\ heap \in Seq(AccountCounter) /\ Len(heap) \in Nat /\ Len(heap) <= MaxCounters
        /\ counters \in [Processes -> 0..Len(heap)]
    BY DEF RateInv, RateTypeOK
  <1>2. \A j \in 1..Len(heap) : heap[j] \in AccountCounter /\ heap[j].end \in Int /\ heap[j].count \in Nat
    BY CounterFields DEF RateInv
  <1>3. call[c].process \in Processes /\ call[c].seen \in 0..Len(heap) /\ call[c].read \in 0..MaxTick
    BY DEF RateInv, RateTypeOK, CallsOK
  <1>4. PICK t \in 0..MaxTick : t = call[c].read
    BY <1>3
  <1>5. CASE call[c].seen = 0
    <2>1. PICK o \in AccountCounter : o = [count |-> 0, end |-> Midnight(t), created |-> t]
      BY NewCounterOK
    <2>2. PICK ac \in AccountCounter : ac = Rolled(o, t) /\ Advance(o, ac)
      BY RolledOK
    <2>3. PICK ok \in BOOLEAN : ok <=> ac.count < SendLimit
      OBVIOUS
    <2>4. PICK d : d = IF ok THEN [ac EXCEPT !.count = @ + 1] ELSE ac
      OBVIOUS
    <2>5. /\ d \in AccountCounter /\ d.end = ac.end /\ d.end \in Int
          /\ ok => d.count \in 1..SendLimit
      <3>1. SendLimit \in 1..SendLimit
        OBVIOUS
      <3> QED
        BY <2>2, <2>3, <2>4, <3>1, AccountCounted
    <2>6. PICK n \in Nat : n = Len(heap) + 1 /\ n > Len(heap)
      BY <1>1
    <2>7. /\ n <= MaxCounters /\ heap' = Append(heap, d)
          /\ counters' = [counters EXCEPT ![call[c].process] = n]
          /\ Decide(ok, <<"account", n, d.end>>)
      BY <1>4, <1>5, <2>1, <2>2, <2>3, <2>4, <2>5, <2>6 DEF AllowAccount, Decide
    <2>8. /\ heap' \in Seq(AccountCounter) /\ Len(heap') = Len(heap) + 1 /\ heap'[n] = d
          /\ \A j \in 1..Len(heap) : heap'[j] = heap[j]
      BY <2>5, <2>6, <2>7, <1>1
    <2>9. \A j \in 1..Len(heap) : Advance(heap[j], heap'[j])
      BY <2>8, <1>2 DEF Advance
    <2>10. counters' \in [Processes -> 0..Len(heap')]
      BY <2>6, <2>7, <2>8, <1>1, <1>3
    <2>11. today' \in Nat /\ LetThrough
      <3>1. n \in 1..Len(heap') /\ n \notin 1..Len(heap)
        BY <2>6, <2>8, <1>1
      <3> QED
        BY <3>1, <2>5, <2>7, <2>8, AccountDecided
    <2>12. Len(heap') \in Nat /\ Len(heap') <= MaxCounters /\ Len(heap) <= Len(heap')
      BY <2>6, <2>7, <2>8, <1>1
    <2> QED
      BY <2>8, <2>9, <2>10, <2>11, <2>12
  <1>6. CASE call[c].seen # 0
    <2>1. PICK n \in 1..Len(heap) : n = call[c].seen /\ ~ (n > Len(heap))
      BY <1>1, <1>3, <1>6
    <2>2. PICK o \in AccountCounter : o = heap[n]
      BY <2>1, <1>2
    <2>3. PICK ac \in AccountCounter : ac = Rolled(o, t) /\ Advance(o, ac)
      BY RolledOK
    <2>4. PICK ok \in BOOLEAN : ok <=> ac.count < SendLimit
      OBVIOUS
    <2>5. PICK d : d = IF ok THEN [ac EXCEPT !.count = @ + 1] ELSE ac
      OBVIOUS
    <2>6. /\ d \in AccountCounter /\ d.end = ac.end /\ d.end \in Int /\ Advance(o, d)
          /\ ok => Grows(o, d) /\ d.count \in 1..SendLimit
      <3>1. SendLimit \in 1..SendLimit
        OBVIOUS
      <3> QED
        BY <2>3, <2>4, <2>5, <3>1, AccountCounted
    <2>7. /\ heap' = [heap EXCEPT ![n] = d] /\ counters' = counters
          /\ Decide(ok, <<"account", n, d.end>>)
      BY <1>4, <1>6, <2>1, <2>2, <2>3, <2>4, <2>5, <2>6 DEF AllowAccount, Decide
    <2>8. /\ heap' \in Seq(AccountCounter) /\ Len(heap') = Len(heap) /\ heap'[n] = d
          /\ \A j \in (1..Len(heap)) \ {n} : heap'[j] = heap[j]
      BY <2>1, <2>6, <2>7, <1>1
    <2>9. \A j \in 1..Len(heap) : Advance(heap[j], heap'[j])
      BY <2>2, <2>6, <2>8, <1>2 DEF Advance
    <2>10. today' \in Nat /\ LetThrough
      <3>1. n \in 1..Len(heap')
        BY <2>1, <2>8
      <3>2. ok => d.count \in 1..SendLimit /\ (n \in 1..Len(heap) => Grows(heap[n], d))
        BY <2>2, <2>6
      <3> QED
        BY <3>1, <3>2, <2>6, <2>7, <2>8, AccountDecided
    <2> QED
      BY <2>7, <2>8, <2>9, <2>10, <1>1
  <1> QED
    BY <1>5, <1>6

LEMMA SendKeeps == ASSUME RateInv, NEW c \in Calls, AllowSend(c) PROVE RateInv'
  <1>1. /\ call[c].at = "decide" /\ call' = [call EXCEPT ![c] = Idle]
        /\ UNCHANGED <<limiter, useRedis, clock>>
    BY DEF AllowSend
  <1>2. call[c].process \in Processes
    BY <1>1 DEF RateInv, CallsOK
  <1>3. /\ call' \in [Calls -> [at: {"idle", "decide"}, process: Processes \cup {Shared}, seen: 0..Len(heap),
                                read: 0..MaxTick]]
        /\ CallsOK'
    <2> DEFINE CallSet == [at: {"idle", "decide"}, process: Processes \cup {Shared}, seen: 0..Len(heap),
                           read: 0..MaxTick]
    <2>1. call \in [Calls -> CallSet] /\ Len(heap) \in Nat
      BY DEF RateInv, RateTypeOK
    <2>2. Idle \in CallSet /\ Idle.at = "idle"
      BY <2>1, RateAssumption DEF Idle
    <2> HIDE DEF CallSet
    <2>3. call' \in [Calls -> CallSet] /\ \A x \in Calls : call'[x] = IF x = c THEN Idle ELSE call[x]
      BY <1>1, <2>1, <2>2
    <2>4. CallsOK'
      BY <2>2, <2>3 DEF RateInv, CallsOK
    <2> QED
      BY <2>3, <2>4 DEF CallSet
  <1>4. CASE useRedis
    <2>1. AllowRedis(call[c].process) /\ UNCHANGED <<heap, counters>>
      BY <1>4 DEF AllowSend
    <2>2. /\ redis' \in [Processes \cup {Shared} -> Counter] /\ inMemory' \in [Processes -> Counter]
          /\ outages' \in 0..MaxOutages /\ today' \in Nat
          /\ Moves /\ LetThrough /\ KeysExpire'
          /\ (useRedis /\ outages = 0 /\ limiter # "conn" => TwoWindows)'
      BY <2>1, <1>1, <1>2, RedisAsked
    <2>3. RateTypeOK'
      BY <2>1, <2>2, <1>1, <1>3 DEF RateInv, RateTypeOK
    <2> QED
      BY <2>2, <2>3, <1>3, RateKept
  <1>5. CASE ~ useRedis
    <2>1. AllowAccount(c) /\ UNCHANGED <<redis, inMemory, outages>>
      BY <1>5 DEF AllowSend
    <2>2. /\ heap' \in Seq(AccountCounter) /\ Len(heap') \in Nat /\ Len(heap') <= MaxCounters
          /\ Len(heap) <= Len(heap') /\ \A n \in 1..Len(heap) : Advance(heap[n], heap'[n])
          /\ counters' \in [Processes -> 0..Len(heap')]
          /\ today' \in Nat /\ LetThrough
      BY <2>1, <1>1, AccountAsked
    <2>3. RateTypeOK'
      <3>1. Len(heap) \in Nat
        BY DEF RateInv, RateTypeOK
      <3>2. 0..Len(heap) \subseteq 0..Len(heap')
        BY <3>1, <2>2
      <3>3. call' \in [Calls -> [at: {"idle", "decide"}, process: Processes \cup {Shared},
                                 seen: 0..Len(heap'), read: 0..MaxTick]]
        BY <1>3, <3>2
      <3> QED
        BY <3>3, <2>1, <2>2, <1>1 DEF RateInv, RateTypeOK
    <2>4. Moves
      BY <2>1, <2>2, HeapMoves
    <2>5. KeysExpire'
      BY <2>1, <1>1 DEF RateInv, KeysExpire
    <2> QED
      BY <2>2, <2>3, <2>4, <2>5, <1>1, <1>3, <1>5, RateKept
  <1> QED
    BY <1>4, <1>5

LEMMA TickKeeps == ASSUME RateInv, Tick PROVE RateInv'
  <1> USE RateAssumption
  <1>1. /\ clock \in 0..MaxTick /\ clock < MaxTick /\ clock' = clock + 1
        /\ UNCHANGED <<limiter, useRedis, counters, heap, call, outages>>
    BY DEF RateInv, RateTypeOK, Tick
  <1>2. NoCounter \in Counter /\ NoCounter.end = -1 /\ NoCounter.count = 0
    BY DEF NoCounter, Counter
  <1>3. CallsOK'
    BY <1>1 DEF RateInv, CallsOK
  <1>4. /\ redis \in [Processes \cup {Shared} -> Counter] /\ inMemory \in [Processes -> Counter]
        /\ \A k \in Processes \cup {Shared} : /\ redis[k].end \in Int /\ redis[k].end <= clock + DayTicks
                                              /\ redis[k].count = 0 => redis[k].end = -1
    BY CounterFields DEF RateInv, RateTypeOK, KeysExpire
  <1>5. CASE clock' % DayTicks = 0
    <2>1. /\ today' = 0 /\ spans' = {}
          /\ redis' = redis \/ redis' = [k \in Processes \cup {Shared} |-> NoCounter]
          /\ inMemory' = inMemory \/ inMemory' = [i \in Processes |-> NoCounter]
      BY <1>4, <1>5 DEF Tick
    <2>2. redis' \in [Processes \cup {Shared} -> Counter] /\ inMemory' \in [Processes -> Counter]
      BY <2>1, <1>2, <1>4
    <2>3. RateTypeOK'
      BY <2>1, <2>2, <1>1 DEF RateInv, RateTypeOK
    <2>4. Drawn'
      <3>1. Tickets({})'
        BY <2>1, FS_EmptySet DEF Tickets
      <3> QED
        BY <3>1, <2>1, FS_EmptySet DEF Drawn
    <2>5. KeysExpire'
      <3>1. CASE redis' = redis
        BY <3>1, <1>1, <1>4 DEF KeysExpire
      <3>2. CASE redis' = [k \in Processes \cup {Shared} |-> NoCounter]
        BY <3>2, <1>1, <1>2 DEF KeysExpire
      <3> QED
        BY <3>1, <3>2, <2>1
    <2>6. TwoWindows'
      BY <2>1 DEF TwoWindows
    <2> QED
      BY <2>3, <2>4, <2>5, <2>6, <1>3 DEF RateInv
  <1>6. CASE clock' % DayTicks # 0
    <2>1. UNCHANGED <<today, spans, redis, inMemory>>
      BY <1>6 DEF Tick
    <2>2. RateTypeOK'
      BY <2>1, <1>1 DEF RateInv, RateTypeOK
    <2>3. Moves
      BY <2>1, <1>1, HeapMoves, CounterFields DEF RateInv, Advance
    <2>4. LetThrough
      BY <2>1 DEF LetThrough
    <2>5. KeysExpire'
      BY <2>1, <1>1, <1>4 DEF KeysExpire
    <2>6. Midnight(clock') = Midnight(clock)
      BY <1>1, <1>6, SameDay
    <2>7. (useRedis /\ outages = 0 /\ limiter # "conn" => TwoWindows)'
      BY <2>1, <2>6, <1>1 DEF RateInv, TwoWindows, Midnight
    <2> QED
      BY <2>2, <2>3, <2>4, <2>5, <2>7, <1>3, RateKept
  <1> QED
    BY <1>5, <1>6

LEMMA RateStep == ASSUME RateInv, [RateNext]_rateVars PROVE RateInv'
  <1>1. CASE UNCHANGED rateVars
    <2>3. RateTypeOK' /\ KeysExpire' /\ CallsOK' /\ LetThrough
      BY <1>1 DEF rateVars, RateInv, RateTypeOK, KeysExpire, CallsOK, LetThrough
    <2>4. Moves
      BY <1>1, HeapMoves, CounterFields DEF rateVars, RateInv, Advance
    <2>5. (useRedis /\ outages = 0 /\ limiter # "conn" => TwoWindows)'
      BY <1>1 DEF rateVars, RateInv, TwoWindows
    <2> QED
      BY <2>3, <2>4, <2>5, RateKept
  <1>2. CASE Tick
    BY <1>2, TickKeeps
  <1>3. ASSUME NEW i \in Processes, AllowConn(i) \/ AllowTenant(i) PROVE RateInv'
    BY <1>3, ConnAsked
  <1>4. ASSUME NEW i \in Processes, RegisterAccount(i) PROVE RateInv'
    BY <1>4, RegisterKeeps
  <1>5. ASSUME NEW c \in Calls, NEW i \in Processes, NEW free \in BOOLEAN, AllowRamp(c, i, free) PROVE RateInv'
    BY <1>5, RampKeeps
  <1>6. ASSUME NEW c \in Calls, AllowSend(c) PROVE RateInv'
    BY <1>6, SendKeeps
  <1> QED
    BY <1>1, <1>2, <1>3, <1>4, <1>5, <1>6 DEF RateNext, AllowUnknownIP

LEMMA RatesPart == ASSUME [StoresNext]_storesVars PROVE [RateNext]_rateVars
  BY DEF StoresNext, Only, storesVars

(* LimitsHold.  For any number of processes, calls and outages, and any    *)
(* limits: what a sender gets through in a day is at most the limit for    *)
(* each counter window that let something through, and a shared Redis key  *)
(* that always answers has at most two windows in a day (ratelimit.go,     *)
(* conn_ratelimit.go, redis.go).  And no address gets more requests past a *)
(* limiter of the gateway in its window than the limit, twice the limit    *)
(* when the salt is replaced in it, whatever cells of the sketch addresses *)
(* share; no private request passes without credentials (gateway).         *)
THEOREM LimitsRespected == StoresSpec => []LimitsHold
  <1>1. StoresInit => RateInv /\ GwInv
    BY RateStart, GwStart DEF StoresInit
  <1>2. RateInv /\ GwInv /\ [StoresNext]_storesVars => RateInv' /\ GwInv'
    BY RatesPart, RateStep, GatewayPart, GwStep
  <1>3. RateInv /\ GwInv => LimitsHold
    BY RateQuota, GwQuota DEF LimitsHold
  <1> QED
    BY <1>1, <1>2, <1>3, PTL DEF StoresSpec

-----------------------------------------------------------------------------
(* Payment tokens.                                                         *)

(* The key the service signs with is the one on disk, unless a mishap took *)
(* both from the disk, or kept the new one from it.                        *)
KeyKept(t) ==
    /\ signingKey[t] # NoKey
    /\ \/ signingKey[t] = sealedKey[t]
       \/ /\ <<t, signingKey[t]>> \in forsaken
          /\ sealedKey[t] \in {NoKey, Torn} \/ <<t, sealedKey[t]>> \in forsaken

TokInv ==
    /\ TokTypeOK
    /\ \A r \in redeemed : r[1][1] = r[2]
    /\ \A k \in handedOut : k \in forsaken \/ sealedKey[k[1]] = k[2]
    /\ running => \A t \in SigningTiers : KeyKept(t)
    /\ running /\ ~snapDue => sealedKey \in archives

LEMMA KeyNumbers ==
    ASSUME TokTypeOK
    PROVE  /\ \A t \in SigningTiers : /\ sealedKey[t] \in 0..MaxKeys \cup {Torn}
                                      /\ signingKey[t] \in 0..MaxKeys /\ generated[t] \in 0..MaxKeys
           /\ \A k \in TierKeys : /\ k = <<k[1], k[2]>> /\ k[1] \in SigningTiers
                                  /\ k[2] \in 1..MaxKeys /\ k[2] \notin {NoKey, Torn}
  <1>1. \A t \in SigningTiers : /\ sealedKey[t] \in 0..Torn /\ signingKey[t] \in 0..MaxKeys
                                /\ generated[t] \in 0..MaxKeys
    BY DEF TokTypeOK, KeyFiles, MemoryKeys
  <1>2. ASSUME NEW n \in 0..Torn PROVE n \in 0..MaxKeys \cup {Torn}
    BY TokensAssumption DEF Torn
  <1>3. \A k \in TierKeys : k = <<k[1], k[2]>> /\ k[1] \in SigningTiers /\ k[2] \in 1..MaxKeys
    BY DEF TierKeys
  <1>4. ASSUME NEW n \in 1..MaxKeys PROVE n \notin {NoKey, Torn}
    BY TokensAssumption DEF Torn, NoKey
  <1> QED
    BY <1>1, <1>2, <1>3, <1>4

LEMMA TokensGood == TokInv => TokTypeOK /\ TokensHonoured
  <1> SUFFICES ASSUME TokInv PROVE TokensHonoured
    BY DEF TokInv
  <1>1. ASSUME NEW k \in handedOut, k \notin forsaken
        PROVE  k = <<k[1], k[2]>> /\ k[1] \in SigningTiers /\ sealedKey[k[1]] = k[2] /\ k[2] \notin {NoKey, Torn}
    BY <1>1, KeyNumbers DEF TokInv, TokTypeOK
  <1>2. ASSUME running, NEW k \in handedOut, k \notin forsaken PROVE VerifyForTier(k) # {}
    <2>1. KeyKept(k[1])
      BY <1>1, <1>2 DEF TokInv
    <2>2. signingKey[k[1]] = k[2]
      BY <2>1, <1>1, <1>2 DEF KeyKept
    <2> QED
      BY <2>2, <1>1, <1>2 DEF VerifyForTier
  <1>3. ASSUME running, ~snapDue, NEW k \in handedOut, k \notin forsaken
        PROVE  \E a \in archives : a[k[1]] = k[2]
    BY <1>1, <1>3 DEF TokInv
  <1> QED
    BY <1>2, <1>3 DEF TokInv, TokensHonoured

LEMMA TokStart == TokInit => TokInv
  <1> SUFFICES ASSUME TokInit PROVE TokInv
    OBVIOUS
  <1>1. sealedKey \in KeyFiles /\ sealedKey \in MemoryKeys
    BY TokensAssumption DEF TokInit, KeyFiles, MemoryKeys, NoKey, Torn
  <1>2. TokTypeOK
    <2>1. running = FALSE /\ snapDue = FALSE
      BY Zenon DEF TokInit
    <2>2. /\ mishaps = 0 /\ signingKey = sealedKey /\ generated = sealedKey
          /\ handedOut = {} /\ redeemed = {} /\ archives = {} /\ forsaken = {}
      BY DEF TokInit
    <2>3. /\ mishaps \in 0..MaxMishaps
          /\ sealedKey \in KeyFiles /\ signingKey \in MemoryKeys /\ generated \in MemoryKeys
      BY <1>1, <2>2, TokensAssumption
    <2>4. running \in BOOLEAN /\ snapDue \in BOOLEAN
      BY <2>1
    <2> QED
      BY <2>2, <2>3, <2>4 DEF TokTypeOK
  <1> QED
    BY <1>2 DEF TokInit, TokInv

(* A start of the service, with keys that do not unseal or cannot be       *)
(* written.                                                                *)
LEMMA RunKeeps ==
    ASSUME TokInv, NEW bad \in SUBSET {t \in SigningTiers : sealedKey[t] # NoKey},
           NEW unwritten \in SUBSET SigningTiers, NEW torn \in SUBSET SigningTiers,
           Run(bad, unwritten, torn)
    PROVE  TokInv'
  <1> USE TokensAssumption
  <1> DEFINE new == LoadOrSealTierKeys(bad)
             fresh == [t \in SigningTiers |-> IF t \in new THEN generated[t] + 1 ELSE sealedKey[t]]
             lost == {k \in TierKeys : k[1] \in unwritten /\ k[2] = fresh[k[1]]}
             bust == {k \in Held(sealedKey) : k[1] \in bad}
  <1>1. /\ running' = TRUE /\ snapDue' = TRUE /\ unwritten \subseteq new /\ torn \subseteq unwritten
        /\ \A t \in new : generated[t] < MaxKeys
        /\ mishaps' = mishaps \/ (mishaps < MaxMishaps /\ mishaps' = mishaps + 1)
        /\ generated' = [t \in SigningTiers |-> IF t \in new THEN fresh[t] ELSE generated[t]]
        /\ signingKey' = fresh
        /\ sealedKey' = [t \in SigningTiers |-> IF t \in torn THEN Torn
                                                ELSE IF t \in unwritten THEN sealedKey[t] ELSE fresh[t]]
        /\ forsaken' = forsaken \cup lost \cup bust
        /\ UNCHANGED <<handedOut, redeemed, archives>>
    BY DEF Run, Mishap
  <1>2. \A t \in SigningTiers : /\ sealedKey[t] \in 0..MaxKeys \cup {Torn} /\ generated[t] \in 0..MaxKeys
                                /\ t \in new <=> sealedKey[t] \in {NoKey, Torn} \/ t \in bad
    BY KeyNumbers DEF TokInv, LoadOrSealTierKeys
  <1>3. new \subseteq SigningTiers
    BY DEF LoadOrSealTierKeys
  <1> HIDE DEF new
  <1>4. /\ \A t \in SigningTiers : /\ fresh[t] \in 1..MaxKeys /\ fresh[t] # NoKey
                                   /\ t \notin new => fresh[t] = sealedKey[t]
        /\ fresh \in MemoryKeys
    <2>1. ASSUME NEW t \in SigningTiers
          PROVE  /\ fresh[t] \in 1..MaxKeys /\ fresh[t] # NoKey
                 /\ t \notin new => fresh[t] = sealedKey[t]
      BY <1>1, <1>2 DEF NoKey
    <2>2. fresh \in [SigningTiers -> 1..MaxKeys]
      BY <2>1
    <2> HIDE DEF fresh
    <2> QED
      BY <2>1, <2>2 DEF MemoryKeys
  <1> HIDE DEF fresh
  <1>5. TokTypeOK'
    <2>1. signingKey' \in MemoryKeys
      BY <1>1, <1>4
    <2>2. generated' \in MemoryKeys
      BY <1>1, <1>2, <1>4 DEF MemoryKeys
    <2>5. sealedKey' \in KeyFiles
      <3>1. 0..MaxKeys \cup {Torn} \subseteq 0..Torn
        BY DEF Torn
      <3>2. \A t \in SigningTiers : fresh[t] \in 0..MaxKeys
        BY <1>4
      <3> QED
        BY <3>1, <3>2, <1>1, <1>2 DEF KeyFiles
    <2>3. forsaken' \subseteq TierKeys
      BY <1>1 DEF TokInv, TokTypeOK, Held
    <2>4. mishaps' \in 0..MaxMishaps
      BY <1>1 DEF TokInv, TokTypeOK
    <2> QED
      BY <2>1, <2>2, <2>3, <2>4, <2>5, <1>1 DEF TokInv, TokTypeOK
  <1>6. ASSUME NEW k \in handedOut PROVE k \in forsaken' \/ sealedKey'[k[1]] = k[2]
    <2>1. k \in TierKeys /\ k[1] \in SigningTiers /\ k[2] \notin {NoKey, Torn}
      BY KeyNumbers DEF TokInv, TokTypeOK
    <2>2. CASE k \in forsaken
      BY <2>2, <1>1
    <2>3. CASE sealedKey[k[1]] = k[2] /\ k[1] \in new
      <3>1. k \in bust
        BY <2>1, <2>3, <1>2 DEF Held
      <3> QED
        BY <3>1, <1>1
    <2>4. CASE sealedKey[k[1]] = k[2] /\ k[1] \notin new
      BY <2>1, <2>4, <1>1, <1>4
    <2> QED
      BY <2>2, <2>3, <2>4 DEF TokInv
  <1>7. ASSUME NEW t \in SigningTiers PROVE KeyKept(t)'
    <2>1. signingKey'[t] = fresh[t] /\ fresh[t] # NoKey
      BY <1>1, <1>4
    <2>2. CASE t \notin unwritten
      BY <2>1, <2>2, <1>1 DEF KeyKept
    <2>3. CASE t \in unwritten
      <3>1. sealedKey'[t] \in {Torn, sealedKey[t]} /\ (sealedKey[t] \in {NoKey, Torn} \/ t \in bad)
        BY <2>3, <1>1, <1>2
      <3>2. <<t, fresh[t]>> \in forsaken'
        <4>1. <<t, fresh[t]>> \in TierKeys
          BY <1>4 DEF TierKeys
        <4> QED
          BY <4>1, <2>3, <1>1
      <3>3. sealedKey[t] \notin {NoKey, Torn} => <<t, sealedKey[t]>> \in forsaken'
        <4>1. sealedKey[t] \notin {NoKey, Torn} => <<t, sealedKey[t]>> \in Held(sealedKey)
          BY <1>2 DEF Held, TierKeys, NoKey
        <4> QED
          BY <4>1, <3>1, <1>1
      <3> QED
        BY <2>1, <3>1, <3>2, <3>3 DEF KeyKept
    <2> QED
      BY <2>2, <2>3
  <1> QED
    BY <1>1, <1>5, <1>6, <1>7 DEF TokInv

LEMMA SignKeeps ==
    ASSUME TokInv, NEW t \in SigningTiers, running, handedOut' = handedOut \cup {<<t, signingKey[t]>>},
           UNCHANGED <<running, sealedKey, signingKey, generated, redeemed, archives, snapDue, mishaps, forsaken>>
    PROVE  TokInv'
  <1>1. KeyKept(t) /\ signingKey[t] \in 0..MaxKeys
    BY KeyNumbers DEF TokInv
  <1>2. <<t, signingKey[t]>> \in TierKeys
    BY <1>1, TokensAssumption DEF KeyKept, TierKeys, NoKey
  <1>3. <<t, signingKey[t]>> \in forsaken \/ sealedKey[t] = signingKey[t]
    BY <1>1 DEF KeyKept
  <1>4. \A x \in SigningTiers : KeyKept(x)' <=> KeyKept(x)
    BY DEF KeyKept
  <1>5. TokTypeOK'
    BY <1>2 DEF TokInv, TokTypeOK
  <1> QED
    BY <1>3, <1>4, <1>5 DEF TokInv

(* A restore writes keys of an archive over those on disk.                 *)
LEMMA RestoreKeeps ==
    ASSUME TokInv, NEW a \in archives, NEW written \in SUBSET SigningTiers, NEW torn \in SUBSET SigningTiers,
           ExtractFiles(a, written, torn)
    PROVE  TokInv'
  <1>1. /\ ~running
        /\ mishaps' = mishaps \/ (mishaps < MaxMishaps /\ mishaps' = mishaps + 1)
        /\ sealedKey' = [t \in SigningTiers |-> IF t \in torn THEN Torn
                                                ELSE IF t \in written THEN a[t] ELSE sealedKey[t]]
        /\ forsaken' = (forsaken \cup {k \in Held(sealedKey) : k[1] \in written \cup torn}) \ Held(sealedKey')
        /\ UNCHANGED <<running, signingKey, generated, handedOut, redeemed, archives, snapDue>>
    BY DEF ExtractFiles, Mishap
  <1>2. a \in KeyFiles /\ sealedKey \in KeyFiles
    BY DEF TokInv, TokTypeOK
  <1>3. TokTypeOK'
    <2>1. sealedKey' \in KeyFiles
      BY <1>1, <1>2, TokensAssumption DEF KeyFiles, Torn
    <2>2. forsaken' \subseteq TierKeys
      BY <1>1 DEF TokInv, TokTypeOK, Held
    <2>3. mishaps' \in 0..MaxMishaps
      BY <1>1, TokensAssumption DEF TokInv, TokTypeOK
    <2> QED
      BY <2>1, <2>2, <2>3, <1>1 DEF TokInv, TokTypeOK
  <1>4. ASSUME NEW k \in handedOut PROVE k \in forsaken' \/ sealedKey'[k[1]] = k[2]
    <2>1. k \in TierKeys /\ k[1] \in SigningTiers
      BY KeyNumbers DEF TokInv, TokTypeOK
    <2>2. k \in Held(sealedKey') => sealedKey'[k[1]] = k[2]
      BY DEF Held
    <2>3. sealedKey[k[1]] = k[2] => k \in Held(sealedKey)
      BY <2>1 DEF Held
    <2>4. k[1] \notin written \cup torn => sealedKey'[k[1]] = sealedKey[k[1]]
      BY <2>1, <1>1
    <2>5. k \in forsaken \/ sealedKey[k[1]] = k[2]
      BY DEF TokInv
    <2> QED
      BY <2>2, <2>3, <2>4, <2>5, <1>1
  <1>5. ~ running' /\ \A r \in redeemed' : r[1][1] = r[2]
    <2>1. running' = running /\ redeemed' = redeemed /\ ~ running
      BY <1>1, Zenon
    <2> QED
      BY <2>1 DEF TokInv
  <1>6. \A k \in handedOut' : k \in forsaken' \/ sealedKey'[k[1]] = k[2]
    BY <1>1, <1>4
  <1> QED
    BY <1>3, <1>5, <1>6 DEF TokInv

LEMMA TokStep == ASSUME TokInv, [TokNext]_tokVars PROVE TokInv'
  <1> USE TokensAssumption
  <1>1. CASE UNCHANGED tokVars
    BY <1>1 DEF tokVars, TokInv, TokTypeOK, KeyKept
  <1>2. ASSUME NEW bad \in SUBSET {t \in SigningTiers : sealedKey[t] # NoKey},
               NEW unwritten \in SUBSET SigningTiers, NEW torn \in SUBSET SigningTiers,
               Run(bad, unwritten, torn)
        PROVE  TokInv'
    BY <1>2, RunKeeps
  <1>3. CASE Stopped
    <2>1. [t \in SigningTiers |-> NoKey] \in MemoryKeys
      BY DEF MemoryKeys, NoKey
    <2> QED
      BY <2>1, <1>3 DEF Stopped, TokInv, TokTypeOK
  <1>4. CASE Save
    <2>1. /\ running /\ UNCHANGED <<running, sealedKey, signingKey, generated, handedOut, redeemed, forsaken>>
          /\ \/ archives' = archives \cup {sealedKey} /\ snapDue' = FALSE /\ UNCHANGED mishaps
             \/ mishaps < MaxMishaps /\ mishaps' = mishaps + 1 /\ UNCHANGED <<archives, snapDue>>
      BY <1>4 DEF Save, PackFiles, Mishap
    <2>2. TokTypeOK'
      <3>1. archives' \subseteq KeyFiles
        BY <2>1 DEF TokInv, TokTypeOK
      <3>2. mishaps' \in 0..MaxMishaps
        BY <2>1 DEF TokInv, TokTypeOK
      <3>3. snapDue' \in BOOLEAN
        BY <2>1 DEF TokInv, TokTypeOK
      <3> QED
        BY <2>1, <3>1, <3>2, <3>3 DEF TokInv, TokTypeOK
    <2>3. \A x \in SigningTiers : KeyKept(x)' <=> KeyKept(x)
      BY <2>1 DEF KeyKept
    <2> QED
      BY <2>1, <2>2, <2>3 DEF TokInv
  <1>5. CASE LoseDisk
    <2>1. /\ ~running /\ mishaps < MaxMishaps /\ mishaps' = mishaps + 1
          /\ sealedKey' = [t \in SigningTiers |-> NoKey] /\ forsaken' = forsaken \cup Held(sealedKey)
          /\ UNCHANGED <<running, signingKey, generated, handedOut, redeemed, archives, snapDue>>
      BY <1>5 DEF LoseDisk, Mishap
    <2>2. sealedKey' \in KeyFiles
      BY <2>1 DEF KeyFiles, NoKey, Torn
    <2>3. TokTypeOK'
      BY <2>1, <2>2 DEF TokInv, TokTypeOK, Held
    <2>4. \A k \in handedOut : k \in forsaken'
      BY <2>1 DEF TokInv, TokTypeOK, Held
    <2> QED
      BY <2>1, <2>3, <2>4 DEF TokInv
  <1>6. ASSUME NEW amount \in 0..2, ProcessPayment(amount) PROVE TokInv'
    BY <1>6, SignKeeps DEF ProcessPayment
  <1>7. ASSUME NEW t \in SigningTiers, SignForTier(t) PROVE TokInv'
    BY <1>7, SignKeeps DEF SignForTier
  <1>8. ASSUME NEW token \in handedOut, RedeemToken(token) PROVE TokInv'
    <2>1. PICK t \in SigningTiers : <<t, signingKey[t]>> = token /\ redeemed' = redeemed \cup {<<token, t>>}
      BY <1>8 DEF RedeemToken, VerifyForTier
    <2>2. UNCHANGED <<running, sealedKey, signingKey, generated, handedOut, archives, snapDue, mishaps, forsaken>>
      BY <1>8 DEF RedeemToken
    <2>3. token \in TierKeys /\ token[1] = t
      BY <2>1 DEF TokInv, TokTypeOK
    <2>4. TokTypeOK'
      BY <2>1, <2>2, <2>3 DEF TokInv, TokTypeOK
    <2>5. \A x \in SigningTiers : KeyKept(x)' <=> KeyKept(x)
      BY <2>2 DEF KeyKept
    <2> QED
      BY <2>1, <2>2, <2>3, <2>4, <2>5 DEF TokInv
  <1>9. ASSUME NEW a \in archives, NEW written \in SUBSET SigningTiers, NEW torn \in SUBSET SigningTiers,
               ExtractFiles(a, written, torn)
        PROVE  TokInv'
    BY <1>9, RestoreKeeps
  <1> QED
    BY <1>1, <1>2, <1>3, <1>4, <1>5, <1>6, <1>7, <1>8, <1>9 DEF TokNext

LEMMA TokensPart == ASSUME [StoresNext]_storesVars PROVE [TokNext]_tokVars
  BY DEF StoresNext, Only, storesVars

(* TokensHonoured, the part of TokensHold about the payment service        *)
(* (cmd/payment, internal/payment), for any tiers and any number of keys,  *)
(* faults and restarts: a token is redeemed for its own tier, and while    *)
(* the service runs every token it handed out can be redeemed, and is in   *)
(* an archive once one was saved, unless a mishap took its key.            *)
THEOREM TokensStayGood == StoresSpec => [](TokTypeOK /\ TokensHonoured)
  <1>1. StoresInit => TokInv
    BY TokStart DEF StoresInit
  <1>2. TokInv /\ [StoresNext]_storesVars => TokInv'
    BY TokensPart, TokStep
  <1> QED
    BY <1>1, <1>2, TokensGood, PTL DEF StoresSpec

-----------------------------------------------------------------------------
(* The checks of a sender's identity.                                      *)

SPFFrame == [domain: SPFDomains, pos: Nat]

(* A record that is there has terms with a qualifier and a target.         *)
TermOK(t) ==
    /\ t.q \in Results /\ t.to \in SPFDomains /\ t.hosts \in Nat /\ t.hit \in Nat

ZoneOK ==
    \A d \in SPFDomains : /\ zone[d].txt \in {"temperror", "none", "permerror", "one"}
                          /\ Len(zone[d].terms) \in Nat
                          /\ \A i \in 1..Len(zone[d].terms) : TermOK(zone[d].terms[i])

(* A call that waits for an included record stands at a term.              *)
Waiting(z, f) == f.pos \in 1..Len(z[f.domain].terms)

(* Every call on the stack but the first was paid for with a lookup, and   *)
(* the evaluation is over once it has given its result.                    *)
StackPaid ==
    /\ Len(frames) <= lookups + 1
    /\ spfResult # "unset" => Len(frames) = 0 /\ back = "unset"

PolInv ==
    /\ PolicyTypeOK /\ ZoneOK /\ StackPaid /\ LimitHolds
    /\ \A j \in 1..Len(frames) : frames[j].pos # 0
    /\ \A j \in 1..(Len(frames) - 1) : Waiting(zone, frames[j])
    /\ Len(frames) = 0 => back = "unset"

LEMMA TermsOK == \A t \in Terms : TermOK(t)
  BY PolicyAssumption DEF Terms, Term, TermOK, Results, SPFDomains

LEMMA LimitIsNumber == SPFLimit \in Nat
  BY PolicyAssumption

LEMMA OneMore ==
    ASSUME NEW S, NEW s \in Seq(S), NEW x \in S
    PROVE  /\ Append(s, x) \in Seq(S) /\ Len(Append(s, x)) = Len(s) + 1
           /\ \A j \in 1..Len(s) : Append(s, x)[j] = s[j]
  OBVIOUS

LEMMA NotEmpty ==
    ASSUME NEW S, NEW s \in Seq(S)
    PROVE  Len(s) \in Nat /\ (s = <<>> <=> Len(s) = 0) /\ \A j \in 1..Len(s) : s[j] \in S
  OBVIOUS

LEMMA PolStart == PolicyInit => PolInv
  <1> SUFFICES ASSUME PolicyInit PROVE PolInv
    OBVIOUS
  <1>1. PICK r \in Records(MaxTerms), o \in [OtherDomains -> Records(MaxOtherTerms)] :
            zone = [d \in SPFDomains |-> IF d = MailDomain THEN r ELSE o[d]]
    BY DEF PolicyInit
  <1>2. ASSUME NEW n \in Nat, NEW x \in Records(n)
        PROVE  /\ x.txt \in {"temperror", "none", "permerror", "one"} /\ Len(x.terms) \in Nat
               /\ \A i \in 1..Len(x.terms) : x.terms[i] \in Terms
    <2>1. CASE x \in [txt: {"temperror", "none", "permerror"}, terms: {<<>>}]
      BY <2>1
    <2>2. CASE x \in [txt: {"one"}, terms: UNION {[1..i -> Terms] : i \in 0..n}]
      <3>1. PICK i \in 0..n : x.terms \in [1..i -> Terms]
        BY <2>2
      <3>2. x.terms \in Seq(Terms) /\ Len(x.terms) = i
        BY <3>1
      <3> QED
        BY <2>2, <3>2
    <2> QED
      BY <1>2, <2>1, <2>2 DEF Records
  <1>3. ASSUME NEW d \in SPFDomains PROVE zone[d] \in Records(MaxTerms) \/ zone[d] \in Records(MaxOtherTerms)
    BY <1>1, PolicyAssumption DEF SPFDomains
  <1>4. ZoneOK
    BY <1>2, <1>3, TermsOK, PolicyAssumption DEF ZoneOK
  <1>5. frames = <<[domain |-> MailDomain, pos |-> 1]>> /\ Len(frames) = 1
    BY DEF PolicyInit
  <1>6. frames \in Seq(SPFFrame)
    BY <1>5 DEF SPFDomains, SPFFrame
  <1>9. \A j \in 1..Len(frames) : frames[j].pos # 0
    BY <1>5
  <1>7. lookups = 0 /\ back = "unset" /\ spfResult = "unset" /\ dmarcResult = "unset"
    BY DEF PolicyInit
  <1>10. signatures \in [aligned: BOOLEAN, stray: BOOLEAN]
    BY DEF PolicyInit
  <1>8. PolicyTypeOK
    BY <1>6, <1>7, <1>10, LimitIsNumber DEF PolicyTypeOK, SPFFrame
  <1> QED
    BY <1>4, <1>5, <1>7, <1>8, <1>9, LimitIsNumber DEF PolInv, StackPaid, LimitHolds

(* A call that goes on to its next term.                                   *)
LEMMA FrameAdvanced ==
    ASSUME NEW fs \in Seq(SPFFrame), Len(fs) # 0
    PROVE  /\ Advanced(fs) \in Seq(SPFFrame) /\ Len(Advanced(fs)) = Len(fs)
           /\ Advanced(fs)[Len(fs)].pos # 0
           /\ \A j \in 1..(Len(fs) - 1) : Advanced(fs)[j] = fs[j]
  <1>1. Len(fs) \in Nat \ {0} /\ fs[Len(fs)] \in SPFFrame
    OBVIOUS
  <1> DEFINE f == [fs[Len(fs)] EXCEPT !.pos = @ + 1]
  <1>2. f \in SPFFrame /\ f.pos # 0
    BY <1>1 DEF SPFFrame
  <1>3. Advanced(fs) = [fs EXCEPT ![Len(fs)] = f]
    BY DEF Advanced
  <1> HIDE DEF f
  <1> QED
    BY <1>1, <1>2, <1>3

LEMMA CallersOK ==
    ASSUME NEW fs \in Seq(SPFFrame), Len(fs) # 0
    PROVE  /\ SubSeq(fs, 1, Len(fs) - 1) \in Seq(SPFFrame) /\ Len(SubSeq(fs, 1, Len(fs) - 1)) = Len(fs) - 1
           /\ Len(fs) \in Nat \ {0}
           /\ \A j \in 1..(Len(fs) - 1) : SubSeq(fs, 1, Len(fs) - 1)[j] = fs[j]
  <1>1. PICK n \in Nat : n = Len(fs) - 1 /\ Len(fs) \in Nat \ {0}
    <2>1. Len(fs) \in Nat \ {0}
      OBVIOUS
    <2>2. Len(fs) - 1 \in Nat
      BY <2>1
    <2> QED
      BY <2>1, <2>2
  <1>2. SubSeq(fs, 1, n) \in Seq(SPFFrame)
    BY <1>1
  <1>3. Len(SubSeq(fs, 1, n)) = n
    BY <1>1
  <1>4. \A j \in 1..n : SubSeq(fs, 1, n)[j] = fs[j]
    BY <1>1
  <1> QED
    BY <1>1, <1>2, <1>3, <1>4

LEMMA CostIsNumber == ASSUME NEW t, TermOK(t) PROVE Cost(t) \in Nat
  BY DEF Cost, TermOK

(* A step that leaves calls under way.                                     *)
LEMMA StackKept ==
    ASSUME PolInv, frames' \in Seq(SPFFrame), Len(frames') \in Nat \ {0}, back' \in Results \cup {"unset"},
           lookups' \in 0..(SPFLimit + 1), Len(frames') <= lookups' + 1, Len(frames') <= SPFLimit + 1,
           spfResult = "unset", UNCHANGED <<zone, spfResult, dmarcResult, signatures>>,
           lookups' > SPFLimit => back' = "permerror",
           \A j \in 1..Len(frames') : frames'[j].pos # 0,
           \A j \in 1..(Len(frames') - 1) : Waiting(zone, frames'[j])
    PROVE  PolInv'
  <1>1. PolicyTypeOK'
    BY DEF PolInv, PolicyTypeOK, SPFFrame
  <1>2. StackPaid'
    BY DEF StackPaid
  <1>3. ZoneOK'
    BY DEF PolInv, ZoneOK
  <1>4. LimitHolds'
    BY DEF LimitHolds
  <1> QED
    BY <1>1, <1>2, <1>3, <1>4 DEF PolInv

(* What is known of the calls under way.                                   *)
LEMMA StackOK ==
    ASSUME PolInv, frames # <<>>
    PROVE  /\ frames \in Seq(SPFFrame) /\ Len(frames) \in Nat \ {0}
           /\ \A j \in 1..Len(frames) : frames[j] \in SPFFrame /\ frames[j].pos # 0
           /\ \A j \in 1..(Len(frames) - 1) : Waiting(zone, frames[j])
           /\ lookups \in 0..(SPFLimit + 1) /\ Len(frames) <= lookups + 1 /\ Len(frames) <= SPFLimit + 1
           /\ spfResult = "unset" /\ (lookups > SPFLimit => back = "permerror")
  <1>1. frames \in Seq(SPFFrame)
    BY DEF PolInv, PolicyTypeOK, SPFFrame
  <1>2. Len(frames) \in Nat \ {0} /\ \A j \in 1..Len(frames) : frames[j] \in SPFFrame
    BY <1>1, NotEmpty
  <1>3. lookups \in 0..(SPFLimit + 1) /\ Len(frames) <= lookups + 1 /\ Len(frames) <= SPFLimit + 1
    BY DEF PolInv, PolicyTypeOK, StackPaid, LimitHolds
  <1>4. spfResult = "unset"
    BY <1>2 DEF PolInv, StackPaid
  <1>5. lookups > SPFLimit => back = "permerror"
    BY <1>4 DEF PolInv, LimitHolds
  <1> QED
    BY <1>1, <1>2, <1>3, <1>4, <1>5 DEF PolInv

(* A step of the evaluation: it gives a result, goes on to the next term,  *)
(* or calls for another record.                                            *)
LEMMA EvaluationKeeps == ASSUME PolInv, checkSPFWithCounter PROVE PolInv'
  <1> USE LimitIsNumber
  <1>0. frames # <<>> /\ back = "unset" /\ UNCHANGED <<zone, spfResult, dmarcResult, signatures>>
    BY DEF checkSPFWithCounter
  <1>1. /\ frames \in Seq(SPFFrame) /\ Len(frames) \in Nat \ {0}
        /\ \A j \in 1..Len(frames) : frames[j] \in SPFFrame /\ frames[j].pos # 0
        /\ \A j \in 1..(Len(frames) - 1) : Waiting(zone, frames[j])
        /\ lookups \in 0..(SPFLimit + 1) /\ Len(frames) <= lookups + 1 /\ Len(frames) <= SPFLimit + 1
        /\ spfResult = "unset" /\ ~ (lookups > SPFLimit)
    BY <1>0, StackOK
  <1>2. PICK f \in SPFFrame : f = frames[Len(frames)] /\ f.pos # 0
    BY <1>1
  <1>3. PICK r : r = zone[f.domain]
    OBVIOUS
  <1>4. /\ r.txt \in {"temperror", "none", "permerror", "one"} /\ Len(r.terms) \in Nat
        /\ \A i \in 1..Len(r.terms) : TermOK(r.terms[i])
    BY <1>2, <1>3 DEF PolInv, ZoneOK, SPFFrame
  <1>5. IF r.txt # "one" THEN PolicyReturn(r.txt)
        ELSE IF f.pos > Len(r.terms) THEN PolicyReturn("neutral") ELSE evalTerm(r.terms[f.pos])
    BY <1>2, <1>3 DEF checkSPFWithCounter, Frame
  <1>6. ASSUME frames' = frames, back' \in Results, lookups' \in 0..(SPFLimit + 1), lookups <= lookups',
               lookups' > SPFLimit => back' = "permerror"
        PROVE  PolInv'
    <2>1. Len(frames') <= lookups' + 1
      BY <1>1, <1>6
    <2> QED
      BY <2>1, <1>0, <1>1, <1>6, StackKept
  <1>7. ASSUME back' = "unset", frames' \in Seq(SPFFrame), frames'[Len(frames')].pos # 0,
               lookups' \in 0..SPFLimit, lookups <= lookups',
               \/ Len(frames') = Len(frames)
               \/ Len(frames') = Len(frames) + 1 /\ lookups < lookups' /\ lookups' <= SPFLimit,
               \A j \in 1..(Len(frames') - 1) : frames'[j] = frames[j] /\ Waiting(zone, frames[j])
        PROVE  PolInv'
    <2>1. Len(frames') <= lookups' + 1 /\ Len(frames') <= SPFLimit + 1 /\ Len(frames') \in Nat \ {0}
      BY <1>1, <1>7
    <2>4. lookups' \in 0..(SPFLimit + 1) /\ ~ (lookups' > SPFLimit)
      BY <1>7
    <2>2. \A j \in 1..Len(frames') : frames'[j].pos # 0
      BY <2>1, <1>1, <1>7
    <2>3. \A j \in 1..(Len(frames') - 1) : Waiting(zone, frames'[j])
      BY <1>7
    <2> QED
      BY <2>1, <2>2, <2>3, <2>4, <1>0, <1>1, <1>7, StackKept
  <1>8. ASSUME NEW v \in Results, PolicyReturn(v) PROVE PolInv'
    BY <1>1, <1>6, <1>8 DEF PolicyReturn
  <1>9. CASE r.txt # "one"
    <2>1. r.txt \in Results
      BY <1>4, <1>9 DEF Results
    <2> QED
      BY <2>1, <1>5, <1>8, <1>9
  <1>10. CASE r.txt = "one" /\ f.pos > Len(r.terms)
    <2>1. "neutral" \in Results
      BY DEF Results
    <2> QED
      BY <2>1, <1>5, <1>8, <1>10
  <1>11. CASE r.txt = "one" /\ ~ (f.pos > Len(r.terms))
    <2>1. PICK t : t = r.terms[f.pos]
      OBVIOUS
    <2>2. evalTerm(t)
      BY <2>1, <1>5, <1>11
    <2>3. CASE Cost(t) > 0 /\ inc(t)
      <3>1. back' = "permerror" /\ lookups' = SPFLimit + 1 /\ UNCHANGED frames
        BY <2>2, <2>3 DEF evalTerm
      <3>2. back' \in Results
        BY <3>1 DEF Results
      <3> QED
        BY <3>1, <3>2, <1>1, <1>6
    <2>4. CASE ~ (Cost(t) > 0 /\ inc(t))
      <3>1. /\ lookups' = IF lookups + Cost(t) > SPFLimit THEN SPFLimit + 1 ELSE lookups + Cost(t)
            /\ CASE t.kind = "include" ->
                      frames' = Append(frames, [domain |-> t.to, pos |-> 1]) /\ UNCHANGED back
                 [] t.kind = "redirect" ->
                      frames' = Append(Callers, [domain |-> t.to, pos |-> 1]) /\ UNCHANGED back
                 [] t.kind = "ptr" -> back' = "neutral" /\ UNCHANGED frames
                 [] OTHER -> IF t.hit > 0 THEN back' = t.q /\ UNCHANGED frames
                             ELSE frames' = Advanced(frames) /\ UNCHANGED back
        BY <2>2, <2>4 DEF evalTerm
      <3>2. f.pos \in 1..Len(r.terms) /\ Waiting(zone, f)
        BY <1>2, <1>3, <1>4, <1>11 DEF SPFFrame, Waiting
      <3>3. TermOK(t) /\ Cost(t) \in Nat /\ t.to \in SPFDomains /\ t.q \in Results /\ t.hit \in Nat
        BY <3>2, <2>1, <1>4, CostIsNumber DEF TermOK
      <3>4. lookups' \in 0..SPFLimit /\ lookups <= lookups' /\ ~ (lookups' > SPFLimit)
        <4>1. lookups' = IF lookups + Cost(t) > SPFLimit THEN SPFLimit + 1 ELSE lookups + Cost(t)
          BY <3>1
        <4>2. Cost(t) = 0 \/ ~ (lookups + Cost(t) > SPFLimit)
          BY <2>4, <3>3 DEF inc
        <4> QED
          BY <4>1, <4>2, <3>3, <1>1
      <3>a. lookups' \in 0..(SPFLimit + 1)
        BY <3>4
      <3> DEFINE called == [domain |-> t.to, pos |-> 1]
      <3>5. called \in SPFFrame /\ called.pos # 0
        BY <3>3 DEF SPFFrame
      <3>6. CASE t.kind = "include"
        <4>1. frames' = Append(frames, called) /\ back' = "unset"
          BY <3>1, <3>6, <1>0
        <4>2. Cost(t) = 1
          BY <3>6 DEF Cost
        <4>3. lookups < lookups' /\ lookups' <= SPFLimit
          <5>1. lookups' = IF lookups + Cost(t) > SPFLimit THEN SPFLimit + 1 ELSE lookups + Cost(t)
            BY <3>1
          <5>2. ~ (lookups + 1 > SPFLimit)
            BY <2>4, <4>2 DEF inc
          <5> QED
            BY <5>1, <5>2, <4>2, <1>1
        <4> HIDE DEF called
        <4>4. /\ frames' \in Seq(SPFFrame) /\ Len(frames') = Len(frames) + 1
              /\ \A j \in 1..Len(frames) : frames'[j] = frames[j]
              /\ frames'[Len(frames')] = called /\ called.pos # 0
          BY <4>1, <3>5, <1>1
        <4>5. \A j \in 1..(Len(frames') - 1) : frames'[j] = frames[j] /\ Waiting(zone, frames[j])
          BY <4>4, <3>2, <1>1, <1>2
        <4> QED
          BY <4>1, <4>3, <4>4, <4>5, <3>4, <1>7
      <3>7. CASE t.kind = "redirect"
        <4>1. frames' = Append(Callers, called) /\ back' = "unset"
          BY <3>1, <3>7, <1>0
        <4> HIDE DEF called
        <4>2. /\ Callers \in Seq(SPFFrame) /\ Len(Callers) = Len(frames) - 1
              /\ \A j \in 1..(Len(frames) - 1) : Callers[j] = frames[j]
          BY <1>1, CallersOK DEF Callers
        <4> HIDE DEF Callers
        <4>3. /\ frames' \in Seq(SPFFrame) /\ Len(frames') = Len(frames)
              /\ \A j \in 1..(Len(frames) - 1) : frames'[j] = frames[j]
          <5>1. PICK cs \in Seq(SPFFrame), n \in Nat :
                    /\ cs = Callers /\ n = Len(cs) /\ n = Len(frames) - 1
                    /\ \A j \in 1..n : cs[j] = frames[j]
            BY <4>2
          <5>2. Append(cs, called) \in Seq(SPFFrame) /\ Len(Append(cs, called)) = n + 1
            <6>1. called \in SPFFrame
              BY <3>5
            <6>2. Append(cs, called) \in Seq(SPFFrame) /\ Len(Append(cs, called)) = Len(cs) + 1
              BY <6>1, OneMore
            <6> QED
              BY <6>2, <5>1
          <5>3. \A j \in 1..n : Append(cs, called)[j] = cs[j]
            <6>1. called \in SPFFrame
              BY <3>5
            <6>2. \A j \in 1..Len(cs) : Append(cs, called)[j] = cs[j]
              BY <6>1, OneMore
            <6> QED
              BY <6>2, <5>1
          <5>4. frames' = Append(cs, called)
            BY <5>1, <4>1
          <5>5. n + 1 = Len(frames)
            BY <5>1, <1>1
          <5>6. \A j \in 1..(Len(frames) - 1) : frames'[j] = frames[j]
            BY <5>1, <5>3, <5>4
          <5>7. frames' \in Seq(SPFFrame)
            BY <5>2, <5>4
          <5>8. Len(frames') = Len(frames)
            BY <5>2, <5>4, <5>5
          <5> QED
            BY <5>6, <5>7, <5>8
        <4>4. frames'[Len(frames')] = called
          BY <4>1, <4>2, <4>3, <3>5, <1>1
        <4> QED
          BY <4>1, <4>3, <4>4, <3>4, <3>5, <1>1, <1>7
      <3>8. CASE t.kind = "ptr"
        <4>1. back' = "neutral" /\ UNCHANGED frames
          BY <3>1, <3>8
        <4> QED
          BY <4>1, <3>4, <3>a, <1>6 DEF Results
      <3>9. CASE t.kind \notin {"include", "redirect", "ptr"} /\ t.hit > 0
        <4>1. back' = t.q /\ UNCHANGED frames
          BY <3>1, <3>9
        <4> QED
          BY <4>1, <3>3, <3>4, <3>a, <1>6
      <3>10. CASE t.kind \notin {"include", "redirect", "ptr"} /\ ~ (t.hit > 0)
        <4>1. frames' = Advanced(frames) /\ back' = "unset"
          BY <3>1, <3>10, <1>0
        <4>2. /\ frames' \in Seq(SPFFrame) /\ Len(frames') = Len(frames)
              /\ \A j \in 1..(Len(frames) - 1) : frames'[j] = frames[j]
              /\ frames'[Len(frames')].pos # 0
          BY <4>1, <1>1, FrameAdvanced
        <4> QED
          BY <4>1, <4>2, <3>4, <1>1, <1>7
      <3> QED
        BY <3>6, <3>7, <3>8, <3>9, <3>10
    <2> QED
      BY <2>3, <2>4
  <1> QED
    BY <1>9, <1>10, <1>11

(* A result goes to the call that asked for the record.                    *)
LEMMA ReturnKeeps == ASSUME PolInv, ReturnSPF PROVE PolInv'
  <1> USE LimitIsNumber
  <1>0. back # "unset" /\ UNCHANGED <<zone, lookups, dmarcResult, signatures>> /\ back \in Results
    BY DEF ReturnSPF, PolInv, PolicyTypeOK
  <1>a. frames # <<>>
    <2>1. frames \in Seq(SPFFrame)
      BY DEF PolInv, PolicyTypeOK, SPFFrame
    <2>2. Len(frames) # 0
      BY <1>0 DEF PolInv
    <2> QED
      BY <2>1, <2>2, NotEmpty
  <1>1. /\ frames \in Seq(SPFFrame) /\ Len(frames) \in Nat \ {0}
        /\ \A j \in 1..Len(frames) : frames[j] \in SPFFrame /\ frames[j].pos # 0
        /\ \A j \in 1..(Len(frames) - 1) : Waiting(zone, frames[j])
        /\ lookups \in 0..(SPFLimit + 1) /\ Len(frames) <= lookups + 1 /\ Len(frames) <= SPFLimit + 1
        /\ spfResult = "unset" /\ (lookups > SPFLimit => back = "permerror")
    BY <1>a, StackOK
  <1>2. PICK cs \in Seq(SPFFrame) :
            /\ cs = Callers /\ Len(cs) = Len(frames) - 1
            /\ \A j \in 1..(Len(frames) - 1) : cs[j] = frames[j]
    BY <1>1, CallersOK DEF Callers
  <1>3. Len(cs) \in Nat /\ (cs = <<>> <=> Len(cs) = 0)
    BY NotEmpty
  <1>4. \A j \in 1..Len(cs) : cs[j] \in SPFFrame /\ cs[j].pos # 0 /\ Waiting(zone, cs[j])
    BY <1>1, <1>2
  <1>6. CASE cs = <<>>
    <2>1. spfResult' = SPFHanded(back) /\ frames' = <<>> /\ back' = "unset"
      BY <1>2, <1>6 DEF ReturnSPF
    <2>a. spfResult' \in Results /\ (back = "permerror" => spfResult' = "temperror")
      BY <2>1, <1>0 DEF SPFHanded, Results
    <2>2. frames' \in Seq(SPFFrame) /\ Len(frames') = 0
      BY <2>1
    <2>3. PolicyTypeOK'
      BY <2>1, <2>a, <2>2, <1>0 DEF PolInv, PolicyTypeOK, SPFFrame
    <2>4. ZoneOK'
      BY <1>0 DEF PolInv, ZoneOK
    <2>5. StackPaid' /\ LimitHolds'
      BY <2>1, <2>a, <2>2, <1>0, <1>1 DEF StackPaid, LimitHolds
    <2> QED
      BY <2>1, <2>2, <2>3, <2>4, <2>5 DEF PolInv
  <1>7. CASE cs # <<>>
    <2>1. PICK c \in SPFFrame : c = cs[Len(cs)] /\ Waiting(zone, c)
      BY <1>3, <1>4, <1>7
    <2>2. /\ back' = CASE back = "permerror" -> "permerror"
                       [] back = "pass" -> zone[c.domain].terms[c.pos].q
                       [] OTHER -> "unset"
          /\ frames' = IF back' # "unset" THEN cs ELSE Advanced(cs)
          /\ UNCHANGED spfResult
      BY <2>1, <1>2, <1>7 DEF ReturnSPF
    <2>3. zone[c.domain].terms[c.pos].q \in Results
      BY <2>1 DEF PolInv, ZoneOK, TermOK, Waiting, SPFFrame
    <2>4. back' \in Results \cup {"unset"}
      BY <2>2, <2>3 DEF Results
    <2>5. /\ frames' \in Seq(SPFFrame) /\ Len(frames') = Len(cs)
          /\ \A j \in 1..(Len(cs) - 1) : frames'[j] = cs[j]
          /\ frames'[Len(cs)].pos # 0
      <3>1. CASE back' # "unset"
        BY <3>1, <2>2, <1>3, <1>4, <1>7
      <3>2. CASE back' = "unset"
        <4>1. frames' = Advanced(cs)
          BY <3>2, <2>2
        <4> QED
          BY <4>1, <1>3, <1>7, FrameAdvanced
      <3> QED
        BY <3>1, <3>2
    <2>6. Len(frames') <= lookups' + 1 /\ Len(frames') <= SPFLimit + 1 /\ Len(frames') \in Nat \ {0}
      BY <2>5, <1>0, <1>1, <1>2, <1>3, <1>7
    <2>7. \A j \in 1..Len(frames') : frames'[j].pos # 0
      BY <2>5, <1>3, <1>4
    <2>8. \A j \in 1..(Len(frames') - 1) : Waiting(zone, frames'[j])
      BY <2>5, <1>3, <1>4
    <2>9. lookups' \in 0..(SPFLimit + 1) /\ (lookups' > SPFLimit => back' = "permerror")
      BY <2>2, <1>0, <1>1
    <2> QED
      BY <2>2, <2>4, <2>5, <2>6, <2>7, <2>8, <2>9, <1>0, <1>1, StackKept, ZenonT(40)
  <1> QED
    BY <1>6, <1>7

(* The verdict of DMARC changes nothing of the evaluation.                 *)
LEMMA DmarcKeeps ==
    ASSUME PolInv, NEW record \in {"none", "permerror"} \cup Policies,
           NEW sigs \in [1..2 -> Signature], CheckDMARC(record, sigs)
    PROVE  PolInv'
  <1>1. UNCHANGED <<zone, frames, lookups, back, spfResult>>
    BY DEF CheckDMARC
  <1>2. dmarcResult' \in {"unset", "none", "permerror", "pass"} \cup Policies
    BY DEF CheckDMARC
  <1>3. signatures' \in [aligned: BOOLEAN, stray: BOOLEAN]
    BY DEF CheckDMARC
  <1>4. PolicyTypeOK'
    BY <1>1, <1>2, <1>3 DEF PolInv, PolicyTypeOK
  <1>5. ZoneOK' /\ StackPaid' /\ LimitHolds'
    BY <1>1 DEF PolInv, ZoneOK, StackPaid, LimitHolds
  <1> QED
    BY <1>1, <1>4, <1>5 DEF PolInv

LEMMA PolStep == ASSUME PolInv, [PolicyNext]_policyVars PROVE PolInv'
  <1>1. CASE UNCHANGED policyVars
    <2>1. UNCHANGED <<zone, frames, lookups, back, spfResult, dmarcResult, signatures>>
      BY <1>1 DEF policyVars
    <2>2. PolicyTypeOK' /\ ZoneOK' /\ StackPaid' /\ LimitHolds'
      BY <2>1 DEF PolInv, PolicyTypeOK, ZoneOK, StackPaid, LimitHolds
    <2> QED
      BY <2>1, <2>2 DEF PolInv
  <1>2. ASSUME NEW record \in {"none", "permerror"} \cup Policies,
               NEW sigs \in [1..2 -> Signature], CheckDMARC(record, sigs)
        PROVE  PolInv'
    BY <1>2, DmarcKeeps
  <1> QED
    BY <1>1, <1>2, EvaluationKeeps, ReturnKeeps DEF PolicyNext

LEMMA PolicyPart == ASSUME [StoresNext]_storesVars PROVE [PolicyNext]_policyVars
  BY DEF StoresNext, Only, storesVars

(* The part of VerdictsSound that needs no induction over the records      *)
(* (internal/smtp/auth_checks.go), for records of any number of terms,     *)
(* any number of domains and any limit: the calls of checkSPFWithCounter   *)
(* never nest deeper than the limit of lookups allows, circles of includes *)
(* and redirects included, and a limit that is passed, in whichever record *)
(* it is, ends the whole evaluation in an error: no include takes it for a *)
(* record that does not match.                                             *)
THEOREM PolicyBounded == StoresSpec => [](PolicyTypeOK /\ LimitHolds)
  <1>1. StoresInit => PolInv
    BY PolStart DEF StoresInit
  <1>2. PolInv /\ [StoresNext]_storesVars => PolInv'
    BY PolicyPart, PolStep
  <1>3. PolInv => PolicyTypeOK /\ LimitHolds
    BY DEF PolInv
  <1> QED
    BY <1>1, <1>2, <1>3, PTL DEF StoresSpec

=============================================================================
