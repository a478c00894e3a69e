-------------------------- MODULE FakeIDSlotsProofs --------------------------
(* Proofs about FakeIDSlots, for any set of primaries, tokens and handlers *)
(* and any number of faults, crashes and key losses.                       *)
EXTENDS FakeIDSlots, FiniteSetTheorems, TLAPS

(* The request of an idle handler has the type of requests.                *)
LEMMA NoRequestType ==
  NoRequest \in [op : {"none"}, p : Primaries, tok : Tokens, tag : TagType]
BY SlotsAssumption DEF NoRequest, Tag, TagType

(* Sets of keys are finite.                                                *)
LEMMA KeysFinite ==
  ASSUME NEW S \in SUBSET Keys
  PROVE  IsFiniteSet(S)
<1>1. IsFiniteSet({}) BY FS_EmptySet
<1>2. IsFiniteSet({} \cup {"tag"}) BY <1>1, FS_AddElement
<1>3. IsFiniteSet(({} \cup {"tag"}) \cup {"att"}) BY <1>2, FS_AddElement
<1>4. IsFiniteSet((({} \cup {"tag"}) \cup {"att"}) \cup {"mint"}) BY <1>3, FS_AddElement
<1>5. (({} \cup {"tag"}) \cup {"att"}) \cup {"mint"} = Keys BY DEF Keys
<1> QED BY <1>4, <1>5, FS_Subset

(* Cardinalities of sets of keys are naturals.                             *)
LEMMA KeyCount ==
  ASSUME NEW S \in SUBSET Keys
  PROVE  Cardinality(S) \in Nat
BY KeysFinite, FS_CardinalityType

(* Boot with no key lost uses the sealed keys that exist.                  *)
LEMMA NoLoss ==
  ASSUME NEW S \in SUBSET Keys, Cardinality(S) = 0
  PROVE  S = {}
BY KeysFinite, FS_EmptySet

-----------------------------------------------------------------------------
(* Every step keeps every variable in its type and every handler at the    *)
(* control points of its operation.                                        *)
LEMMA TypeStep ==
  ASSUME TypeOK, [Next]_vars
  PROVE  TypeOK'
<1>0. NoRequest \in [op : {"none"}, p : Primaries, tok : Tokens, tag : TagType] BY NoRequestType
<1> USE <1>0 DEF Keys
<1>1. CASE Boot
  <2>1. PICK unread \in SUBSET Keys, unsaved \in SUBSET Keys :
          /\ losses + Cardinality(unread) + Cardinality(unsaved) <= MaxKeyLoss
          /\ losses' = losses + Cardinality(unread) + Cardinality(unsaved)
          /\ LoadOrSealBytes(unread, unsaved)
    BY <1>1 DEF Boot
  <2>2. Cardinality(unread) \in Nat /\ Cardinality(unsaved) \in Nat BY KeyCount
  <2>3. losses' \in 0..MaxKeyLoss BY <2>1, <2>2, SlotsAssumption DEF TypeOK
  <2>4. key' \in [Keys -> Nat] /\ disk' \in [Keys -> Nat] BY <2>1 DEF TypeOK, LoadOrSealBytes
  <2> QED BY <1>1, <2>3, <2>4 DEF TypeOK, Boot, dbVars, clientVars, obsVars
<1>2. CASE Crash
  <2>1. /\ pc' \in [Handlers -> {"idle", "sign", "legacy", "spend", "consume"}]
        /\ req' \in [Handlers -> [op : {"none"}, p : Primaries, tok : Tokens, tag : TagType]]
        /\ \A h \in Handlers : pc'[h] = "idle" /\ req'[h].op = "none"
    BY <1>2 DEF Crash
  <2>2. crashes' \in 0..MaxCrashes BY <1>2, SlotsAssumption DEF TypeOK, Crash
  <2> QED BY <1>2, <2>1, <2>2 DEF TypeOK, Crash, AtOwnPoint, keyVars, dbVars, clientVars, obsVars
<1>3. CASE \E p \in Primaries : Cooldown(p) \/ SeedConsumed(p)
  <2>1. PICK p \in Primaries : Cooldown(p) \/ SeedConsumed(p) BY <1>3
  <2>2. CASE Cooldown(p)
    BY <2>2 DEF TypeOK, Cooldown, keyVars, clientVars, boundVars, obsVars
  <2>3. CASE SeedConsumed(p)
    BY <2>3 DEF TypeOK, SeedConsumed, DerivePrimaryTag, Tag, TagType, keyVars, clientVars, boundVars
  <2> QED BY <2>1, <2>2, <2>3
<1>4. ASSUME NEW h \in Handlers, NEW p \in Primaries, NEW tok \in Tokens, MintCheck(h, p, tok)
      PROVE TypeOK'
  BY <1>4 DEF TypeOK, MintCheck, Accept, AtOwnPoint, DerivePrimaryTag, Tag, TagType,
              keyVars, dbVars, clientVars, boundVars, obsVars
<1>5. ASSUME NEW h \in Handlers, NEW p \in Primaries, NEW tok \in Tokens, LegacyMark(h, p, tok)
      PROVE TypeOK'
  <2>1. flag' \in [Primaries -> {"free", "recent"}] BY <1>5 DEF TypeOK, LegacyMark
  <2>2. [op |-> "legacy", p |-> p, tok |-> tok, tag |-> NoRequest.tag]
          \in [op : {"legacy"}, p : Primaries, tok : Tokens, tag : TagType]
    OBVIOUS
  <2> QED
    BY <1>5, <2>1, <2>2 DEF TypeOK, LegacyMark, Accept, AtOwnPoint, keyVars, clientVars, boundVars, obsVars
<1>6. ASSUME NEW h \in Handlers, NEW c \in creds, NEW t \in tags, Verify(h, c, t)
      PROVE TypeOK'
  <2>1. c \in [tok : Tokens, k : Nat] /\ t \in [tag : TagType, k : Nat] BY DEF TypeOK
  <2> QED BY <1>6, <2>1 DEF TypeOK, TagType, Verify, Accept, AtOwnPoint, keyVars, dbVars, clientVars, boundVars, obsVars
<1>7. ASSUME NEW h \in Handlers, NEW c \in creds, Redeem(h, c)
      PROVE TypeOK'
  <2>1. c \in [tok : Tokens, k : Nat] BY DEF TypeOK
  <2> QED BY <1>7, <2>1 DEF TypeOK, Redeem, Accept, AtOwnPoint, keyVars, dbVars, clientVars, boundVars, obsVars
<1>8. ASSUME NEW h \in Handlers, MintSign(h)
      PROVE TypeOK'
  <2>1. faults' \in 0..MaxFaults BY <1>8, SlotsAssumption DEF TypeOK, MintSign, Fault
  <2>2. creds' \subseteq [tok : Tokens, k : Nat] /\ tags' \subseteq [tag : TagType, k : Nat]
    BY <1>8 DEF TypeOK, MintSign
  <2> QED BY <1>8, <2>1, <2>2 DEF TypeOK, MintSign, Reply, AtOwnPoint, keyVars, dbVars, obsVars
<1>9. ASSUME NEW h \in Handlers, LegacySign(h)
      PROVE TypeOK'
  <2>1. faults' \in 0..MaxFaults BY <1>9, SlotsAssumption DEF TypeOK, LegacySign, Fault
  <2>2. creds' \subseteq [tok : Tokens, k : Nat]
    BY <1>9 DEF TypeOK, LegacySign
  <2> QED BY <1>9, <2>1, <2>2 DEF TypeOK, LegacySign, Reply, AtOwnPoint, keyVars, dbVars, obsVars
<1>10. ASSUME NEW h \in Handlers, Spend(h)
       PROVE TypeOK'
  <2>1. faults' \in 0..MaxFaults BY <1>10, SlotsAssumption DEF TypeOK, Spend, SpendFails, Fault
  <2>2. spent' \subseteq Tokens /\ uses' \in [Tokens -> Nat]
    <3>1. req[h].tok \in Tokens /\ spent \subseteq Tokens /\ uses \in [Tokens -> Nat]
      BY DEF TypeOK
    <3>2. spent' \in {spent, spent \cup {req[h].tok}}
      BY <1>10 DEF Spend
    <3>3. uses' \in {uses, [uses EXCEPT ![req[h].tok] = @ + 1]}
      BY <1>10 DEF Spend
    <3> QED BY <3>1, <3>2, <3>3
  <2>3. Reply(h) \/ (Goto(h, "consume") /\ req[h].op = "verify")
    BY <1>10 DEF Spend, SpendFails
  <2>4. /\ pc' \in [Handlers -> {"idle", "sign", "legacy", "spend", "consume"}]
        /\ req' \in [Handlers -> [op : {"none", "mint", "legacy", "verify", "redeem"},
                                  p : Primaries, tok : Tokens, tag : TagType]]
        /\ \A g \in Handlers : AtOwnPoint(pc'[g], req'[g].op)
    <3>1. CASE Reply(h) BY <3>1 DEF TypeOK, Reply, AtOwnPoint
    <3>2. CASE Goto(h, "consume") /\ req[h].op = "verify" BY <3>2 DEF TypeOK, Goto, AtOwnPoint
    <3> QED BY <2>3, <3>1, <3>2
  <2> QED BY <1>10, <2>1, <2>2, <2>4 DEF TypeOK, Spend, keyVars, clientVars
<1>11. ASSUME NEW h \in Handlers, Consume(h)
       PROVE TypeOK'
  <2>1. faults' \in 0..MaxFaults BY <1>11, SlotsAssumption DEF TypeOK, Consume, Fault
  <2>2. /\ consumed' \subseteq TagType /\ registered' \subseteq Tokens \X TagType
        /\ uses' \in [Tokens -> Nat]
    BY <1>11 DEF TypeOK, Consume
  <2> QED BY <1>11, <2>1, <2>2 DEF TypeOK, Consume, Reply, AtOwnPoint, keyVars, clientVars
<1>12. CASE UNCHANGED vars
  BY <1>12 DEF TypeOK, vars, keyVars, dbVars, clientVars, boundVars, obsVars
<1> QED
  BY <1>1, <1>2, <1>3, <1>4, <1>5, <1>6, <1>7, <1>8, <1>9, <1>10, <1>11, <1>12 DEF Next

(* The initial state is of the right type.                                 *)
LEMMA TypeInit ==
  ASSUME Init
  PROVE  TypeOK
<1>1. NoRequest \in [op : {"none"}, p : Primaries, tok : Tokens, tag : TagType] BY NoRequestType
<1>2. /\ pc \in [Handlers -> {"idle", "sign", "legacy", "spend", "consume"}]
      /\ req \in [Handlers -> [op : {"none"}, p : Primaries, tok : Tokens, tag : TagType]]
      /\ \A h \in Handlers : pc[h] = "idle" /\ req[h].op = "none"
  BY <1>1 DEF Init
<1>3. faults \in 0..MaxFaults /\ crashes \in 0..MaxCrashes /\ losses \in 0..MaxKeyLoss
  BY SlotsAssumption DEF Init
<1>4. /\ key \in [Keys -> Nat] /\ disk \in [Keys -> Nat] /\ gen \in Nat
      /\ flag \in [Primaries -> {"free", "recent"}] /\ uses \in [Tokens -> Nat]
  BY DEF Init
<1> QED BY <1>2, <1>3, <1>4 DEF Init, TypeOK, AtOwnPoint

(* Type correctness of the Fake ID handlers.                               *)
THEOREM TypeCorrect == Spec => []TypeOK
<1>1. Init => TypeOK BY TypeInit
<1>2. TypeOK /\ [Next]_vars => TypeOK' BY TypeStep
<1> QED BY <1>1, <1>2, PTL DEF Spec

-----------------------------------------------------------------------------
(* Tokens.  A handler between the two inserts owns its token: the token is *)
(* spent, not yet accepted, and no other handler is there with it.         *)
Owned ==
    \A h \in Handlers : pc[h] = "consume" =>
        /\ req[h].tok \in spent /\ uses[req[h].tok] = 0
        /\ \A g \in Handlers : pc[g] = "consume" /\ req[g].tok = req[h].tok => g = h
UseInv ==
    /\ TokenUsedOnce
    /\ \A t \in Tokens : uses[t] > 0 => t \in spent
    /\ Owned

(* Slots.  A registration took the row of its tag.                         *)
RegInv ==
    /\ RegistrationRecorded
    /\ \A x \in registered : uses[x[1]] > 0
    /\ OneFakeIDPerTag

(* The handlers' steps preserve the ownership of tokens.                   *)
LEMMA UseStep ==
  ASSUME TypeOK, TypeOK', UseInv, [Next]_vars
  PROVE  UseInv'
<1>1. CASE Boot
  BY <1>1 DEF UseInv, Owned, TokenUsedOnce, Boot, dbVars, obsVars
<1>2. CASE Crash
  BY <1>2 DEF UseInv, Owned, TokenUsedOnce, Crash, dbVars, obsVars
<1>3. CASE \E p \in Primaries : Cooldown(p) \/ SeedConsumed(p)
  BY <1>3 DEF UseInv, Owned, TokenUsedOnce, Cooldown, SeedConsumed, obsVars
<1>4. ASSUME NEW h \in Handlers, NEW l \in {"sign", "legacy", "spend"}, NEW r, Accept(h, l, r),
             UNCHANGED <<spent, uses>>
      PROVE UseInv'
  BY <1>4 DEF UseInv, Owned, TokenUsedOnce, Accept, TypeOK
<1>5. ASSUME NEW h \in Handlers, Reply(h), UNCHANGED <<spent, uses>>
      PROVE UseInv'
  BY <1>5 DEF UseInv, Owned, TokenUsedOnce, Reply, TypeOK
<1>6. ASSUME NEW h \in Handlers,
             \/ \E p \in Primaries, tok \in Tokens : MintCheck(h, p, tok) \/ LegacyMark(h, p, tok)
             \/ \E c \in creds, t \in tags : Verify(h, c, t)
             \/ \E c \in creds : Redeem(h, c)
      PROVE UseInv'
  BY <1>4, <1>6 DEF MintCheck, LegacyMark, Verify, Redeem, dbVars, obsVars
<1>7. ASSUME NEW h \in Handlers, MintSign(h) \/ LegacySign(h)
      PROVE UseInv'
  BY <1>5, <1>7 DEF MintSign, LegacySign, dbVars, obsVars
<1>8. ASSUME NEW h \in Handlers, Spend(h)
      PROVE UseInv'
  <2>1. CASE ~TokenFree(req[h].tok) /\ Reply(h) /\ UNCHANGED <<spent, faults, uses>>
    BY <2>1, <1>5
  <2>2. CASE /\ TokenFree(req[h].tok) /\ spent' = spent \cup {req[h].tok}
             /\ Goto(h, "consume") /\ UNCHANGED uses
    <3>1. req[h].tok \in Tokens /\ req[h].tok \notin spent BY <2>2 DEF TokenFree, TypeOK
    <3>2. uses[req[h].tok] = 0 BY <3>1 DEF UseInv, TypeOK
    <3>3. \A g \in Handlers : pc[g] = "consume" => req[g].tok # req[h].tok
      BY <3>1 DEF UseInv, Owned
    <3>4. Owned' BY <2>2, <3>2, <3>3 DEF Owned, UseInv, Goto, TypeOK
    <3> QED BY <2>2, <3>4 DEF UseInv, TokenUsedOnce
  <2>3. CASE /\ TokenFree(req[h].tok) /\ spent' = spent \cup {req[h].tok}
             /\ Reply(h) /\ uses' = [uses EXCEPT ![req[h].tok] = @ + 1]
    <3>1. req[h].tok \in Tokens /\ req[h].tok \notin spent BY <2>3 DEF TokenFree, TypeOK
    <3>2. uses[req[h].tok] = 0 BY <3>1 DEF UseInv, TypeOK
    <3>3. \A g \in Handlers : pc[g] = "consume" => req[g].tok # req[h].tok
      BY <3>1 DEF UseInv, Owned
    <3>4. Owned' BY <2>3, <3>1, <3>3 DEF Owned, UseInv, Reply, TypeOK
    <3> QED BY <2>3, <3>1, <3>2, <3>4 DEF UseInv, TokenUsedOnce, TypeOK
  <2>4. CASE SpendFails(h) /\ spent' \in {spent, spent \cup {req[h].tok}} /\ UNCHANGED uses
    BY <2>4 DEF UseInv, Owned, TokenUsedOnce, SpendFails, Reply, TypeOK
  <2> QED BY <1>8, <2>1, <2>2, <2>3, <2>4 DEF Spend
<1>9. ASSUME NEW h \in Handlers, Consume(h)
      PROVE UseInv'
  <2>1. CASE UNCHANGED uses
    BY <2>1, <1>5, <1>9 DEF Consume
  <2>2. CASE uses' = [uses EXCEPT ![req[h].tok] = @ + 1]
    <3>1. /\ req[h].tok \in Tokens /\ req[h].tok \in spent /\ uses[req[h].tok] = 0
          /\ \A g \in Handlers : g # h /\ pc[g] = "consume" => req[g].tok # req[h].tok
      BY <1>9 DEF Consume, At, UseInv, Owned, TypeOK
    <3>2. UNCHANGED spent /\ Reply(h) BY <1>9 DEF Consume
    <3>3. Owned' BY <2>2, <3>1, <3>2 DEF UseInv, Owned, Reply, TypeOK
    <3> QED BY <2>2, <3>1, <3>2, <3>3 DEF UseInv, TokenUsedOnce, TypeOK
  <2> QED BY <1>9, <2>1, <2>2 DEF Consume
<1>10. CASE UNCHANGED vars
  BY <1>10 DEF UseInv, Owned, TokenUsedOnce, vars, dbVars, obsVars
<1> QED
  BY <1>1, <1>2, <1>3, <1>6, <1>7, <1>8, <1>9, <1>10 DEF Next

(* Registrations stay recorded and keep distinct tags.                     *)
LEMMA RegStep ==
  ASSUME TypeOK, TypeOK', UseInv, RegInv, [Next]_vars
  PROVE  RegInv'
<1> USE DEF RegInv, RegistrationRecorded, OneFakeIDPerTag
<1>1. CASE /\ UNCHANGED registered
           /\ spent \subseteq spent' /\ consumed \subseteq consumed'
           /\ \A t \in Tokens : uses[t] > 0 => uses'[t] > 0
  BY <1>1 DEF TypeOK
<1>2. ASSUME NEW h \in Handlers, Spend(h)
      PROVE RegInv'
  <2>1. \A t \in Tokens : uses[t] > 0 => uses'[t] > 0 BY <1>2 DEF Spend, TypeOK
  <2> QED BY <1>1, <1>2, <2>1 DEF Spend
<1>3. ASSUME NEW h \in Handlers, Consume(h)
      PROVE RegInv'
  <2>1. CASE UNCHANGED <<registered, uses>>
    BY <1>1, <1>3, <2>1 DEF Consume
  <2>2. CASE /\ SlotFree(req[h].tag)
             /\ consumed' = consumed \cup {req[h].tag}
             /\ registered' = registered \cup {<<req[h].tok, req[h].tag>>}
             /\ uses' = [uses EXCEPT ![req[h].tok] = @ + 1]
    <3>1. req[h].tok \in spent /\ UNCHANGED spent /\ req[h].tok \in Tokens
      BY <1>3 DEF Consume, At, UseInv, Owned, TypeOK
    <3>2. \A x \in registered : x[2] # req[h].tag BY <2>2 DEF SlotFree
    <3>3. \A t \in Tokens : uses'[t] >= uses[t] /\ uses'[req[h].tok] > 0
      BY <2>2, <3>1 DEF TypeOK
    <3>4. ASSUME NEW x \in registered'
          PROVE \/ x \in registered /\ x[2] # req[h].tag
                \/ x[1] = req[h].tok /\ x[2] = req[h].tag /\ x = <<req[h].tok, req[h].tag>>
      BY <2>2, <3>2, <3>4
    <3>5. \A x \in registered : x[1] \in Tokens BY DEF TypeOK
    <3>6. RegistrationRecorded' BY <2>2, <3>1, <3>4
    <3>7. OneFakeIDPerTag' BY <3>4
    <3>8. \A x \in registered' : uses'[x[1]] > 0
      BY <2>2, <3>1, <3>3, <3>4, <3>5 DEF TypeOK
    <3> QED BY <3>6, <3>7, <3>8
  <2> QED BY <1>3, <2>1, <2>2 DEF Consume
<1>4. CASE \/ Boot \/ Crash \/ UNCHANGED vars
           \/ \E p \in Primaries : Cooldown(p) \/ SeedConsumed(p)
  BY <1>1, <1>4 DEF Boot, Crash, vars, Cooldown, SeedConsumed, dbVars, obsVars
<1>5. ASSUME NEW h \in Handlers,
             \/ \E p \in Primaries, tok \in Tokens : MintCheck(h, p, tok) \/ LegacyMark(h, p, tok)
             \/ \E c \in creds, t \in tags : Verify(h, c, t)
             \/ \E c \in creds : Redeem(h, c)
             \/ MintSign(h) \/ LegacySign(h)
      PROVE RegInv'
  BY <1>1, <1>5 DEF MintCheck, LegacyMark, Verify, Redeem, MintSign, LegacySign, dbVars, obsVars
<1> QED BY <1>2, <1>3, <1>4, <1>5 DEF Next

-----------------------------------------------------------------------------
(* Keys.  While no key was lost, everything signed or derived so far was   *)
(* signed or derived under the keys in the sealed files.                   *)
Current(tag) == tag.k = disk["tag"] /\ disk["tag"] # 0
KeyInv ==
    losses = 0 =>
        /\ up => key = disk /\ \A k \in Keys : disk[k] # 0
        /\ \A c \in creds : c.k = disk["mint"] /\ disk["mint"] # 0
        /\ \A t \in tags : t.k = disk["att"] /\ disk["att"] # 0 /\ Current(t.tag)
        /\ \A h \in Handlers : pc[h] = "sign" \/ pc[h] = "consume"
                               \/ (pc[h] = "spend" /\ req[h].op = "verify") => Current(req[h].tag)

(* Losses are counted and never forgotten.                                 *)
LEMMA LossesGrow ==
  ASSUME TypeOK, [Next]_vars, losses' = 0
  PROVE  losses = 0
<1>1. CASE Boot
  <2>1. PICK unread \in SUBSET Keys, unsaved \in SUBSET Keys :
          losses' = losses + Cardinality(unread) + Cardinality(unsaved)
    BY <1>1 DEF Boot
  <2>2. Cardinality(unread) \in Nat /\ Cardinality(unsaved) \in Nat BY KeyCount
  <2> QED BY <2>1, <2>2 DEF TypeOK
<1>2. CASE ~Boot
  BY <1>2 DEF Next, Crash, Cooldown, SeedConsumed, MintCheck, LegacyMark, Verify, Redeem,
              MintSign, LegacySign, Spend, Consume, vars, boundVars
<1> QED BY <1>1, <1>2

(* Restarts and handlers keep to the sealed keys while none is lost.       *)
LEMMA KeyStep ==
  ASSUME TypeOK, TypeOK', KeyInv, [Next]_vars
  PROVE  KeyInv'
<1> USE DEF Keys
<1>0. losses' = 0 => losses = 0 BY LossesGrow
<1>1. SUFFICES ASSUME losses' = 0, losses = 0
               PROVE  KeyInv'
  BY <1>0 DEF KeyInv
<1>2. CASE Boot
  <2>1. PICK unread \in SUBSET Keys, unsaved \in SUBSET Keys :
          /\ losses' = losses + Cardinality(unread) + Cardinality(unsaved)
          /\ LoadOrSealBytes(unread, unsaved)
    BY <1>2 DEF Boot
  <2>2. Cardinality(unread) = 0 /\ Cardinality(unsaved) = 0 BY <1>1, <2>1, KeyCount
  <2>3. unread = {} /\ unsaved = {} BY <2>2, NoLoss
  <2>4. /\ key' = disk' /\ \A k \in Keys : disk'[k] # 0
        /\ \A k \in Keys : disk[k] # 0 => disk'[k] = disk[k]
    BY <2>1, <2>3 DEF LoadOrSealBytes, TypeOK
  <2> QED BY <1>1, <1>2, <2>4 DEF KeyInv, Current, Boot, clientVars
<1>3. CASE Crash
  BY <1>1, <1>3 DEF KeyInv, Current, Crash, keyVars, clientVars
<1>4. CASE UNCHANGED vars \/ \E p \in Primaries : Cooldown(p) \/ SeedConsumed(p)
  BY <1>1, <1>4 DEF KeyInv, Current, Cooldown, SeedConsumed, vars, keyVars, clientVars
<1>5. ASSUME NEW h \in Handlers, NEW p \in Primaries, NEW tok \in Tokens, MintCheck(h, p, tok)
      PROVE KeyInv'
  BY <1>1, <1>5 DEF KeyInv, Current, MintCheck, Accept, DerivePrimaryTag, Tag, TypeOK, keyVars, clientVars
<1>6. ASSUME NEW h \in Handlers, NEW p \in Primaries, NEW tok \in Tokens, LegacyMark(h, p, tok)
      PROVE KeyInv'
  BY <1>1, <1>6 DEF KeyInv, Current, LegacyMark, Accept, TypeOK, keyVars, clientVars
<1>7. ASSUME NEW h \in Handlers, NEW c \in creds, NEW t \in tags, Verify(h, c, t)
      PROVE KeyInv'
  BY <1>1, <1>7 DEF KeyInv, Current, Verify, Accept, TypeOK, keyVars, clientVars
<1>8. ASSUME NEW h \in Handlers, NEW c \in creds, Redeem(h, c)
      PROVE KeyInv'
  BY <1>1, <1>8 DEF KeyInv, Current, Redeem, Accept, TypeOK, keyVars, clientVars
<1>9. ASSUME NEW h \in Handlers, MintSign(h)
      PROVE KeyInv'
  BY <1>1, <1>9 DEF KeyInv, Current, MintSign, At, Reply, TypeOK, keyVars
<1>10. ASSUME NEW h \in Handlers, LegacySign(h)
       PROVE KeyInv'
  BY <1>1, <1>10 DEF KeyInv, Current, LegacySign, At, Reply, TypeOK, keyVars
<1>11. ASSUME NEW h \in Handlers, Spend(h)
       PROVE KeyInv'
  BY <1>1, <1>11 DEF KeyInv, Current, Spend, SpendFails, At, Reply, Goto, TypeOK, keyVars, clientVars
<1>12. ASSUME NEW h \in Handlers, Consume(h)
       PROVE KeyInv'
  BY <1>1, <1>12 DEF KeyInv, Current, Consume, At, Reply, TypeOK, keyVars, clientVars
<1> QED BY <1>2, <1>3, <1>4, <1>5, <1>6, <1>7, <1>8, <1>9, <1>10, <1>11, <1>12 DEF Next

-----------------------------------------------------------------------------
(* Primaries.  While no key was lost, every registration and every         *)
(* backfilled primary has its row under the one tag key there is.          *)
SlotInv ==
    losses = 0 =>
        /\ \A x \in registered : Current(x[2]) /\ x[2].p \notin seeded
        /\ \A p \in seeded : disk["tag"] # 0 /\ Tag(disk["tag"], p) \in consumed

(* Registrations and backfills never meet on one primary.                  *)
LEMMA SlotStep ==
  ASSUME TypeOK, TypeOK', RegInv, KeyInv, SlotInv, [Next]_vars
  PROVE  SlotInv'
<1> USE DEF Keys
<1>0. losses' = 0 => losses = 0 BY LossesGrow
<1>1. SUFFICES ASSUME losses' = 0, losses = 0
               PROVE  SlotInv'
  BY <1>0 DEF SlotInv
<1>2. CASE Boot
  <2>1. PICK unread \in SUBSET Keys, unsaved \in SUBSET Keys :
          /\ losses' = losses + Cardinality(unread) + Cardinality(unsaved)
          /\ LoadOrSealBytes(unread, unsaved)
    BY <1>2 DEF Boot
  <2>2. unread = {} /\ unsaved = {} BY <1>1, <2>1, KeyCount, NoLoss
  <2>3. disk["tag"] # 0 => disk'["tag"] = disk["tag"]
    BY <2>1, <2>2 DEF LoadOrSealBytes, TypeOK
  <2> QED BY <1>1, <1>2, <2>3 DEF SlotInv, Current, Boot, dbVars, obsVars
<1>3. ASSUME NEW p \in Primaries, SeedConsumed(p)
      PROVE SlotInv'
  <2>1. key["tag"] = disk["tag"] /\ disk["tag"] # 0 BY <1>1, <1>3 DEF SeedConsumed, KeyInv
  <2>2. CASE DerivePrimaryTag(p) \in consumed
    BY <1>1, <1>3, <2>2 DEF SeedConsumed, SlotInv, Current, keyVars
  <2>3. CASE DerivePrimaryTag(p) \notin consumed
    <3>1. \A x \in registered : x[2].p # p
      <4>1. SUFFICES ASSUME NEW x \in registered, x[2].p = p PROVE FALSE OBVIOUS
      <4>2. x[2] \in TagType /\ x[2].k = key["tag"] BY <1>1, <2>1 DEF SlotInv, Current, TypeOK
      <4>3. x[2] = DerivePrimaryTag(p) BY <4>1, <4>2 DEF TagType, DerivePrimaryTag, Tag
      <4>4. x[2] \in consumed BY DEF RegInv, RegistrationRecorded
      <4> QED BY <2>3, <4>3, <4>4
    <3>2. seeded' = seeded \cup {p} /\ consumed' = consumed \cup {Tag(disk["tag"], p)}
      BY <1>3, <2>1, <2>3 DEF SeedConsumed, DerivePrimaryTag
    <3> QED BY <1>1, <1>3, <2>1, <3>1, <3>2 DEF SeedConsumed, SlotInv, Current, keyVars
  <2> QED BY <2>2, <2>3
<1>4. ASSUME NEW h \in Handlers, Consume(h)
      PROVE SlotInv'
  <2>1. UNCHANGED <<disk, seeded>> /\ consumed \subseteq consumed' BY <1>4 DEF Consume, keyVars
  <2>2. CASE UNCHANGED registered
    BY <1>1, <2>1, <2>2 DEF SlotInv, Current
  <2>3. CASE SlotFree(req[h].tag) /\ registered' = registered \cup {<<req[h].tok, req[h].tag>>}
    <3>1. Current(req[h].tag) BY <1>1, <1>4 DEF Consume, At, KeyInv
    <3>2. req[h].tag \in TagType BY DEF TypeOK
    <3>3. req[h].tag = Tag(disk["tag"], req[h].tag.p) BY <3>1, <3>2 DEF Current, TagType, Tag
    <3>4. req[h].tag.p \notin seeded BY <1>1, <2>3, <3>3 DEF SlotFree, SlotInv
    <3> QED BY <1>1, <2>1, <2>3, <3>1, <3>4 DEF SlotInv, Current
  <2> QED BY <1>4, <2>2, <2>3 DEF Consume
<1>5. CASE Crash \/ UNCHANGED vars \/ \E p \in Primaries : Cooldown(p)
  BY <1>1, <1>5 DEF SlotInv, Current, Crash, Cooldown, vars, keyVars, dbVars, obsVars
<1>6. ASSUME NEW h \in Handlers,
             \/ \E p \in Primaries, tok \in Tokens : MintCheck(h, p, tok) \/ LegacyMark(h, p, tok)
             \/ \E c \in creds, t \in tags : Verify(h, c, t)
             \/ \E c \in creds : Redeem(h, c)
             \/ MintSign(h) \/ LegacySign(h) \/ Spend(h)
      PROVE SlotInv'
  BY <1>1, <1>6 DEF SlotInv, Current, MintCheck, LegacyMark, Verify, Redeem, MintSign, LegacySign,
                    Spend, keyVars, dbVars, obsVars
<1> QED BY <1>2, <1>3, <1>4, <1>5, <1>6 DEF Next

-----------------------------------------------------------------------------
(* The price of slots.  The slots taken by a verify are paid for by tokens *)
(* that are spent and that no handler still brings to its second insert.   *)
Claimed == {x \in consumed : x.p \notin seeded}

Paid(B) ==
    /\ B \subseteq spent /\ IsFiniteSet(B) /\ IsFiniteSet(Claimed)
    /\ Cardinality(Claimed) <= Cardinality(B)
    /\ \A h \in Handlers : pc[h] = "consume" => req[h].tok \notin B

PaidInv == IsFiniteSet(spent) /\ \E B : Paid(B)

(* A step that takes no slot, and lets no handler bring a token to its     *)
(* second insert that was spent before.                                    *)
LEMMA PaidKept ==
  ASSUME PaidInv, Claimed' \subseteq Claimed, spent \subseteq spent', IsFiniteSet(spent'),
         \A h \in Handlers : pc'[h] = "consume" =>
             \/ pc[h] = "consume" /\ req'[h].tok = req[h].tok
             \/ req'[h].tok \notin spent
  PROVE  PaidInv'
<1>1. PICK B : Paid(B) BY DEF PaidInv
<1>2. /\ IsFiniteSet(Claimed') /\ Cardinality(Claimed') <= Cardinality(Claimed)
      /\ Cardinality(Claimed') \in Nat /\ Cardinality(Claimed) \in Nat /\ Cardinality(B) \in Nat
  BY <1>1, FS_Subset, FS_CardinalityType DEF Paid
<1>3. Paid(B)'
  <2>1. Cardinality(Claimed') <= Cardinality(B) BY <1>1, <1>2 DEF Paid
  <2>2. \A h \in Handlers : pc'[h] = "consume" => req'[h].tok \notin B BY <1>1 DEF Paid
  <2>3. B \subseteq spent' /\ IsFiniteSet(B) BY <1>1 DEF Paid
  <2> QED BY <1>2, <2>1, <2>2, <2>3 DEF Paid
<1> QED BY <1>3 DEF PaidInv

(* A slot is taken by the handler that owns the token paid for it.         *)
LEMMA SlotPaid ==
  ASSUME TypeOK, UseInv, PaidInv, NEW h \in Handlers, pc[h] = "consume", Reply(h), UNCHANGED <<spent, seeded>>,
         consumed' \subseteq consumed \cup {req[h].tag}
  PROVE  PaidInv'
<1>1. PICK B : Paid(B) BY DEF PaidInv
<1>t. PICK tok : tok = req[h].tok OBVIOUS
<1> DEFINE more == Claimed \cup {req[h].tag}
<1>2. tok \in spent /\ tok \notin B /\ \A g \in Handlers \ {h} : pc[g] = "consume" => req[g].tok # tok
  BY <1>1, <1>t DEF UseInv, Owned, Paid
<1>3. Claimed' \subseteq more BY DEF Claimed
<1>4. IsFiniteSet(more) /\ Cardinality(more) <= Cardinality(Claimed) + 1 /\ Cardinality(Claimed) \in Nat
      /\ Cardinality(more) \in Nat
  <2>1. IsFiniteSet(Claimed) BY <1>1 DEF Paid
  <2>2. IsFiniteSet(more) /\ Cardinality(Claimed) \in Nat /\ Cardinality(more) \in Nat
    BY <2>1, FS_AddElement, FS_CardinalityType
  <2>3. req[h].tag \in Claimed => more = Claimed OBVIOUS
  <2>4. req[h].tag \notin Claimed => Cardinality(more) = Cardinality(Claimed) + 1 BY <2>1, FS_AddElement
  <2> HIDE DEF more
  <2> QED BY <2>2, <2>3, <2>4
<1>5. IsFiniteSet(Claimed') /\ Cardinality(Claimed') <= Cardinality(more) /\ Cardinality(Claimed') \in Nat
  <2> HIDE DEF more
  <2> QED BY <1>3, <1>4, FS_Subset, FS_CardinalityType
<1>6. /\ IsFiniteSet(B \cup {tok}) /\ Cardinality(B \cup {tok}) = Cardinality(B) + 1
      /\ Cardinality(B) \in Nat /\ Cardinality(Claimed) <= Cardinality(B)
  BY <1>1, <1>2, FS_AddElement, FS_CardinalityType DEF Paid
<1>7. Cardinality(Claimed') <= Cardinality(B \cup {tok})
  <2> HIDE DEF more
  <2> QED BY <1>4, <1>5, <1>6
<1>8. \A g \in Handlers : pc'[g] = "consume" => req'[g].tok \notin B \cup {tok}
  <2>1. pc'[h] = "idle" /\ \A g \in Handlers \ {h} : pc'[g] = pc[g] /\ req'[g] = req[g] BY DEF Reply, TypeOK
  <2> QED BY <1>1, <1>2, <2>1 DEF Paid
<1>9. Paid(B \cup {tok})'
  <2>1. B \cup {tok} \subseteq spent' BY <1>1, <1>2 DEF Paid
  <2> QED BY <2>1, <1>5, <1>6, <1>7, <1>8 DEF Paid
<1> QED BY <1>9 DEF PaidInv

(* Every step keeps the slots paid for.                                    *)
LEMMA PaidStep ==
  ASSUME TypeOK, UseInv, PaidInv, [Next]_vars
  PROVE  PaidInv'
<1>0. IsFiniteSet(spent) BY DEF PaidInv
<1>1. ASSUME UNCHANGED <<spent, consumed, seeded>>,
             \A h \in Handlers : pc'[h] = "consume" => pc[h] = "consume" /\ req'[h] = req[h]
      PROVE PaidInv'
  <2>1. Claimed' = Claimed BY <1>1 DEF Claimed
  <2> QED BY <1>0, <1>1, <2>1, PaidKept
<1>2. CASE Boot \/ UNCHANGED vars \/ \E p \in Primaries : Cooldown(p)
  <2>1. UNCHANGED <<spent, consumed, seeded, pc, req>> BY <1>2 DEF Boot, Cooldown, vars, dbVars, obsVars
  <2> QED BY <1>1, <2>1
<1>3. CASE Crash
  <2>1. UNCHANGED <<spent, consumed, seeded>> /\ \A h \in Handlers : pc'[h] = "idle"
    BY <1>3 DEF Crash, dbVars, obsVars
  <2> QED BY <1>1, <2>1
<1>4. ASSUME NEW p \in Primaries, SeedConsumed(p) PROVE PaidInv'
  <2>1. UNCHANGED <<spent, pc, req>> BY <1>4 DEF SeedConsumed
  <2>2. Claimed' \subseteq Claimed
    <3>1. CASE DerivePrimaryTag(p) \in consumed
      BY <1>4, <3>1 DEF SeedConsumed, Claimed
    <3>2. CASE DerivePrimaryTag(p) \notin consumed
      <4>1. DerivePrimaryTag(p).p = p BY DEF DerivePrimaryTag, Tag
      <4> QED BY <1>4, <3>2, <4>1 DEF SeedConsumed, Claimed
    <3> QED BY <3>1, <3>2
  <2> QED BY <1>0, <2>1, <2>2, PaidKept
<1>5. ASSUME NEW h \in Handlers, NEW l \in {"sign", "legacy", "spend"}, NEW r, Accept(h, l, r),
             UNCHANGED <<spent, consumed, seeded>>
      PROVE PaidInv'
  <2>1. \A g \in Handlers : pc'[g] = "consume" => pc[g] = "consume" /\ req'[g] = req[g]
    BY <1>5 DEF Accept, TypeOK
  <2> QED BY <1>1, <1>5, <2>1
<1>6. ASSUME NEW h \in Handlers,
             \/ \E p \in Primaries, tok \in Tokens : MintCheck(h, p, tok) \/ LegacyMark(h, p, tok)
             \/ \E c \in creds, t \in tags : Verify(h, c, t)
             \/ \E c \in creds : Redeem(h, c)
      PROVE PaidInv'
  BY <1>5, <1>6 DEF MintCheck, LegacyMark, Verify, Redeem, dbVars, obsVars
<1>7. ASSUME NEW h \in Handlers, MintSign(h) \/ LegacySign(h) PROVE PaidInv'
  <2>1. UNCHANGED <<spent, consumed, seeded>> /\ Reply(h)
    BY <1>7 DEF MintSign, LegacySign, dbVars, obsVars
  <2>2. \A g \in Handlers : pc'[g] = "consume" => pc[g] = "consume" /\ req'[g] = req[g]
    BY <2>1 DEF Reply, TypeOK
  <2> QED BY <1>1, <2>1, <2>2
<1>8. ASSUME NEW h \in Handlers, Spend(h) PROVE PaidInv'
  <2>1. UNCHANGED <<consumed, seeded>> /\ spent' \in {spent, spent \cup {req[h].tok}} BY <1>8 DEF Spend
  <2>2. Claimed' = Claimed BY <2>1 DEF Claimed
  <2>3. IsFiniteSet(spent') /\ spent \subseteq spent' BY <1>0, <2>1, FS_AddElement
  <2>4. Reply(h) \/ (Goto(h, "consume") /\ req[h].tok \notin spent)
    BY <1>8 DEF Spend, SpendFails, TokenFree
  <2>5. \A g \in Handlers : pc'[g] = "consume" =>
            \/ pc[g] = "consume" /\ req'[g].tok = req[g].tok
            \/ req'[g].tok \notin spent
    <3>1. CASE Reply(h) BY <3>1 DEF Reply, TypeOK
    <3>2. CASE Goto(h, "consume") /\ req[h].tok \notin spent BY <3>2 DEF Goto, TypeOK
    <3> QED BY <2>4, <3>1, <3>2
  <2> QED BY <2>2, <2>3, <2>5, PaidKept
<1>9. ASSUME NEW h \in Handlers, Consume(h) PROVE PaidInv'
  <2>1. /\ pc[h] = "consume" /\ Reply(h) /\ UNCHANGED <<spent, seeded>>
        /\ consumed' \subseteq consumed \cup {req[h].tag}
    BY <1>9 DEF Consume, At
  <2> QED BY <2>1, SlotPaid
<1> QED BY <1>2, <1>3, <1>4, <1>6, <1>7, <1>8, <1>9 DEF Next

-----------------------------------------------------------------------------
IInv == TypeOK /\ UseInv /\ RegInv /\ KeyInv /\ SlotInv /\ PaidInv

(* The inductive invariant of the Fake ID handlers.                        *)
THEOREM SlotsInvariant == Spec => []IInv
<1>1. Init => IInv
  <2> SUFFICES ASSUME Init PROVE IInv OBVIOUS
  <2>1. TypeOK BY TypeInit
  <2>2. UseInv BY DEF Init, UseInv, Owned, TokenUsedOnce
  <2>3. RegInv BY DEF Init, RegInv, RegistrationRecorded, OneFakeIDPerTag
  <2>4. KeyInv BY DEF Init, KeyInv
  <2>5. SlotInv BY DEF Init, SlotInv
  <2>6. PaidInv
    <3>1. spent = {} /\ Claimed = {} /\ \A h \in Handlers : pc[h] # "consume" BY DEF Init, Claimed
    <3>2. Paid({}) BY <3>1, FS_EmptySet DEF Paid
    <3> QED BY <3>1, <3>2, FS_EmptySet DEF PaidInv
  <2> QED BY <2>1, <2>2, <2>3, <2>4, <2>5, <2>6 DEF IInv
<1>2. IInv /\ [Next]_vars => IInv'
  BY TypeStep, UseStep, RegStep, KeyStep, SlotStep, PaidStep DEF IInv
<1> QED BY <1>1, <1>2, PTL DEF Spec

(* No token is accepted twice, by either endpoint, across failures and     *)
(* restarts.                                                               *)
THEOREM TokensAreUsedOnce == Spec => []TokenUsedOnce
<1>1. IInv => TokenUsedOnce BY DEF IInv, UseInv
<1> QED BY <1>1, SlotsInvariant, PTL

(* An accepted registration is in both tables.                             *)
THEOREM RegistrationsAreRecorded == Spec => []RegistrationRecorded
<1>1. IInv => RegistrationRecorded BY DEF IInv, RegInv
<1> QED BY <1>1, SlotsInvariant, PTL

(* A row of fakeid_consumed_slots admits one registration, also after the  *)
(* sealed keys were lost.                                                  *)
THEOREM SlotsAdmitOnce == Spec => []OneFakeIDPerTag
<1>1. IInv => OneFakeIDPerTag BY DEF IInv, RegInv
<1> QED BY <1>1, SlotsInvariant, PTL

(* A primary never gets a second Fake ID while its tag key lives, however  *)
(* many requests race.                                                     *)
THEOREM PrimariesGetOneFakeID == Spec => []OneFakeIDPerPrimary
<1>1. IInv => OneFakeIDPerPrimary
  <2>1. SUFFICES ASSUME IInv, losses = 0 PROVE OneFakeIDPerPrimary BY DEF OneFakeIDPerPrimary
  <2>2. ASSUME NEW x \in registered, NEW y \in registered, x[2].p = y[2].p PROVE x = y
    <3>1. x[2] \in TagType /\ y[2] \in TagType BY <2>1 DEF IInv, TypeOK
    <3>2. x[2].k = y[2].k BY <2>1 DEF IInv, SlotInv, Current
    <3>3. x[2] = y[2] BY <2>2, <3>1, <3>2 DEF TagType
    <3> QED BY <2>1, <3>3 DEF IInv, RegInv, OneFakeIDPerTag
  <2>3. \A x \in registered : x[2].p \notin seeded BY <2>1 DEF IInv, SlotInv
  <2> QED BY <2>2, <2>3 DEF OneFakeIDPerPrimary
<1> QED BY <1>1, SlotsInvariant, PTL

(* Credentials outlive restarts while the sealed keys do.                  *)
THEOREM CredentialsOutliveRestarts == Spec => []CredentialsSurviveRestart
<1>1. IInv => CredentialsSurviveRestart BY DEF IInv, KeyInv, Current, CredentialsSurviveRestart, Keys
<1> QED BY <1>1, SlotsInvariant, PTL

(* Slots cost tokens (fakeid_consumed_slots, spent_tokens): whatever fails *)
(* or crashes between the two inserts, the slots that no backfill put      *)
(* there are no more than the tokens spent.                                *)
THEOREM SlotsArePaidFor == Spec => []SlotsCostTokens
<1>1. IInv => SlotsCostTokens
  <2> SUFFICES ASSUME IInv PROVE Cardinality(Claimed) <= Cardinality(spent)
    BY DEF SlotsCostTokens, Claimed
  <2>1. PICK B : Paid(B) BY DEF IInv, PaidInv
  <2>2. IsFiniteSet(spent) BY DEF IInv, PaidInv
  <2>3. /\ Cardinality(Claimed) <= Cardinality(B) /\ Cardinality(B) <= Cardinality(spent)
        /\ Cardinality(Claimed) \in Nat /\ Cardinality(B) \in Nat /\ Cardinality(spent) \in Nat
    BY <2>1, <2>2, FS_Subset, FS_CardinalityType DEF Paid
  <2> QED BY <2>3
<1> QED BY <1>1, SlotsInvariant, PTL
=============================================================================
