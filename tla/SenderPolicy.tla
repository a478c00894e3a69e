---------------------------- MODULE SenderPolicy ----------------------------
(***************************************************************************)
(* The checks of a sender's identity (internal/smtp/auth_checks.go) as     *)
(* runSecurityChecks of pipeline.go, their only caller, makes them: the    *)
(* SPF evaluation with its limit of DNS lookups, shared by all included    *)
(* records, the choice among DKIM signatures and the DMARC verdict.  The   *)
(* identity is the domain of MAIL FROM throughout: the caller passes it    *)
(* for both domains CheckDMARC compares, and the From header is consulted  *)
(* nowhere.  The evaluation is a machine with the call stack of            *)
(* checkSPFWithCounter; DNS is an input.  A term is modelled by what it    *)
(* asks for, whether it matches the client address, and its qualifier.     *)
(***************************************************************************)
EXTENDS Naturals, Sequences, FiniteSetsExt

CONSTANTS
    MailDomain,    \* the domain of MAIL FROM
    OtherDomains,  \* domains its record may name
    SPFLimit,      \* limit of spfDNSCounter
    MaxTerms,      \* bound: terms of the record of MailDomain,
    MaxOtherTerms, \*   terms of every other record,
    MaxHosts       \*   and MX hosts of a domain

SPFDomains == OtherDomains \cup {MailDomain}

ASSUME PolicyAssumption ==
    MailDomain \notin OtherDomains /\ {SPFLimit, MaxTerms, MaxOtherTerms, MaxHosts} \subseteq Nat

\* "ip" stands for ip4 and ip6, "a" for a and exists, which cost one lookup each.
\* hosts: the MX hosts to resolve; hit: which of them, or 1 for a lone lookup, matches.
Term(k, q, to, hosts, hit) == [kind |-> k, q |-> q, to |-> to, hosts |-> hosts, hit |-> hit]
Terms ==
    {Term("all", "fail", MailDomain, 0, 1), Term("ptr", "pass", MailDomain, 0, 0)}
    \cup {Term(k, "pass", MailDomain, 0, hit) : k \in {"ip", "a"}, hit \in 0..1}
    \cup {Term("mx", "softfail", MailDomain, MaxHosts, hit) : hit \in 0..MaxHosts}
    \cup {Term("include", q, d, 0, 0) : q \in {"pass", "fail"}, d \in SPFDomains}
    \cup {Term("redirect", "pass", d, 0, 0) : d \in SPFDomains}

\* What LookupTXT gives: one SPF record, or the verdict on an error, on none and on several.
\* A bounce, which has no domain in MAIL FROM, is treated as a domain without records.
Records(n) == [txt: {"temperror", "none", "permerror"}, terms: {<<>>}]
              \cup [txt: {"one"}, terms: UNION {[1..i -> Terms] : i \in 0..n}]

VARIABLES
    zone,         \* domain -> its TXT records
    frames,       \* call stack: [domain, pos]
    lookups,      \* counter.count
    back,         \* the result a call of checkSPFWithCounter returns, or "unset"
    spfResult,    \* SPF result runSecurityChecks goes on with, or "unset"
    dmarcResult,  \* result of CheckDMARC, or "unset"
    signatures    \* observation: whether the mail has a valid signature aligned with MailDomain,
                  \*   and a valid one that is not

policyVars == <<zone, frames, lookups, back, spfResult, dmarcResult, signatures>>

Results == {"pass", "fail", "softfail", "neutral", "none", "temperror", "permerror"}
Policies == {"reject", "quarantine", "fail"}

PolicyTypeOK ==
    /\ frames \in Seq([domain: SPFDomains, pos: Nat]) /\ lookups \in 0..(SPFLimit + 1)
    /\ {back, spfResult} \subseteq Results \cup {"unset"}
    /\ dmarcResult \in {"unset", "none", "permerror", "pass"} \cup Policies
    /\ signatures \in [aligned: BOOLEAN, stray: BOOLEAN]

PolicyInit ==
    /\ \E r \in Records(MaxTerms), o \in [OtherDomains -> Records(MaxOtherTerms)] :
         zone = [d \in SPFDomains |-> IF d = MailDomain THEN r ELSE o[d]]
    /\ frames = <<[domain |-> MailDomain, pos |-> 1]>>
    /\ lookups = 0 /\ back = "unset" /\ spfResult = "unset" /\ dmarcResult = "unset"
    /\ signatures = [aligned |-> FALSE, stray |-> FALSE]

-----------------------------------------------------------------------------
Frame == frames[Len(frames)]
Callers == SubSeq(frames, 1, Len(frames) - 1)
Advanced(fs) == [fs EXCEPT ![Len(fs)].pos = @ + 1]

\* DNS lookups a term is counted for.
Cost(t) == CASE t.kind \in {"a", "include", "redirect"} -> 1
             [] t.kind = "mx" -> 1 + (IF t.hit = 0 THEN t.hosts ELSE t.hit)
             [] OTHER -> 0

(* mutant: the limit is tested before the lookup is counted *)
incFirst(t) == lookups > SPFLimit

\* spfDNSCounter.inc passes the limit during the term.
inc(t) == lookups + Cost(t) > SPFLimit

PolicyReturn(v) == back' = v /\ UNCHANGED <<frames, lookups>>

evalTerm(t) ==
    LET counted == lookups + Cost(t)
    IN IF Cost(t) > 0 /\ inc(t)
       THEN back' = "permerror" /\ lookups' = SPFLimit + 1 /\ UNCHANGED frames
       ELSE /\ lookups' = IF counted > SPFLimit THEN SPFLimit + 1 ELSE counted
            /\ CASE t.kind = "include" ->
                      frames' = Append(frames, [domain |-> t.to, pos |-> 1]) /\ UNCHANGED back
                 [] t.kind = "redirect" ->
                      frames' = Append(Callers, [domain |-> t.to, pos |-> 1]) /\ UNCHANGED back
                 [] t.kind = "ptr" -> back' = "neutral" /\ UNCHANGED frames
                 [] OTHER -> IF t.hit > 0 THEN back' = t.q /\ UNCHANGED frames
                             ELSE frames' = Advanced(frames) /\ UNCHANGED back

\* A call of checkSPFWithCounter looks up its record and goes through the terms.
checkSPFWithCounter ==
    LET r == zone[Frame.domain]
    IN /\ frames # <<>> /\ back = "unset"
       /\ IF r.txt # "one" THEN PolicyReturn(r.txt)
          ELSE IF Frame.pos > Len(r.terms) THEN PolicyReturn("neutral")
          ELSE evalTerm(r.terms[Frame.pos])
       /\ UNCHANGED <<zone, spfResult, dmarcResult, signatures>>

\* CheckSPF returns an error with every temperror and permerror, and the caller takes any
\* error for a temperror.
SPFHanded(v) == IF v \in {"temperror", "permerror"} THEN "temperror" ELSE v

\* An include that passes is a match, one that fails is none; a permerror ends every call.
ReturnSPF ==
    /\ back # "unset"
    /\ IF Callers = <<>> THEN spfResult' = SPFHanded(back) /\ frames' = <<>> /\ back' = "unset"
       ELSE LET caller == Callers[Len(Callers)]
            IN /\ back' = CASE back = "permerror" -> "permerror"
                            [] back = "pass" -> zone[caller.domain].terms[caller.pos].q
                            [] OTHER -> "unset"
               /\ frames' = IF back' # "unset" THEN Callers ELSE Advanced(Callers)
               /\ UNCHANGED spfResult
    /\ UNCHANGED <<zone, lookups, dmarcResult, signatures>>

-----------------------------------------------------------------------------
Signature == [valid: BOOLEAN, aligned: BOOLEAN]

\* CheckDKIM: the first signature that verifies, and its domain.
CheckDKIM(sigs) ==
    LET valid == {i \in DOMAIN sigs : sigs[i].valid}
    IN IF valid = {} THEN [pass |-> FALSE, aligned |-> FALSE]
       ELSE [pass |-> TRUE, aligned |-> sigs[Min(valid)].aligned]

\* record: the DMARC record of MailDomain: none, one that does not parse, or the answer its
\* policy asks for.  Both domains SPF is compared for are MailDomain, which aligns with itself
\* in either mode; aligned of a signature is domainsAlign of its domain with MailDomain.
CheckDMARC(record, sigs) ==
    LET dkim == CheckDKIM(sigs)
    IN /\ spfResult # "unset" /\ dmarcResult = "unset"
       /\ signatures' = [aligned |-> \E i \in DOMAIN sigs : sigs[i].valid /\ sigs[i].aligned,
                         stray |-> \E i \in DOMAIN sigs : sigs[i].valid /\ ~sigs[i].aligned]
       /\ dmarcResult' = IF record \in Policies /\ (spfResult = "pass" \/ (dkim.pass /\ dkim.aligned))
                         THEN "pass" ELSE record
       /\ UNCHANGED <<zone, frames, lookups, back, spfResult>>

PolicyNext ==
    \/ checkSPFWithCounter \/ ReturnSPF
    \/ \E record \in {"none", "permerror"} \cup Policies, sigs \in [1..2 -> Signature] :
         CheckDMARC(record, sigs)

PolicySpec == PolicyInit /\ [][PolicyNext]_policyVars

-----------------------------------------------------------------------------
\* What a record means, without a limit: the first term that decides.  An include decides if
\* the included record passes or has a permanent error.  Verdict[k] follows k references; one
\* that leads back to itself never decides, which is a permanent error.
Verdict[k \in 0..Cardinality(SPFDomains)] ==
    [d \in SPFDomains |->
       LET r == zone[d].terms
           of(t) == IF k = 0 THEN "permerror" ELSE Verdict[k - 1][t.to]
           deciding == {i \in DOMAIN r : \/ r[i].kind \in {"redirect", "ptr"} \/ r[i].hit > 0
                                         \/ r[i].kind = "include" /\ of(r[i]) \in {"pass", "permerror"}}
           t == r[Min(deciding)]
       IN CASE zone[d].txt # "one" -> zone[d].txt
            [] zone[d].txt = "one" /\ deciding = {} -> "neutral"
            [] OTHER -> CASE t.kind = "include" -> (IF of(t) = "pass" THEN t.q ELSE "permerror")
                          [] t.kind = "redirect" -> of(t)
                          [] t.kind = "ptr" -> "neutral"
                          [] OTHER -> t.q]

\* The limit of lookups holds for all records together: calls do not nest deeper than it
\* allows, and once it is passed no caller takes it for a term that does not match: the
\* evaluation ends in an error.
LimitHolds ==
    /\ Len(frames) <= SPFLimit + 1
    /\ lookups > SPFLimit => back = "permerror" \/ spfResult = "temperror"

\* SPF gives the verdict the records mean, or an error once the limit is passed: the limit
\* never turns one verdict into another, and it ends every circle of includes and redirects.
\* DMARC, which asks for the domain of MAIL FROM and not for that of the From header, passes
\* only if its records mean pass or a signature vouches for it; a mail it fails is one the
\* records do not pass within the limit, without such a signature unless a valid one of
\* another domain came first.
VerdictsSound ==
    LET meant == Verdict[Cardinality(SPFDomains)][MailDomain]
    IN /\ LimitHolds
       /\ spfResult # "unset" =>
            spfResult = SPFHanded(meant) \/ (spfResult = "temperror" /\ lookups > SPFLimit)
       /\ dmarcResult = "pass" => meant = "pass" \/ signatures.aligned
       /\ dmarcResult \in Policies => /\ meant = "pass" => lookups > SPFLimit
                                      /\ signatures.aligned => signatures.stray

=============================================================================
