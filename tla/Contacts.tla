------------------------------ MODULE Contacts ------------------------------
(***************************************************************************)
(* What a user's address book holds about one correspondent                *)
(* (internal/storage/contacts_store.go) while the backfill moves rows with *)
(* a plaintext address to the encrypted form.  New rows are found by the   *)
(* blind index of the address, which old rows do not have: an address may  *)
(* have two rows, which the backfill merges in a READ COMMITTED            *)
(* transaction of several statements.                                      *)
(***************************************************************************)
EXTENDS Naturals, FiniteSets, Tables

CONSTANTS
    OldRow,            \* the row with the plaintext address
    NewRows,           \* ids of later rows; an id is used once
    ContactGroups,
    Adders,            \* calls of AutoAdd that may be under way
    MaxContactCalls,   \* bound: calls of the user
    MaxMergeFaults     \* bound: transactions that fail

RowIDs == NewRows \cup {OldRow}
Merged == {"name"}               \* name, keys, certificate and trusted flag
Facts == Merged \cup {"phone"}   \* phone, notes, organisation and birthday
ContactRow == [indexed: BOOLEAN, facts: SUBSET Facts, groups: SUBSET ContactGroups]

ASSUME ContactsAssumption ==
    /\ OldRow \notin NewRows /\ {MaxContactCalls, MaxMergeFaults} \subseteq Nat
    /\ {Null, Gone} \cap (NewRows \cup {OldRow} \cup STRING \cup ContactRow) = {}
    /\ Facts \cap ContactGroups = {}

VARIABLES
    book,       \* id -> [indexed, facts, groups], Null or Gone
    cGroups,    \* groups that exist
    adding,     \* AutoAdd calls that found no row
    fill,       \* the backfill: where it is, the row it merges into (OldRow once its UPDATE has
                \*   found none), what the transaction has copied
    cCalls, mFaults,
    \* observations
    given,      \* what the user entered about the correspondent and did not remove
    crossing,   \* what was changed on the old row after its merge had copied it
    dropped     \* what the merge deleted with the old row without having copied it

bookVars == <<book, cGroups, adding, fill, cCalls, mFaults, given, crossing, dropped>>

IdleFill == [pc |-> "idle", canon |-> OldRow, facts |-> {}, groups |-> {}]

BookTypeOK ==
    /\ book \in [RowIDs -> ContactRow \cup {Null, Gone}]
    /\ cGroups \subseteq ContactGroups /\ adding \subseteq Adders
    /\ fill \in [pc: {"idle", "check", "update", "merge", "fields", "rewire", "drop"}, canon: RowIDs,
                 facts: SUBSET Facts, groups: SUBSET ContactGroups]
    /\ cCalls \in 0..MaxContactCalls /\ mFaults \in 0..MaxMergeFaults
    /\ {given, crossing, dropped} \subseteq SUBSET (Facts \cup ContactGroups)

BookInit ==
    /\ book = [c \in RowIDs |-> IF c = OldRow THEN [indexed |-> FALSE, facts |-> {}, groups |-> {}] ELSE Null]
    /\ cGroups = ContactGroups /\ adding = {} /\ fill = IdleFill
    /\ cCalls = 0 /\ mFaults = 0 /\ given = {} /\ crossing = {} /\ dropped = {}

-----------------------------------------------------------------------------
ContactRows == {c \in RowIDs : book[c] \notin {Null, Gone}}
Indexed == {c \in ContactRows : book[c].indexed}
About(c) == book[c].facts \cup book[c].groups
AboutElsewhere(c) == UNION {About(d) : d \in ContactRows \ {c}}

\* The row is held by the open transaction, which has updated it.
Locked(c) == fill.pc \in {"rewire", "drop"} /\ c = fill.canon /\ c # OldRow

\* The old row's facts, or its groups, have been copied already.
FactsCopied(c) == c = OldRow /\ fill.pc \in {"rewire", "drop"}
GroupsCopied(c) == c = OldRow /\ fill.pc = "drop"

BookCall == cCalls < MaxContactCalls /\ cCalls' = cCalls + 1

\* ON CONFLICT (user_id, address_blind_index) DO NOTHING; phone and the like are set later.
CreateContact(c, X) ==
    /\ book[c] = Null
    /\ book' = IF Indexed # {} THEN book
               ELSE [book EXCEPT ![c] = [indexed |-> TRUE, facts |-> X, groups |-> {}]]
    /\ given' = IF Indexed # {} THEN given ELSE given \cup X

CreateByUser(c, X) ==
    /\ BookCall /\ c \in NewRows /\ CreateContact(c, X)
    /\ UNCHANGED <<cGroups, adding, fill, mFaults, crossing, dropped>>

\* AutoAdd, for mail that arrives: the row is looked up by its index and inserted later.
AutoAddCheck(a) ==
    /\ a \notin adding /\ Indexed = {} /\ adding' = adding \cup {a}
    /\ UNCHANGED <<book, cGroups, fill, cCalls, mFaults, given, crossing, dropped>>
AutoAdd(a, c) ==
    /\ a \in adding /\ adding' = adding \ {a}
    /\ c \in NewRows /\ CreateContact(c, {})
    /\ UNCHANGED <<cGroups, fill, cCalls, mFaults, crossing, dropped>>

\* UpdateContact: a field is set, or cleared.
UpdateContact(c, x, set) ==
    /\ BookCall /\ c \in ContactRows /\ ~Locked(c)
    /\ book' = [book EXCEPT ![c].facts = IF set THEN @ \cup {x} ELSE @ \ {x}]
    /\ given' = IF set THEN given \cup {x} ELSE given \ ({x} \ AboutElsewhere(c))
    /\ crossing' = IF FactsCopied(c) THEN crossing \cup {x} ELSE crossing
    /\ dropped' = dropped \ {x}
    /\ UNCHANGED <<cGroups, adding, fill, mFaults>>

\* The rows of contact_group_members go with the contact.
DeleteContact(c) ==
    /\ BookCall /\ c \in ContactRows /\ ~Locked(c)
    /\ book' = [book EXCEPT ![c] = Gone]
    /\ given' = given \ (About(c) \ AboutElsewhere(c))
    /\ crossing' = crossing \cup (IF FactsCopied(c) THEN book[c].facts ELSE {})
                            \cup (IF GroupsCopied(c) THEN book[c].groups ELSE {})
    /\ UNCHANGED <<cGroups, adding, fill, mFaults, dropped>>

AddGroupMember(g, c) ==
    /\ BookCall /\ g \in cGroups /\ c \in ContactRows
    /\ book' = [book EXCEPT ![c].groups = @ \cup {g}]
    /\ given' = given \cup {g}
    /\ crossing' = IF GroupsCopied(c) THEN crossing \cup {g} ELSE crossing
    /\ UNCHANGED <<cGroups, adding, fill, mFaults, dropped>>

RemoveGroupMember(g, c) ==
    /\ BookCall /\ c \in ContactRows /\ g \in book[c].groups
    /\ book' = [book EXCEPT ![c].groups = @ \ {g}]
    /\ given' = given \ ({g} \ AboutElsewhere(c))
    /\ crossing' = IF GroupsCopied(c) THEN crossing \cup {g} ELSE crossing
    /\ UNCHANGED <<cGroups, adding, fill, mFaults, dropped>>

\* Memberships go with the group; it waits for a transaction that has inserted some.
DeleteContactGroup(g) ==
    /\ BookCall /\ g \in cGroups \ fill.groups
    /\ cGroups' = cGroups \ {g}
    /\ book' = [c \in RowIDs |-> IF c \in ContactRows THEN [book[c] EXCEPT !.groups = @ \ {g}] ELSE book[c]]
    /\ given' = given \ {g}
    /\ UNCHANGED <<adding, fill, mFaults, crossing, dropped>>

-----------------------------------------------------------------------------
(* BackfillEncryptedAddresses *)

FillStep(from, to) == fill.pc = from /\ fill' = to
bookGhosts == <<given, crossing>>

ListPending ==
    /\ OldRow \in ContactRows \ Indexed
    /\ FillStep("idle", [IdleFill EXCEPT !.pc = "check"])
    /\ UNCHANGED <<book, cGroups, adding, cCalls, mFaults, bookGhosts, dropped>>

FindSibling ==
    /\ \/ Indexed \ {OldRow} = {} /\ FillStep("check", [fill EXCEPT !.pc = "update"])
       \/ \E c \in Indexed \ {OldRow} : FillStep("check", [fill EXCEPT !.pc = "merge", !.canon = c])
    /\ UNCHANGED <<book, cGroups, adding, cCalls, mFaults, bookGhosts, dropped>>

\* The UPDATE fails on the unique index if a row has been added since.
BackfillEncryptedAddresses ==
    /\ FillStep("update", IdleFill)
    /\ book' = IF OldRow \in ContactRows /\ Indexed = {} THEN [book EXCEPT ![OldRow].indexed = TRUE] ELSE book
    /\ UNCHANGED <<cGroups, adding, cCalls, mFaults, bookGhosts, dropped>>

\* The SELECTs of the owners: both rows must still be there.  They lock nothing.
CheckOwners ==
    /\ FillStep("merge", IF {OldRow, fill.canon} \subseteq ContactRows THEN [fill EXCEPT !.pc = "fields"]
                         ELSE IdleFill)
    /\ UNCHANGED <<book, cGroups, adding, cCalls, mFaults, bookGhosts, dropped>>

\* The UPDATE joins the two rows; that it found neither is not looked at.
MergeFields ==
    /\ FillStep("fields",
                IF {OldRow, fill.canon} \subseteq ContactRows
                THEN [fill EXCEPT !.pc = "rewire", !.facts = book[OldRow].facts \cap Merged]
                ELSE [fill EXCEPT !.pc = "rewire", !.canon = OldRow])
    /\ UNCHANGED <<book, cGroups, adding, cCalls, mFaults, bookGhosts, dropped>>

(* mutant: the memberships of the old row are left to its deletion *)
RewiredNone == {}

Rewired == IF OldRow \in ContactRows THEN book[OldRow].groups ELSE {}

\* A membership of a row that is gone violates the foreign key, and the transaction ends.
RewireMembers ==
    /\ FillStep("rewire", IF fill.canon = OldRow /\ Rewired # {} THEN IdleFill
                          ELSE [fill EXCEPT !.pc = "drop", !.groups = Rewired])
    /\ UNCHANGED <<book, cGroups, adding, cCalls, mFaults, bookGhosts, dropped>>

\* The deletion of the old row and the commit.
mergeAndDropDuplicateContact ==
    /\ FillStep("drop", IdleFill)
    /\ book' = [c \in RowIDs |->
                  IF c = OldRow THEN Gone
                  ELSE IF c = fill.canon
                       THEN [book[c] EXCEPT !.facts = @ \cup fill.facts, !.groups = @ \cup fill.groups]
                       ELSE book[c]]
    /\ dropped' = IF OldRow \in ContactRows
                  THEN dropped \cup (book[OldRow].facts \ (fill.facts \cup AboutElsewhere(OldRow)))
                  ELSE dropped
    /\ UNCHANGED <<cGroups, adding, cCalls, mFaults, bookGhosts>>

\* The transaction is rolled back; the next backfill tries again.
MergeFails ==
    /\ fill.pc \in {"merge", "fields", "rewire", "drop"} /\ fill' = IdleFill
    /\ mFaults < MaxMergeFaults /\ mFaults' = mFaults + 1
    /\ UNCHANGED <<book, cGroups, adding, cCalls, bookGhosts, dropped>>

BookNext ==
    \/ ListPending \/ FindSibling \/ BackfillEncryptedAddresses \/ CheckOwners \/ MergeFields \/ RewireMembers
    \/ mergeAndDropDuplicateContact \/ MergeFails
    \/ \E a \in Adders : AutoAddCheck(a) \/ \E c \in NewRows : AutoAdd(a, c)
    \/ \E c \in RowIDs :
         \/ \E X \in SUBSET Merged : CreateByUser(c, X)
         \/ \E x \in Facts, set \in BOOLEAN : UpdateContact(c, x, set)
         \/ DeleteContact(c)
         \/ \E g \in ContactGroups : AddGroupMember(g, c) \/ RemoveGroupMember(g, c)
    \/ \E g \in ContactGroups : DeleteContactGroup(g)

BookSpec == BookInit /\ [][BookNext]_bookVars

-----------------------------------------------------------------------------
\* The rows of the correspondent together show what the user entered and did not remove, no
\* less and no more, however the backfill, the automatic additions and the user's own changes
\* interleave; except for what was changed on the old row after the merge had copied it, and for
\* what the merge deletes with that row: phone, notes, organisation and birthday always, and
\* every field if the user deleted the other row between the check of the owners and the UPDATE.
ContactsKept ==
    (UNION {About(c) : c \in ContactRows}) \ (crossing \cup dropped) = given \ (crossing \cup dropped)

=============================================================================
