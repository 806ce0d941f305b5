------------------------------ MODULE Addresses ------------------------------
(***************************************************************************)
(* The addresses of one customer.  A handler that makes an address the     *)
(* default one first clears the others and then writes its own, in two     *)
(* statements without a transaction; several may run at once, and each may *)
(* stop in between (UsersService).                                         *)
(***************************************************************************)
EXTENDS Customer

CONSTANTS
    MaxWrites      \* creations and updates (bound)

ASSUME AddressesAssumption == MaxWrites \in Nat

VARIABLES
    address,       \* address[a]: no row, a row, or a row with isDefault
    clearing,      \* handlers between their statements, and what they write
    overlapped,    \* have two such handlers ever run at once?
    writes

addressVars == <<address, clearing, overlapped, writes>>

Rows == {"none", "plain", "default"}
Write == [a : AddressIds, creates : BOOLEAN]
Listed(t) == {a \in AddressIds : t[a] # "none"}
Defaults(t) == {a \in AddressIds : t[a] = "default"}

AddressesInit ==
    /\ address \in {t \in [AddressIds -> Rows] : \A a, b \in Defaults(t) : a = b}
    /\ clearing = {}
    /\ overlapped = FALSE
    /\ writes = 0

\* Wrong on purpose (mutation): only the address itself is cleared.
PlainItself(t, w) == [t EXCEPT ![w.a] = IF @ = "default" THEN "plain" ELSE @]

\* updateMany: all of the customer's, but for the one that is being updated.
Plain(t, w) ==
    [a \in AddressIds |->
        IF t[a] = "default" /\ (w.creates \/ a # w.a) THEN "plain" ELSE t[a]]

\* createAddress and updateAddress with isDefault, up to the first statement.
ClearDefaults(w) ==
    /\ writes < MaxWrites /\ writes' = writes + 1
    /\ w.creates <=> address[w.a] = "none"
    /\ w.a \notin {v.a : v \in clearing}
    /\ address' = Plain(address, w)
    /\ clearing' = clearing \cup {w}
    /\ overlapped' = (overlapped \/ clearing # {})

\* Their second statement.
WriteDefault(w) ==
    /\ w \in clearing
    /\ w.creates \/ address[w.a] # "none"
    /\ address' = [address EXCEPT ![w.a] = "default"]
    /\ clearing' = clearing \ {w}
    /\ UNCHANGED <<overlapped, writes>>

\* The handler stops in between, or the row to be updated is gone: the customer
\* is left without a default address.
Stop(w) ==
    /\ w \in clearing
    /\ clearing' = clearing \ {w}
    /\ UNCHANGED <<address, overlapped, writes>>

\* createAddress without isDefault, updateAddress that takes it away.
WritePlain(a) ==
    /\ writes < MaxWrites /\ writes' = writes + 1
    /\ a \notin {w.a : w \in clearing}
    /\ address' = [address EXCEPT ![a] = "plain"]
    /\ UNCHANGED <<clearing, overlapped>>

DeleteAddress(a) ==
    /\ address[a] # "none"
    /\ address' = [address EXCEPT ![a] = "none"]
    /\ UNCHANGED <<clearing, overlapped, writes>>

AddressSteps ==
    \/ \E w \in Write : ClearDefaults(w) \/ WriteDefault(w) \/ Stop(w)
    \/ \E a \in AddressIds : WritePlain(a) \/ DeleteAddress(a)

AddressesTypeOK ==
    /\ address \in [AddressIds -> Rows]
    /\ clearing \subseteq Write
    /\ overlapped \in BOOLEAN
    /\ writes \in 0 .. MaxWrites

\* A customer has at most one default address, though none of the handlers
\* looks, unless two of them were between their statements at the same time
\* (createAddress and updateAddress).
OneDefault == ~overlapped => \A a, b \in Defaults(address) : a = b
==============================================================================
