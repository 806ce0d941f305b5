------------------------------- MODULE Catalog -------------------------------
(***************************************************************************)
(* The catalog tables, and the operations of AdminService that write them. *)
(***************************************************************************)
EXTENDS Integers, FiniteSets

CONSTANTS
    Products, Variants,
    MaxEdits,      \* changes to a product, its variants and their stock (bound)
    None

ASSUME CatalogAssumption == MaxEdits \in Nat /\ None \notin Products

VARIABLES
    product,       \* product[p]: its row, and how often it, its variants or
                   \* their stock were edited
    variantOf,     \* variantOf[v]: the product of variant v, None without a row
    stocked,       \* variants that have a row in inventory
    referred       \* variants that a cart or order line refers to

tableVars == <<product, variantOf, stocked, referred>>
------------------------------------------------------------------------------
States == {"none", "active", "deleted"}
Answers == [listed : BOOLEAN, edits : 0..MaxEdits, variants : SUBSET Variants]

VariantsOf(p) == {v \in Variants : variantOf[v] = p}
Exists(p) == product[p].state # "none"
Listed(p) == product[p].state = "active"
Answer(p) == [listed |-> Listed(p), edits |-> product[p].edits, variants |-> VariantsOf(p)]

\* Any catalog may be there before: the seed's, or years of edits.
CatalogInit ==
    /\ product \in [Products -> [state : States, edits : {0}]]
    /\ variantOf \in [Variants -> {p \in Products : Exists(p)} \cup {None}]
    /\ stocked = {v \in Variants : variantOf[v] # None}
    /\ referred \in SUBSET stocked
------------------------------------------------------------------------------
(* AdminService: each operation is one transaction                         *)

Write(p, state) ==
    /\ product[p].edits < MaxEdits
    /\ product' = [product EXCEPT ![p] = [state |-> state, edits |-> @.edits + 1]]

CreateProduct(p) ==
    /\ ~Exists(p)
    /\ Write(p, "active")
    /\ UNCHANGED <<variantOf, stocked, referred>>

\* A deleted product is found, and changed, like any other.
UpdateProduct(p) ==
    /\ Exists(p)
    /\ Write(p, product[p].state)
    /\ UNCHANGED <<variantOf, stocked, referred>>

DeleteProduct(p) ==
    /\ Exists(p)
    /\ Write(p, "deleted")
    /\ UNCHANGED <<variantOf, stocked, referred>>

CreateVariant(p, v) ==
    /\ Exists(p)
    /\ variantOf[v] = None
    /\ Write(p, product[p].state)
    /\ variantOf' = [variantOf EXCEPT ![v] = p]
    /\ stocked' = stocked \cup {v}
    /\ UNCHANGED referred

UpdateVariant(v) ==
    /\ variantOf[v] # None
    /\ Write(variantOf[v], product[variantOf[v]].state)
    /\ UNCHANGED <<variantOf, stocked, referred>>

\* The row of the variant in inventory is set to what the admin typed.
UpdateInventory(v) ==
    /\ v \in stocked
    /\ Write(variantOf[v], product[variantOf[v]].state)
    /\ UNCHANGED <<variantOf, stocked, referred>>

\* Inventory row and variant row; lines that refer to the variant refuse it.
DeleteVariant(v) ==
    /\ variantOf[v] # None
    /\ v \notin referred
    /\ Write(variantOf[v], product[variantOf[v]].state)
    /\ variantOf' = [variantOf EXCEPT ![v] = None]
    /\ stocked' = stocked \ {v}
    /\ UNCHANGED referred

\* A customer puts the variant into the cart, or takes it out again; a line
\* of an order stays.
Refer(v) ==
    /\ variantOf[v] # None
    /\ referred' \in {referred \cup {v}, referred \ {v}}
    /\ UNCHANGED <<product, variantOf, stocked>>

AdminWrites ==
    \/ \E p \in Products : CreateProduct(p) \/ UpdateProduct(p) \/ DeleteProduct(p)
    \/ \E p \in Products, v \in Variants : CreateVariant(p, v)
    \/ \E v \in Variants : UpdateVariant(v) \/ UpdateInventory(v) \/ DeleteVariant(v)
------------------------------------------------------------------------------
CatalogTypeOK ==
    /\ product \in [Products -> [state : States, edits : 0..MaxEdits]]
    /\ variantOf \in [Variants -> Products \cup {None}]
    /\ stocked \subseteq Variants
    /\ referred \subseteq Variants
==============================================================================
