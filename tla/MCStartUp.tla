----------------------------- MODULE MCStartUp -----------------------------
(***************************************************************************)
(* Two servers, the eight tables of seedDefaultOrg and one product.        *)
(***************************************************************************)
EXTENDS StartUp

MCTables == <<"users", "categories", "products", "transactions", "customers",
               "suppliers", "purchase_orders", "returns">>
MCWithBranch == {"users", "transactions", "purchase_orders"}
=============================================================================
