---------------------------- MODULE MCProvision ----------------------------
(***************************************************************************)
(* Every way three files can require one another, themselves or a file     *)
(* that is not there; the names are in the order Glob sorts them.          *)
(***************************************************************************)
EXTENDS Provision

ThreeFiles == <<"attunement", "base_item", "item">>
AllHeaders == [Stems -> SUBSET (Stems \cup {"missing"})]
=============================================================================
