---------------------------- MODULE MCCatalogue -----------------------------
(* Three tables, the first with two indexes: the pools of the tables leave *)
(* one frame for one of the indexes and none for the other, and those of   *)
(* two tables and the indexes none for the third table.                    *)
EXTENDS Catalogue

MCTables  == <<"a", "b", "c">>
MCTableOf == [x \in {"a_i", "a_j"} |-> "a"]
=============================================================================
