--------------------------- MODULE MCTypeRegistry ---------------------------
(***************************************************************************)
(* TypeRegistry for TLC: two of the models of the test suite.  A reporter  *)
(* has a choice and a reverse relation, an article a foreign key, so that  *)
(* their types refer to each other.                                        *)
(***************************************************************************)
EXTENDS TypeRegistry

MCModels == {"Reporter", "Article"}
MCFields == {"a_choice", "articles", "editor"}
MCFieldsOf == [m \in MCModels |->
    IF m = "Reporter" THEN {"a_choice", "articles"} ELSE {"editor"}]
MCKind == [f \in MCFields |-> IF f = "a_choice" THEN "choices" ELSE "relation"]
MCTarget == [f \in MCFields |-> IF f = "articles" THEN "Article" ELSE "Reporter"]
=============================================================================
