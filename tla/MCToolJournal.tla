---------------------------- MODULE MCToolJournal ----------------------------
(***************************************************************************)
(* Finite instances of ToolJournal: which kinds of calls the model can     *)
(* make.                                                                   *)
(***************************************************************************)
EXTENDS ToolJournal

TwoMutations == <<"mutation", "mutation">>
MutationAndQuestion == <<"mutation", "interaction">>
MutationsInvalidAndRead == <<"mutation", "mutation", "invalid", "read_only">>
=============================================================================
