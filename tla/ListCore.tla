------------------------------- MODULE ListCore --------------------------------
(***************************************************************************)
(* include/list_core.h: the list of registered operations each of the      *)
(* three managers keeps, as a sequence from the entry after the head.      *)
(***************************************************************************)
EXTENDS Naturals, Sequences

NULL == "NULL"

INIT_LIST_HEAD == <<>>

\* A new entry goes right behind the head, so the last registered comes first.
list_add(opr, list) == <<opr>> \o list

=============================================================================
