------------------------- MODULE MCRowTransactions -------------------------
(* Three calls at a time on two rows with the same content. *)
EXTENDS RowTransactions

CONSTANTS Statuses, Counts

MCSha == [d \in Doc |-> "sha"]

MCCall ==
  [method : {"create", "delete"}, doc : Doc]
    \cup [method : {"update"}, doc : Doc, status : Statuses]
    \cup [method : {"replace"}, doc : Doc, count : Counts]

=============================================================================
