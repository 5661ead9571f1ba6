------------------------------ MODULE MCTicket ------------------------------
(* Two tickets and two values, one form, one bulk action, one recovery. *)
EXTENDS Ticket, TLC

Symmetric == Permutations(Tickets) \union Permutations(Values)
=============================================================================
