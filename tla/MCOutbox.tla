------------------------------ MODULE MCOutbox ------------------------------
(* Outbox for TLC: two ceremonies, one of which commits two messages.        *)
EXTENDS Outbox, TLC

mcMessage == {[ceremony |-> 1, number |-> 1], [ceremony |-> 1, number |-> 2],
              [ceremony |-> 2, number |-> 1]}

=============================================================================
