------------------------------ MODULE MCCde40 ------------------------------
\* Two short names, two long ones; every key belongs to one name.
EXTENDS Cde40

MCPool == {[key |-> 1, obj |-> 2, name |-> <<>>],
           [key |-> 2, obj |-> 3, name |-> <<>>],
           [key |-> 5, obj |-> 4, name |-> <<7>>],
           [key |-> 6, obj |-> 5, name |-> <<7, 8>>]}
=============================================================================
