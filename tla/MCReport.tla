------------------------------ MODULE MCReport ------------------------------
(***************************************************************************)
(* Orders that start before a month of 30 days, before the February of a   *)
(* leap year, of another and of 2100, and on a first; pages of one or two  *)
(* rows.                                                                   *)
(***************************************************************************)
EXTENDS Report

MCStarts == {[y |-> 2015, m |-> 10, d |-> 31, at |-> 0], [y |-> 2015, m |-> 12, d |-> 1, at |-> 0],
             [y |-> 2015, m |-> 12, d |-> 31, at |-> 0], [y |-> 2016, m |-> 12, d |-> 29, at |-> 0],
             [y |-> 2099, m |-> 12, d |-> 30, at |-> 0]}

MCSizes == {1, 2}
=============================================================================
