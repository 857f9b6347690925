------------------------------- MODULE MCWebForms -------------------------------
EXTENDS WebForms, Sequences, TLC

Program(type, start, cooldown, rest) ==
    <<type, start, 30, 20, 0, 0, 5, cooldown>> \o rest

MCFactory ==
    [net     |-> [n \in 0..7 |-> 10 + n],
     air     |-> <<1, 20, -12345, 15>>,
     channel |-> [c \in {0, 3} |-> IF c = 0 THEN 12 ELSE 1],
     program |-> [p \in {0, 1, 12} |->
                    CASE p = 0  -> Program(0, 8, 0, <<0, 0, 0>>)
                      [] p = 1  -> Program(1, 9, 15, <<0, 0, 0>>)
                      [] p = 12 -> Program(2, 10, 20, <<1, 11, 2>>)]]

(* Too small for all fields, right for many, too large for most and for 16  *)
(* bits.                                                                    *)
MCTyped == {-5, 30, 70000}

(* The last two hours of the last evening in summer time.                   *)
MCHours == 24 * 28 - 2 .. 24 * 28 - 1

TabsAlike == Permutations(Tabs)
=================================================================================
