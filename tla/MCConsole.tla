------------------------------ MODULE MCConsole ------------------------------
(* Lines for the console: every command, in and out of the form of the help. *)
EXTENDS Console, TLC

(* the characters of a line, by their codes                                 *)
Code(ch) ==
    CASE ch = " " -> Blank [] ch = "." -> Dot [] ch = ":" -> Colon
      [] ch = "t" -> Letter.t [] ch = "d" -> Letter.d [] ch = "i" -> Letter.i
      [] ch = "a" -> Letter.a [] ch = "r" -> Letter.r [] ch = "b" -> Letter.b
      [] OTHER -> 48 + (CHOOSE n \in 0..9 : ToString(n) = ch)

Line(chars, what, values) ==
    [text |-> Append([k \in DOMAIN chars |-> Code(chars[k])], CR),
     means |-> [what |-> what, values |-> values]]

TimeLine == Line(<<"t", " ", "1", "2", ":", "3", ":", "4">>, "time", <<12, 3, 4>>)
DateLine == Line(<<"d", " ", "7", ".", "1", "0", ".", "2", "0", "1", "2">>,
                 "date", <<7, 10, 2012>>)
LateLine == Line(<<"t", " ", "2", "4", ":", "0", ":", "0">>, "other", <<>>)
(* longer than parameter[], and its tail is a command                       *)
LongLine == Line(<<"i", " ", "1", ".", "2", ".", "3", ".", "4", ".", "5", ".",
                   "6", "r">>, "other", <<>>)
AirLine == Line(<<"a", " ", "1", "8", " ", "2", "5">>, "other", <<>>)
AirOff  == Line(<<"a">>, "other", <<>>)
Blanks2 == Line(<<" ", "t", " ", "1", " ">>, "other", <<>>)
Word    == Line(<<"t", "b">>, "other", <<>>)

MCLines == {TimeLine, DateLine, LateLine, LongLine, AirLine, AirOff, Blanks2, Word}
MCFactory == [aircondition |-> FALSE, ip |-> <<192, 168, 128, 250>>,
              gw |-> <<192, 168, 128, 1>>]
==============================================================================
