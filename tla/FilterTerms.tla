----------------------------- MODULE FilterTerms ----------------------------
(* The values and the conditions of filters (core/query/filter.go).           *)
(*                                                                           *)
(* A value is a kind and a sequence of numbers: a number is its one element,  *)
(* a string its characters, single bytes of which none is a backslash, a     *)
(* time.Time its instant.  The text of a time, which is what JSON makes of   *)
(* one, is the instant and the place of the text among all of them: zones    *)
(* and fractions give one instant several texts, in no order of the instants.*)
EXTENDS Integers, Sequences

(* A row has a value per column; Absent is a column the payload leaves out.  *)
IntOf(n) == [kind |-> "int", v |-> <<n>>]
FloatOf(n) == [kind |-> "float", v |-> <<n>>]
StrOf(s) == [kind |-> "str", v |-> s]
TimeOf(t) == [kind |-> "time", v |-> <<t>>]
TextOf(t, place) == [kind |-> "text", v |-> <<t, place>>]
Null == [kind |-> "null", v |-> <<>>]
Absent == [kind |-> "absent", v |-> <<>>]
Missing(x) == x \in {Null, Absent}

Percent == 100
Underscore == 101
Upper(c) == c + 50
Star == 102
Question == 103
Backslash == 104
ToLower(s) == [i \in DOMAIN s |-> IF s[i] > 50 /\ s[i] < Percent THEN s[i] - 50 ELSE s[i]]

(* Orders of strings: by bytes, where capitals come first, and of a          *)
(* language, where the case only decides between words that are else equal.  *)
Byte(c) == IF c > 50 /\ c < Percent THEN c - 50 ELSE c + 50
Bytes(s) == [i \in DOMAIN s |-> Byte(s[i])]
Collated(s) == ToLower(s) \o <<0>> \o Bytes(s)
Precedes(s, t) ==
    \E i \in DOMAIN t : /\ i <= Len(s) => s[i] < t[i]
                        /\ \A j \in 1..(i - 1) : j <= Len(s) /\ s[j] = t[j]
Order(s, t) == IF s = t THEN "same" ELSE IF Precedes(s, t) THEN "less" ELSE "more"

Cond(col, op, vals) == [col |-> col, op |-> op, vals |-> vals, or |-> <<>>]
Or(conds) == [col |-> "", op |-> "", vals |-> <<>>, or |-> conds]
IsGroup(c) == Len(c.or) > 0
=============================================================================
