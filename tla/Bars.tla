----------------------------------- MODULE Bars -----------------------------------
(***************************************************************************)
(* Bars of data and what the time frames make of them. A bar is            *)
(* [slot, high, low, close, levels]: slot is its start, on a grid of the   *)
(* smallest time between two bars; levels gives the price of every level   *)
(* that has one. Indices count from 1; 0 is no index.                      *)
(***************************************************************************)
EXTENDS Integers, Sequences, FiniteSets, FiniteSetsExt

First(s) == IF s = {} THEN 0 ELSE Min(s)

Ordered(s) == [k \in 1..Cardinality(s) |-> CHOOSE x \in s : Cardinality({y \in s : y < x}) = k - 1]

\* The indices of the bars in bucket b of w slots, and the buckets that hold a bar.
InBucket(src, w, b) == {i \in DOMAIN src : src[i].slot \div w = b}
Buckets(src, w)     == {src[i].slot \div w : i \in DOMAIN src}

HighOf(src, own) == Max({src[i].high : i \in own})
LowOf(src, own)  == Min({src[i].low : i \in own})
=============================================================================
