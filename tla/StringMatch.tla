----------------------------- MODULE StringMatch -----------------------------
(***************************************************************************)
(* mycode/string_match: brute force, Knuth-Morris-Pratt and Rabin-Karp.    *)
(* One of the three runs on one text and pattern; a turn of one of its     *)
(* loops is a step.  A string is a sequence of character codes; positions  *)
(* are the code's, from 0, so that S[i] in the code is text[pos + 1] here. *)
(* A char is signed, and so is the remainder of a negative number.         *)
(***************************************************************************)
EXTENDS Integers, Sequences

CONSTANTS
    Texts, Patterns,    \* the strings S and P to search in and for
    Base, Mod           \* rkMatch's hash; the code has 911382629 and 10^9 + 7

ASSUME StringsAssumption == Texts \subseteq Seq(Int) /\ Patterns \subseteq Seq(Int)
ASSUME HashAssumption == Base \in Nat \ {0} /\ Mod \in Nat \ {0}

VARIABLES
    text, pattern,  \* S and P
    algo,           \* the search that runs: "bf", "kmp" or "rk"
    at,             \* "call", "build" (the loop of buildNext), "match", "returned"
    pos, len,       \* i and j
    next,           \* the entries of next before i
    hashS,          \* the hash of the window at i
    ret             \* what the search returned

call == <<text, pattern, algo>>
searchvars == <<call, at, pos, len, next, hashS, ret>>

Called ==
    /\ algo \in {"bf", "kmp", "rk"} /\ at = "call"
    /\ pos = 0 /\ len = 0 /\ next = <<>> /\ hashS = 0 /\ ret = -1
SearchInit == text \in Texts /\ pattern \in Patterns /\ Called

Return(value) == at' = "returned" /\ ret' = value /\ UNCHANGED <<call, pos, len, next, hashS>>

(* The early return that the three have in common, and how they go on. *)
NoSearch == Len(pattern) = 0 \/ Len(pattern) > Len(text)
ReturnEarly == at = "call" /\ NoSearch /\ Return(-1)
Enter(search, loop) ==
    /\ algo = search /\ at = "call" /\ ~NoSearch
    /\ at' = loop /\ UNCHANGED <<call, len, ret>>
In(search) == algo = search /\ at = "match"
-----------------------------------------------------------------------------
BfEnter == Enter("bf", "match") /\ UNCHANGED <<pos, next, hashS>>

BfTurn ==
    /\ In("bf") /\ pos < Len(text) /\ len < Len(pattern)
    /\ IF text[pos + 1] = pattern[len + 1]
         THEN pos' = pos + 1 /\ len' = len + 1
         ELSE pos' = pos - len + 1 /\ len' = 0
    /\ UNCHANGED <<call, at, next, hashS, ret>>

BfReturn ==
    /\ In("bf") /\ ~(pos < Len(text) /\ len < Len(pattern))
    /\ Return(IF len = Len(pattern) THEN pos - len ELSE -1)
-----------------------------------------------------------------------------
KmpEnter == Enter("kmp", "build") /\ pos' = 1 /\ next' = <<0>> /\ UNCHANGED hashS

(* buildNext looks for the pattern in itself, kmpMatch in the text.        *)
Scanned == IF at = "build" THEN pattern ELSE text
Scans == algo = "kmp" /\ at \in {"build", "match"} /\ pos < Len(Scanned)
Mismatch == len > 0 /\ Scanned[pos + 1] # pattern[len + 1]

(* Mutant: the prefix is given up at once. *)
GiveUp == 0

(* From a prefix that does not go on as the scanned string does to the     *)
(* next shorter one: the while loops of both.                              *)
Shorter == next[len]
FallBack ==
    /\ Scans /\ Mismatch
    /\ len' = Shorter
    /\ UNCHANGED <<call, at, pos, next, hashS, ret>>

Extended == IF Scanned[pos + 1] = pattern[len + 1] THEN len + 1 ELSE 0
BuildTurn ==
    /\ Scans /\ at = "build" /\ ~Mismatch
    /\ len' = Extended /\ next' = Append(next, Extended) /\ pos' = pos + 1
    /\ UNCHANGED <<call, at, hashS, ret>>

BuildReturn ==
    /\ at = "build" /\ pos = Len(pattern)
    /\ at' = "match" /\ pos' = 0 /\ len' = 0
    /\ UNCHANGED <<call, next, hashS, ret>>

KmpTurn ==
    /\ Scans /\ at = "match" /\ ~Mismatch
    /\ IF Extended = Len(pattern) THEN Return(pos - Len(pattern) + 1)
       ELSE len' = Extended /\ pos' = pos + 1 /\ UNCHANGED <<call, at, next, hashS, ret>>

KmpReturn == In("kmp") /\ pos = Len(text) /\ Return(-1)
-----------------------------------------------------------------------------
(* The remainder of C++: it has the sign of the dividend. *)
Rem(a, b) == IF a >= 0 THEN a % b ELSE -((-a) % b)

(* The loops that hash: n turns from h0 on, with the characters of s from  *)
(* position p on; and basePow, to which nothing is added.                  *)
Horner(h0, s, p, n) ==
    LET h[k \in 0..n] == IF k = 0 THEN h0 ELSE Rem(h[k - 1] * Base + s[p + k], Mod)
    IN  h[n]
Hash(s, p, n) == Horner(0, s, p, n)
BasePow(n) == Horner(1, [k \in Nat |-> 0], 0, n)

RkEnter ==
    /\ Enter("rk", "match")
    /\ hashS' = Hash(text, 0, Len(pattern))
    /\ UNCHANGED <<pos, next>>

(* The pattern's hash, and then its characters, are those of the window. *)
Found ==
    /\ hashS = Hash(pattern, 0, Len(pattern))
    /\ SubSeq(text, pos + 1, pos + Len(pattern)) = pattern

(* The hash of the next window. *)
Roll ==
    LET left == text[pos + 1]
        right == text[pos + Len(pattern) + 1]
        rest == Rem(hashS - Rem(left * BasePow(Len(pattern) - 1), Mod) + Mod, Mod)
    IN  Rem(rest * Base + right, Mod)

RkTurn ==
    /\ In("rk") /\ pos <= Len(text) - Len(pattern) /\ ~Found
    /\ hashS' = IF pos < Len(text) - Len(pattern) THEN Roll ELSE hashS
    /\ pos' = pos + 1
    /\ UNCHANGED <<call, at, len, next, ret>>

RkReturn ==
    /\ In("rk")
    /\ \/ pos <= Len(text) - Len(pattern) /\ Found /\ Return(pos)
       \/ pos > Len(text) - Len(pattern) /\ Return(-1)
-----------------------------------------------------------------------------
SearchNext ==
    \/ ReturnEarly
    \/ BfEnter \/ BfTurn \/ BfReturn
    \/ KmpEnter \/ FallBack \/ BuildTurn \/ BuildReturn \/ KmpTurn \/ KmpReturn
    \/ RkEnter \/ RkTurn \/ RkReturn

SearchSpec == SearchInit /\ [][SearchNext]_searchvars
-----------------------------------------------------------------------------
(* Reference: where the pattern occurs; an empty one nowhere. *)
Occurrences ==
    {p \in 0..(Len(text) - Len(pattern)) :
        pattern # <<>> /\ \A k \in 1..Len(pattern) : text[p + k] = pattern[k]}

FirstOccurrence ==
    IF Occurrences = {} THEN -1 ELSE CHOOSE p \in Occurrences : \A q \in Occurrences : p <= q

NonNegative(s) == \A k \in 1..Len(s) : s[k] >= 0

(* The three searches return the first occurrence, or -1: bfMatch and      *)
(* kmpMatch for every text, rkMatch, which rolls signed remainders, for    *)
(* texts and patterns without negative characters (those above 127).  With *)
(* those rkMatch may miss a match, but it never invents one, however many  *)
(* windows collide with the pattern's hash.                                *)
SearchesAgree ==
    at = "returned" =>
        /\ algo # "rk" \/ (NonNegative(text) /\ NonNegative(pattern)) => ret = FirstOccurrence
        /\ ret \in Occurrences \cup {-1}
=============================================================================
