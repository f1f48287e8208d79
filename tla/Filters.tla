------------------------------- MODULE Filters -------------------------------
(***************************************************************************)
(* The pure part of the query service (internal/datastore/query.go): what  *)
(* a filter matches, which key a value has in an index and in a join, how  *)
(* results are ordered.                                                    *)
(*                                                                         *)
(* A value is a pair of its Go kind and its content: <<"num", n>> (every   *)
(* numeric type; JSON gives float64), <<"str", s>>, <<"bool", b>>,         *)
(* <<"time", t>>, <<"arr", sequence of values>>, <<"map", m>> (a joined    *)
(* entity) and <<"null">>.  A string is a sequence of ASCII codes;         *)
(* <<"rfc3339", s>> is a string too, one that time.Parse turns into second *)
(* s.  Times count ticks.                                                  *)
(***************************************************************************)
EXTENDS Integers, Sequences, SequencesExt

Kind(v) == v[1]

Texts == Seq(0..127)

(* The values that the functions below distinguish. *)
IsValue(v) ==
  \/ v = <<"null">>
  \/ v \in ({"num"} \X (0..9)) \cup ({"time", "rfc3339"} \X Int)
            \cup ({"bool"} \X BOOLEAN) \cup ({"str"} \X Texts)
  \/ v = <<Kind(v), v[2]>> /\ Kind(v) \in {"arr", "map"}

TicksPerSecond == 2

(* strings.ToLower on ASCII. *)
ToLower(s) ==
  [i \in DOMAIN s |-> IF s[i] \in 65..90 THEN s[i] + 32 ELSE s[i]]

(* strings.Contains. *)
HasSubstring(s, t) ==
  \E i \in 0..(Len(s) - Len(t)) : SubSeq(s, i + 1, i + Len(t)) = t

(* strings.Fields, as the places where the words begin and end. *)
Fields(s) ==
  LET space(i) == i \notin DOMAIN s \/ s[i] = 32
  IN {w \in (DOMAIN s) \X (DOMAIN s) :
        /\ space(w[1] - 1) /\ space(w[2] + 1)
        /\ \A i \in w[1]..w[2] : ~space(i)
        /\ w[1] <= w[2]}

(* Go's < on strings: byte by byte, a prefix first. *)
StringLess(s, t) ==
  \E n \in 0..Len(s) :
    /\ n < Len(t)
    /\ SubSeq(s, 1, n) = SubSeq(t, 1, n)
    /\ n = Len(s) \/ s[n + 1] < t[n + 1]

-----------------------------------------------------------------------------
(* Fuzzy search. *)

(* A mutant: a substitution costs what the deletion before it cost. *)
NextRowWithoutDiagonal(v0, c, s) ==
  FoldLeftDomain(LAMBDA v1, j :
                   Append(v1, Min({v0[j + 1] + 1, v1[j] + 1,
                                   v0[j + 1] + (IF c = s[j] THEN 0 ELSE 1)})),
                 <<v0[1] + 1>>, s)

(* One round of the outer loop: the row v1 under v0 for character c. *)
NextRow(v0, c, s) ==
  FoldLeftDomain(LAMBDA v1, j :
                   Append(v1, Min({v0[j + 1] + 1, v1[j] + 1,
                                   v0[j] + (IF c = s[j] THEN 0 ELSE 1)})),
                 <<v0[1] + 1>>, s)

LevenshteinDistance(s1, s2) ==
  LET s == ToLower(s1)
      t == ToLower(s2)
      first == [j \in 1..(Len(t) + 1) |-> j - 1]
  IN IF s = <<>> THEN Len(t)
     ELSE IF t = <<>> THEN Len(s)
     ELSE Last(FoldLeft(LAMBDA v0, c : NextRow(v0, c, t), first, s))

(* similarity >= threshold, the threshold being th.num / th.den. *)
Similar(distance, maxLen, th) ==
  (maxLen - distance) * th.den >= th.num * maxLen

(* The edit distance by its definition: keep some characters of the one word
   in front of characters of the other, in order; the others are deleted or
   inserted, a kept pair that differs is a substitution. *)
EditDistance(s, t) ==
  LET pairs == (DOMAIN s) \X (DOMAIN t)
      alignments == {m \in SUBSET pairs :
                       \A p, q \in m : p # q => \/ p[1] < q[1] /\ p[2] < q[2]
                                                \/ q[1] < p[1] /\ q[2] < p[2]}
      cost(m) == Len(s) + Len(t) - 2 * Cardinality(m)
                   + Cardinality({p \in m : s[p[1]] # t[p[2]]})
  IN Min({cost(m) : m \in alignments})

(* The distance as the code computes it in rows, or by its definition. *)
Distance(how, s, t) ==
  IF how = "rows" THEN LevenshteinDistance(s, t) ELSE EditDistance(s, t)

(* fuzzyMatch, with the edit distance of either kind. *)
FuzzyMatch(how, s1, s2, opts) ==
  LET s == ToLower(s1)
      t == ToLower(s2)
      words1 == Fields(s)
      words2 == Fields(t)
      longest(a, b) == Max({Len(a), Len(b)})
      close(w1, w2) ==
        LET a == SubSeq(s, w1[1], w1[2])
            b == SubSeq(t, w2[1], w2[2])
        IN Similar(Distance(how, a, b), longest(a, b), opts)
      matches == {w1 \in words1 : \E w2 \in words2 : close(w1, w2)}
      required == Min({Cardinality(words1), Cardinality(words2)}) \div 2
  IN \/ HasSubstring(s, t) \/ HasSubstring(t, s)
     \/ /\ Cardinality(words1) > 1 \/ Cardinality(words2) > 1
        /\ Cardinality(matches) >= Max({1, required})
     \/ /\ Cardinality(words1) <= 1 /\ Cardinality(words2) <= 1
        /\ Distance(how, s, t) <= opts.maxDistance
        /\ Similar(Distance(how, s, t), longest(s, t), opts)

-----------------------------------------------------------------------------
(* compareValues: numbers with numbers, strings with strings, times with
   times or with strings that hold one; anything else does not compare. *)

CompareNumbers(a, operator, b) ==
  CASE operator = "gt"  -> a > b
    [] operator = "gte" -> a >= b
    [] operator = "lt"  -> a < b
    [] operator = "lte" -> a <= b

CompareStrings(a, operator, b) ==
  CASE operator = "gt"  -> StringLess(b, a)
    [] operator = "gte" -> ~StringLess(a, b)
    [] operator = "lt"  -> StringLess(a, b)
    [] operator = "lte" -> ~StringLess(b, a)

CompareValues(left, operator, right) ==
  LET kinds == <<Kind(left), Kind(right)>>
  IN \/ /\ kinds \in {<<"num", "num">>, <<"time", "time">>}
        /\ CompareNumbers(left[2], operator, right[2])
     \/ /\ kinds = <<"str", "str">>
        /\ CompareStrings(left[2], operator, right[2])
     \/ /\ kinds = <<"time", "rfc3339">>
        /\ CompareNumbers(left[2], operator, right[2] * TicksPerSecond)

(* matchesFilter. *)
BothStrings(v, w) == Kind(v) = "str" /\ Kind(w) = "str"

Elements(v) == IF Kind(v) = "arr" THEN ToSet(v[2]) ELSE {}

BothArrays(v, w) == Kind(v) = "arr" /\ Kind(w) = "arr"

(* The contains operator, on an array's elements and on a string. *)
ContainsValue(v, w) ==
  LET inString(x) == HasSubstring(ToLower(x[2]), ToLower(w[2]))
      matches(x) == IF BothStrings(x, w) THEN inString(x) ELSE x = w
  IN \/ \E x \in Elements(v) : matches(x)
     \/ BothStrings(v, w) /\ inString(v)

MatchesFilter(value, operator, w) ==
  CASE operator = "eq"  -> value = w
    [] operator = "neq" -> value # w
    [] operator \in {"gt", "gte", "lt", "lte"} ->
         CompareValues(value, operator, w)
    [] operator = "contains" -> ContainsValue(value, w)
    [] operator = "startswith" ->
         BothStrings(value, w) /\ IsPrefix(ToLower(w[2]), ToLower(value[2]))
    [] operator = "endswith" ->
         BothStrings(value, w) /\ IsSuffix(ToLower(w[2]), ToLower(value[2]))
    [] operator = "in" ->
         \/ value \in Elements(w)
         \/ Elements(value) \cap Elements(w) # {}
    [] operator = "array_contains" -> w \in Elements(value)
    [] operator = "array_contains_any" ->
         BothArrays(value, w) /\ Elements(value) \cap Elements(w) # {}
    [] operator = "array_contains_all" ->
         BothArrays(value, w) /\ Elements(w) \subseteq Elements(value)
    [] OTHER -> FALSE

-----------------------------------------------------------------------------
(* Keys. *)

(* A number or an ID of the model has one digit. *)
DecimalText(n) == <<48 + n>>

(* getIndexableValue: the text a value has as key of an index.  The JSON text
   of an array is no other value's text. *)
GetIndexableValue(v) ==
  CASE Kind(v) = "num"  -> <<"str", DecimalText(v[2])>>
    [] Kind(v) = "bool" -> <<"str", IF v[2] THEN <<116, 114, 117, 101>>
                                    ELSE <<102, 97, 108, 115, 101>>>>
    [] Kind(v) = "null" -> <<"str", <<60, 110, 105, 108, 62>>>>
    [] Kind(v) = "time" -> <<"rfc3339", v[2] \div TicksPerSecond>>
    [] OTHER -> v

(* A mutant: strings of digits are not taken for numbers. *)
KeepTextForJoin(v) == v

(* normalizeForJoinComparison: a string of digits is a number. *)
NormalizeForJoinComparison(v) ==
  IF \E n \in 0..9 : v = <<"str", DecimalText(n)>> THEN <<"num", v[2][1] - 48>>
                                                   ELSE v

(* A slice or a map cannot be a key of targetMap: the lookup panics. *)
Unhashable(v) == Kind(v) \in {"arr", "map"}

-----------------------------------------------------------------------------
(* sortEntities: the less function on the fields maps of two entities.  Two
   values of kinds that do not compare are each before the other when the
   order ascends. *)

ValueLess(v, w) ==
  LET kinds == <<Kind(v), Kind(w)>>
  IN \/ kinds \in {<<"num", "num">>, <<"time", "time">>} /\ v[2] < w[2]
     \/ kinds = <<"str", "str">> /\ StringLess(v[2], w[2])
     \/ kinds = <<"bool", "bool">> /\ ~v[2] /\ w[2]

Comparable(v, w) ==
  Kind(v) = Kind(w) /\ Kind(v) \in {"num", "time", "str", "bool"}

Less(a, b, field, descending) ==
  LET hasA == field \in DOMAIN a
      hasB == field \in DOMAIN b
  IN IF ~hasA \/ ~hasB
       THEN IF descending THEN hasA /\ ~hasB ELSE ~hasA /\ hasB
     ELSE IF Comparable(a[field], b[field])
       THEN IF descending THEN ValueLess(b[field], a[field])
                          ELSE ValueLess(a[field], b[field])
     ELSE Kind(a[field]) # "num" /\ ~descending
=============================================================================
