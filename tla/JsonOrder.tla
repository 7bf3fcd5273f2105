----------------------------- MODULE JsonOrder ------------------------------
(***************************************************************************)
(* operator== and operator< of values of every type.                       *)
(***************************************************************************)
EXTENDS JsonValue

RECURSIVE Equals(_, _)
Equals(a, b) ==
    CASE IsNumber(a) /\ IsNumber(b) -> NumbersEqual(a, b)
      [] a[1] # b[1] \/ IsDiscarded(a) -> FALSE
      [] IsArray(a) /\ IsArray(b) ->
            /\ Len(a[2]) = Len(b[2])
            /\ \A i \in DOMAIN a[2] : Equals(a[2][i], b[2][i])
      [] IsObject(a) /\ IsObject(b) ->
            /\ Len(a[2]) = Len(b[2])
            /\ \A i \in DOMAIN a[2] : a[2][i][1] = b[2][i][1] /\ Equals(a[2][i][2], b[2][i][2])
      [] OTHER -> a = b

\* operator< of value_t.
TypeLess(s, t) ==
    LET order == [null |-> 0, boolean |-> 1, unsigned |-> 2, integer |-> 2, float |-> 2,
                  object |-> 3, array |-> 4, string |-> 5]
    IN s # "discarded" /\ t # "discarded" /\ order[s] < order[t]

\* std::lexicographical_compare
SequenceLess(s, t, Less(_, _)) ==
    \E i \in 1..Len(t) :
        /\ i <= Len(s) + 1
        /\ \A k \in 1..(i - 1) : ~Less(s[k], t[k]) /\ ~Less(t[k], s[k])
        /\ i <= Len(s) => Less(s[i], t[i])

RECURSIVE JsonLess(_, _)
PairLess(p, q) == LexLess(p[1], q[1]) \/ (p[1] = q[1] /\ JsonLess(p[2], q[2]))
JsonLess(a, b) ==
    CASE IsNumber(a) /\ IsNumber(b) -> NumbersLess(a, b)
      [] a[1] # b[1] -> TypeLess(a[1], b[1])
      [] IsArray(a) /\ IsArray(b) -> SequenceLess(a[2], b[2], JsonLess)
      [] IsObject(a) /\ IsObject(b) -> SequenceLess(a[2], b[2], PairLess)
      [] IsString(a) /\ IsString(b) -> LexLess(a[2], b[2])
      [] IsBoolean(a) /\ IsBoolean(b) -> ~a[2] /\ b[2]
      [] OTHER -> FALSE

=============================================================================
