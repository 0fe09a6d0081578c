---------------------------- MODULE PluginProofs ----------------------------
(***************************************************************************)
(* The properties of what the clang plugins write, for any source files:   *)
(* the names of types (TypeNames), and which row of functionParams.csv the *)
(* Librarify pass takes for a function (FunctionMatch).  The two modules   *)
(* share no state; each half has an inductive invariant of its own, IInv   *)
(* for the names and MatchIInv for the rows.                               *)
(***************************************************************************)
EXTENDS TypeNames, FunctionMatch, WellFoundedInduction, SequenceTheorems, TLAPS

-----------------------------------------------------------------------------
(* Induction over the natural numbers, with a set for the formula. *)

LEMMA LeastNatural ==
  ASSUME NEW T, T \subseteq Nat, T # {}
  PROVE  \E x \in T : \A y \in T : x <= y
<1>1. PICK R : R = OpToRel(<, Nat)
  OBVIOUS
<1>2. \E x \in T : \A y \in T : <<y, x>> \notin R
  BY <1>1, NatLessThanWellFounded, WFMin
<1>3. \A x \in Nat, y \in Nat : y < x => <<y, x>> \in R
  BY <1>1 DEF OpToRel
<1>4. \A x \in Nat, y \in Nat : ~(y < x) => x <= y
  OBVIOUS
<1>5. PICK x \in T : \A y \in T : <<y, x>> \notin R
  BY <1>2
<1>6. ASSUME NEW y \in T PROVE x <= y
  BY <1>3, <1>4, <1>5
<1>7. QED
  BY <1>5, <1>6

LEMMA Induct ==
  ASSUME NEW S, 0 \in S, \A n \in Nat : n \in S => n + 1 \in S
  PROVE  Nat \subseteq S
<1> PICK T : T = Nat \ S
  OBVIOUS
<1>1. CASE T = {}
  BY <1>1
<1>2. CASE T # {}
  <2>1. PICK x \in T : \A y \in T : x <= y
    BY <1>2, LeastNatural
  <2>2. x \in Nat /\ x # 0 /\ x - 1 \in Nat /\ ~(x <= x - 1) /\ (x - 1) + 1 = x
    BY <2>1
  <2>3. x - 1 \in S
    BY <2>1, <2>2
  <2>4. QED
    BY <2>1, <2>2, <2>3
<1>3. QED
  BY <1>1, <1>2

\* Where each value leads to the next, there is a function of the first n of them.
Leads(V, a, step, n) ==
  \E f \in [0..n -> V] : f[0] = a /\ \A k \in 1..n : f[k] = step[<<k, f[k - 1]>>]

LEMMA Recursion ==
  ASSUME NEW V, NEW a \in V, NEW step \in [Nat \X V -> V]
  PROVE  \A n \in Nat : Leads(V, a, step, n)
<1> DEFINE S == {n \in Nat : Leads(V, a, step, n)}
<1>1. 0 \in S
  <2>1. PICK f : f = [k \in 0..0 |-> a]
    OBVIOUS
  <2>2. f \in [0..0 -> V] /\ f[0] = a /\ \A k \in 1..0 : f[k] = step[<<k, f[k - 1]>>]
    BY <2>1
  <2>3. QED
    BY <2>2 DEF Leads
<1>2. ASSUME NEW n \in Nat, n \in S PROVE n + 1 \in S
  <2>1. PICK f \in [0..n -> V] : f[0] = a /\ \A k \in 1..n : f[k] = step[<<k, f[k - 1]>>]
    BY <1>2 DEF Leads
  <2>2. PICK v \in V : v = step[<<n + 1, f[n]>>]
    <3>1. f[n] \in V /\ n + 1 \in Nat
      OBVIOUS
    <3>2. QED
      BY <3>1
  <2>3. PICK g : g = [k \in 0..n + 1 |-> IF k = n + 1 THEN v ELSE f[k]]
    OBVIOUS
  <2>4. g \in [0..n + 1 -> V]
    BY <2>3
  <2>5. \A k \in 0..n : g[k] = f[k]
    BY <2>3
  <2>6. g[n + 1] = v
    BY <2>3
  <2>7. ASSUME NEW k \in 1..n + 1 PROVE g[k] = step[<<k, g[k - 1]>>]
    <3>1. CASE k = n + 1
      BY <3>1, <2>2, <2>5, <2>6
    <3>2. CASE k \in 1..n
      <4>1. k - 1 \in 0..n /\ k \in 0..n
        BY <3>2
      <4>2. QED
        BY <3>2, <4>1, <2>1, <2>5
    <3>3. QED
      BY <3>1, <3>2
  <2>8. g[0] = a
    BY <2>1, <2>5
  <2>9. QED
    BY <2>4, <2>7, <2>8 DEF Leads
<1> HIDE DEF S
<1>3. Nat \subseteq S
  BY <1>1, <1>2, Induct
<1>4. QED
  BY <1>3 DEF S

-----------------------------------------------------------------------------
(* The names of types. *)

\* What the name of a type with this leaf may be, if the leaf has no brackets.
CsvNames(leaf) == [leaf : {leaf, "void", "unknown.", "unknown[]"}, suffixes : Seq(Behind)]

\* FixTypeName with the first k suffixes of a type.
NamedUpTo(names, T) ==
  CHOOSE named : named = [k \in 0..Len(T.suffixes) |->
    IF k = 0 THEN NamedLeaf(names, T.leaf) ELSE Suffixed(named[k - 1], T.suffixes[k])]

LEMMA SuffixedIsName ==
  ASSUME NEW leaf, NEW N \in CsvNames(leaf), NEW x \in Behind
  PROVE  Suffixed(N, x) \in CsvNames(leaf)
<1>1. \A y \in Behind : Append(N.suffixes, y) \in Seq(Behind)
  BY DEF CsvNames
<1>2. \A y \in Behind : With(N, y) \in CsvNames(leaf)
  BY <1>1 DEF CsvNames, With, Named
<1>3. "*" \in Behind /\ "[n]" \in Behind
  BY DEF Behind
<1>4. <<>> \in Seq(Behind) /\ <<"*">> \in Seq(Behind)
  BY <1>3
<1>5. Unknown \in CsvNames(leaf) /\ Unsized \in CsvNames(leaf) /\ VoidPtr \in CsvNames(leaf)
  BY <1>4 DEF CsvNames, Unknown, Unsized, VoidPtr, Named
<1>6. QED
  BY <1>2, <1>3, <1>5 DEF Suffixed

\* The function of FixTypeName exists, so that its equation can be used.
LEMMA NamedUpToFacts ==
  ASSUME NEW names, NEW T, IsSource(T)
  PROVE  /\ Len(T.suffixes) \in Nat /\ DOMAIN T.suffixes = 1..Len(T.suffixes)
         /\ \A k \in 1..Len(T.suffixes) : T.suffixes[k] \in Behind
         /\ NamedUpTo(names, T) \in [0..Len(T.suffixes) -> CsvNames(T.leaf)]
         /\ NamedUpTo(names, T)[0] = NamedLeaf(names, T.leaf)
         /\ \A k \in 1..Len(T.suffixes) :
              NamedUpTo(names, T)[k] = Suffixed(NamedUpTo(names, T)[k - 1], T.suffixes[k])
         /\ FixTypeName(names, T) =
              IF T.leaf = Bracketed THEN Refused ELSE NamedUpTo(names, T)[Len(T.suffixes)]
<1> DEFINE n == Len(T.suffixes)
           a == NamedLeaf(names, T.leaf)
           S(k, N) == IF k \in 1..n THEN Suffixed(N, T.suffixes[k]) ELSE N
<1>1. T.suffixes \in Seq(Behind)
  BY DEF IsSource
<1>2. n \in Nat /\ DOMAIN T.suffixes = 1..n /\ \A k \in 1..n : T.suffixes[k] \in Behind
  BY <1>1
<1>3. a \in CsvNames(T.leaf)
  <2>1. <<>> \in Seq(Behind)
    OBVIOUS
  <2>2. QED
    BY <2>1 DEF NamedLeaf, CsvNames, Unknown, Named
<1>4. PICK step : step = [p \in Nat \X CsvNames(T.leaf) |-> S(p[1], p[2])]
  OBVIOUS
<1>5. step \in [Nat \X CsvNames(T.leaf) -> CsvNames(T.leaf)]
  <2>1. ASSUME NEW k \in Nat, NEW N \in CsvNames(T.leaf) PROVE S(k, N) \in CsvNames(T.leaf)
    BY <1>2, SuffixedIsName
  <2> HIDE DEF S
  <2>2. QED
    BY <1>4, <2>1
<1>6. PICK f \in [0..n -> CsvNames(T.leaf)] : f[0] = a /\ \A k \in 1..n : f[k] = step[<<k, f[k - 1]>>]
  <2>1. PICK V : V = CsvNames(T.leaf)
    OBVIOUS
  <2> HIDE DEF n, a
  <2>2. PICK b : b = a
    OBVIOUS
  <2>3. b \in V /\ step \in [Nat \X V -> V]
    BY <1>3, <1>5, <2>1, <2>2
  <2>4. Leads(V, b, step, n)
    BY <1>2, <2>3, Recursion
  <2>5. QED
    BY <2>1, <2>2, <2>4 DEF Leads
<1>7. \A k \in 1..n : f[k] = Suffixed(f[k - 1], T.suffixes[k])
  <2>1. ASSUME NEW k \in 1..n PROVE f[k] = Suffixed(f[k - 1], T.suffixes[k])
    <3>1. k \in Nat /\ k - 1 \in 0..n
      BY <1>2
    <3>2. f[k - 1] \in CsvNames(T.leaf)
      BY <3>1
    <3>3. step[<<k, f[k - 1]>>] = S(k, f[k - 1])
      <4> HIDE DEF S
      <4>1. QED
        BY <1>4, <3>1, <3>2
    <3>4. QED
      BY <1>6, <3>3
  <2>2. QED
    BY <2>1
<1>8. f = [k \in 0..n |-> IF k = 0 THEN a ELSE Suffixed(f[k - 1], T.suffixes[k])]
  <2>1. \A k \in 0..n : f[k] = IF k = 0 THEN a ELSE Suffixed(f[k - 1], T.suffixes[k])
    BY <1>2, <1>6, <1>7
  <2>2. QED
    BY <2>1
<1>9. PICK g : g = NamedUpTo(names, T)
  OBVIOUS
<1>10. g = [k \in 0..n |-> IF k = 0 THEN a ELSE Suffixed(g[k - 1], T.suffixes[k])]
  BY <1>8, <1>9 DEF NamedUpTo
<1>11. FixTypeName(names, T) = IF T.leaf = Bracketed THEN Refused ELSE g[n]
  BY <1>9 DEF FixTypeName, NamedUpTo
<1> HIDE DEF a, n
<1>12. g[0] = a
  BY <1>2, <1>10
<1>13. \A k \in 1..n : g[k] = Suffixed(g[k - 1], T.suffixes[k])
  BY <1>2, <1>10
<1>14. g \in [0..n -> CsvNames(T.leaf)]
  <2> DEFINE I == {k \in Nat : k <= n => g[k] \in CsvNames(T.leaf)}
  <2>1. 0 \in I
    BY <1>3, <1>12
  <2>2. ASSUME NEW k \in Nat, k \in I PROVE k + 1 \in I
    <3>1. CASE k + 1 <= n
      <4>1. k <= n /\ k + 1 \in 1..n /\ (k + 1) - 1 = k
        BY <1>2, <3>1
      <4>2. g[k + 1] = Suffixed(g[k], T.suffixes[k + 1])
        BY <1>13, <4>1
      <4>3. QED
        BY <2>2, <4>1, <4>2, <1>2, SuffixedIsName
    <3>2. QED
      BY <3>1
  <2> HIDE DEF I
  <2>3. Nat \subseteq I
    BY <2>1, <2>2, Induct
  <2>4. \A k \in 0..n : g[k] \in CsvNames(T.leaf)
    BY <1>2, <2>3 DEF I
  <2>5. QED
    BY <1>10, <2>4
<1>15. QED
  BY <1>2, <1>9, <1>11, <1>12, <1>13, <1>14 DEF a, n

\* What happens to a name with something behind it.
LEMMA SuffixedCases ==
  ASSUME NEW N, NEW x \in Behind
  PROVE  \/ x = "const" /\ Suffixed(N, x) = Unknown
         \/ x = "[]" /\ Suffixed(N, x) = Unsized
         \/ x = "*" /\ IsUnknown(N) /\ Suffixed(N, x) = VoidPtr
         \/ x \in {"&&", "const *", "[n]"} /\ IsUnknown(N) /\ Suffixed(N, x) = N
         \/ x = "[n]" /\ ~IsUnknown(N) /\ Suffixed(N, x) = With(N, "[n]")
         \/ x \in {"*", "&&", "const *"} /\ ~IsUnknown(N) /\ Suffixed(N, x) = With(N, "*")
BY DEF Behind, Suffixed

LEMMA WithFacts ==
  ASSUME NEW leaf, NEW N \in CsvNames(leaf), NEW x \in Behind
  PROVE  /\ With(N, x).leaf = N.leaf /\ With(N, x).suffixes = Append(N.suffixes, x)
         /\ N.suffixes \in Seq(Behind)
         /\ Len(With(N, x).suffixes) = Len(N.suffixes) + 1
         /\ \A j \in 1..Len(N.suffixes) : With(N, x).suffixes[j] = N.suffixes[j]
         /\ With(N, x).suffixes[Len(N.suffixes) + 1] = x
         /\ ~IsUnknown(With(N, x))
<1>1. With(N, x).leaf = N.leaf /\ With(N, x).suffixes = Append(N.suffixes, x)
  BY DEF With, Named
<1>2. N.suffixes \in Seq(Behind)
  BY DEF CsvNames
<1>3. /\ Len(Append(N.suffixes, x)) = Len(N.suffixes) + 1
      /\ \A j \in 1..Len(N.suffixes) : Append(N.suffixes, x)[j] = N.suffixes[j]
      /\ Append(N.suffixes, x)[Len(N.suffixes) + 1] = x
      /\ Len(N.suffixes) \in Nat
  BY <1>2
<1>4. With(N, x).suffixes # <<>>
  <2>1. Len(<<>>) = 0 /\ Len(N.suffixes) + 1 # 0
    BY <1>3
  <2>2. QED
    BY <1>1, <1>3, <2>1
<1>5. Refused.suffixes = <<>> /\ Unknown.suffixes = <<>> /\ Unsized.suffixes = <<>>
  BY DEF Refused, Unknown, Unsized, Named
<1>6. ~IsUnknown(With(N, x))
  BY <1>4, <1>5 DEF IsUnknown
<1>7. QED
  BY <1>1, <1>2, <1>3, <1>6

LEMMA UnknownFacts ==
  /\ Unknown.leaf = "unknown." /\ Unsized.leaf = "unknown[]" /\ Refused.leaf = "unknown"
  /\ VoidPtr.leaf = "void" /\ VoidPtr.suffixes = <<"*">>
  /\ IsUnknown(Unknown) /\ IsUnknown(Unsized) /\ ~IsUnknown(VoidPtr)
  /\ \A N : IsUnknown(N) => N.leaf \in {"unknown", "unknown.", "unknown[]"}
BY DEF IsUnknown, Unknown, Unsized, Refused, VoidPtr, Named

\* A name whose leaf is one of Names is that of a known type, and has the type's suffixes.
NamedAfter(names, T, N, k) ==
  N.leaf \in Names =>
    /\ N.leaf = T.leaf /\ KnownIn(names, T.leaf)
    /\ Len(N.suffixes) = k
    /\ \A j \in 1..k : N.suffixes[j] = "*" \/ (N.suffixes[j] = "[n]" /\ T.suffixes[j] = "[n]")

LEMMA NamedAfterUpTo ==
  ASSUME NEW names, NEW T, IsSource(T), NEW k \in 0..Len(T.suffixes)
  PROVE  NamedAfter(names, T, NamedUpTo(names, T)[k], k)
<1> DEFINE n == Len(T.suffixes)
           g == NamedUpTo(names, T)
           I == {i \in Nat : i <= n => NamedAfter(names, T, g[i], i)}
<1>1. n \in Nat /\ \A i \in 1..n : T.suffixes[i] \in Behind
  BY NamedUpToFacts
<1>2. g \in [0..n -> CsvNames(T.leaf)] /\ g[0] = NamedLeaf(names, T.leaf)
  BY NamedUpToFacts
<1>3. \A i \in 1..n : g[i] = Suffixed(g[i - 1], T.suffixes[i])
  BY NamedUpToFacts
<1> HIDE DEF g
<1>4. {"void", "unknown", "unknown.", "unknown[]"} \cap Names = {}
  BY NamesAssumption
<1>5. 0 \in I
  <2>1. NamedAfter(names, T, g[0], 0)
    <3>1. CASE g[0] = Unknown
      BY <3>1, <1>4, UnknownFacts DEF NamedAfter
    <3>2. CASE g[0] # Unknown
      <4>1. g[0].leaf = T.leaf /\ g[0].suffixes = <<>> /\ (T.leaf \in Names => KnownIn(names, T.leaf))
        BY <3>2, <1>2 DEF NamedLeaf, Named
      <4>2. QED
        BY <4>1 DEF NamedAfter
    <3>3. QED
      BY <3>1, <3>2
  <2>2. QED
    BY <2>1
<1>6. ASSUME NEW i \in Nat, i \in I PROVE i + 1 \in I
  <2> SUFFICES ASSUME i + 1 <= n PROVE NamedAfter(names, T, g[i + 1], i + 1)
    OBVIOUS
  <2>1. i + 1 \in 1..n /\ i \in 0..n /\ (i + 1) - 1 = i /\ i <= n
    BY <1>1
  <2>2. PICK N : N = g[i]
    OBVIOUS
  <2>3. PICK x : x = T.suffixes[i + 1]
    OBVIOUS
  <2>4. /\ N \in CsvNames(T.leaf) /\ x \in Behind /\ g[i + 1] = Suffixed(N, x)
        /\ NamedAfter(names, T, N, i)
    BY <1>1, <1>2, <1>3, <1>6, <2>1, <2>2, <2>3
  <2>5. CASE \/ Suffixed(N, x) \in {Unknown, Unsized}
             \/ Suffixed(N, x) \in {VoidPtr, N} /\ IsUnknown(N)
    <3>1. g[i + 1].leaf \notin Names
      BY <2>4, <2>5, <1>4, UnknownFacts
    <3>2. QED
      BY <3>1 DEF NamedAfter
  <2>6. ASSUME NEW y \in {"*", "[n]"}, Suffixed(N, x) = With(N, y), y = "[n]" => x = "[n]"
        PROVE  NamedAfter(names, T, g[i + 1], i + 1)
    <3>1. y \in Behind
      BY DEF Behind
    <3>2. PICK M : M = With(N, y)
      OBVIOUS
    <3>3. /\ M.leaf = N.leaf /\ Len(M.suffixes) = Len(N.suffixes) + 1
          /\ \A j \in 1..Len(N.suffixes) : M.suffixes[j] = N.suffixes[j]
          /\ M.suffixes[Len(N.suffixes) + 1] = y
      BY <2>4, <3>1, <3>2, WithFacts
    <3>4. ASSUME N.leaf \in Names PROVE NamedAfter(names, T, M, i + 1)
      <4>1. /\ N.leaf = T.leaf /\ KnownIn(names, T.leaf) /\ Len(N.suffixes) = i
            /\ \A j \in 1..i : N.suffixes[j] = "*" \/ (N.suffixes[j] = "[n]" /\ T.suffixes[j] = "[n]")
        BY <2>4, <3>4 DEF NamedAfter
      <4>2. ASSUME NEW j \in 1..i + 1
            PROVE  M.suffixes[j] = "*" \/ (M.suffixes[j] = "[n]" /\ T.suffixes[j] = "[n]")
        <5>1. CASE j = i + 1
          <6>1. M.suffixes[j] = y /\ T.suffixes[j] = x
            BY <5>1, <3>3, <4>1, <2>3
          <6>2. QED
            BY <6>1, <2>6
        <5>2. CASE j \in 1..i
          BY <5>2, <3>3, <4>1
        <5>3. QED
          BY <5>1, <5>2
      <4>3. QED
        BY <3>3, <4>1, <4>2 DEF NamedAfter
    <3>5. QED
      BY <2>4, <2>6, <3>2, <3>3, <3>4 DEF NamedAfter
  <2>7. \/ Suffixed(N, x) \in {Unknown, Unsized}
        \/ Suffixed(N, x) \in {VoidPtr, N} /\ IsUnknown(N)
        \/ Suffixed(N, x) = With(N, "[n]") /\ x = "[n]"
        \/ Suffixed(N, x) = With(N, "*")
    BY <2>4, SuffixedCases
  <2>8. QED
    BY <2>5, <2>6, <2>7
<1> HIDE DEF I
<1>7. Nat \subseteq I
  BY <1>5, <1>6, Induct
<1>8. QED
  BY <1>1, <1>7 DEF I, g

\* The same of the whole type.
LEMMA NameOfNames ==
  ASSUME NEW names, NEW T, IsSource(T), NEW N, N = FixTypeName(names, T), N.leaf \in Names
  PROVE  N.leaf = T.leaf /\ KnownIn(names, T.leaf) /\ (ByValue(N) => ByValue(T))
<1>1. T.leaf # Bracketed
  BY NamesAssumption, UnknownFacts, NamedUpToFacts
<1>2. PICK n : n = Len(T.suffixes)
  OBVIOUS
<1>3. n \in Nat /\ DOMAIN T.suffixes = 1..n /\ N = NamedUpTo(names, T)[n]
  BY <1>1, <1>2, NamedUpToFacts
<1>4. N \in CsvNames(T.leaf)
  BY <1>2, <1>3, NamedUpToFacts
<1>5. NamedAfter(names, T, N, n)
  BY <1>2, <1>3, NamedAfterUpTo
<1>6. /\ N.leaf = T.leaf /\ KnownIn(names, T.leaf) /\ Len(N.suffixes) = n
      /\ \A j \in 1..n : N.suffixes[j] = "*" \/ (N.suffixes[j] = "[n]" /\ T.suffixes[j] = "[n]")
  BY <1>5 DEF NamedAfter
<1>7. DOMAIN N.suffixes = 1..n
  BY <1>4, <1>6 DEF CsvNames
<1>8. QED
  BY <1>3, <1>6, <1>7 DEF ByValue

\* A type that can be spelled is not called unknown as one that cannot.
LEMMA NotRefused ==
  ASSUME NEW names, NEW T, IsSource(T), T.leaf # Bracketed
  PROVE  FixTypeName(names, T) # Refused
<1>1. FixTypeName(names, T) \in CsvNames(T.leaf)
  BY NamedUpToFacts
<1>2. FixTypeName(names, T).leaf \in {T.leaf, "void", "unknown.", "unknown[]"}
  BY <1>1 DEF CsvNames
<1>3. T.leaf # "unknown"
  BY DEF IsSource
<1>4. QED
  BY <1>2, <1>3, UnknownFacts

\* A value of a known type is called by the name.
LEMMA KnownIsNamed ==
  ASSUME NEW names, NEW T, IsSource(T), T.leaf \in Names, KnownIn(names, T.leaf),
         ByValue(T), ~Contains(T.suffixes, "[]")
  PROVE  FixTypeName(names, T) = Named(T.leaf, T.suffixes)
<1> DEFINE n == Len(T.suffixes)
           g == NamedUpTo(names, T)
           P(N, k) == /\ N.leaf = T.leaf /\ Len(N.suffixes) = k
                      /\ \A j \in 1..k : N.suffixes[j] = T.suffixes[j]
           I == {i \in Nat : i <= n => P(g[i], i)}
<1>1. n \in Nat /\ DOMAIN T.suffixes = 1..n /\ T.suffixes \in Seq(Behind)
  BY NamedUpToFacts DEF IsSource
<1>2. g \in [0..n -> CsvNames(T.leaf)] /\ g[0] = NamedLeaf(names, T.leaf)
  BY NamedUpToFacts
<1>3. \A i \in 1..n : g[i] = Suffixed(g[i - 1], T.suffixes[i])
  BY NamedUpToFacts
<1>4. \A i \in 1..n : T.suffixes[i] = "[n]"
  BY <1>1 DEF ByValue, Contains
<1>5. FixTypeName(names, T) = g[n]
  BY NamedUpToFacts, NamesAssumption
<1> HIDE DEF g
<1>6. 0 \in I
  <2>1. g[0] = Named(T.leaf, <<>>) /\ Len(<<>>) = 0
    BY <1>2 DEF NamedLeaf
  <2>2. QED
    BY <2>1 DEF Named
<1>7. ASSUME NEW i \in Nat, i \in I PROVE i + 1 \in I
  <2> SUFFICES ASSUME i + 1 <= n PROVE P(g[i + 1], i + 1)
    OBVIOUS
  <2>1. i + 1 \in 1..n /\ i \in 0..n /\ (i + 1) - 1 = i /\ i <= n
    BY <1>1
  <2>2. PICK N : N = g[i]
    OBVIOUS
  <2>3. N \in CsvNames(T.leaf) /\ P(N, i) /\ T.suffixes[i + 1] = "[n]" /\ g[i + 1] = Suffixed(N, "[n]")
    BY <1>2, <1>3, <1>4, <1>7, <2>1, <2>2
  <2>4. ~IsUnknown(N)
    BY <2>3, NamesAssumption, UnknownFacts
  <2>5. "[n]" \in Behind
    BY DEF Behind
  <2>6. g[i + 1] = With(N, "[n]")
    BY <2>3, <2>4, <2>5, SuffixedCases
  <2>7. /\ g[i + 1].leaf = N.leaf /\ Len(g[i + 1].suffixes) = Len(N.suffixes) + 1
        /\ \A j \in 1..Len(N.suffixes) : g[i + 1].suffixes[j] = N.suffixes[j]
        /\ g[i + 1].suffixes[Len(N.suffixes) + 1] = "[n]"
    BY <2>3, <2>5, <2>6, WithFacts
  <2>8. ASSUME NEW j \in 1..i + 1 PROVE g[i + 1].suffixes[j] = T.suffixes[j]
    <3>1. CASE j = i + 1
      BY <3>1, <2>3, <2>7
    <3>2. CASE j \in 1..i
      BY <3>2, <2>3, <2>7
    <3>3. QED
      BY <3>1, <3>2
  <2>9. QED
    BY <2>3, <2>7, <2>8
<1> HIDE DEF I
<1>8. Nat \subseteq I
  BY <1>6, <1>7, Induct
<1>9. PICK N : N = g[n]
  OBVIOUS
<1>10. N \in CsvNames(T.leaf) /\ P(N, n)
  BY <1>1, <1>2, <1>8, <1>9 DEF I
<1>11. N.suffixes \in Seq(Behind) /\ N = [leaf |-> N.leaf, suffixes |-> N.suffixes]
  BY <1>10 DEF CsvNames
<1>12. N.suffixes = T.suffixes
  BY <1>1, <1>10, <1>11
<1>13. QED
  BY <1>5, <1>9, <1>10, <1>11, <1>12 DEF Named

LEMMA SuffixedUnknown ==
  ASSUME NEW leaf, NEW N \in CsvNames(leaf), NEW x \in Behind
  PROVE  IsUnknown(Suffixed(N, x)) <=> \/ x \in {"const", "[]"}
                                       \/ x # "*" /\ IsUnknown(N)
<1>1. ~IsUnknown(With(N, "*")) /\ ~IsUnknown(With(N, "[n]"))
  <2>1. "*" \in Behind /\ "[n]" \in Behind
    BY DEF Behind
  <2>2. QED
    BY <2>1, WithFacts
<1>2. QED
  BY <1>1, UnknownFacts, SuffixedCases

\* A type that has a name when many names are known, and none when few are, is one of Names,
\* and not a pointer.
LEMMA MoreKnown ==
  ASSUME NEW few, NEW many, NEW T, IsSource(T),
         IsUnknown(FixTypeName(few, T)), ~IsUnknown(FixTypeName(many, T))
  PROVE  T.leaf \in Names /\ ~KnownIn(few, T.leaf) /\ KnownIn(many, T.leaf) /\ ~IsPointer(T)
<1> DEFINE n == Len(T.suffixes)
           f == NamedUpTo(few, T)
           g == NamedUpTo(many, T)
           I == {m \in Nat : m <= n => /\ IsUnknown(f[n - m]) /\ ~IsUnknown(g[n - m])
                                      /\ \A j \in n - m + 1..n : T.suffixes[j] \notin {"const", "[]", "*"}}
<1>1. n \in Nat /\ DOMAIN T.suffixes = 1..n /\ \A i \in 1..n : T.suffixes[i] \in Behind
  BY NamedUpToFacts
<1>2. /\ f \in [0..n -> CsvNames(T.leaf)] /\ f[0] = NamedLeaf(few, T.leaf)
      /\ g \in [0..n -> CsvNames(T.leaf)] /\ g[0] = NamedLeaf(many, T.leaf)
  BY NamedUpToFacts
<1>3. \A i \in 1..n : f[i] = Suffixed(f[i - 1], T.suffixes[i])
  BY NamedUpToFacts
<1>4. \A i \in 1..n : g[i] = Suffixed(g[i - 1], T.suffixes[i])
  BY NamedUpToFacts
<1>5. T.leaf # Bracketed
  BY NamedUpToFacts, UnknownFacts DEF IsUnknown
<1>6. IsUnknown(f[n]) /\ ~IsUnknown(g[n])
  BY <1>5, NamedUpToFacts
<1> HIDE DEF f, g
<1>7. 0 \in I
  BY <1>1, <1>6
<1>8. ASSUME NEW m \in Nat, m \in I PROVE m + 1 \in I
  <2>1. CASE m + 1 <= n
    <3>1. PICK i : i = n - m
      OBVIOUS
    <3>2. i \in 1..n /\ i - 1 \in 0..n /\ n - (m + 1) = i - 1 /\ m <= n
      BY <1>1, <2>1, <3>1
    <3>3. PICK x : x = T.suffixes[i]
      OBVIOUS
    <3>4. IsUnknown(f[i]) /\ f[i] = Suffixed(f[i - 1], x) /\ f[i - 1] \in CsvNames(T.leaf) /\ x \in Behind
      BY <1>1, <1>2, <1>3, <1>8, <3>1, <3>2, <3>3
    <3>5. ~IsUnknown(g[i]) /\ g[i] = Suffixed(g[i - 1], x) /\ g[i - 1] \in CsvNames(T.leaf)
      BY <1>2, <1>4, <1>8, <3>1, <3>2, <3>3
    <3>6. x \notin {"const", "[]", "*"} /\ IsUnknown(f[i - 1]) /\ ~IsUnknown(g[i - 1])
      BY <3>4, <3>5, SuffixedUnknown
    <3>7. ASSUME NEW j \in (i - 1) + 1..n PROVE T.suffixes[j] \notin {"const", "[]", "*"}
      <4>1. CASE j = i
        BY <4>1, <3>3, <3>6
      <4>2. CASE j \in n - m + 1..n
        BY <4>2, <1>8, <3>2
      <4>3. QED
        BY <1>1, <3>1, <3>2, <4>1, <4>2
    <3>8. QED
      BY <3>2, <3>6, <3>7
  <2>2. QED
    BY <2>1
<1> HIDE DEF I
<1>9. Nat \subseteq I
  BY <1>7, <1>8, Induct
<1>10. /\ IsUnknown(f[0]) /\ ~IsUnknown(g[0])
       /\ \A j \in 1..n : T.suffixes[j] \notin {"const", "[]", "*"}
  <2>1. n - n = 0 /\ n - n + 1 = 1 /\ n <= n /\ n \in I
    BY <1>1, <1>9
  <2>2. QED
    BY <2>1 DEF I
<1>11. ~IsUnknown(Named(T.leaf, <<>>))
  <2>1. PICK N : N = Named(T.leaf, <<>>)
    OBVIOUS
  <2>2. N.leaf = T.leaf /\ T.leaf \notin {"unknown", "unknown.", "unknown[]"}
    BY <2>1 DEF IsSource, Named
  <2>3. QED
    BY <2>1, <2>2, UnknownFacts
<1>12. T.leaf \in Names /\ ~KnownIn(few, T.leaf) /\ KnownIn(many, T.leaf)
  BY <1>2, <1>10, <1>11, UnknownFacts DEF NamedLeaf
<1>13. ASSUME IsPointer(T) PROVE FALSE
  <2> DEFINE C == {j \in 1..n : T.suffixes[j] = "const *"}
  <2>1. C \subseteq Nat /\ C # {}
    <3>1. PICK j \in 1..n : T.suffixes[j] \notin {"[n]", "[]", "&&"}
      BY <1>1, <1>13 DEF IsPointer
    <3>2. PICK x : x = T.suffixes[j]
      OBVIOUS
    <3>3. x \in Behind /\ x \notin {"const", "[]", "*"} /\ x \notin {"[n]", "[]", "&&"}
      BY <1>1, <1>10, <3>1, <3>2
    <3>4. x = "const *"
      BY ONLY <3>3 DEF Behind
    <3>5. j \in C
      BY <3>2, <3>4
    <3>6. C \subseteq Nat
      <4>1. n \in Nat
        BY <1>1
      <4> HIDE DEF n
      <4>2. \A i \in C : i \in 1..n
        OBVIOUS
      <4>3. \A i \in 1..n : i \in Nat
        BY <4>1
      <4>4. QED
        BY <4>2, <4>3
    <3>7. QED
      BY <3>5, <3>6
  <2>2. PICK j \in C : \A i \in C : j <= i
    <3> HIDE DEF C
    <3>1. QED
      BY <2>1, LeastNatural
  <2>3. j > 1 /\ T.suffixes[j - 1] \in {"*", "const *"}
    <3>1. j \in DOMAIN T.suffixes /\ T.suffixes[j] \in {"const", "const *"}
      BY <1>1, <2>2
    <3>2. QED
      BY <3>1 DEF IsSource
  <2>4. j - 1 \in 1..n /\ ~(j <= j - 1)
    <3>1. j \in 1..n /\ j > 1
      BY <2>2, <2>3
    <3> HIDE DEF n, C
    <3>2. QED
      BY <1>1, <3>1
  <2>5. QED
    BY <1>10, <2>2, <2>3, <2>4
<1>14. QED
  BY <1>12, <1>13

-----------------------------------------------------------------------------
(* What a name says of its type. *)

LEMMA ReverseFacts ==
  ASSUME NEW S, NEW s \in Seq(S)
  PROVE  /\ Reverse(s) \in Seq(S) /\ Len(Reverse(s)) = Len(s)
         /\ \A i \in 1..Len(s) : Reverse(s)[i] = s[Len(s) - i + 1]
<1>1. \A i \in 1..Len(s) : s[(Len(s) - i) + 1] \in S
  OBVIOUS
<1>2. QED
  BY <1>1 DEF Reverse

\* A suffix by its elements.
LEMMA SuffixByElements ==
  ASSUME NEW S, NEW s \in Seq(S), NEW t \in Seq(S)
  PROVE  IsSuffix(s, t) <=> /\ Len(s) <= Len(t)
                            /\ \A i \in 1..Len(s) : s[Len(s) - i + 1] = t[Len(t) - i + 1]
<1>1. PICK r : r = Reverse(s)
  OBVIOUS
<1>2. PICK q : q = Reverse(t)
  OBVIOUS
<1>3. /\ r \in Seq(S) /\ Len(r) = Len(s) /\ \A i \in 1..Len(s) : r[i] = s[Len(s) - i + 1]
      /\ q \in Seq(S) /\ Len(q) = Len(t) /\ \A i \in 1..Len(t) : q[i] = t[Len(t) - i + 1]
  BY <1>1, <1>2, ReverseFacts
<1>4. IsSuffix(s, t) <=> Len(r) <= Len(q) /\ SubSeq(r, 1, Len(r)) = SubSeq(q, 1, Len(r))
  BY <1>1, <1>2 DEF IsSuffix, IsPrefix
<1>5. Len(r) <= Len(q) =>
        (SubSeq(r, 1, Len(r)) = SubSeq(q, 1, Len(r)) <=> \A i \in 1..Len(r) : r[i] = q[i])
  <2> SUFFICES ASSUME Len(r) <= Len(q)
               PROVE  SubSeq(r, 1, Len(r)) = SubSeq(q, 1, Len(r)) <=> \A i \in 1..Len(r) : r[i] = q[i]
    OBVIOUS
  <2>1. /\ SubSeq(r, 1, Len(r)) = [i \in 1..Len(r) |-> r[i]]
        /\ SubSeq(q, 1, Len(r)) = [i \in 1..Len(r) |-> q[i]]
    BY <1>3
  <2>2. QED
    BY <2>1
<1>6. ASSUME Len(s) <= Len(t)
      PROVE  (\A i \in 1..Len(r) : r[i] = q[i])
               <=> \A i \in 1..Len(s) : s[Len(s) - i + 1] = t[Len(t) - i + 1]
  <2>1. \A i \in 1..Len(s) : i \in 1..Len(t) /\ i \in 1..Len(r)
    BY <1>3, <1>6
  <2>2. ASSUME NEW i \in 1..Len(s) PROVE r[i] = q[i] <=> s[Len(s) - i + 1] = t[Len(t) - i + 1]
    BY <1>3, <2>1
  <2>3. Len(r) = Len(s)
    BY <1>3
  <2>4. QED
    BY <2>2, <2>3
<1>7. Len(r) = Len(s) /\ Len(q) = Len(t)
  BY <1>3
<1>8. QED
  BY <1>4, <1>5, <1>6, <1>7

LEMMA SuffixOfAppend ==
  ASSUME NEW S, NEW s \in Seq(S), NEW t \in Seq(S), NEW x \in S
  PROVE  /\ IsSuffix(s, t) => IsSuffix(Append(s, x), Append(t, x))
         /\ IsSuffix(<<x>>, Append(t, x))
<1>1. PICK u : u = Append(s, x)
  OBVIOUS
<1>2. PICK v : v = Append(t, x)
  OBVIOUS
<1>3. /\ u \in Seq(S) /\ Len(u) = Len(s) + 1 /\ \A i \in 1..Len(s) : u[i] = s[i]
      /\ u[Len(s) + 1] = x /\ Len(s) \in Nat
  BY <1>1
<1>4. /\ v \in Seq(S) /\ Len(v) = Len(t) + 1 /\ \A i \in 1..Len(t) : v[i] = t[i]
      /\ v[Len(t) + 1] = x /\ Len(t) \in Nat
  BY <1>2
<1>5. ASSUME IsSuffix(s, t) PROVE IsSuffix(u, v)
  <2>1. Len(s) <= Len(t) /\ \A i \in 1..Len(s) : s[Len(s) - i + 1] = t[Len(t) - i + 1]
    BY <1>5, SuffixByElements
  <2>2. ASSUME NEW i \in 1..Len(u) PROVE u[Len(u) - i + 1] = v[Len(v) - i + 1]
    <3>1. CASE i = 1
      BY <3>1, <1>3, <1>4
    <3>2. CASE i > 1
      <4>1. i - 1 \in 1..Len(s) /\ i - 1 \in 1..Len(t)
        BY <1>3, <1>4, <2>1, <3>2
      <4>2. /\ Len(u) - i + 1 = Len(s) - (i - 1) + 1 /\ Len(s) - (i - 1) + 1 \in 1..Len(s)
            /\ Len(v) - i + 1 = Len(t) - (i - 1) + 1 /\ Len(t) - (i - 1) + 1 \in 1..Len(t)
        BY <1>3, <1>4, <4>1
      <4>3. s[Len(s) - (i - 1) + 1] = t[Len(t) - (i - 1) + 1]
        BY <2>1, <4>1
      <4>4. QED
        BY <1>3, <1>4, <4>2, <4>3
    <3>3. QED
      BY <1>3, <3>1, <3>2
  <2>3. Len(u) <= Len(v)
    BY <1>3, <1>4, <2>1
  <2>4. QED
    BY <1>3, <1>4, <2>2, <2>3, SuffixByElements
<1>6. IsSuffix(<<x>>, v)
  <2>1. PICK w : w = <<x>>
    OBVIOUS
  <2>2. w \in Seq(S) /\ Len(w) = 1 /\ w[1] = x
    BY <2>1
  <2>3. Len(w) <= Len(v) /\ \A i \in 1..Len(w) : w[Len(w) - i + 1] = v[Len(v) - i + 1]
    BY <1>4, <2>2
  <2>4. QED
    BY <1>4, <2>1, <2>2, <2>3, SuffixByElements
<1>7. QED
  BY <1>1, <1>2, <1>5, <1>6

\* Plain with the first k suffixes.
PlainUpTo(suffixes) ==
  CHOOSE plain : plain = [k \in 0..Len(suffixes) |->
    IF k = 0 THEN <<>> ELSE WithPlain(plain[k - 1], suffixes[k])]

LEMMA WithPlainFacts ==
  ASSUME NEW s \in Seq(Behind), NEW x \in Behind
  PROVE  /\ WithPlain(s, x) \in Seq(Behind)
         /\ x = "[n]" => WithPlain(s, x) = Append(s, "[n]")
         /\ x \in {"*", "&&", "const *"} => WithPlain(s, x) = Append(s, "*")
<1>1. \A y \in Behind : Append(s, y) \in Seq(Behind)
  OBVIOUS
<1>2. "*" \in Behind
  BY DEF Behind
<1>3. QED
  BY <1>1, <1>2 DEF WithPlain

LEMMA PlainUpToFacts ==
  ASSUME NEW s \in Seq(Behind)
  PROVE  /\ PlainUpTo(s) \in [0..Len(s) -> Seq(Behind)]
         /\ PlainUpTo(s)[0] = <<>>
         /\ \A k \in 1..Len(s) : PlainUpTo(s)[k] = WithPlain(PlainUpTo(s)[k - 1], s[k])
         /\ Plain(s) = PlainUpTo(s)[Len(s)]
<1> DEFINE n == Len(s)
           V == Seq(Behind)
           S(k, p) == IF k \in 1..n THEN WithPlain(p, s[k]) ELSE p
<1>1. n \in Nat /\ \A k \in 1..n : s[k] \in Behind
  OBVIOUS
<1>2. <<>> \in V
  OBVIOUS
<1>3. PICK step : step = [p \in Nat \X V |-> S(p[1], p[2])]
  OBVIOUS
<1>4. step \in [Nat \X V -> V]
  <2>1. ASSUME NEW k \in Nat, NEW p \in V PROVE S(k, p) \in V
    BY <1>1, WithPlainFacts
  <2> HIDE DEF S, V
  <2>2. QED
    BY <1>3, <2>1
<1> HIDE DEF n, V
<1>5. Leads(V, <<>>, step, n)
  BY <1>1, <1>2, <1>4, Recursion
<1>6. PICK f \in [0..n -> V] : f[0] = <<>> /\ \A k \in 1..n : f[k] = step[<<k, f[k - 1]>>]
  BY <1>5 DEF Leads
<1>7. ASSUME NEW k \in 1..n PROVE f[k] = WithPlain(f[k - 1], s[k])
  <2>1. k \in Nat /\ k - 1 \in 0..n
    BY <1>1
  <2>2. f[k - 1] \in V
    BY <2>1
  <2>3. step[<<k, f[k - 1]>>] = S(k, f[k - 1])
    <3> HIDE DEF S
    <3>1. QED
      BY <1>3, <2>1, <2>2
  <2>4. QED
    BY <1>6, <2>3
<1>8. f = [k \in 0..n |-> IF k = 0 THEN <<>> ELSE WithPlain(f[k - 1], s[k])]
  <2>1. \A k \in 0..n : f[k] = IF k = 0 THEN <<>> ELSE WithPlain(f[k - 1], s[k])
    BY <1>1, <1>6, <1>7
  <2>2. QED
    BY <2>1
<1>9. PICK g : g = PlainUpTo(s)
  OBVIOUS
<1>10. g = [k \in 0..n |-> IF k = 0 THEN <<>> ELSE WithPlain(g[k - 1], s[k])]
  BY <1>8, <1>9 DEF PlainUpTo, n
<1>11. Plain(s) = g[n]
  BY <1>9 DEF Plain, PlainUpTo, n
<1>12. g[0] = <<>> /\ \A k \in 1..n : g[k] = WithPlain(g[k - 1], s[k])
  BY <1>1, <1>10
<1>13. g \in [0..n -> V]
  <2> DEFINE I == {k \in Nat : k <= n => g[k] \in V}
  <2>1. 0 \in I
    BY <1>2, <1>12
  <2>2. ASSUME NEW k \in Nat, k \in I PROVE k + 1 \in I
    <3>1. CASE k + 1 <= n
      <4>1. k <= n /\ k + 1 \in 1..n /\ (k + 1) - 1 = k
        BY <1>1, <3>1
      <4>2. g[k + 1] = WithPlain(g[k], s[k + 1])
        BY <1>12, <4>1
      <4>3. QED
        <5>1. g[k] \in Seq(Behind) /\ s[k + 1] \in Behind
          BY <2>2, <4>1, <1>1 DEF V
        <5>2. g[k + 1] \in Seq(Behind)
          BY <4>2, <5>1, WithPlainFacts
        <5>3. QED
          BY <5>2 DEF V
    <3>2. QED
      BY <3>1
  <2> HIDE DEF I
  <2>3. Nat \subseteq I
    BY <2>1, <2>2, Induct
  <2>4. \A k \in 0..n : g[k] \in V
    BY <1>1, <2>3 DEF I
  <2>5. QED
    BY <1>10, <2>4
<1>14. QED
  BY <1>9, <1>11, <1>12, <1>13 DEF n, V

\* So far the name is unknown, or is what the type is.
LEMMA HonestName ==
  ASSUME NEW names, NEW T, IsSource(T)
  PROVE  IsUnknown(FixTypeName(names, T)) \/ Denotes(FixTypeName(names, T), T)
<1> DEFINE n == Len(T.suffixes)
           g == NamedUpTo(names, T)
           p == PlainUpTo(T.suffixes)
           Says(N, q) == \/ IsUnknown(N)
                         \/ N.leaf = T.leaf /\ N.suffixes = q
                         \/ /\ N.leaf = "void" /\ N.suffixes # <<>> /\ N.suffixes[1] = "*"
                            /\ IsSuffix(N.suffixes, q)
           I == {i \in Nat : i <= n => Says(g[i], p[i])}
<1>1. T.suffixes \in Seq(Behind)
  BY DEF IsSource
<1>2. n \in Nat /\ \A i \in 1..n : T.suffixes[i] \in Behind
  BY NamedUpToFacts
<1>3. g \in [0..n -> CsvNames(T.leaf)] /\ g[0] = NamedLeaf(names, T.leaf)
  BY NamedUpToFacts
<1>4. \A i \in 1..n : g[i] = Suffixed(g[i - 1], T.suffixes[i])
  BY NamedUpToFacts
<1>5. p \in [0..n -> Seq(Behind)] /\ p[0] = <<>> /\ Plain(T.suffixes) = p[n]
  BY <1>1, PlainUpToFacts
<1>6. \A i \in 1..n : p[i] = WithPlain(p[i - 1], T.suffixes[i])
  BY <1>1, PlainUpToFacts
<1>7. FixTypeName(names, T) = IF T.leaf = Bracketed THEN Refused ELSE g[n]
  BY NamedUpToFacts
<1> HIDE DEF g, p
<1>8. 0 \in I
  BY <1>3, <1>5, UnknownFacts DEF NamedLeaf, Named
<1>9. ASSUME NEW i \in Nat, i \in I PROVE i + 1 \in I
  <2> SUFFICES ASSUME i + 1 <= n PROVE Says(g[i + 1], p[i + 1])
    OBVIOUS
  <2>1. i + 1 \in 1..n /\ i \in 0..n /\ (i + 1) - 1 = i /\ i <= n
    BY <1>2
  <2>2. PICK N : N = g[i]
    OBVIOUS
  <2>3. PICK x : x = T.suffixes[i + 1]
    OBVIOUS
  <2>4. PICK q : q = p[i]
    OBVIOUS
  <2>5. /\ N \in CsvNames(T.leaf) /\ x \in Behind /\ q \in Seq(Behind)
        /\ g[i + 1] = Suffixed(N, x) /\ p[i + 1] = WithPlain(q, x) /\ Says(N, q)
    BY <1>2, <1>3, <1>4, <1>5, <1>6, <1>9, <2>1, <2>2, <2>3, <2>4
  <2> HIDE DEF Says
  <2>6. CASE Suffixed(N, x) \in {Unknown, Unsized} \/ (Suffixed(N, x) = N /\ IsUnknown(N))
    BY <2>5, <2>6, UnknownFacts DEF Says
  <2>7. CASE x = "*" /\ Suffixed(N, x) = VoidPtr
    <3>1. p[i + 1] = Append(q, "*")
      BY <2>5, <2>7, WithPlainFacts
    <3>2. IsSuffix(<<"*">>, Append(q, "*"))
      BY <2>5, <2>7, SuffixOfAppend
    <3>3. <<"*">> # <<>> /\ <<"*">>[1] = "*"
      OBVIOUS
    <3>4. QED
      BY <2>5, <2>7, <3>1, <3>2, <3>3, UnknownFacts DEF Says
  <2>8. ASSUME NEW y \in Behind, ~IsUnknown(N), Suffixed(N, x) = With(N, y), WithPlain(q, x) = Append(q, y)
        PROVE  Says(g[i + 1], p[i + 1])
    <3>1. PICK M : M = With(N, y)
      OBVIOUS
    <3>2. /\ M.leaf = N.leaf /\ M.suffixes = Append(N.suffixes, y) /\ N.suffixes \in Seq(Behind)
      BY <2>5, <3>1, WithFacts
    <3>3. CASE N.leaf = T.leaf /\ N.suffixes = q
      BY <2>5, <2>8, <3>1, <3>2, <3>3 DEF Says
    <3>4. CASE /\ N.leaf = "void" /\ N.suffixes # <<>> /\ N.suffixes[1] = "*"
               /\ IsSuffix(N.suffixes, q)
      <4>1. IsSuffix(M.suffixes, p[i + 1])
        BY <2>5, <2>8, <3>2, <3>4, SuffixOfAppend
      <4>2. M.suffixes # <<>> /\ M.suffixes[1] = "*"
        BY <3>2, <3>4
      <4>3. QED
        BY <2>5, <2>8, <3>1, <3>2, <3>4, <4>1, <4>2 DEF Says
    <3>5. QED
      BY <2>5, <2>8, <3>3, <3>4 DEF Says
  <2>9. \/ Suffixed(N, x) \in {Unknown, Unsized} \/ (Suffixed(N, x) = N /\ IsUnknown(N))
        \/ x = "*" /\ Suffixed(N, x) = VoidPtr
        \/ ~IsUnknown(N) /\ x = "[n]" /\ Suffixed(N, x) = With(N, "[n]")
        \/ ~IsUnknown(N) /\ x \in {"*", "&&", "const *"} /\ Suffixed(N, x) = With(N, "*")
    BY <2>5, SuffixedCases
  <2>10. "*" \in Behind /\ "[n]" \in Behind
    BY DEF Behind
  <2>11. QED
    BY <2>5, <2>6, <2>7, <2>8, <2>9, <2>10, WithPlainFacts
<1> HIDE DEF I
<1>10. Nat \subseteq I
  BY <1>8, <1>9, Induct
<1>11. Says(g[n], p[n])
  BY <1>2, <1>10 DEF I
<1>12. QED
  BY <1>5, <1>7, <1>11, UnknownFacts DEF Denotes, IsUnknown

-----------------------------------------------------------------------------
(* The inductive invariant. *)

AllNames(names) == names.enums \cup names.structs \cup names.unions \cup names.classes

\* Both are sequences, whatever they hold.
IsSequence(s) == Len(s) \in Nat /\ s = [k \in 1..Len(s) |-> s[k]]

\* The file is one of C++: its definitions have names of their own.
FileOK ==
  /\ plugin \in {"save-typedefs", "save-func-parms"}
  /\ IsSequence(declared)
  /\ \A k \in DOMAIN declared : declared[k] \in Declarations
  /\ \A j, k \in DOMAIN declared : declared[j].name = declared[k].name => j = k

RowsOK ==
  /\ IsSequence(rows)
  /\ \A k \in DOMAIN rows : rows[k].kind \in {"enum", "struct", "union"} /\ rows[k].name \in Names

KnownOK ==
  known \in [enums : SUBSET Names, structs : SUBSET Names, unions : SUBSET Names, classes : SUBSET Names]

\* save-typedefs begins without functions.
NothingHandled == plugin = "save-typedefs" => handled = {} /\ signatures = {}

\* What a name stands for has a row: ...
HasRowOf(name) == \E i \in DOMAIN rows : rows[i].name = name

\* ... a field's, one no later than its own, and if the field contains it an earlier one; ...
FieldsHaveRows ==
  \A k \in DOMAIN rows : \A j \in DOMAIN rows[k].fields :
    rows[k].fields[j].leaf \in Names =>
      \E i \in 1..k : /\ rows[i].name = rows[k].fields[j].leaf
                      /\ ByValue(rows[k].fields[j]) => i < k

\* ... that of a known name, unless it is a class that a method made known, ...
KnownHaveRows ==
  \A name \in AllNames(known) : HasRowOf(name) \/ \E t \in signatures : name \in t.of.this

\* ... and so that of a function's parameter.
SignaturesHaveRows ==
  \A s \in signatures : \A k \in DOMAIN s.types :
    s.types[k].leaf \in Names => \/ HasRowOf(s.types[k].leaf)
                                 \/ \E t \in signatures : s.types[k].leaf \in t.of.this

\* The other way round, save-func-parms knows each name with a row, ...
RowsAreKnown ==
  plugin = "save-func-parms" => \A k \in DOMAIN rows : rows[k].name \in AllNames(known)

\* ... and both know what the file defines.
DefinedAreKnown ==
  \A k \in DOMAIN declared :
    Spellable(declared[k]) => /\ declared[k].name \in AllNames(known)
                              /\ HasRowOf(declared[k].name)

\* A type without a name in any order, or a class without a row.
MaxNames ==
  [NoNames EXCEPT !.structs = {rows[j].name : j \in DOMAIN rows},
                  !.classes = UNION {ClassesOf(g) : g \in Functions}]
NoNameOrClass(f) ==
  \E k \in DOMAIN f.types :
    \/ IsUnknown(FixTypeName(MaxNames, f.types[k]))
    \/ f.types[k].leaf \in MaxNames.classes /\ ~IsPointer(f.types[k])

HandledOrNot ==
  /\ handled \subseteq Functions
  /\ \A f \in handled : (\E s \in signatures : s.of = f) \/ NoNameOrClass(f)

IInv == /\ FileOK /\ RowsOK /\ KnownOK /\ NothingHandled
        /\ FieldsHaveRows /\ KnownHaveRows /\ SignaturesHaveRows
        /\ RowsAreKnown /\ DefinedAreKnown /\ HandledOrNot

-----------------------------------------------------------------------------
LEMMA InitIInv == Init => IInv
<1> SUFFICES ASSUME Init PROVE IInv
  OBVIOUS
<1>1. /\ plugin = "save-typedefs" /\ declared = <<>> /\ known = NoNames /\ rows = <<>>
      /\ handled = {} /\ signatures = {}
  BY DEF Init
<1>2. DOMAIN <<>> = {} /\ IsSequence(<<>>)
  BY DEF IsSequence
<1>3. FileOK /\ RowsOK
  BY <1>1, <1>2 DEF FileOK, RowsOK
<1>4. KnownOK /\ AllNames(known) = {}
  BY <1>1 DEF KnownOK, NoNames, AllNames
<1>5. NothingHandled /\ FieldsHaveRows /\ SignaturesHaveRows /\ RowsAreKnown /\ DefinedAreKnown /\ HandledOrNot
  BY <1>1, <1>2 DEF NothingHandled, FieldsHaveRows, SignaturesHaveRows, RowsAreKnown, DefinedAreKnown, HandledOrNot
<1>6. QED
  BY <1>3, <1>4, <1>5 DEF IInv, KnownHaveRows

\* A sequence with one more element behind it.
OneMore(s, e, longer) ==
  /\ IsSequence(longer) /\ Len(longer) = Len(s) + 1 /\ Len(s) \in Nat
  /\ DOMAIN s = 1..Len(s) /\ DOMAIN longer = 1..Len(s) + 1
  /\ \A k \in 1..Len(s) : longer[k] = s[k]
  /\ longer[Len(s) + 1] = e

LEMMA AppendAny ==
  ASSUME NEW s, NEW e, IsSequence(s)
  PROVE  OneMore(s, e, Append(s, e))
<1>0. PICK longer : longer = Append(s, e)
  OBVIOUS
<1>1. PICK S : S = {s[k] : k \in 1..Len(s)} \cup {e}
  OBVIOUS
<1>2. s \in [1..Len(s) -> S] /\ Len(s) \in Nat
  BY <1>1 DEF IsSequence
<1>3. s \in Seq(S) /\ e \in S
  BY <1>1, <1>2
<1>4. longer \in Seq(S)
  BY <1>0, <1>3
<1>5. IsSequence(longer)
  <2>1. Len(longer) \in Nat /\ longer \in [1..Len(longer) -> S]
    BY <1>4, LenProperties
  <2>2. QED
    BY <2>1 DEF IsSequence
<1>6. QED
  BY <1>0, <1>3, <1>4, <1>5 DEF OneMore

LEMMA RowFacts ==
  ASSUME NEW kind, NEW d, NEW names
  PROVE  /\ Row(kind, d, names).name = d.name /\ Row(kind, d, names).kind = kind
         /\ DOMAIN Row(kind, d, names).fields = DOMAIN d.fields
         /\ \A j \in DOMAIN d.fields : Row(kind, d, names).fields[j] = FixTypeName(names, d.fields[j])
BY DEF Row

\* What a definition leaves alone, and what it adds to the file.
LEMMA ReadFacts ==
  ASSUME IInv, NEW d \in Declarations, Read(d)
  PROVE  /\ FileOK' /\ handled = {} /\ signatures = {}
         /\ handled' = {} /\ signatures' = {} /\ plugin = "save-typedefs" /\ plugin' = plugin
         /\ DOMAIN declared' = 1..Len(declared) + 1 /\ DOMAIN declared = 1..Len(declared)
         /\ Len(declared) \in Nat
         /\ declared'[Len(declared) + 1] = d
         /\ \A k \in DOMAIN declared : declared'[k] = declared[k]
         /\ NothingHandled' /\ SignaturesHaveRows' /\ RowsAreKnown' /\ HandledOrNot'
         /\ \A name \in AllNames(known) : HasRowOf(name)
<1>1. /\ plugin = "save-typedefs" /\ plugin' = plugin /\ handled' = handled /\ signatures' = signatures
      /\ declared' = Append(declared, d) /\ Compiles(d)
  BY DEF Read
<1>2. handled = {} /\ signatures = {}
  BY <1>1 DEF IInv, NothingHandled
<1>3. IsSequence(declared)
  BY DEF IInv, FileOK
<1>4. /\ IsSequence(declared') /\ Len(declared) \in Nat /\ DOMAIN declared' = 1..Len(declared) + 1
      /\ DOMAIN declared = 1..Len(declared)
      /\ \A k \in 1..Len(declared) : declared'[k] = declared[k]
      /\ declared'[Len(declared) + 1] = d
  BY <1>1, <1>3, AppendAny DEF OneMore
<1>5. \A k \in DOMAIN declared : declared[k].name # d.name
  BY <1>1 DEF Compiles
<1>6. ASSUME NEW k \in DOMAIN declared' PROVE declared'[k] \in Declarations
  <2>1. CASE k = Len(declared) + 1
    BY <1>4, <2>1
  <2>2. CASE k \in DOMAIN declared
    BY <1>4, <2>2 DEF IInv, FileOK
  <2>3. QED
    BY <1>4, <2>1, <2>2
<1>7. ASSUME NEW j \in DOMAIN declared', NEW k \in DOMAIN declared', declared'[j].name = declared'[k].name
      PROVE  j = k
  <2>1. CASE j \in DOMAIN declared /\ k \in DOMAIN declared
    <3>1. declared[j].name = declared[k].name
      BY <1>4, <1>7, <2>1
    <3>2. QED
      BY <2>1, <3>1 DEF IInv, FileOK
  <2>2. CASE j = Len(declared) + 1 /\ k \in DOMAIN declared
    BY <1>4, <1>5, <1>7, <2>2
  <2>3. CASE k = Len(declared) + 1 /\ j \in DOMAIN declared
    BY <1>4, <1>5, <1>7, <2>3
  <2>4. CASE j = Len(declared) + 1 /\ k = Len(declared) + 1
    BY <2>4
  <2>5. QED
    BY <1>4, <2>1, <2>2, <2>3, <2>4
<1>8. FileOK'
  BY <1>1, <1>4, <1>6, <1>7 DEF FileOK
<1>9. NothingHandled' /\ SignaturesHaveRows' /\ RowsAreKnown' /\ HandledOrNot'
  BY <1>1, <1>2 DEF NothingHandled, SignaturesHaveRows, RowsAreKnown, HandledOrNot
<1>10. \A name \in AllNames(known) : HasRowOf(name)
  BY <1>2 DEF IInv, KnownHaveRows
<1>11. QED
  BY <1>1, <1>2, <1>4, <1>8, <1>9, <1>10

\* A row is written, and its name is known.
LEMMA RowAdded ==
  ASSUME IInv, NEW d \in Declarations, Read(d), NEW kind \in {"enum", "struct", "union"},
         KnownOK', AllNames(known') = AllNames(known) \cup {d.name},
         rows' = Append(rows, Row(kind, d, known'))
  PROVE  IInv'
<1>1. PICK r : r = Row(kind, d, known')
  OBVIOUS
<1>2. /\ r.name = d.name /\ r.kind = kind /\ DOMAIN r.fields = DOMAIN d.fields
      /\ \A j \in DOMAIN d.fields : r.fields[j] = FixTypeName(known', d.fields[j])
  BY <1>1, RowFacts
<1>3. IsSequence(rows)
  BY DEF IInv, RowsOK
<1>4. /\ IsSequence(rows') /\ Len(rows) \in Nat
      /\ DOMAIN rows = 1..Len(rows) /\ DOMAIN rows' = 1..Len(rows) + 1
      /\ \A k \in 1..Len(rows) : rows'[k] = rows[k]
      /\ rows'[Len(rows) + 1] = r
  BY <1>1, <1>3, AppendAny DEF OneMore
<1>5. ASSUME NEW name, HasRowOf(name) PROVE HasRowOf(name)'
  BY <1>4, <1>5 DEF HasRowOf
<1>6. HasRowOf(d.name)'
  <2>1. Len(rows) + 1 \in DOMAIN rows' /\ rows'[Len(rows) + 1].name = d.name
    BY <1>2, <1>4
  <2>2. QED
    BY <2>1 DEF HasRowOf
<1>7. RowsOK'
  <2>1. ASSUME NEW k \in DOMAIN rows'
        PROVE  rows'[k].kind \in {"enum", "struct", "union"} /\ rows'[k].name \in Names
    <3>1. CASE k = Len(rows) + 1
      BY <1>2, <1>4, <3>1, SourcesAssumption
    <3>2. CASE k \in DOMAIN rows
      BY <1>4, <3>2 DEF IInv, RowsOK
    <3>3. QED
      BY <1>4, <3>1, <3>2
  <2>2. QED
    BY <1>4, <2>1 DEF RowsOK
<1>8. \A name \in AllNames(known) : HasRowOf(name)
  BY ReadFacts
<1>9. KnownHaveRows'
  BY <1>5, <1>6, <1>8 DEF KnownHaveRows
<1>10. FieldsHaveRows'
  <2>1. ASSUME NEW k \in DOMAIN rows', NEW j \in DOMAIN rows'[k].fields, rows'[k].fields[j].leaf \in Names
        PROVE  \E i \in 1..k : /\ rows'[i].name = rows'[k].fields[j].leaf
                               /\ ByValue(rows'[k].fields[j]) => i < k
    <3>1. CASE k \in DOMAIN rows
      <4>1. rows'[k] = rows[k] /\ j \in DOMAIN rows[k].fields /\ rows[k].fields[j].leaf \in Names
        BY <1>4, <2>1, <3>1
      <4>2. PICK i \in 1..k : /\ rows[i].name = rows[k].fields[j].leaf
                              /\ ByValue(rows[k].fields[j]) => i < k
        BY <3>1, <4>1 DEF IInv, FieldsHaveRows
      <4>3. rows'[i] = rows[i]
        BY <1>4, <3>1, <4>2
      <4>4. QED
        BY <4>1, <4>2, <4>3
    <3>2. CASE k = Len(rows) + 1
      <4>1. PICK N : N = rows'[k].fields[j]
        OBVIOUS
      <4>2. PICK T : T = d.fields[j]
        OBVIOUS
      <4>3. j \in DOMAIN d.fields /\ N = FixTypeName(known', T) /\ N.leaf \in Names /\ IsSource(T)
        BY <1>2, <1>4, <2>1, <3>2, <4>1, <4>2, SourcesAssumption
      <4>4. N.leaf = T.leaf /\ KnownIn(known', T.leaf) /\ (ByValue(N) => ByValue(T))
        BY <4>3, NameOfNames
      <4>5. N.leaf \in AllNames(known) \cup {d.name}
        BY <4>4 DEF KnownIn, AllNames
      <4>6. ByValue(N) => N.leaf # d.name
        BY <4>2, <4>3, <4>4 DEF Read, Compiles
      <4>7. CASE N.leaf = d.name
        <5>1. k \in 1..k /\ rows'[k].name = d.name
          BY <1>2, <1>4, <3>2
        <5>2. QED
          BY <4>1, <4>6, <4>7, <5>1
      <4>8. CASE N.leaf # d.name
        <5>1. HasRowOf(N.leaf)
          BY <1>8, <4>5, <4>8
        <5>2. PICK i \in DOMAIN rows : rows[i].name = N.leaf
          BY <5>1 DEF HasRowOf
        <5>3. i \in 1..k /\ i < k /\ rows'[i] = rows[i]
          BY <1>4, <3>2, <5>2
        <5>4. QED
          BY <4>1, <5>2, <5>3
      <4>9. QED
        BY <4>7, <4>8
    <3>3. QED
      BY <1>4, <3>1, <3>2
  <2>2. QED
    BY <2>1 DEF FieldsHaveRows
<1>11. DefinedAreKnown'
  <2>1. /\ DOMAIN declared' = 1..Len(declared) + 1 /\ DOMAIN declared = 1..Len(declared)
        /\ Len(declared) \in Nat /\ declared'[Len(declared) + 1] = d
        /\ \A k \in DOMAIN declared : declared'[k] = declared[k]
    BY ReadFacts
  <2>2. ASSUME NEW k \in DOMAIN declared', NEW e, e = declared'[k], Spellable(e)
        PROVE  e.name \in AllNames(known') /\ HasRowOf(e.name)'
    <3>1. CASE e = d
      BY <1>6, <3>1
    <3>2. CASE k \in DOMAIN declared
      <4>1. declared[k] = e
        BY <2>1, <2>2, <3>2
      <4>2. e.name \in AllNames(known) /\ HasRowOf(e.name)
        BY <2>2, <3>2, <4>1 DEF IInv, DefinedAreKnown
      <4>3. QED
        BY <1>5, <4>2
    <3>3. QED
      BY <2>1, <2>2, <3>1, <3>2
  <2>3. QED
    BY <2>2 DEF DefinedAreKnown
<1>12. QED
  BY <1>7, <1>9, <1>10, <1>11, ReadFacts DEF IInv

\* No row is written, and the definition is not one that could have been.
LEMMA NothingAdded ==
  ASSUME IInv, NEW d \in Declarations, Read(d), ~Spellable(d), UNCHANGED <<known, rows>>
  PROVE  IInv'
<1>1. RowsOK' /\ KnownOK' /\ FieldsHaveRows'
  BY DEF IInv, RowsOK, KnownOK, FieldsHaveRows
<1>2. \A name : HasRowOf(name) => HasRowOf(name)'
  BY DEF HasRowOf
<1>3. KnownHaveRows'
  BY <1>2, ReadFacts DEF KnownHaveRows
<1>4. DefinedAreKnown'
  <2>1. /\ DOMAIN declared' = 1..Len(declared) + 1 /\ DOMAIN declared = 1..Len(declared)
        /\ Len(declared) \in Nat /\ declared'[Len(declared) + 1] = d
        /\ \A k \in DOMAIN declared : declared'[k] = declared[k]
    BY ReadFacts
  <2>2. ASSUME NEW k \in DOMAIN declared', NEW e, e = declared'[k], Spellable(e)
        PROVE  e.name \in AllNames(known') /\ HasRowOf(e.name)'
    <3>1. k \in DOMAIN declared /\ declared[k] = e
      BY <2>1, <2>2
    <3>2. e.name \in AllNames(known) /\ HasRowOf(e.name)
      BY <2>2, <3>1 DEF IInv, DefinedAreKnown
    <3>3. QED
      BY <1>2, <3>2
  <2>3. QED
    BY <2>2 DEF DefinedAreKnown
<1>5. QED
  BY <1>1, <1>3, <1>4, ReadFacts DEF IInv

LEMMA HandleDeclIInv ==
  ASSUME IInv, NEW d \in Declarations, HandleDecl(d)
  PROVE  IInv'
<1>1. Read(d) /\ (Ignored(d) \/ HandleEnumDecl(d) \/ HandleStructDecl(d) \/ HandleUnionDecl(d))
  BY DEF HandleDecl
<1>2. KnownOK /\ d.name \in Names /\ \A k \in DOMAIN d.fields : IsSource(d.fields[k])
  BY SourcesAssumption DEF IInv
<1>3. CASE Ignored(d)
  BY <1>1, <1>3, NothingAdded DEF Ignored, Spellable
<1>4. CASE HandleEnumDecl(d)
  <2>1. KnownOK' /\ AllNames(known') = AllNames(known) \cup {d.name}
    BY <1>2, <1>4 DEF HandleEnumDecl, KnownOK, AllNames
  <2>2. QED
    BY <1>1, <1>4, <2>1, RowAdded DEF HandleEnumDecl
<1>5. CASE HandleUnionDecl(d)
  <2>1. KnownOK' /\ AllNames(known') = AllNames(known) \cup {d.name}
    BY <1>2, <1>5 DEF HandleUnionDecl, KnownOK, AllNames
  <2>2. QED
    BY <1>1, <1>5, <2>1, RowAdded DEF HandleUnionDecl
<1>6. CASE HandleStructDecl(d) /\ Recordable(d)
  <2>1. KnownOK' /\ AllNames(known') = AllNames(known) \cup {d.name}
    BY <1>2, <1>6 DEF HandleStructDecl, KnownOK, AllNames
  <2>2. QED
    BY <1>1, <1>6, <2>1, RowAdded DEF HandleStructDecl
<1>7. CASE HandleStructDecl(d) /\ ~Recordable(d)
  <2>1. PICK k \in DOMAIN d.fields : FixTypeName(known, d.fields[k]) = Refused
    BY <1>7 DEF Recordable
  <2>2. d.fields[k].leaf = Bracketed
    BY <1>2, <2>1, NotRefused
  <2>3. ~Spellable(d)
    BY <1>7, <2>2 DEF HandleStructDecl, Spellable
  <2>4. QED
    BY <1>1, <1>7, <2>3, NothingAdded DEF HandleStructDecl
<1>8. QED
  BY <1>1, <1>3, <1>4, <1>5, <1>6, <1>7

\* As long as the file and its rows are the same, so is what can be named.
LEMMA NoNameStays ==
  ASSUME NEW f, NoNameOrClass(f), UNCHANGED <<declared, rows>>
  PROVE  NoNameOrClass(f)'
<1>1. \A g \in Functions : ClassesOf(g)' = ClassesOf(g)
  BY DEF ClassesOf
<1>2. MaxNames' = MaxNames
  BY <1>1 DEF MaxNames, NoNames
<1>3. ASSUME NEW names, NEW T PROVE FixTypeName(names, T)' = FixTypeName(names, T)
  <2>1. PICK l : l = NamedLeaf(names, T.leaf)
    OBVIOUS
  <2>2. l = NamedLeaf(names, T.leaf)'
    BY <2>1 DEF NamedLeaf, KnownIn, IsNamedUnion
  <2>3. QED
    BY <2>1, <2>2 DEF FixTypeName
<1>4. QED
  BY <1>2, <1>3 DEF NoNameOrClass

\* A function that is not recorded has a type without a name, or a class without a row.
LEMMA NotRecorded ==
  ASSUME IInv, plugin = "save-func-parms", NEW f \in Functions, ~IsRecorded(f)
  PROVE  NoNameOrClass(f)
<1>1. PICK k \in DOMAIN f.types : IsUnknown(FixTypeName(known, f.types[k]))
  BY DEF IsRecorded
<1>2. PICK T : T = f.types[k]
  OBVIOUS
<1>3. IsSource(T)
  BY <1>2, SourcesAssumption
<1>4. CASE IsUnknown(FixTypeName(MaxNames, T))
  BY <1>2, <1>4 DEF NoNameOrClass
<1>5. CASE ~IsUnknown(FixTypeName(MaxNames, T))
  <2>1. /\ T.leaf \in Names /\ ~KnownIn(known, T.leaf) /\ KnownIn(MaxNames, T.leaf)
        /\ ~IsPointer(T)
    BY <1>1, <1>2, <1>3, <1>5, MoreKnown
  <2>2. T.leaf \notin AllNames(known)
    BY <2>1 DEF KnownIn, AllNames
  <2>3. T.leaf \notin {rows[j].name : j \in DOMAIN rows}
    BY <2>2 DEF IInv, RowsAreKnown
  <2>4. T.leaf \in MaxNames.classes
    BY <2>1, <2>3 DEF KnownIn, MaxNames, NoNames
  <2>5. QED
    BY <1>2, <2>1, <2>4 DEF NoNameOrClass
<1>6. QED
  BY <1>4, <1>5

LEMMA HandleFunctionDeclIInv ==
  ASSUME IInv, NEW f \in Functions, HandleFunctionDecl(f)
  PROVE  IInv'
<1>1. /\ plugin = "save-func-parms" /\ plugin' = plugin /\ declared' = declared /\ rows' = rows
      /\ handled' = handled \cup {f}
  BY DEF HandleFunctionDecl
<1>2. FileOK' /\ RowsOK' /\ NothingHandled' /\ FieldsHaveRows'
  BY <1>1 DEF IInv, FileOK, RowsOK, NothingHandled, FieldsHaveRows
<1>3. \A name : HasRowOf(name)' <=> HasRowOf(name)
  BY <1>1 DEF HasRowOf
<1>4. CASE IsRecorded(f)
  <2> DEFINE names(k) == IF k = 1 THEN known ELSE known'
  <2>1. PICK r : r = [of |-> f, types |-> [k \in DOMAIN f.types |-> FixTypeName(names(k), f.types[k])]]
    OBVIOUS
  <2>2. /\ known' = [known EXCEPT !.classes = @ \cup ClassesOf(f)]
        /\ signatures' = signatures \cup {r}
    BY <1>4, <2>1 DEF HandleFunctionDecl
  <2>3. ClassesOf(f) \subseteq Names /\ ClassesOf(f) \subseteq f.this
    BY SourcesAssumption DEF ClassesOf, IInv, FileOK
  <2>4. KnownOK' /\ AllNames(known') = AllNames(known) \cup ClassesOf(f)
    BY <2>2, <2>3 DEF IInv, KnownOK, AllNames
  <2>5. r \in signatures' /\ r.of = f
    BY <2>1, <2>2
  <2>6. KnownHaveRows'
    <3>1. ASSUME NEW name \in AllNames(known') PROVE HasRowOf(name) \/ \E t \in signatures' : name \in t.of.this
      <4>1. CASE name \in AllNames(known)
        BY <2>2, <4>1 DEF IInv, KnownHaveRows
      <4>2. CASE name \in ClassesOf(f)
        BY <2>3, <2>5, <4>2
      <4>3. QED
        BY <2>4, <3>1, <4>1, <4>2
    <3>2. QED
      BY <1>3, <3>1 DEF KnownHaveRows
  <2>7. SignaturesHaveRows'
    <3>1. ASSUME NEW s \in signatures', NEW k \in DOMAIN s.types, s.types[k].leaf \in Names
          PROVE  HasRowOf(s.types[k].leaf) \/ \E t \in signatures' : s.types[k].leaf \in t.of.this
      <4>1. CASE s \in signatures
        BY <2>2, <3>1, <4>1 DEF IInv, SignaturesHaveRows
      <4>2. CASE s = r
        <5>1. PICK N : N = s.types[k]
          OBVIOUS
        <5>2. PICK T : T = f.types[k]
          OBVIOUS
        <5>3. /\ k \in DOMAIN f.types /\ N.leaf \in Names
              /\ N = FixTypeName(known, T) \/ N = FixTypeName(known', T)
          BY <2>1, <3>1, <4>2, <5>1, <5>2
        <5>4. N.leaf \in AllNames(known) \cup AllNames(known')
          BY <5>2, <5>3, NameOfNames, SourcesAssumption DEF KnownIn, AllNames
        <5>5. HasRowOf(N.leaf) \/ \E t \in signatures' : N.leaf \in t.of.this
          BY <1>3, <2>4, <2>6, <5>4 DEF KnownHaveRows
        <5>6. QED
          BY <5>1, <5>5
      <4>3. QED
        BY <2>2, <4>1, <4>2
    <3>2. QED
      BY <1>3, <3>1 DEF SignaturesHaveRows
  <2>8. RowsAreKnown' /\ DefinedAreKnown'
    BY <1>1, <1>3, <2>4 DEF IInv, RowsAreKnown, DefinedAreKnown
  <2>9. HandledOrNot'
    <3>1. ASSUME NEW g \in handled' PROVE (\E s \in signatures' : s.of = g) \/ NoNameOrClass(g)'
      <4>1. CASE g = f
        BY <2>5, <4>1
      <4>2. CASE g \in handled
        <5>1. (\E s \in signatures : s.of = g) \/ NoNameOrClass(g)
          BY <4>2 DEF IInv, HandledOrNot
        <5>2. QED
          BY <1>1, <2>2, <5>1, NoNameStays
      <4>3. QED
        BY <1>1, <4>1, <4>2
    <3>2. QED
      BY <1>1, <3>1 DEF IInv, HandledOrNot
  <2>10. QED
    BY <1>2, <2>4, <2>6, <2>7, <2>8, <2>9 DEF IInv
<1>5. CASE ~IsRecorded(f)
  <2>1. known' = known /\ signatures' = signatures
    BY <1>5 DEF HandleFunctionDecl
  <2>2. /\ KnownOK' /\ KnownHaveRows' /\ SignaturesHaveRows' /\ RowsAreKnown' /\ DefinedAreKnown'
    BY <1>1, <1>3, <2>1 DEF IInv, KnownOK, KnownHaveRows, SignaturesHaveRows, RowsAreKnown, DefinedAreKnown
  <2>3. HandledOrNot'
    <3>1. ASSUME NEW g \in handled' PROVE (\E s \in signatures' : s.of = g) \/ NoNameOrClass(g)'
      <4>1. (\E s \in signatures : s.of = g) \/ NoNameOrClass(g)
        BY <1>1, <1>5, NotRecorded DEF IInv, HandledOrNot
      <4>2. QED
        BY <1>1, <2>1, <4>1, NoNameStays
    <3>2. QED
      BY <1>1, <3>1 DEF IInv, HandledOrNot
  <2>4. QED
    BY <1>2, <2>2, <2>3 DEF IInv
<1>6. QED
  BY <1>4, <1>5

LEMMA ReadTypeDefsIInv ==
  ASSUME IInv, ReadTypeDefs
  PROVE  IInv'
<1>1. /\ plugin = "save-typedefs" /\ plugin' = "save-func-parms" /\ declared' = declared
      /\ rows' = rows /\ known' = TypeDefs /\ handled' = {} /\ signatures' = signatures
  BY DEF ReadTypeDefs
<1>2. signatures' = {}
  BY <1>1 DEF IInv, NothingHandled
<1>3. FileOK' /\ RowsOK' /\ NothingHandled' /\ FieldsHaveRows' /\ SignaturesHaveRows' /\ HandledOrNot'
  BY <1>1, <1>2 DEF IInv, FileOK, RowsOK, NothingHandled, FieldsHaveRows, SignaturesHaveRows, HandledOrNot
<1>4. \A name : HasRowOf(name)' <=> HasRowOf(name)
  BY <1>1 DEF HasRowOf
<1>5. ASSUME NEW name PROVE HasRowOf(name) <=> name \in AllNames(TypeDefs)
  BY DEF HasRowOf, AllNames, TypeDefs, NamesOf, IInv, RowsOK
<1>6. \A k \in DOMAIN rows : HasRowOf(rows[k].name)
  BY DEF HasRowOf
<1>7. KnownHaveRows' /\ RowsAreKnown'
  BY <1>1, <1>4, <1>5, <1>6 DEF KnownHaveRows, RowsAreKnown
<1>8. DefinedAreKnown'
  BY <1>1, <1>4, <1>5 DEF IInv, DefinedAreKnown
<1>9. KnownOK'
  <2>1. \A kind : NamesOf(kind) \subseteq Names
    BY DEF NamesOf, IInv, RowsOK
  <2>2. QED
    BY <1>1, <2>1 DEF KnownOK, TypeDefs
<1>10. QED
  BY <1>3, <1>7, <1>8, <1>9 DEF IInv

LEMMA NextFileIInv ==
  ASSUME IInv, NextFile
  PROVE  IInv'
<1>1. /\ plugin' = "save-typedefs" /\ declared' = <<>> /\ known' = NoNames /\ handled' = {}
      /\ signatures' = {} /\ rows' = rows
  BY DEF NextFile
<1>2. DOMAIN <<>> = {} /\ IsSequence(<<>>)
  BY DEF IsSequence
<1>3. FileOK' /\ DefinedAreKnown' /\ NothingHandled' /\ SignaturesHaveRows' /\ RowsAreKnown' /\ HandledOrNot'
  BY <1>1, <1>2 DEF FileOK, DefinedAreKnown, NothingHandled, SignaturesHaveRows, RowsAreKnown, HandledOrNot
<1>4. RowsOK' /\ FieldsHaveRows'
  BY <1>1 DEF IInv, RowsOK, FieldsHaveRows
<1>5. KnownOK' /\ AllNames(known') = {}
  BY <1>1 DEF KnownOK, NoNames, AllNames
<1>6. QED
  BY <1>3, <1>4, <1>5 DEF IInv, KnownHaveRows

LEMMA NextIInv == IInv /\ [Next]_vars => IInv'
<1> SUFFICES ASSUME IInv, [Next]_vars PROVE IInv'
  OBVIOUS
<1>1. CASE \E d \in Declarations : HandleDecl(d)
  BY <1>1, HandleDeclIInv
<1>2. CASE \E f \in Functions : HandleFunctionDecl(f)
  BY <1>2, HandleFunctionDeclIInv
<1>3. CASE UNCHANGED vars
  <2>1. /\ plugin' = plugin /\ declared' = declared /\ known' = known /\ rows' = rows
        /\ handled' = handled /\ signatures' = signatures
    BY <1>3 DEF vars
  <2>2. \A name : HasRowOf(name)' <=> HasRowOf(name)
    BY <2>1 DEF HasRowOf
  <2>3. /\ FileOK' /\ RowsOK' /\ KnownOK' /\ NothingHandled' /\ FieldsHaveRows' /\ RowsAreKnown'
        /\ KnownHaveRows' /\ SignaturesHaveRows' /\ DefinedAreKnown'
    BY <2>1, <2>2 DEF IInv, FileOK, RowsOK, KnownOK, NothingHandled, FieldsHaveRows, KnownHaveRows,
                      SignaturesHaveRows, RowsAreKnown, DefinedAreKnown
  <2>4. HandledOrNot'
    BY <2>1, NoNameStays DEF IInv, HandledOrNot
  <2>5. QED
    BY <2>3, <2>4 DEF IInv
<1>4. QED
  BY <1>1, <1>2, <1>3, ReadTypeDefsIInv, NextFileIInv DEF Next

LEMMA NamesInvariance == Spec => []IInv
BY InitIInv, NextIInv, PTL DEF Spec

-----------------------------------------------------------------------------
(* The properties. *)

\* Each name that is written down can be looked up, a field's from the row on that names it.
THEOREM WrittenHaveRows == Spec => []NamesHaveRows
<1>1. IInv => NamesHaveRows
  <2> SUFFICES ASSUME IInv PROVE NamesHaveRows
    OBVIOUS
  <2>1. \A k \in DOMAIN rows : \A j \in DOMAIN rows[k].fields :
          rows[k].fields[j].leaf \in Names => \E i \in 1..k : rows[i].name = rows[k].fields[j].leaf
    BY DEF IInv, FieldsHaveRows
  <2>2. \A s \in signatures : \A k \in DOMAIN s.types :
          s.types[k].leaf \in Names => \/ \E i \in DOMAIN rows : rows[i].name = s.types[k].leaf
                                       \/ \E t \in signatures : s.types[k].leaf \in t.of.this
    BY DEF IInv, SignaturesHaveRows, HasRowOf
  <2>3. QED
    BY <2>1, <2>2 DEF NamesHaveRows
<1>2. QED
  BY <1>1, NamesInvariance, PTL

\* A name does not contain itself by way of the rows that are looked up: of names that contain
\* each other, the one with the first row contains none of them.
THEOREM NamesNestFinitely == Spec => []NestingEnds
<1>1. IInv => NestingEnds
  <2> SUFFICES ASSUME IInv, OneKind, NEW S \in (SUBSET Names) \ {{}}
               PROVE  \E name \in S : \A k \in Lookup(name) : \A j \in DOMAIN rows[k].fields :
                        ByValue(rows[k].fields[j]) => rows[k].fields[j].leaf \notin S
    BY DEF NestingEnds
  <2> DEFINE R == {k \in DOMAIN rows : rows[k].name \in S}
  <2>1. DOMAIN rows = 1..Len(rows) /\ Len(rows) \in Nat
    BY DEF IInv, RowsOK, IsSequence
  <2>2. \A name : \A k \in Lookup(name) : k \in DOMAIN rows /\ rows[k].name = name
    <3>1. ASSUME NEW name, NEW k \in Lookup(name) PROVE k \in DOMAIN rows /\ rows[k].name = name
      <4> DEFINE of(kind) == {l \in DOMAIN rows : rows[l].name = name /\ rows[l].kind = kind}
      <4>1. k \in of("enum") \/ k \in of("struct") \/ k \in of("union")
        BY <3>1 DEF Lookup
      <4>2. QED
        BY <4>1
    <3>2. QED
      BY <3>1
  <2>3. CASE R = {}
    BY <2>2, <2>3
  <2>4. CASE R # {}
    <3>1. R \subseteq Nat
      BY <2>1
    <3>2. PICK k \in R : \A i \in R : k <= i
      <4> HIDE DEF R
      <4>1. QED
        BY <2>4, <3>1, LeastNatural
    <3>3. PICK name : name = rows[k].name
      OBVIOUS
    <3>4. ASSUME NEW i \in Lookup(name) PROVE i = k
      <4>1. i \in DOMAIN rows /\ rows[i].name = name /\ k \in DOMAIN rows
        BY <2>2, <3>2, <3>4
      <4>2. rows[i].kind = rows[k].kind
        BY <3>3, <4>1 DEF OneKind
      <4>3. i <= k
        BY <3>3, <3>4, <4>1, <4>2 DEF Lookup
      <4>4. i \in R
        BY <3>2, <3>3, <4>1
      <4>5. QED
        BY <2>1, <3>2, <4>1, <4>3, <4>4
    <3>5. ASSUME NEW j \in DOMAIN rows[k].fields, ByValue(rows[k].fields[j])
          PROVE  rows[k].fields[j].leaf \notin S
      <4> SUFFICES ASSUME rows[k].fields[j].leaf \in S PROVE FALSE
        OBVIOUS
      <4>1. PICK i \in 1..k : rows[i].name = rows[k].fields[j].leaf /\ i < k
        BY <3>2, <3>5 DEF IInv, FieldsHaveRows
      <4>2. i \in R
        BY <2>1, <3>2, <4>1
      <4>3. QED
        BY <2>1, <3>2, <4>1, <4>2
    <3>6. QED
      BY <3>2, <3>3, <3>4, <3>5
  <2>5. QED
    BY <2>3, <2>4
<1>2. QED
  BY <1>1, NamesInvariance, PTL

\* A name says what the type is, or nothing.
THEOREM NamesSayTheType == Spec => []HonestNames
<1>1. HonestNames
  BY HonestName, SourcesAssumption DEF HonestNames
<1>2. QED
  BY <1>1, PTL

\* What can be named is named.
THEOREM DefinitionsAreNamed == Spec => []DefinedAreNamed
<1>1. IInv => DefinedAreNamed
  <2> SUFFICES ASSUME IInv, NEW k \in DOMAIN declared, NEW T \in SourceTypes, Spellable(declared[k]),
                      T.leaf = declared[k].name, ByValue(T), ~Contains(T.suffixes, "[]")
               PROVE  FixTypeName(known, T) = Named(T.leaf, T.suffixes)
    BY DEF DefinedAreNamed
  <2>1. IsSource(T) /\ T.leaf \in Names
    BY SourcesAssumption DEF IInv, FileOK
  <2>2. T.leaf \in AllNames(known)
    BY DEF IInv, DefinedAreKnown
  <2>3. ~IsNamedUnion(T.leaf)
    BY DEF IInv, FileOK, IsNamedUnion, Spellable
  <2>4. KnownIn(known, T.leaf)
    BY <2>2, <2>3 DEF KnownIn, AllNames
  <2>5. QED
    BY <2>1, <2>4, KnownIsNamed
<1>2. QED
  BY <1>1, NamesInvariance, PTL

\* The order in which functions are handled decides only on those with a class that has no row.
THEOREM OrderMattersLittle == Spec => []OrderMattersForClassesOnly
<1>1. IInv => OrderMattersForClassesOnly
  BY DEF IInv, HandledOrNot, NoNameOrClass, MaxNames, OrderMattersForClassesOnly
<1>2. QED
  BY <1>1, NamesInvariance, PTL

(***************************************************************************)
(* FunctionMatch.                                                          *)
(***************************************************************************)
-----------------------------------------------------------------------------
(* The inductive invariant. *)

\* Each row is one of those its function gets, ...
RowsWritten ==
  \A k \in DOMAIN functionData :
    /\ IsKnown(functionData[k].of)
    /\ \E j \in DOMAIN RowsFor(functionData[k].of) : functionData[k] = RowsFor(functionData[k].of)[j]

\* The row of f that has the parameters of the LLVM function.
FullRow(f) == [of |-> f, paramTypes |-> IF isMethod THEN <<This>> \o f.params ELSE f.params]

\* ... and the row with "this" is there when the one without it is.
RowsComplete ==
  \A k \in DOMAIN functionData : \E j \in DOMAIN functionData : functionData[j] = FullRow(functionData[k].of)

\* Once the pass has begun every known function has its rows.
AllRecorded ==
  documented # <<>> => \A f \in overloads : IsKnown(f) => \E k \in DOMAIN functionData : functionData[k].of = f

\* The row taken fits, ...
TakenFits == \A f \in DOMAIN documented : documented[f] # 0 => Fits(f, functionData[documented[f]])

\* ... and none was taken only if none fits.
NoneFits ==
  \A f \in DOMAIN documented : documented[f] = 0 => \A k \in DOMAIN functionData : ~Fits(f, functionData[k])

\* What a row may hold.
RowTypes == ParamTypes \cup {This}

\* Rows are records.
FunctionDataOK == functionData \in Seq([of : overloads, paramTypes : Seq(RowTypes)])

MatchIInv == /\ TypeOK /\ FunctionDataOK /\ RowsWritten /\ RowsComplete
        /\ AllRecorded /\ TakenFits /\ NoneFits

-----------------------------------------------------------------------------
(* Types. *)

LEMMA ParamsAreSequences ==
  ASSUME NEW f \in Signatures
  PROVE  /\ f.params \in Seq(ParamTypes) /\ f.returnType \in ReturnTypes
         /\ <<This>> \o f.params \in Seq(RowTypes)
         /\ f.params \in Seq(RowTypes)
         /\ Len(<<This>> \o f.params) = Len(f.params) + 1
         /\ (<<This>> \o f.params)[1] = This
         /\ \A k \in 2..Len(f.params) + 1 : (<<This>> \o f.params)[k] = f.params[k - 1]
<1>1. PICK n \in 0..MaxParams : f.params \in [1..n -> ParamTypes]
  BY DEF Signatures
<1>2. f.params \in Seq(ParamTypes)
  BY <1>1, BoundsAssumption
<1>3. f.returnType \in ReturnTypes
  BY DEF Signatures
<1>4. f.params \in Seq(RowTypes) /\ <<This>> \in Seq(RowTypes)
  BY <1>2 DEF RowTypes
<1>5. QED
  BY <1>2, <1>3, <1>4

\* The kinds of types are different.
LEMMA KindOf ==
  ASSUME NEW T \in RowTypes
  PROVE  /\ T.kind \in {"scalar", "enum", "ptr", "array", "other"}
         /\ T.kind = "other" => T = Other
         /\ T.kind = "enum" => T.name \in Enums
BY DEF RowTypes, ParamTypes, ReturnTypes, KnownTypes, Scalar, Enum, Ptr, Array, Other, This

\* A type that fits is one of the same LLVM type.
LEMMA SameType ==
  ASSUME NEW llvm, NEW T \in RowTypes, Same(llvm, T) \/ SameReplaced(llvm, T)
  PROVE  llvm = LlvmType(T)
BY KindOf DEF Same, SameReplaced, LlvmType

\* A type fits itself, an enum by its integer type, unless it is one of those that
\* never do.
LEMMA FitsItself ==
  ASSUME NEW T \in RowTypes, T # Other, ~Missed(T)
  PROVE  /\ T.kind # "enum" => Same(LlvmType(T), T)
         /\ T.kind = "enum" => SameReplaced(LlvmType(T), T)
<1>1. T.kind \in {"scalar", "enum", "ptr"}
  BY KindOf DEF Missed
<1>2. CASE T.kind = "enum"
  BY <1>2 DEF SameReplaced, LlvmType, Missed
<1>3. CASE T.kind \in {"scalar", "ptr"}
  BY <1>3 DEF Same, LlvmType
<1>4. QED
  BY <1>1, <1>2, <1>3

-----------------------------------------------------------------------------
(* Rows. *)

\* The parameters of the LLVM function.
FullTypes(f) == IF isMethod THEN <<This>> \o f.params ELSE f.params

LEMMA OneOrTwo ==
  ASSUME NEW a, NEW b
  PROVE  /\ Len(<<a>>) = 1 /\ DOMAIN <<a>> = 1..1 /\ <<a>>[1] = a
         /\ Len(<<a, b>>) = 2 /\ DOMAIN <<a, b>> = 1..2
         /\ <<a, b>>[1] = a /\ <<a, b>>[2] = b
OBVIOUS

\* The rows of a method and of a free function.
LEMMA RowsForCases ==
  ASSUME NEW f
  PROVE  /\ isMethod => RowsFor(f) = <<[of |-> f, paramTypes |-> f.params],
                                     [of |-> f, paramTypes |-> <<This>> \o f.params]>>
         /\ ~isMethod => RowsFor(f) = <<[of |-> f, paramTypes |-> f.params]>>
BY Zenon DEF RowsFor

LEMMA RowsForFacts ==
  ASSUME NEW f
  PROVE  /\ Len(RowsFor(f)) \in {1, 2} /\ DOMAIN RowsFor(f) = 1..Len(RowsFor(f))
         /\ RowsFor(f)[Len(RowsFor(f))] = FullRow(f)
         /\ \A j \in DOMAIN RowsFor(f) :
              \/ RowsFor(f)[j] = [of |-> f, paramTypes |-> f.params]
              \/ RowsFor(f)[j] = [of |-> f, paramTypes |-> <<This>> \o f.params]
<1> DEFINE a == [of |-> f, paramTypes |-> f.params]
           b == [of |-> f, paramTypes |-> <<This>> \o f.params]
<1>1. (isMethod => FullRow(f) = b) /\ (~isMethod => FullRow(f) = a)
  BY Zenon DEF FullRow
<1>2. (isMethod => RowsFor(f) = <<a, b>>) /\ (~isMethod => RowsFor(f) = <<a>>)
  BY Zenon, RowsForCases
<1>3. /\ Len(<<a>>) = 1 /\ DOMAIN <<a>> = 1..1 /\ <<a>>[1] = a
      /\ Len(<<a, b>>) = 2 /\ DOMAIN <<a, b>> = 1..2
      /\ <<a, b>>[1] = a /\ <<a, b>>[2] = b
  BY OneOrTwo
<1> HIDE DEF a, b
<1>4. CASE isMethod
  <2>1. RowsFor(f) = <<a, b>> /\ FullRow(f) = b
    BY <1>1, <1>2, <1>4
  <2>2. Len(RowsFor(f)) = 2 /\ DOMAIN RowsFor(f) = 1..2
    BY <2>1, <1>3
  <2>3. \A j \in 1..2 : RowsFor(f)[j] = a \/ RowsFor(f)[j] = b
    BY <2>1, <1>3
  <2>4. QED
    BY <2>1, <2>2, <2>3, <1>3 DEF a, b
<1>5. CASE ~isMethod
  <2>1. RowsFor(f) = <<a>> /\ FullRow(f) = a
    BY <1>1, <1>2, <1>5
  <2>2. Len(RowsFor(f)) = 1 /\ DOMAIN RowsFor(f) = 1..1
    BY <2>1, <1>3
  <2>3. \A j \in 1..1 : RowsFor(f)[j] = a
    BY <2>1, <1>3
  <2>4. QED
    BY <2>1, <2>2, <2>3, <1>3 DEF a, b
<1>6. QED
  BY <1>4, <1>5

LEMMA FullTypesFacts ==
  ASSUME NEW f \in Signatures
  PROVE  /\ FullTypes(f) \in Seq(RowTypes)
         /\ DOMAIN LlvmParams(f) = 1..Len(FullTypes(f))
         /\ Len(LlvmParams(f)) = Len(FullTypes(f))
         /\ \A k \in 1..Len(FullTypes(f)) : LlvmParams(f)[k] = LlvmType(FullTypes(f)[k])
         /\ FullRow(f) = [of |-> f, paramTypes |-> FullTypes(f)]
         /\ RowsFor(f)[Len(RowsFor(f))] = FullRow(f) /\ Len(RowsFor(f)) \in {1, 2}
         /\ DOMAIN RowsFor(f) = 1..Len(RowsFor(f))
<1>1. FullTypes(f) \in Seq(RowTypes)
  BY ParamsAreSequences DEF FullTypes
<1>2. DOMAIN FullTypes(f) = 1..Len(FullTypes(f)) /\ Len(FullTypes(f)) \in Nat
  BY <1>1
<1>3. LlvmParams(f) = [k \in 1..Len(FullTypes(f)) |-> LlvmType(FullTypes(f)[k])]
  BY <1>2 DEF LlvmParams, FullTypes
<1>4. Len(LlvmParams(f)) = Len(FullTypes(f))
  BY <1>2, <1>3
<1>5. FullRow(f) = [of |-> f, paramTypes |-> FullTypes(f)]
  BY DEF FullRow, FullTypes
<1>6. /\ RowsFor(f)[Len(RowsFor(f))] = FullRow(f) /\ Len(RowsFor(f)) \in {1, 2}
      /\ DOMAIN RowsFor(f) = 1..Len(RowsFor(f))
  BY RowsForFacts
<1>7. QED
  BY <1>1, <1>3, <1>4, <1>5, <1>6

\* A row of g holds the parameters of g, with or without "this".
LEMMA RowForFacts ==
  ASSUME NEW g \in Signatures, NEW r, NEW j \in DOMAIN RowsFor(g), r = RowsFor(g)[j]
  PROVE  /\ r.of = g /\ r.paramTypes \in Seq(RowTypes)
         /\ r.paramTypes = g.params \/ r.paramTypes = <<This>> \o g.params
<1>1. r \in {[of |-> g, paramTypes |-> g.params],
             [of |-> g, paramTypes |-> <<This>> \o g.params]}
  BY RowsForFacts
<1>2. r.of = g /\ (r.paramTypes = g.params \/ r.paramTypes = <<This>> \o g.params)
  BY <1>1
<1>3. QED
  BY <1>2, ParamsAreSequences

\* A row that fits has the LLVM types of the function, up to and with its first enum.
LEMMA FitMeansSameTypes ==
  ASSUME TypeOK, NEW f \in overloads, NEW g \in overloads,
         NEW r, NEW i \in DOMAIN RowsFor(g), r = RowsFor(g)[i], Fits(f, r)
  PROVE  AgreeToEnum(LlvmParams(f), r.paramTypes)
<1> DEFINE types == r.paramTypes
           llvm == LlvmParams(f)
<1>1. f \in Signatures /\ g \in Signatures
  BY DEF TypeOK
<1>2. types \in Seq(RowTypes)
  BY <1>1, RowForFacts
<1>3. DOMAIN types = 1..Len(types) /\ Len(types) \in Nat
      /\ \A k \in 1..Len(types) : types[k] \in RowTypes
  BY <1>2
<1>4. Len(types) = Len(llvm)
  BY DEF Fits, CountFits
<1>5. ASSUME NEW k \in UpToEnum(types) PROVE Same(llvm[k], types[k]) \/ SameReplaced(llvm[k], types[k])
  <2>1. ArgsFit(llvm, types) /\ k \in 1..Len(types)
    BY <1>3 DEF Fits, UpToEnum
  <2>2. CASE \A n \in DOMAIN types : Same(llvm[n], types[n])
    BY <2>1, <2>2, <1>3
  <2>3. ASSUME NEW n \in DOMAIN types, SameReplaced(llvm[n], types[n]),
               \A j \in 1..n-1 : Same(llvm[j], types[j])
        PROVE  Same(llvm[k], types[k]) \/ SameReplaced(llvm[k], types[k])
    <3>1. types[n].kind = "enum"
      BY <2>3 DEF SameReplaced
    <3>2. n \notin 1..k-1
      BY <3>1 DEF UpToEnum
    <3>3. k \in 1..n-1 \/ k = n
      BY <2>1, <3>2, <1>3
    <3>4. QED
      BY <2>3, <3>3
  <2>4. QED
    BY <2>1, <2>2, <2>3 DEF ArgsFit
<1>6. \A k \in UpToEnum(types) : types[k] \in RowTypes
  BY <1>3 DEF UpToEnum
<1>7. \A k \in UpToEnum(types) : LlvmType(types[k]) = llvm[k]
  BY <1>5, <1>6, SameType
<1>8. QED
  BY <1>4, <1>7 DEF AgreeToEnum

\* The row written for f fits f.
LEMMA OwnRowFits ==
  ASSUME TypeOK, NEW f \in overloads, IsKnown(f), NoneMissed(f)
  PROVE  Fits(f, FullRow(f))
<1> DEFINE types == FullTypes(f)
           llvm == LlvmParams(f)
<1>1. f \in Signatures
  BY DEF TypeOK
<1>2. types \in Seq(RowTypes) /\ Len(types) \in Nat /\ DOMAIN types = 1..Len(types)
      /\ \A k \in 1..Len(types) : types[k] \in RowTypes
  BY <1>1, FullTypesFacts
<1>3. ASSUME NEW k \in 1..Len(types)
      PROVE  types[k] # Other /\ ~Missed(types[k])
  <2>1. \A n \in DOMAIN f.params : f.params[n] # Other /\ ~Missed(f.params[n])
    BY DEF IsKnown, NoneMissed
  <2>2. f.params \in Seq(ParamTypes) /\ Len(f.params) \in Nat
        /\ DOMAIN f.params = 1..Len(f.params)
    BY <1>1, ParamsAreSequences
  <2>3. CASE ~isMethod
    BY <2>1, <2>2, <2>3 DEF FullTypes
  <2>4. CASE isMethod
    <3>1. /\ Len(types) = Len(f.params) + 1 /\ types[1] = This
          /\ \A n \in 2..Len(f.params) + 1 : types[n] = f.params[n - 1]
      BY <2>4, <1>1, ParamsAreSequences DEF FullTypes
    <3>2. CASE k = 1
      BY <3>1, <3>2 DEF This, Ptr, Other, Missed
    <3>3. CASE k # 1
      <4>1. k - 1 \in 1..Len(f.params) /\ k \in 2..Len(f.params) + 1
        BY <3>1, <3>3, <2>2
      <4>2. QED
        BY <4>1, <3>1, <2>1, <2>2
    <3>4. QED
      BY <3>2, <3>3
  <2>5. QED
    BY <2>3, <2>4
<1>4. \A k \in 1..Len(types) : llvm[k] = LlvmType(types[k])
  BY <1>1, FullTypesFacts
<1>5. \A k \in 1..Len(types) :
        /\ types[k].kind # "enum" => Same(llvm[k], types[k])
        /\ types[k].kind = "enum" => SameReplaced(llvm[k], types[k])
  BY <1>2, <1>3, <1>4, FitsItself
<1>6. ArgsFit(llvm, types)
  <2>1. CASE \A k \in 1..Len(types) : types[k].kind # "enum"
    BY <2>1, <1>2, <1>5 DEF ArgsFit
  <2>2. CASE \E k \in 1..Len(types) : types[k].kind = "enum"
    <3>1. PICK k \in 1..Len(types) : /\ types[k].kind = "enum"
                                     /\ \A j \in 1..Len(types) : types[j].kind = "enum" => k <= j
      <4> PICK E : E = {k \in 1..Len(types) : types[k].kind = "enum"}
        OBVIOUS
      <4>1. E \subseteq Nat /\ E # {}
        BY <2>2, <1>2
      <4>2. QED
        BY <4>1, LeastNatural
    <3>2. \A j \in 1..k-1 : j \in 1..Len(types) /\ ~(k <= j)
      <4>1. Len(types) \in Nat
        BY <1>2
      <4>2. QED
        BY <4>1
    <3>3. \A j \in 1..k-1 : Same(llvm[j], types[j])
      BY <3>1, <3>2, <1>5
    <3>4. QED
      BY <3>1, <3>3, <1>2, <1>5 DEF ArgsFit
  <2>3. QED
    BY <2>1, <2>2
<1>7. \/ Same(LlvmType(f.returnType), f.returnType)
      \/ SameReplaced(LlvmType(f.returnType), f.returnType)
  <2>1. f.returnType \in RowTypes /\ f.returnType # Other /\ ~Missed(f.returnType)
    BY <1>1, ParamsAreSequences DEF RowTypes, ParamTypes, IsKnown, NoneMissed
  <2>2. QED
    BY <2>1, FitsItself
<1>8. FullRow(f).of = f /\ FullRow(f).paramTypes = types
  BY <1>1, FullTypesFacts
<1>9. CountFits(llvm, types)
  BY <1>1, FullTypesFacts DEF CountFits
<1>10. QED
  BY <1>6, <1>7, <1>8, <1>9 DEF Fits

-----------------------------------------------------------------------------
(* The invariant is inductive. *)

LEMMA MatchInitIInv == MatchInit => MatchIInv
<1> SUFFICES ASSUME MatchInit PROVE MatchIInv
  OBVIOUS
<1>1. overloads \subseteq Signatures /\ isMethod \in BOOLEAN
  BY DEF MatchInit
<1>2. DOMAIN functionData = {} /\ DOMAIN documented = {} /\ documented = <<>>
      /\ functionData \in Seq([of : overloads, paramTypes : Seq(RowTypes)])
  BY DEF MatchInit
<1>3. QED
  BY <1>1, <1>2
     DEF MatchIInv, TypeOK, FunctionDataOK, RowsWritten, RowsComplete, AllRecorded, TakenFits, NoneFits

\* A declaration adds the rows of its function and changes nothing else.
LEMMA RowsAdded ==
  ASSUME MatchIInv, NEW f \in overloads, RecordFunction(f)
  PROVE  /\ DOMAIN functionData = 1..Len(functionData) /\ Len(functionData) \in Nat
         /\ functionData' \in Seq([of : overloads, paramTypes : Seq(RowTypes)])
         /\ DOMAIN functionData' = 1..Len(functionData) + Len(RowsFor(f))
         /\ \A k \in 1..Len(functionData) : functionData'[k] = functionData[k]
         /\ \A k \in DOMAIN functionData' \ DOMAIN functionData :
              \E j \in DOMAIN RowsFor(f) : functionData'[k] = RowsFor(f)[j]
         /\ Len(functionData) + Len(RowsFor(f)) \in DOMAIN functionData'
         /\ functionData'[Len(functionData) + Len(RowsFor(f))] = FullRow(f)
<1> DEFINE R == [of : overloads, paramTypes : Seq(RowTypes)]
           new == RowsFor(f)
<1>1. functionData \in Seq(R) /\ f \in Signatures
  BY DEF MatchIInv, FunctionDataOK, TypeOK
<1>2. /\ Len(new) \in {1, 2} /\ DOMAIN new = 1..Len(new)
      /\ new[Len(new)] = FullRow(f)
      /\ \A j \in DOMAIN new : \/ new[j] = [of |-> f, paramTypes |-> f.params]
                               \/ new[j] = [of |-> f, paramTypes |-> <<This>> \o f.params]
  BY RowsForFacts
<1>3. \A j \in DOMAIN new : new[j] \in R
  <2>1. f.params \in Seq(RowTypes) /\ <<This>> \o f.params \in Seq(RowTypes)
    BY <1>1, ParamsAreSequences
  <2>2. /\ [of |-> f, paramTypes |-> f.params] \in R
        /\ [of |-> f, paramTypes |-> <<This>> \o f.params] \in R
    BY <2>1
  <2>3. QED
    BY <1>2, <2>2
<1>4. new \in Seq(R)
  <2>1. \E a, b : new = <<a, b>> \/ new = <<a>>
    BY Zenon, RowsForCases
  <2>2. PICK a, b : new = <<a, b>> \/ new = <<a>>
    BY <2>1
  <2>3. CASE new = <<a, b>>
    <3>1. a \in R /\ b \in R
      BY <2>3, <1>3, OneOrTwo
    <3>2. QED
      BY <3>1, <2>3
  <2>4. CASE new = <<a>>
    <3>1. a \in R
      BY <2>4, <1>3, OneOrTwo
    <3>2. QED
      BY <3>1, <2>4
  <2>5. QED
    BY <2>2, <2>3, <2>4
<1>5. functionData' = functionData \o new
  BY DEF RecordFunction
<1> HIDE DEF R, new
<1>6. /\ DOMAIN functionData = 1..Len(functionData) /\ Len(functionData) \in Nat /\ functionData' \in Seq(R)
      /\ DOMAIN functionData' = 1..Len(functionData) + Len(new)
      /\ \A k \in 1..Len(functionData) : functionData'[k] = functionData[k]
      /\ \A k \in 1..Len(new) : functionData'[Len(functionData) + k] = new[k]
  BY <1>1, <1>4, <1>5
<1>7. ASSUME NEW k \in DOMAIN functionData' \ DOMAIN functionData
      PROVE  \E j \in DOMAIN new : functionData'[k] = new[j]
  <2>1. k - Len(functionData) \in 1..Len(new) /\ k = Len(functionData) + (k - Len(functionData))
    BY <1>2, <1>6
  <2>2. QED
    BY <2>1, <1>2, <1>6
<1>8. Len(functionData) + Len(new) \in DOMAIN functionData' /\ Len(new) \in 1..Len(new)
  BY <1>2, <1>6
<1>9. QED
  BY <1>2, <1>6, <1>7, <1>8 DEF R, new

LEMMA RecordFunctionIInv ==
  ASSUME MatchIInv, NEW f \in overloads, RecordFunction(f)
  PROVE  MatchIInv'
<1>1. /\ documented' = documented /\ overloads' = overloads /\ isMethod' = isMethod
      /\ documented = <<>> /\ DOMAIN documented = {} /\ IsKnown(f)
  BY DEF RecordFunction
<1>2. /\ \A g : RowsFor(g)' = RowsFor(g) /\ FullRow(g)' = FullRow(g)
      /\ overloads \subseteq Signatures /\ isMethod \in BOOLEAN
  BY <1>1 DEF RowsFor, FullRow, MatchIInv, TypeOK
<1>3. ASSUME NEW k \in DOMAIN functionData'
      PROVE  /\ functionData'[k].of \in overloads /\ IsKnown(functionData'[k].of)
             /\ \E j \in DOMAIN RowsFor(functionData'[k].of) : functionData'[k] = RowsFor(functionData'[k].of)[j]
             /\ \E j \in DOMAIN functionData' : functionData'[j] = FullRow(functionData'[k].of)
             /\ \A j \in DOMAIN functionData'[k].paramTypes : functionData'[k].paramTypes[j] \in RowTypes \ {Other}
  <2>1. CASE k \in DOMAIN functionData
    <3>1. functionData'[k] = functionData[k]
      BY <2>1, RowsAdded
    <3>2. /\ functionData[k].of \in overloads /\ IsKnown(functionData[k].of)
          /\ \E j \in DOMAIN RowsFor(functionData[k].of) : functionData[k] = RowsFor(functionData[k].of)[j]
          /\ \A j \in DOMAIN functionData[k].paramTypes : functionData[k].paramTypes[j] \in RowTypes \ {Other}
      BY <2>1 DEF MatchIInv, TypeOK, RowsWritten, RowTypes
    <3>3. PICK j \in DOMAIN functionData : functionData[j] = FullRow(functionData[k].of)
      BY <2>1 DEF MatchIInv, RowsComplete
    <3>4. j \in DOMAIN functionData' /\ functionData'[j] = functionData[j]
      <4>1. Len(RowsFor(f)) \in {1, 2}
        BY RowsForFacts
      <4>2. j \in 1..Len(functionData) /\ j \in 1..Len(functionData) + Len(RowsFor(f))
        BY <4>1, RowsAdded
      <4>3. QED
        BY <4>2, RowsAdded
    <3>5. QED
      BY <3>1, <3>2, <3>3, <3>4
  <2>2. CASE k \notin DOMAIN functionData
    <3>1. PICK j \in DOMAIN RowsFor(f) : functionData'[k] = RowsFor(f)[j]
      BY <2>2, RowsAdded
    <3>2. f \in Signatures
      BY <1>2
    <3>3. /\ functionData'[k].of = f /\ functionData'[k].paramTypes \in Seq(RowTypes)
          /\ functionData'[k].paramTypes = f.params \/ functionData'[k].paramTypes = <<This>> \o f.params
      BY <3>1, <3>2, RowForFacts
    <3>4. \E i \in DOMAIN functionData' : functionData'[i] = FullRow(f)
      BY RowsAdded
    <3>5. ASSUME NEW i \in DOMAIN functionData'[k].paramTypes
          PROVE  functionData'[k].paramTypes[i] \in RowTypes \ {Other}
      <4>1. \A n \in DOMAIN f.params : f.params[n] # Other
        BY <1>1 DEF IsKnown
      <4>2. CASE functionData'[k].paramTypes = f.params
        BY <4>1, <4>2, <3>3
      <4>3. CASE functionData'[k].paramTypes = <<This>> \o f.params
        <5>1. /\ f.params \in Seq(ParamTypes) /\ Len(f.params) \in Nat
              /\ DOMAIN f.params = 1..Len(f.params)
              /\ Len(functionData'[k].paramTypes) = Len(f.params) + 1
              /\ functionData'[k].paramTypes[1] = This
              /\ \A n \in 2..Len(f.params) + 1 : functionData'[k].paramTypes[n] = f.params[n - 1]
          BY <4>3, <3>2, ParamsAreSequences
        <5>2. i \in 1..Len(f.params) + 1 /\ functionData'[k].paramTypes[i] \in RowTypes
          BY <5>1, <3>3
        <5>3. CASE i = 1
          BY <5>1, <5>2, <5>3 DEF This, Ptr, Other
        <5>4. CASE i # 1
          <6>1. i \in 2..Len(f.params) + 1 /\ i - 1 \in 1..Len(f.params)
            BY <5>1, <5>2, <5>4
          <6>2. QED
            BY <6>1, <5>1, <5>2, <4>1
        <5>5. QED
          BY <5>3, <5>4
      <4>4. QED
        BY <3>3, <4>2, <4>3
    <3>6. QED
      BY <1>1, <3>1, <3>3, <3>4, <3>5
  <2>3. QED
    BY <2>1, <2>2
<1>4. TypeOK'
  BY <1>1, <1>2, <1>3 DEF TypeOK, RowTypes
<1>5. FunctionDataOK'
  BY <1>1, RowsAdded DEF FunctionDataOK
<1>6. RowsWritten' /\ RowsComplete'
  BY <1>2, <1>3 DEF RowsWritten, RowsComplete
<1>7. AllRecorded' /\ TakenFits' /\ NoneFits'
  BY <1>1 DEF AllRecorded, TakenFits, NoneFits
<1>8. QED
  BY <1>4, <1>5, <1>6, <1>7 DEF MatchIInv

LEMMA LibrarifyIInv ==
  ASSUME MatchIInv, NEW f \in overloads, Librarify(f)
  PROVE  MatchIInv'
<1>1. functionData' = functionData /\ overloads' = overloads /\ isMethod' = isMethod
  BY DEF Librarify
<1>2. PICK found \in 0..Len(functionData) :
        /\ found > 0 => Fits(f, functionData[found])
        /\ \A k \in DOMAIN functionData : (k < found \/ found = 0) => ~Fits(f, functionData[k])
        /\ documented' = [g \in DOMAIN documented \cup {f} |->
                            IF g = f THEN found ELSE documented[g]]
  BY DEF Librarify
<1>3. /\ DOMAIN documented' = DOMAIN documented \cup {f} /\ documented'[f] = found
      /\ \A g \in DOMAIN documented : g # f => documented'[g] = documented[g]
  BY <1>2
<1>4. /\ \A g : RowsFor(g)' = RowsFor(g) /\ FullRow(g)' = FullRow(g)
      /\ \A g, r : Fits(g, r)' = Fits(g, r)
  BY <1>1 DEF RowsFor, FullRow, Fits, LlvmParams
<1>5. TypeOK'
  BY <1>1, <1>2, <1>3 DEF MatchIInv, TypeOK
<1>6. FunctionDataOK' /\ RowsWritten' /\ RowsComplete'
  BY <1>1, <1>4 DEF MatchIInv, FunctionDataOK, RowsWritten, RowsComplete
<1>7. AllRecorded'
  BY <1>1 DEF Librarify, AllRecorded
<1>8. TakenFits' /\ NoneFits'
  <2>1. found # 0 => found > 0
    BY <1>2
  <2>2. QED
    BY <1>1, <1>2, <1>3, <1>4, <2>1 DEF MatchIInv, TakenFits, NoneFits
<1>9. QED
  BY <1>5, <1>6, <1>7, <1>8 DEF MatchIInv

LEMMA MatchNextIInv == MatchIInv /\ [MatchNext]_matchVars => MatchIInv'
<1> SUFFICES ASSUME MatchIInv, [MatchNext]_matchVars PROVE MatchIInv'
  OBVIOUS
<1>1. ASSUME NEW f \in overloads, RecordFunction(f) PROVE MatchIInv'
  BY <1>1, RecordFunctionIInv
<1>2. ASSUME NEW f \in overloads, Librarify(f) PROVE MatchIInv'
  BY <1>2, LibrarifyIInv
<1>3. CASE UNCHANGED matchVars
  <2>1. /\ functionData' = functionData /\ overloads' = overloads /\ isMethod' = isMethod
        /\ documented' = documented
    BY <1>3 DEF matchVars
  <2>2. /\ \A g : RowsFor(g)' = RowsFor(g) /\ FullRow(g)' = FullRow(g)
        /\ \A g, r : Fits(g, r)' = Fits(g, r)
    BY <2>1 DEF RowsFor, FullRow, Fits, LlvmParams
  <2>3. TypeOK' /\ FunctionDataOK'
    BY <2>1 DEF MatchIInv, TypeOK, FunctionDataOK
  <2>4. RowsWritten' /\ RowsComplete' /\ AllRecorded' /\ TakenFits' /\ NoneFits'
    BY <2>1, <2>2 DEF MatchIInv, RowsWritten, RowsComplete, AllRecorded, TakenFits, NoneFits
  <2>5. QED
    BY <2>3, <2>4 DEF MatchIInv
<1>4. QED
  BY <1>1, <1>2, <1>3 DEF MatchNext, Documented

LEMMA MatchInvariance == MatchSpec => []MatchIInv
BY MatchInitIInv, MatchNextIInv, PTL DEF MatchSpec

-----------------------------------------------------------------------------
(* The theorems. *)

\* Rows hold types that have a name, and the pass takes rows that exist.
THEOREM TypeCorrect == MatchSpec => []TypeOK
<1>1. MatchIInv => TypeOK
  BY DEF MatchIInv
<1>2. QED
  BY <1>1, MatchInvariance, PTL

\* What the invariant says of a row the pass took.
LEMMA TakenFacts ==
  ASSUME MatchIInv, NEW f \in DOMAIN documented, HasRow(f)
  PROVE  /\ f \in overloads /\ documented[f] \in DOMAIN functionData
         /\ AgreeToEnum(LlvmParams(f), TypesTaken(f))
<1>1. f \in overloads /\ documented[f] \in 1..Len(functionData) /\ DOMAIN functionData = 1..Len(functionData)
  BY DEF MatchIInv, TypeOK, FunctionDataOK, HasRow
<1>2. /\ functionData[documented[f]].of \in overloads
      /\ \E j \in DOMAIN RowsFor(functionData[documented[f]].of) :
           functionData[documented[f]] = RowsFor(functionData[documented[f]].of)[j]
      /\ Fits(f, functionData[documented[f]])
  BY <1>1 DEF MatchIInv, TypeOK, RowsWritten, TakenFits, HasRow
<1>3. QED
  BY <1>1, <1>2, FitMeansSameTypes DEF TypesTaken, MatchIInv

\* Whatever the order of the declarations and of the functions, the parameters of a
\* function have the LLVM types of the row taken for it, up to and with the row's
\* first enum.
THEOREM RowHasLlvmTypes == MatchSpec => []ParametersFound
<1>1. MatchIInv => ParametersFound
  BY TakenFacts DEF ParametersFound
<1>2. QED
  BY <1>1, MatchInvariance, PTL

\* A function that was recorded is found as itself, unless another overload's row
\* agrees with it up to that row's first enum.
THEOREM RecordedIsFound == MatchSpec => []OverloadsFound
<1>1. MatchIInv => OverloadsFound
  <2>  SUFFICES ASSUME MatchIInv, NEW f \in DOMAIN documented,
                        IsKnown(f), NoneMissed(f),
                        \A k \in DOMAIN functionData : functionData[k].of # f =>
                          ~AgreeToEnum(LlvmParams(f), functionData[k].paramTypes)
                 PROVE  IsFound(f)
    BY DEF OverloadsFound
  <2>2. f \in overloads /\ documented # <<>> /\ f \in Signatures
    BY DEF MatchIInv, TypeOK
  <2>3. PICK k \in DOMAIN functionData : functionData[k].of = f
    BY <2>2 DEF MatchIInv, AllRecorded
  <2>4. PICK j \in DOMAIN functionData : functionData[j] = FullRow(f)
    BY <2>3 DEF MatchIInv, RowsComplete
  <2>5. Fits(f, functionData[j])
    BY <2>2, <2>4, OwnRowFits DEF MatchIInv
  <2>6. HasRow(f)
    BY <2>5 DEF MatchIInv, NoneFits, HasRow
  <2>7. /\ documented[f] \in DOMAIN functionData
        /\ AgreeToEnum(LlvmParams(f), TypesTaken(f))
    BY <2>6, TakenFacts
  <2>8. functionData[documented[f]].of = f
    BY <2>7 DEF TypesTaken
  <2>9. Len(TypesTaken(f)) = Len(LlvmParams(f))
    BY <2>6 DEF HasRow, MatchIInv, TakenFits, Fits, CountFits, TypesTaken
  <2>10. QED
    BY <2>6, <2>8, <2>9 DEF IsFound
<1>2. QED
  BY <1>1, MatchInvariance, PTL
=============================================================================
