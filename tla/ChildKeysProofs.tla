--------------------------- MODULE ChildKeysProofs ---------------------------
(***************************************************************************)
(* What a pairing returns, for any table and any announcement, and that it   *)
(* hands a key back to the child it was minted for.                         *)
(*                                                                         *)
(* Pair and OnlyIn are functions computed step by step along a sequence; what *)
(* they return is proved by induction, which is the least element of a set   *)
(* of naturals (WFMin) applied to the set of the steps that have a property.  *)
(***************************************************************************)
EXTENDS ChildKeys, SequenceTheorems, FiniteSetTheorems, WellFoundedInduction, TLAPS

-----------------------------------------------------------------------------
(* Induction over the naturals, with sets in the place of predicates.       *)

\* A set of naturals that is not empty has a least element.
LEMMA LeastNatural ==
    ASSUME NEW T \in SUBSET Nat, T # {}
    PROVE  \E n \in T : \A m \in T : n <= m
<1> DEFINE R == {ss \in Nat \X Nat : ss[1] < ss[2]}
<1>1. IsWellFoundedOn(R, Nat)
  BY NatLessThanWellFounded DEF OpToRel
<1>2. \E x \in T : \A y \in T : ~ (<<y, x>> \in R)
  <2> HIDE DEF R
  <2> QED BY <1>1, WFMin
<1>3. ASSUME NEW x \in T, NEW y \in T, <<y, x>> \notin R PROVE x <= y
  <2>1. <<y, x>> \in Nat \X Nat
    OBVIOUS
  <2>2. ~ (<<y, x>>[1] < <<y, x>>[2])
    BY <1>3, <2>1, Zenon
  <2> QED BY <2>2
<1> QED BY <1>2, <1>3

\* Induction up to n, for a set P of the numbers that have a property.
LEMMA Induction ==
    ASSUME NEW n \in Nat, NEW P, 0 \in P, \A i \in 0 .. n - 1 : i \in P => i + 1 \in P
    PROVE  0 .. n \subseteq P
<1> DEFINE T == (0 .. n) \ P
<1> SUFFICES ASSUME T # {} PROVE FALSE
  OBVIOUS
<1>1. PICK m \in T : \A k \in T : m <= k
  <2>1. T \in SUBSET Nat
    OBVIOUS
  <2> HIDE DEF T
  <2> QED BY <2>1, LeastNatural
<1>2. m # 0
  OBVIOUS
<1>3. m - 1 \in 0 .. n - 1 /\ m - 1 \notin T
  BY <1>1, <1>2
<1> QED BY <1>3, <1>1

\* A set of indices that is not empty has a last one.
LEMMA GreatestIndex ==
    ASSUME NEW n \in Nat, NEW T \in SUBSET (1 .. n), T # {}
    PROVE  \E k \in T : \A j \in T : j <= k
<1> DEFINE U == {n - k : k \in T}
<1>1. PICK m \in U : \A l \in U : m <= l
  <2>1. \A k \in T : n - k \in Nat
    OBVIOUS
  <2>2. U \in SUBSET Nat /\ U # {}
    BY <2>1
  <2> HIDE DEF U
  <2> QED BY <2>2, LeastNatural
<1>2. PICK k \in T : m = n - k
  OBVIOUS
<1>3. ASSUME NEW j \in T PROVE j <= k
  <2>1. n - j \in U
    OBVIOUS
  <2> QED BY <2>1, <1>1, <1>2
<1> QED BY <1>3

\* g starts with base and goes on by the steps.
Steps(g, n, base, step) == g[0] = base /\ \A i \in 1 .. n : g[i] = step[i][g[i - 1]]

\* A function computed step by step exists, whatever the steps.
LEMMA Recursion ==
    ASSUME NEW N \in Nat, NEW X, NEW base \in X, NEW step \in [1 .. N -> [X -> X]]
    PROVE  \E g \in [0 .. N -> X] : Steps(g, N, base, step)
<1> DEFINE P == {n \in 0 .. N : \E g \in [0 .. n -> X] : Steps(g, n, base, step)}
<1>1. 0 \in P
  <2> DEFINE h == [i \in 0 .. 0 |-> base]
  <2>1. Steps(h, 0, base, step) /\ h \in [0 .. 0 -> X]
    BY DEF Steps
  <2> HIDE DEF h
  <2> QED BY <2>1
<1>2. ASSUME NEW n \in 0 .. N - 1, n \in P PROVE n + 1 \in P
  <2>1. PICK g \in [0 .. n -> X] : Steps(g, n, base, step)
    BY <1>2
  <2> DEFINE h == [i \in 0 .. n + 1 |-> IF i = n + 1 THEN step[n + 1][g[n]] ELSE g[i]]
  <2>2. h \in [0 .. n + 1 -> X]
    OBVIOUS
  <2>3. Steps(h, n + 1, base, step)
    <3>1. h[0] = base
      BY <2>1 DEF Steps
    <3>2. ASSUME NEW i \in 1 .. n + 1 PROVE h[i] = step[i][h[i - 1]]
      <4>1. CASE i = n + 1
        BY <4>1
      <4>2. CASE i # n + 1
        <5>1. i \in 1 .. n /\ i - 1 \in 0 .. n /\ h[i] = g[i] /\ h[i - 1] = g[i - 1]
          BY <4>2
        <5> QED BY <5>1, <2>1 DEF Steps
      <4> QED BY <4>1, <4>2
    <3> QED BY <3>1, <3>2 DEF Steps
  <2> HIDE DEF h
  <2> QED BY <2>2, <2>3
<1>3. 0 .. N \subseteq P
  <2> HIDE DEF P
  <2> QED BY <1>1, <1>2, Induction
<1> QED BY <1>3

-----------------------------------------------------------------------------
(* OnlyIn.                                                                 *)

\* The function OnlyIn computes, and what it is.
Kept(seq, S, f) ==
    [n \in 0 .. Len(seq) |->
        IF n = 0 THEN <<>>
        ELSE IF seq[n] \in S THEN Append(f[n - 1], seq[n])
        ELSE f[n - 1]]

Growing(f, seq, S) ==
    /\ f[0] = <<>>
    /\ \A n \in 1 .. Len(seq) :
          f[n] = IF seq[n] \in S THEN Append(f[n - 1], seq[n]) ELSE f[n - 1]

\* The selection is the last of a row of sequences, each at most one longer.
LEMMA KeptSteps ==
    ASSUME NEW A, NEW seq \in Seq(A), NEW S
    PROVE  \E f \in [0 .. Len(seq) -> Seq(A)] :
              OnlyIn(seq, S) = f[Len(seq)] /\ Growing(f, seq, S)
<1> DEFINE N == Len(seq)
           X == Seq(A)
           base == <<>>
           step == [n \in 1 .. N |-> [s \in X |-> IF seq[n] \in S THEN Append(s, seq[n]) ELSE s]]
<1>1. N \in Nat /\ base \in X /\ step \in [1 .. N -> [X -> X]]
  <2>1. \A n \in 1 .. N, s \in X : Append(s, seq[n]) \in X
    OBVIOUS
  <2> QED BY <2>1
<1>2. PICK g \in [0 .. N -> X] : Steps(g, N, base, step)
  <2> HIDE DEF N, step, X, base
  <2> QED BY <1>1, Recursion
<1>3. \A i \in 1 .. N : g[i] = IF seq[i] \in S THEN Append(g[i - 1], seq[i]) ELSE g[i - 1]
  <2>1. ASSUME NEW i \in 1 .. N
        PROVE  step[i][g[i - 1]] = IF seq[i] \in S THEN Append(g[i - 1], seq[i]) ELSE g[i - 1]
    <3>1. g[i - 1] \in X
      <4>1. N \in Nat
        BY <1>1
      <4> HIDE DEF X, N, step
      <4>2. i - 1 \in 0 .. N
        BY <4>1
      <4> QED BY <4>2
    <3> HIDE DEF X, N
    <3> QED BY <3>1
  <2> QED BY <2>1, <1>2 DEF Steps
<1>4. g = Kept(seq, S, g)
  <2>1. g = [n \in 0 .. N |-> g[n]]
    OBVIOUS
  <2>2. \A n \in 0 .. N : g[n] = IF n = 0 THEN <<>> ELSE IF seq[n] \in S THEN Append(g[n - 1], seq[n]) ELSE g[n - 1]
    <3> HIDE DEF step, X, N
    <3>1. g[0] = <<>>
      BY <1>2 DEF Steps
    <3> SUFFICES ASSUME NEW n \in 0 .. N
                 PROVE  g[n] = IF n = 0 THEN <<>>
                               ELSE IF seq[n] \in S THEN Append(g[n - 1], seq[n]) ELSE g[n - 1]
      OBVIOUS
    <3>2. n = 0 \/ n \in 1 .. N
      BY <1>1
    <3> QED BY <1>3, <3>1, <3>2
  <2> QED BY <2>1, <2>2 DEF Kept
<1> DEFINE f == CHOOSE f : f = Kept(seq, S, f)
<1>5. f = Kept(seq, S, f)
  <2> HIDE DEF N, X, base, step
  <2> QED BY <1>4
<1>6. OnlyIn(seq, S) = f[N]
  BY DEF OnlyIn, Kept
<1>7. \A n \in 0 .. N : f[n] = g[n]
  <2> HIDE DEF f, X, step, base
  <2>1. f[0] = <<>> /\ \A n \in 1 .. N : f[n] = IF seq[n] \in S THEN Append(f[n - 1], seq[n]) ELSE f[n - 1]
    <3>1. /\ Kept(seq, S, f)[0] = <<>>
          /\ \A n \in 1 .. N : Kept(seq, S, f)[n] = IF seq[n] \in S THEN Append(f[n - 1], seq[n]) ELSE f[n - 1]
      BY <1>1 DEF Kept
    <3> QED BY <3>1, <1>5
  <2> DEFINE P == {n \in 0 .. N : f[n] = g[n]}
  <2>2. 0 \in P
    BY <2>1, <1>1, <1>2 DEF Steps, base
  <2>3. ASSUME NEW n \in 0 .. N - 1, n \in P PROVE n + 1 \in P
    <3> HIDE DEF N
    <3>1. n + 1 \in 1 .. N /\ (n + 1) - 1 = n /\ n \in Nat
      BY <1>1
    <3>2. f[n + 1] = IF seq[n + 1] \in S THEN Append(f[n], seq[n + 1]) ELSE f[n]
      BY <3>1, <2>1
    <3>3. g[n + 1] = IF seq[n + 1] \in S THEN Append(g[n], seq[n + 1]) ELSE g[n]
      BY <3>1, <1>3
    <3> QED BY <2>3, <3>1, <3>2, <3>3
  <2> HIDE DEF P, N
  <2>4. 0 .. N \subseteq P
    BY <2>2, <2>3, <1>1, Induction
  <2> QED BY <2>4 DEF P
<1>8. OnlyIn(seq, S) = g[N]
  BY <1>6, <1>7, <1>1
<1>9. Growing(g, seq, S)
  BY <1>2, <1>3 DEF Steps, Growing
<1> QED BY <1>8, <1>9

\* What the selection keeps, and that it keeps nothing twice.
LEMMA Selection ==
    ASSUME NEW A, NEW seq \in Seq(A), NEW S
    PROVE  LET only == OnlyIn(seq, S)
           IN  /\ only \in Seq(A) /\ Range(only) = Range(seq) \intersect S
               /\ \E e \in [DOMAIN only -> DOMAIN seq] :
                    IsInjective(e) /\ \A i \in DOMAIN only : only[i] = seq[e[i]]
<1> DEFINE N == Len(seq)
           Embeds(e, s, n) ==
              \A i, j \in 1 .. Len(s) : e[i] \in 1 .. n /\ s[i] = seq[e[i]] /\ (e[i] = e[j] => i = j)
<1>0. PICK f \in [0 .. N -> Seq(A)] : OnlyIn(seq, S) = f[N] /\ Growing(f, seq, S)
  BY KeptSteps
<1>1. /\ OnlyIn(seq, S) = f[N] /\ f[0] = <<>>
      /\ \A n \in 1 .. N :
            f[n] = IF seq[n] \in S THEN Append(f[n - 1], seq[n]) ELSE f[n - 1]
  BY <1>0 DEF Growing
<1> DEFINE P == {n \in 0 .. N : /\ \E e \in [1 .. Len(f[n]) -> 1 .. n] : Embeds(e, f[n], n)
                                /\ \A i \in 1 .. n : seq[i] \in S => \E j \in 1 .. Len(f[n]) : f[n][j] = seq[i]
                                /\ \A j \in 1 .. Len(f[n]) : f[n][j] \in S}
<1>2. N \in Nat
  OBVIOUS
<1>3. 0 \in P
  <2> DEFINE e == [i \in 1 .. 0 |-> 1]
  <2>1. f[0] = <<>> /\ Len(f[0]) = 0
    BY <1>1
  <2>2. e \in [1 .. Len(f[0]) -> 1 .. 0] /\ Embeds(e, f[0], 0)
    BY <2>1
  <2> HIDE DEF Embeds
  <2> QED BY <2>1, <2>2, <1>2
<1>4. ASSUME NEW n \in 0 .. N - 1, n \in P PROVE n + 1 \in P
  <2>1. n + 1 \in 1 .. N /\ n + 1 \in 0 .. N /\ (n + 1) - 1 = n /\ n \in Nat /\ n \in 0 .. N
    BY <1>2
  <2>2. f[n] \in Seq(A) /\ f[n + 1] \in Seq(A)
    BY <2>1, <1>1
  <2>3. f[n + 1] = IF seq[n + 1] \in S THEN Append(f[n], seq[n + 1]) ELSE f[n]
    BY <2>1, <1>1
  <2>4. PICK e \in [1 .. Len(f[n]) -> 1 .. n] : Embeds(e, f[n], n)
    BY <1>4
  <2>5. CASE seq[n + 1] \notin S
    <3>1. f[n + 1] = f[n] /\ e \in [1 .. Len(f[n]) -> 1 .. n + 1]
      BY <2>3, <2>5, <2>1
    <3>2. Embeds(e, f[n], n + 1)
      BY <2>4, <2>1
    <3>3. \A i \in 1 .. n + 1 : seq[i] \in S => i \in 1 .. n
      BY <2>5, <2>1
    <3> HIDE DEF Embeds
    <3> QED BY <3>1, <3>2, <3>3, <1>4, <2>1
  <2>6. CASE seq[n + 1] \in S
    <3> DEFINE s == f[n]
               t == f[n + 1]
               d == [i \in 1 .. Len(s) + 1 |-> IF i = Len(s) + 1 THEN n + 1 ELSE e[i]]
    <3>1. /\ Len(s) \in Nat /\ Len(t) = Len(s) + 1 /\ t[Len(s) + 1] = seq[n + 1]
          /\ \A i \in 1 .. Len(s) : t[i] = s[i]
      <4>1. seq[n + 1] \in A
        BY <2>1
      <4>2. t = Append(s, seq[n + 1])
        BY <2>3, <2>6
      <4> QED BY <4>1, <4>2, <2>2
    <3>2. d \in [1 .. Len(t) -> 1 .. n + 1]
      BY <3>1, <2>1, <2>4
    <3>3. Embeds(d, t, n + 1)
      <4> SUFFICES ASSUME NEW i \in 1 .. Len(t), NEW j \in 1 .. Len(t)
                   PROVE  d[i] \in 1 .. n + 1 /\ t[i] = seq[d[i]] /\ (d[i] = d[j] => i = j)
        OBVIOUS
      <4>1. \A k \in 1 .. Len(t) : k = Len(s) + 1 \/ k \in 1 .. Len(s)
        BY <3>1
      <4>2. \A k \in 1 .. Len(s) : d[k] = e[k] /\ e[k] \in 1 .. n /\ e[k] # n + 1 /\ k # Len(s) + 1
        BY <3>1, <2>1, <2>4
      <4>3. d[Len(s) + 1] = n + 1
        BY <3>1
      <4>4. t[i] = seq[d[i]]
        BY <4>1, <4>2, <4>3, <3>1, <2>4
      <4>5. d[i] = d[j] => i = j
        BY <4>1, <4>2, <4>3, <2>4
      <4> QED BY <4>4, <4>5, <3>2
    <3>4. \A i \in 1 .. n + 1 : seq[i] \in S => \E j \in 1 .. Len(t) : t[j] = seq[i]
      <4> SUFFICES ASSUME NEW i \in 1 .. n + 1, seq[i] \in S
                   PROVE  \E j \in 1 .. Len(t) : t[j] = seq[i]
        OBVIOUS
      <4>1. CASE i = n + 1
        BY <4>1, <3>1
      <4>2. CASE i \in 1 .. n
        <5>1. PICK j \in 1 .. Len(s) : s[j] = seq[i]
          BY <4>2, <1>4
        <5> QED BY <5>1, <3>1
      <4> QED BY <4>1, <4>2, <2>1
    <3>5. \A j \in 1 .. Len(t) : t[j] \in S
      <4>1. \A j \in 1 .. Len(s) : s[j] \in S
        BY <1>4
      <4> QED BY <4>1, <3>1, <2>6
    <3> HIDE DEF Embeds, d
    <3> QED BY <3>2, <3>3, <3>4, <3>5, <2>1
  <2> QED BY <2>5, <2>6
<1>5. N \in P
  <2> HIDE DEF P, N
  <2>1. 0 .. N \subseteq P
    BY <1>2, <1>3, <1>4, Induction
  <2> QED BY <2>1, <1>2
<1> DEFINE only == f[N]
<1>6. only \in Seq(A) /\ DOMAIN only = 1 .. Len(only) /\ DOMAIN seq = 1 .. N
  BY <1>1, <1>2
<1>7. PICK e \in [1 .. Len(only) -> 1 .. N] : Embeds(e, only, N)
  BY <1>5
<1>8. IsInjective(e) /\ \A i \in DOMAIN only : only[i] = seq[e[i]]
  BY <1>6, <1>7 DEF IsInjective
<1>9. Range(only) = Range(seq) \intersect S
  <2>1. ASSUME NEW x \in Range(only) PROVE x \in Range(seq) \intersect S
    <3>1. PICK i \in 1 .. Len(only) : x = only[i]
      BY <1>6 DEF Range
    <3>2. x = seq[e[i]] /\ e[i] \in 1 .. N /\ x \in S
      BY <3>1, <1>7, <1>5
    <3> QED BY <3>2, <1>6 DEF Range
  <2>2. ASSUME NEW x \in Range(seq), x \in S PROVE x \in Range(only)
    <3>1. PICK i \in 1 .. N : x = seq[i]
      BY <1>6 DEF Range
    <3>2. \E j \in 1 .. Len(only) : only[j] = x
      BY <3>1, <2>2, <1>5
    <3> QED BY <3>2, <1>6 DEF Range
  <2> QED BY <2>1, <2>2
<1> QED BY <1>1, <1>6, <1>7, <1>8, <1>9

-----------------------------------------------------------------------------
(* The steps of a pairing.                                                 *)

\* by_resource finds a record that carries the identifier.
LEMMA LastWithId ==
    ASSUME NEW R, NEW children \in Seq(R), NEW id \in Ids(children)
    PROVE  LastWith(children, id) \in DOMAIN children /\ children[LastWith(children, id)].id = id
<1> DEFINE T == {k \in DOMAIN children : children[k].id = id}
<1>1. \E k \in T : \A j \in T : j <= k
  <2>1. T \in SUBSET (1 .. Len(children)) /\ T # {} /\ Len(children) \in Nat
    BY DEF Ids
  <2> HIDE DEF T
  <2> QED BY <2>1, GreatestIndex
<1> QED BY <1>1 DEF LastWith

\* The least of the records a name may be matched with.
LEMMA Match ==
    ASSUME NEW placing, NEW R, placing.table \in Seq(R), NEW child, Unclaimed(placing, child.name) # {}
    PROVE  KeyFor(placing, child) \in Unclaimed(placing, child.name)
<1>1. \E k \in Unclaimed(placing, child.name) : \A j \in Unclaimed(placing, child.name) : k <= j
  <2>1. Unclaimed(placing, child.name) \in SUBSET Nat
    BY DEF Unclaimed
  <2> QED BY <2>1, LeastNatural
<1> QED BY <1>1 DEF KeyFor

\* What placing one child does.
Places(placing, child, key, after) ==
    /\ after.keys = Bind(placing.keys, child.id, key)
    /\ DOMAIN after = {"table", "keys"} /\ key \in DOMAIN after.table
    /\ Len(placing.table) <= Len(after.table)
    /\ after.table[key] = child
    /\ \A k \in DOMAIN placing.table : k # key => after.table[k] = placing.table[k]
    /\ \A k \in DOMAIN after.table : k \in DOMAIN placing.table \/ k = key
    /\ \A id \in DOMAIN placing.keys :
          placing.keys[id] \in DOMAIN placing.table => placing.keys[id] # key
    /\ key \in DOMAIN placing.table => placing.table[key].name = child.name
    /\ key \notin DOMAIN placing.table => Unclaimed(placing, child.name) = {}

\* Placing one child is what Places says of it.
LEMMA PlaceIs ==
    ASSUME NEW R, NEW placing, placing.table \in Seq(R), NEW child \in R
    PROVE  /\ Place(placing, child).table \in Seq(R)
           /\ Places(placing, child, KeyFor(placing, child), Place(placing, child))
<1> DEFINE tab == placing.table
<1> SUFFICES ASSUME NEW key, key = KeyFor(placing, child), NEW after, after = Place(placing, child)
             PROVE  after.table \in Seq(R) /\ Places(placing, child, key, after)
  OBVIOUS
<1>0. Len(tab) \in Nat /\ DOMAIN tab = 1 .. Len(tab)
  OBVIOUS
<1>a. after = [table |-> IF key > Len(tab) THEN Append(tab, child) ELSE [tab EXCEPT ![key] = child],
               keys |-> Bind(placing.keys, child.id, key)]
  BY DEF Place
<1>b. /\ after.table = IF key > Len(tab) THEN Append(tab, child) ELSE [tab EXCEPT ![key] = child]
      /\ after.keys = Bind(placing.keys, child.id, key) /\ DOMAIN after = {"table", "keys"}
  BY <1>a
<1>1. CASE Unclaimed(placing, child.name) = {}
  <2>1. key = Len(tab) + 1
    BY <1>1 DEF KeyFor
  <2>2. after.table = Append(tab, child)
    BY <1>b, <2>1, <1>0
  <2>3. /\ after.table \in Seq(R) /\ Len(after.table) = Len(tab) + 1
        /\ DOMAIN after.table = 1 .. Len(tab) + 1
        /\ after.table[Len(tab) + 1] = child
        /\ \A k \in 1 .. Len(tab) : after.table[k] = tab[k]
    BY <2>2, <1>0
  <2> QED BY <1>0, <1>b, <1>1, <2>1, <2>3 DEF Places
<1>2. CASE Unclaimed(placing, child.name) # {}
  <2>1. /\ key \in DOMAIN tab /\ tab[key].name = child.name
        /\ \A id \in DOMAIN placing.keys : placing.keys[id] # key
    BY <1>2, Match DEF Unclaimed
  <2>2. after.table = [tab EXCEPT ![key] = child]
    BY <2>1, <1>0, <1>b
  <2>3. /\ after.table \in Seq(R) /\ Len(after.table) = Len(tab) /\ DOMAIN after.table = DOMAIN tab
        /\ after.table[key] = child /\ \A k \in DOMAIN tab : k # key => after.table[k] = tab[k]
    BY <2>1, <2>2, <1>0
  <2> QED BY <1>0, <1>b, <1>2, <2>1, <2>3 DEF Places
<1> QED BY <1>1, <1>2

\* What a placing is made of: a table, and a key for some of the identifiers.
IdsOf(R) == {r.id : r \in R}
Partial(I) == UNION {[D -> Nat] : D \in SUBSET I}
Placings(R) == [table : Seq(R), keys : Partial(IdsOf(R))]

\* A function on some of the identifiers is partial, and conversely.
LEMMA PartialIs ==
    ASSUME NEW I, NEW D \in SUBSET I, NEW f \in [D -> Nat]
    PROVE  f \in Partial(I)
BY DEF Partial

\* What a partial function is.
LEMMA PartialHas ==
    ASSUME NEW I, NEW f \in Partial(I)
    PROVE  DOMAIN f \in SUBSET I /\ f \in [DOMAIN f -> Nat]
BY DEF Partial

\* The children known by identifier are placed.
LEMMA FirstPlacing ==
    ASSUME NEW R, NEW table \in Seq(R), NEW announced \in Seq(R)
    PROVE  PlacedById(table, announced) \in Placings(R)
<1> DEFINE I == IdsOf(R)
           first == PlacedById(table, announced)
           N == Len(table)
<1>1. N \in Nat /\ DOMAIN table = 1 .. N
  OBVIOUS
<1>2. first.table \in Seq(R)
  <2>1. first.table = [k \in 1 .. N |-> first.table[k]]
    BY <1>1 DEF PlacedById
  <2>2. ASSUME NEW k \in 1 .. N PROVE first.table[k] \in R
    <3>1. CASE table[k].id \in Ids(announced)
      <4>1. LastWith(announced, table[k].id) \in DOMAIN announced
        BY <3>1, LastWithId
      <4>2. announced[LastWith(announced, table[k].id)] \in R
        BY <4>1
      <4> QED BY <4>2, <1>1 DEF PlacedById
    <3>2. CASE table[k].id \notin Ids(announced)
      BY <3>2, <1>1 DEF PlacedById
    <3> QED BY <3>1, <3>2
  <2> HIDE DEF first, N
  <2> QED BY <2>1, <2>2, <1>1
<1>3. first.keys \in Partial(I)
  <2> DEFINE D == Ids(announced) \intersect Ids(table)
  <2>1. D \in SUBSET I
    BY DEF Ids, IdsOf
  <2>2. \A id \in D : LastWith(table, id) \in Nat
    BY LastWithId
  <2>3. first.keys \in [D -> Nat]
    BY <2>2 DEF PlacedById
  <2> HIDE DEF D, I, first
  <2> QED BY <2>1, <2>3, PartialIs
<1>4. first = [table |-> first.table, keys |-> first.keys]
  BY DEF PlacedById

<1> QED BY <1>2, <1>3, <1>4 DEF Placings

\* One more child is placed.
LEMMA NextPlacing ==
    ASSUME NEW R, NEW placing \in Placings(R), NEW child \in R
    PROVE  Place(placing, child) \in Placings(R)
<1> DEFINE I == IdsOf(R)
           after == Place(placing, child)
           key == KeyFor(placing, child)
<1>1. placing.table \in Seq(R) /\ placing.keys \in Partial(I)
  BY DEF Placings
<1>2. /\ after.table \in Seq(R) /\ key \in DOMAIN after.table
      /\ after.keys = Bind(placing.keys, child.id, key)
  BY <1>1, PlaceIs DEF Places
<1>3. Bind(placing.keys, child.id, key) \in Partial(I)
  <2> HIDE DEF key
  <2> DEFINE D == DOMAIN placing.keys \union {child.id}
  <2>1. DOMAIN placing.keys \in SUBSET I /\ placing.keys \in [DOMAIN placing.keys -> Nat]
    <3> HIDE DEF I
    <3> QED BY <1>1, PartialHas
  <2>2. D \in SUBSET I
    BY <2>1 DEF IdsOf
  <2>3. key \in Nat
    <3> HIDE DEF after
    <3> QED BY <1>2
  <2>4. Bind(placing.keys, child.id, key) \in [D -> Nat]
    BY <2>1, <2>3 DEF Bind
  <2> HIDE DEF D, I, key
  <2> QED BY <2>2, <2>4, PartialIs
<1>4. after = [table |-> after.table, keys |-> after.keys]
  BY DEF Place

<1> QED BY <1>2, <1>3, <1>4 DEF Placings

-----------------------------------------------------------------------------
\* The function Pair computes, and what it is.
PlacedSoFar(table, announced, f) ==
    [n \in 0 .. Len(announced) |->
          IF n = 0 THEN PlacedById(table, announced)
          ELSE IF announced[n].id \in Ids(table) THEN f[n - 1]
          ELSE Place(f[n - 1], announced[n])]
PlacesInTurn(f, table, announced) ==
    /\ f[0] = PlacedById(table, announced)
    /\ \A n \in 1 .. Len(announced) :
          f[n] = IF announced[n].id \in Ids(table) THEN f[n - 1] ELSE Place(f[n - 1], announced[n])

\* The pairing is the last of a row of placings.
LEMMA PairSteps ==
    ASSUME NEW R, NEW table \in Seq(R), NEW announced \in Seq(R)
    PROVE  \E f \in [0 .. Len(announced) -> Placings(R)] :
              Pair(table, announced) = f[Len(announced)] /\ PlacesInTurn(f, table, announced)
<1> DEFINE N == Len(announced)
           X == Placings(R)
           base == PlacedById(table, announced)
           next(n, s) == IF announced[n].id \in Ids(table) THEN s ELSE Place(s, announced[n])
           step == [n \in 1 .. N |-> [s \in X |-> next(n, s)]]
<1>1. N \in Nat /\ base \in X /\ step \in [1 .. N -> [X -> X]]
  <2>1. ASSUME NEW n \in 1 .. N, NEW s \in X PROVE next(n, s) \in X
    <3>1. announced[n] \in R
      OBVIOUS
    <3>2. Place(s, announced[n]) \in X
      BY <3>1, NextPlacing
    <3> QED BY <3>2
  <2>2. base \in X
    BY FirstPlacing
  <2> HIDE DEF X, next, base
  <2> QED BY <2>1, <2>2
<1>2. PICK g \in [0 .. N -> X] : Steps(g, N, base, step)
  <2> HIDE DEF N, step, X, base
  <2> QED BY <1>1, Recursion
<1>3. \A i \in 1 .. N : g[i] = next(i, g[i - 1])
  <2>1. ASSUME NEW i \in 1 .. N PROVE step[i][g[i - 1]] = next(i, g[i - 1])
    <3>1. g[i - 1] \in X
      <4>1. N \in Nat
        BY <1>1
      <4> HIDE DEF X, N, step, next
      <4>2. i - 1 \in 0 .. N
        BY <4>1
      <4> QED BY <4>2
    <3> HIDE DEF X, N, next
    <3> QED BY <3>1
  <2> HIDE DEF next, step
  <2> QED BY <2>1, <1>2 DEF Steps
<1>4. g = PlacedSoFar(table, announced, g)
  <2>1. g = [n \in 0 .. N |-> g[n]]
    OBVIOUS
  <2>2. \A n \in 0 .. N : g[n] = IF n = 0 THEN base ELSE next(n, g[n - 1])
    <3> HIDE DEF step, X, N, next, base
    <3>1. g[0] = base
      BY <1>2 DEF Steps
    <3> SUFFICES ASSUME NEW n \in 0 .. N PROVE g[n] = IF n = 0 THEN base ELSE next(n, g[n - 1])
      OBVIOUS
    <3>2. n = 0 \/ n \in 1 .. N
      BY <1>1
    <3> QED BY <1>3, <3>1, <3>2
  <2> QED BY <2>1, <2>2 DEF PlacedSoFar
<1> DEFINE f == CHOOSE f : f = PlacedSoFar(table, announced, f)
<1>5. f = PlacedSoFar(table, announced, f)
  <2> HIDE DEF N, X, base, step
  <2> QED BY <1>4
<1>6. Pair(table, announced) = f[N]
  BY DEF Pair, PlacedSoFar
<1>7. \A n \in 0 .. N : f[n] = g[n]
  <2> HIDE DEF f, X, step, base
  <2>1. f[0] = base /\ \A n \in 1 .. N : f[n] = next(n, f[n - 1])
    <3>1. /\ PlacedSoFar(table, announced, f)[0] = base
          /\ \A n \in 1 .. N : PlacedSoFar(table, announced, f)[n] = next(n, f[n - 1])
      BY <1>1 DEF PlacedSoFar, base
    <3> QED BY <3>1, <1>5
  <2> DEFINE P == {n \in 0 .. N : f[n] = g[n]}
  <2>2. 0 \in P
    BY <2>1, <1>1, <1>2 DEF Steps
  <2>3. ASSUME NEW n \in 0 .. N - 1, n \in P PROVE n + 1 \in P
    <3> HIDE DEF N, next
    <3>1. n + 1 \in 1 .. N /\ (n + 1) - 1 = n /\ n \in Nat
      BY <1>1
    <3>2. f[n + 1] = next(n + 1, f[n]) /\ g[n + 1] = next(n + 1, g[n])
      BY <3>1, <2>1, <1>3
    <3> QED BY <2>3, <3>1, <3>2
  <2> HIDE DEF P, N
  <2>4. 0 .. N \subseteq P
    BY <2>2, <2>3, <1>1, Induction
  <2> QED BY <2>4 DEF P
<1>8. Pair(table, announced) = g[N]
  BY <1>6, <1>7, <1>1
<1>9. PlacesInTurn(g, table, announced)
  BY <1>2, <1>3 DEF Steps, PlacesInTurn
<1> QED BY <1>8, <1>9

-----------------------------------------------------------------------------
(* What a pairing returns, by induction over those announced.               *)

\* No identifier is announced, or recorded, twice.
DistinctIds(children) ==
    \A i, j \in DOMAIN children : children[i].id = children[j].id => i = j

\* The keys of those that were known, and of the first n of the others.
KeyedIds(table, announced, n) ==
    (Ids(announced) \intersect Ids(table))
      \union {announced[i].id : i \in {i \in 1 .. n : announced[i].id \notin Ids(table)}}
\* Those known by identifier have the key of their record.
Keyed(table, announced, n, placing) ==
    /\ Len(table) <= Len(placing.table)
    /\ placing.keys \in [KeyedIds(table, announced, n) -> DOMAIN placing.table]
    /\ \A id \in Ids(announced) \intersect Ids(table) : placing.keys[id] = LastWith(table, id)

\* When no identifier is announced twice: a key is one child's, its record is what
\* was announced, every other record is as it was, and the key of a child found by
\* name is that of a record of this name, a new one when they are all taken.
Matched(table, announced, n, placing) ==
    /\ \A i \in DOMAIN announced : announced[i].id \in DOMAIN placing.keys =>
          placing.table[placing.keys[announced[i].id]] = announced[i]
    /\ \A i, j \in DOMAIN placing.keys : placing.keys[i] = placing.keys[j] => i = j
    /\ \A k \in DOMAIN placing.table :
          \/ k \in DOMAIN table /\ placing.table[k] = table[k]
          \/ \E id \in DOMAIN placing.keys : placing.keys[id] = k
    /\ \A i \in 1 .. n : announced[i].id \notin Ids(table) =>
          LET key == placing.keys[announced[i].id]
          IN  IF key \in DOMAIN table THEN table[key].name = announced[i].name
              ELSE \A k \in DOMAIN table : table[k].name = announced[i].name =>
                      \E id \in DOMAIN placing.keys : placing.keys[id] = k

\* By identifier, the keys are those of the records.
LEMMA KeyedFirst ==
    ASSUME NEW R, NEW table \in Seq(R), NEW announced \in Seq(R)
    PROVE  Keyed(table, announced, 0, PlacedById(table, announced))
<1> DEFINE first == PlacedById(table, announced)
           D == Ids(announced) \intersect Ids(table)
<1>1. first.table = [k \in DOMAIN table |-> first.table[k]]
  BY DEF PlacedById
<1>2. Len(first.table) = Len(table) /\ DOMAIN first.table = DOMAIN table
  <2> HIDE DEF first
  <2> QED BY <1>1
<1>3. first.keys = [id \in D |-> LastWith(table, id)]
  BY DEF PlacedById
<1>4. \A id \in D : LastWith(table, id) \in DOMAIN table
  BY LastWithId
<1>5. KeyedIds(table, announced, 0) = D
  BY DEF KeyedIds
<1> QED BY <1>2, <1>3, <1>4, <1>5 DEF Keyed

\* Placing one more child keeps them.
LEMMA KeyedNext ==
    ASSUME NEW R, NEW table \in Seq(R), NEW announced \in Seq(R), NEW n \in 1 .. Len(announced),
           NEW placing \in Placings(R), Keyed(table, announced, n - 1, placing)
    PROVE  Keyed(table, announced, n,
                 IF announced[n].id \in Ids(table) THEN placing ELSE Place(placing, announced[n]))
<1>1. CASE announced[n].id \in Ids(table)
  <2>1. KeyedIds(table, announced, n) = KeyedIds(table, announced, n - 1)
    BY <1>1 DEF KeyedIds
  <2> QED BY <1>1, <2>1 DEF Keyed
<1>2. CASE announced[n].id \notin Ids(table)
  <2> DEFINE child == announced[n]
  <2>0. child \in R /\ placing.table \in Seq(R)
    BY DEF Placings
  <2>1. PICK key, after : after = Place(placing, child) /\ after.table \in Seq(R) /\ Places(placing, child, key, after)
    BY <2>0, PlaceIs
  <2>2. KeyedIds(table, announced, n) = KeyedIds(table, announced, n - 1) \union {child.id}
    BY <1>2 DEF KeyedIds
  <2>3. DOMAIN placing.table \subseteq DOMAIN after.table
    BY <2>0, <2>1 DEF Places
  <2>4. after.keys \in [KeyedIds(table, announced, n) -> DOMAIN after.table]
    BY <2>1, <2>2, <2>3 DEF Places, Bind, Keyed
  <2>5. Len(table) <= Len(after.table)
    BY <2>0, <2>1 DEF Places, Keyed
  <2>6. \A id \in Ids(announced) \intersect Ids(table) : after.keys[id] = LastWith(table, id)
    BY <1>2, <2>1 DEF Keyed, Places, Bind, KeyedIds
  <2> QED BY <1>2, <2>1, <2>4, <2>5, <2>6 DEF Keyed
<1> QED BY <1>1, <1>2

\* By identifier, the records become what was announced.
LEMMA MatchedFirst ==
    ASSUME NEW R, NEW table \in Seq(R), NEW announced \in Seq(R), DistinctIds(announced)
    PROVE  Matched(table, announced, 0, PlacedById(table, announced))
<1> SUFFICES ASSUME NEW first, first = PlacedById(table, announced)
             PROVE  Matched(table, announced, 0, first)
  OBVIOUS
<1> DEFINE D == Ids(announced) \intersect Ids(table)
<1>1. /\ first.table = [k \in DOMAIN table |->
                          IF table[k].id \in Ids(announced) /\ LastWith(table, table[k].id) = k
                          THEN announced[LastWith(announced, table[k].id)] ELSE table[k]]
      /\ first.keys = [id \in D |-> LastWith(table, id)]
  BY DEF PlacedById
<1>2. \A id \in D : LastWith(table, id) \in DOMAIN table /\ table[LastWith(table, id)].id = id
  BY LastWithId
<1>3. \A i \in DOMAIN announced : LastWith(announced, announced[i].id) = i
  <2> SUFFICES ASSUME NEW i \in DOMAIN announced PROVE LastWith(announced, announced[i].id) = i
    OBVIOUS
  <2>1. announced[i].id \in Ids(announced)
    BY DEF Ids
  <2>2. LET l == LastWith(announced, announced[i].id)
        IN  l \in DOMAIN announced /\ announced[l].id = announced[i].id
    BY <2>1, LastWithId
  <2> QED BY <2>2 DEF DistinctIds
<1>4. ASSUME NEW i \in DOMAIN announced, announced[i].id \in DOMAIN first.keys
      PROVE  first.table[first.keys[announced[i].id]] = announced[i]
  <2> DEFINE k == LastWith(table, announced[i].id)
  <2>1. announced[i].id \in D /\ first.keys[announced[i].id] = k
    BY <1>1, <1>4
  <2>2. k \in DOMAIN table /\ table[k].id = announced[i].id
    BY <2>1, <1>2
  <2>3. first.table[k] = announced[LastWith(announced, table[k].id)]
    BY <2>1, <2>2, <1>1
  <2> QED BY <2>1, <2>2, <2>3, <1>3
<1>5. \A i, j \in DOMAIN first.keys : first.keys[i] = first.keys[j] => i = j
  BY <1>1, <1>2
<1>6. ASSUME NEW k \in DOMAIN first.table
      PROVE  \/ k \in DOMAIN table /\ first.table[k] = table[k]
             \/ \E id \in DOMAIN first.keys : first.keys[id] = k
  <2>1. CASE table[k].id \in Ids(announced) /\ LastWith(table, table[k].id) = k
    <3>1. table[k].id \in D
      BY <2>1, <1>1, <1>6 DEF Ids
    <3> QED BY <3>1, <2>1, <1>1
  <2>2. CASE ~(table[k].id \in Ids(announced) /\ LastWith(table, table[k].id) = k)
    BY <2>2, <1>1, <1>6
  <2> QED BY <2>1, <2>2
<1> QED BY <1>4, <1>5, <1>6 DEF Matched

\* Placing one more child takes nobody's record.
LEMMA MatchedNext ==
    ASSUME NEW R, NEW table \in Seq(R), NEW announced \in Seq(R), DistinctIds(announced),
           NEW n \in 1 .. Len(announced),
           NEW placing \in Placings(R), Keyed(table, announced, n - 1, placing),
           Matched(table, announced, n - 1, placing)
    PROVE  Matched(table, announced, n,
                   IF announced[n].id \in Ids(table) THEN placing ELSE Place(placing, announced[n]))
<1>1. CASE announced[n].id \in Ids(table)
  <2>1. \A i \in 1 .. n : announced[i].id \notin Ids(table) => i \in 1 .. n - 1
    BY <1>1
  <2> QED BY <1>1, <2>1 DEF Matched
<1>2. CASE announced[n].id \notin Ids(table)
  <2> DEFINE child == announced[n]
  <2>0. child \in R /\ placing.table \in Seq(R)
    BY DEF Placings
  <2>1. PICK key, after : after = Place(placing, child) /\ after.table \in Seq(R) /\ Places(placing, child, key, after)
    BY <2>0, PlaceIs
  <2>2. child.id \notin DOMAIN placing.keys
    <3>1. DOMAIN placing.keys = KeyedIds(table, announced, n - 1)
      BY DEF Keyed
    <3>2. \A i \in 1 .. n - 1 : announced[i].id # child.id
      BY DEF DistinctIds
    <3> QED BY <3>1, <3>2, <1>2 DEF KeyedIds
  <2>3. /\ DOMAIN after.keys = DOMAIN placing.keys \union {child.id}
        /\ after.keys[child.id] = key
        /\ \A id \in DOMAIN placing.keys : after.keys[id] = placing.keys[id]
    BY <2>1, <2>2 DEF Places, Bind
  <2>4. \A id \in DOMAIN placing.keys : placing.keys[id] \in DOMAIN placing.table /\ placing.keys[id] # key
    BY <2>1 DEF Places, Keyed
  <2>5. \A k \in DOMAIN placing.table : k # key => after.table[k] = placing.table[k]
    BY <2>1 DEF Places
  <2>6. ASSUME NEW i \in DOMAIN announced, announced[i].id \in DOMAIN after.keys
        PROVE  after.table[after.keys[announced[i].id]] = announced[i]
    <3>1. CASE announced[i].id = child.id
      <4>1. i = n
        BY <3>1 DEF DistinctIds
      <4> QED BY <4>1, <2>1, <2>3 DEF Places
    <3>2. CASE announced[i].id # child.id
      <4>1. announced[i].id \in DOMAIN placing.keys
        BY <2>6, <3>2, <2>3
      <4>2. placing.table[placing.keys[announced[i].id]] = announced[i]
        BY <4>1 DEF Matched
      <4> QED BY <4>1, <4>2, <2>3, <2>4, <2>5
    <3> QED BY <3>1, <3>2
  <2>7. \A i, j \in DOMAIN after.keys : after.keys[i] = after.keys[j] => i = j
    BY <2>3, <2>4 DEF Matched
  <2>8. ASSUME NEW k \in DOMAIN after.table
        PROVE  \/ k \in DOMAIN table /\ after.table[k] = table[k]
               \/ \E id \in DOMAIN after.keys : after.keys[id] = k
    <3>1. CASE k = key
      BY <3>1, <2>3
    <3>2. CASE k # key
      <4>1. k \in DOMAIN placing.table /\ after.table[k] = placing.table[k]
        BY <3>2, <2>1, <2>5 DEF Places
      <4>2. \/ k \in DOMAIN table /\ placing.table[k] = table[k]
            \/ \E id \in DOMAIN placing.keys : placing.keys[id] = k
        BY <4>1 DEF Matched
      <4> QED BY <4>1, <4>2, <2>3
    <3> QED BY <3>1, <3>2
  <2>9. ASSUME NEW i \in 1 .. n, announced[i].id \notin Ids(table)
        PROVE  LET k0 == after.keys[announced[i].id]
               IN  IF k0 \in DOMAIN table THEN table[k0].name = announced[i].name
                   ELSE \A k \in DOMAIN table : table[k].name = announced[i].name =>
                          \E id \in DOMAIN after.keys : after.keys[id] = k
    <3>0. DOMAIN table \subseteq DOMAIN placing.table
      BY <2>0 DEF Keyed
    <3>1. CASE i = n
      <4>1. CASE key \in DOMAIN table
        <5>1. placing.table[key].name = child.name
          BY <4>1, <3>0, <2>1 DEF Places
        <5>2. placing.table[key] = table[key]
          BY <4>1, <3>0, <2>4 DEF Matched
        <5> QED BY <5>1, <5>2, <4>1, <3>1, <2>3
      <4>2. CASE key \notin DOMAIN table
        <5>1. ASSUME NEW k \in DOMAIN table, table[k].name = child.name
              PROVE  \E id \in DOMAIN after.keys : after.keys[id] = k
          <6>1. CASE \E id \in DOMAIN placing.keys : placing.keys[id] = k
            BY <6>1, <2>3
          <6>2. CASE \A id \in DOMAIN placing.keys : placing.keys[id] # k
            <7>1. k \in DOMAIN placing.table /\ placing.table[k] = table[k]
              BY <6>2, <3>0 DEF Matched
            <7>2. k \in Unclaimed(placing, child.name)
              BY <7>1, <6>2, <5>1 DEF Unclaimed
            <7>3. key \in DOMAIN placing.table
              BY <7>2, <2>1 DEF Places
            <7>4. key \notin DOMAIN table /\ \A id \in DOMAIN placing.keys : placing.keys[id] # key
              BY <4>2, <2>4
            <7> QED BY <7>3, <7>4 DEF Matched
          <6> QED BY <6>1, <6>2
        <5> QED BY <5>1, <4>2, <3>1, <2>3
      <4> QED BY <4>1, <4>2
    <3>2. CASE i \in 1 .. n - 1
      <4>1. announced[i].id \in DOMAIN placing.keys
        BY <3>2, <2>9 DEF Keyed, KeyedIds
      <4>2. after.keys[announced[i].id] = placing.keys[announced[i].id]
        BY <4>1, <2>3
      <4>3. LET k0 == placing.keys[announced[i].id]
            IN  IF k0 \in DOMAIN table THEN table[k0].name = announced[i].name
                ELSE \A k \in DOMAIN table : table[k].name = announced[i].name =>
                       \E id \in DOMAIN placing.keys : placing.keys[id] = k
        BY <3>2, <2>9 DEF Matched
      <4> QED BY <4>2, <4>3, <2>3
    <3> QED BY <3>1, <3>2
  <2>10. Matched(table, announced, n, after)
    BY <2>6, <2>7, <2>8, <2>9 DEF Matched
  <2> QED BY <2>10, <2>1, <1>2
<1> QED BY <1>1, <1>2

\* What a pairing returns, whoever is announced.
LEMMA PairKeyed ==
    ASSUME NEW R, NEW table \in Seq(R), NEW announced \in Seq(R)
    PROVE  /\ Pair(table, announced) \in Placings(R)
           /\ Keyed(table, announced, Len(announced), Pair(table, announced))
           /\ DistinctIds(announced) => Matched(table, announced, Len(announced), Pair(table, announced))
<1> DEFINE N == Len(announced)
<1>1. PICK f \in [0 .. N -> Placings(R)] : Pair(table, announced) = f[N] /\ PlacesInTurn(f, table, announced)
  BY PairSteps
<1> DEFINE P == {n \in 0 .. N : /\ Keyed(table, announced, n, f[n])
                                /\ DistinctIds(announced) => Matched(table, announced, n, f[n])}
<1>2. N \in Nat
  OBVIOUS
<1>3. 0 \in P
  <2>1. f[0] = PlacedById(table, announced)
    BY <1>1 DEF PlacesInTurn
  <2> QED BY <2>1, <1>2, KeyedFirst, MatchedFirst
<1>4. ASSUME NEW n \in 0 .. N - 1, n \in P PROVE n + 1 \in P
  <2>1. n + 1 \in 1 .. N /\ (n + 1) - 1 = n /\ n + 1 \in 0 .. N /\ n \in 0 .. N
    BY <1>2
  <2>2. f[n + 1] = IF announced[n + 1].id \in Ids(table) THEN f[n] ELSE Place(f[n], announced[n + 1])
    BY <2>1, <1>1 DEF PlacesInTurn
  <2>3. f[n] \in Placings(R) /\ Keyed(table, announced, (n + 1) - 1, f[n])
    BY <2>1, <1>4
  <2>4. Keyed(table, announced, n + 1, f[n + 1])
    BY <2>1, <2>2, <2>3, KeyedNext
  <2>5. ASSUME DistinctIds(announced) PROVE Matched(table, announced, n + 1, f[n + 1])
    <3>1. Matched(table, announced, (n + 1) - 1, f[n])
      BY <2>1, <2>5, <1>4
    <3> QED BY <3>1, <2>1, <2>2, <2>3, <2>5, MatchedNext
  <2> QED BY <2>1, <2>4, <2>5
<1>5. N \in P
  <2> HIDE DEF P, N
  <2>1. 0 .. N \subseteq P
    BY <1>2, <1>3, <1>4, Induction
  <2> QED BY <2>1, <1>2
<1> QED BY <1>1, <1>2, <1>5

\* What a pairing returns: the keys of the announced children, and the table that
\* remembers what was announced.
Paired(table, announced, paired) ==
    /\ Len(table) <= Len(paired.table)
    /\ paired.keys \in [Ids(announced) -> DOMAIN paired.table]
    /\ \A id \in Ids(announced) \intersect Ids(table) : paired.keys[id] = LastWith(table, id)
    /\ \A i \in DOMAIN announced : paired.table[paired.keys[announced[i].id]] = announced[i]
    /\ IsInjective(paired.keys)
    /\ \A k \in DOMAIN paired.table :
          \/ k \in DOMAIN table /\ paired.table[k] = table[k]
          \/ \E i \in DOMAIN announced : paired.keys[announced[i].id] = k
    /\ \A i \in DOMAIN announced :
          announced[i].id \notin Ids(table) =>
             LET key == paired.keys[announced[i].id]
             IN  IF key \in DOMAIN table THEN table[key].name = announced[i].name
                 ELSE \A k \in DOMAIN table : table[k].name = announced[i].name =>
                         \E j \in DOMAIN announced : paired.keys[announced[j].id] = k

\* The pairing is what Paired says of it.
LEMMA PairIs ==
    ASSUME NEW R, NEW table \in Seq(R), NEW announced \in Seq(R)
    PROVE  /\ Pair(table, announced).table \in Seq(R)
           /\ Len(table) <= Len(Pair(table, announced).table)
           /\ Pair(table, announced).keys \in [Ids(announced) -> DOMAIN Pair(table, announced).table]
           /\ DistinctIds(announced) => Paired(table, announced, Pair(table, announced))
<1> DEFINE N == Len(announced)
<1> SUFFICES ASSUME NEW paired, paired = Pair(table, announced)
             PROVE  /\ paired.table \in Seq(R) /\ Len(table) <= Len(paired.table)
                    /\ paired.keys \in [Ids(announced) -> DOMAIN paired.table]
                    /\ DistinctIds(announced) => Paired(table, announced, paired)
  OBVIOUS
<1>1. /\ paired \in Placings(R) /\ Keyed(table, announced, N, paired)
      /\ DistinctIds(announced) => Matched(table, announced, N, paired)
  BY PairKeyed
<1>2. paired.table \in Seq(R)
  BY <1>1 DEF Placings
<1>3. KeyedIds(table, announced, N) = Ids(announced)
  BY DEF KeyedIds, Ids
<1>4. /\ Len(table) <= Len(paired.table)
      /\ paired.keys \in [Ids(announced) -> DOMAIN paired.table]
      /\ \A id \in Ids(announced) \intersect Ids(table) : paired.keys[id] = LastWith(table, id)
  BY <1>1, <1>3 DEF Keyed
<1>5. ASSUME DistinctIds(announced) PROVE Paired(table, announced, paired)
  <2>1. Matched(table, announced, N, paired)
    BY <1>1, <1>5
  <2>2. \A i \in DOMAIN announced : announced[i].id \in DOMAIN paired.keys
    BY <1>4 DEF Ids
  <2>3. \A id \in DOMAIN paired.keys : \E i \in DOMAIN announced : announced[i].id = id
    BY <1>4 DEF Ids
  <2>4. IsInjective(paired.keys)
    BY <2>1 DEF Matched, IsInjective
  <2>5. \A i \in DOMAIN announced : paired.table[paired.keys[announced[i].id]] = announced[i]
    BY <2>1, <2>2 DEF Matched
  <2>6. \A k \in DOMAIN paired.table :
          \/ k \in DOMAIN table /\ paired.table[k] = table[k]
          \/ \E i \in DOMAIN announced : paired.keys[announced[i].id] = k
    BY <2>1, <2>3 DEF Matched
  <2>7. ASSUME NEW i \in DOMAIN announced, announced[i].id \notin Ids(table)
        PROVE  LET key == paired.keys[announced[i].id]
               IN  IF key \in DOMAIN table THEN table[key].name = announced[i].name
                   ELSE \A k \in DOMAIN table : table[k].name = announced[i].name =>
                           \E j \in DOMAIN announced : paired.keys[announced[j].id] = k
    <3>1. LET key == paired.keys[announced[i].id]
          IN  IF key \in DOMAIN table THEN table[key].name = announced[i].name
              ELSE \A k \in DOMAIN table : table[k].name = announced[i].name =>
                      \E id \in DOMAIN paired.keys : paired.keys[id] = k
      BY <2>1, <2>7 DEF Matched
    <3> QED BY <3>1, <2>3
  <2> QED BY <1>4, <2>4, <2>5, <2>6, <2>7 DEF Paired
<1> QED BY <1>2, <1>4, <1>5

-----------------------------------------------------------------------------
(* Whose key it is.  The table and the children that are known agree on who   *)
(* is who: who[id] is the pupil an identifier was issued for, minted[k] the one *)
(* key k was minted for, ids and name what the school gives each pupil now.   *)

\* No pupil is announced twice.
DistinctPupils(children, who) ==
    \A i, j \in DOMAIN children : who[children[i].id] = who[children[j].id] => i = j

\* A record carries an identifier of the pupil its key was minted for, who has no other.
OwnRecords(tab, minted, who) ==
    /\ \A k \in DOMAIN tab : minted[k] = who[tab[k].id]
    /\ IsInjective(minted)
\* A name in the table is of nobody else.
OwnNames(tab, minted, name) ==
    /\ \A k \in DOMAIN tab, q \in DOMAIN name : tab[k].name = name[q] => minted[k] = q
    /\ \A j, k \in DOMAIN tab : tab[j].name = tab[k].name => j = k
\* A child is known under its name of today or under the one in the table.
NamesKept(tab, minted, who, name, kids) ==
    \A c \in kids :
        \/ c.name = name[who[c.id]]
        \/ \E k \in DOMAIN tab : minted[k] = who[c.id] /\ tab[k].name = c.name
\* Identifiers only get newer.
Newer(tab, minted, who, ids, kids) ==
    /\ \A k \in DOMAIN tab : tab[k].id <= ids[minted[k]]
    /\ \A c \in kids : c.id <= ids[who[c.id]]
    /\ \A k \in DOMAIN tab, c \in kids : minted[k] = who[c.id] => tab[k].id <= c.id
\* Of the two marks of a recorded pupil one has not moved since.
SameName(record, p, who, name, kids) ==
    name[p] = record.name /\ \A c \in kids : who[c.id] = p => c.name = record.name
SameId(record, p, who, ids, kids) ==
    ids[p] = record.id /\ \A c \in kids : who[c.id] = p => c.id = record.id
OneMark(tab, minted, who, ids, name, kids) ==
    \A k \in DOMAIN tab :
        SameName(tab[k], minted[k], who, name, kids) \/ SameId(tab[k], minted[k], who, ids, kids)
Identity(tab, minted, who, ids, name, kids) ==
    /\ OwnRecords(tab, minted, who) /\ OwnNames(tab, minted, name)
    /\ NamesKept(tab, minted, who, name, kids) /\ Newer(tab, minted, who, ids, kids)
    /\ OneMark(tab, minted, who, ids, name, kids)
\* A child heard is not newer than what the client says of it.
Earlier(children, kids, who, name) ==
    \A h \in children, c \in kids :
        who[h.id] = who[c.id] => h.id <= c.id /\ (c.name = h.name \/ c.name = name[who[c.id]])

\* Children of different pupils carry different identifiers.
LEMMA PupilsTellIds ==
    ASSUME NEW children, NEW who, DistinctPupils(children, who)
    PROVE  DistinctIds(children)
BY DEF DistinctPupils, DistinctIds

\* A key that was minted before goes back to the pupil it was minted for.
LEMMA OldKeyOwner ==
    ASSUME NEW R, NEW tab \in Seq(R), NEW A \in Seq(R), NEW minted, NEW who, NEW ids, NEW name,
           NEW kids, Identity(tab, minted, who, ids, name, kids), Range(A) \subseteq kids,
           NEW paired, Paired(tab, A, paired), \A c \in kids : who[c.id] \in DOMAIN name,
           NEW i \in DOMAIN A, paired.keys[A[i].id] \in DOMAIN tab
    PROVE  minted[paired.keys[A[i].id]] = who[A[i].id]
<1> DEFINE key == paired.keys[A[i].id]
<1>1. CASE A[i].id \in Ids(tab)
  <2>1. key = LastWith(tab, A[i].id)
    BY <1>1 DEF Paired, Ids
  <2>2. tab[key].id = A[i].id
    BY <2>1, <1>1, LastWithId
  <2> QED BY <2>2 DEF Identity, OwnRecords
<1>2. CASE A[i].id \notin Ids(tab)
  <2>1. tab[key].name = A[i].name
    BY <1>2 DEF Paired
  <2>2. A[i] \in kids
    BY DEF Range
  <2>3. CASE A[i].name = name[who[A[i].id]]
    BY <2>1, <2>2, <2>3 DEF Identity, OwnNames
  <2>4. CASE \E k \in DOMAIN tab : minted[k] = who[A[i].id] /\ tab[k].name = A[i].name
    BY <2>1, <2>4 DEF Identity, OwnNames
  <2> QED BY <2>2, <2>3, <2>4 DEF Identity, NamesKept
<1> QED BY <1>1, <1>2

\* A pupil the table knows gets no new key.
LEMMA NoSecondKey ==
    ASSUME NEW R, NEW tab \in Seq(R), NEW A \in Seq(R), NEW minted, NEW who, NEW ids, NEW name,
           NEW kids, Identity(tab, minted, who, ids, name, kids), Range(A) \subseteq kids,
           NEW paired, Paired(tab, A, paired), \A c \in kids : who[c.id] \in DOMAIN name,
           DistinctPupils(A, who),
           NEW i \in DOMAIN A, paired.keys[A[i].id] \notin DOMAIN tab,
           NEW k \in DOMAIN tab
    PROVE  minted[k] # who[A[i].id]
<1> SUFFICES ASSUME minted[k] = who[A[i].id] PROVE FALSE
  OBVIOUS
<1>1. A[i].id \notin Ids(tab)
  <2>1. A[i].id \in Ids(tab) => paired.keys[A[i].id] = LastWith(tab, A[i].id)
    BY DEF Paired, Ids
  <2> QED BY <2>1, LastWithId
<1>2. A[i] \in kids
  BY DEF Range
<1>3. CASE SameName(tab[k], minted[k], who, name, kids)
  <2>1. tab[k].name = A[i].name
    BY <1>2, <1>3 DEF SameName
  <2>2. PICK j \in DOMAIN A : paired.keys[A[j].id] = k
    BY <1>1, <2>1 DEF Paired
  <2>3. minted[k] = who[A[j].id]
    BY <2>2, OldKeyOwner
  <2> QED BY <2>2, <2>3 DEF DistinctPupils
<1>4. CASE SameId(tab[k], minted[k], who, ids, kids)
  <2>1. tab[k].id = A[i].id
    BY <1>2, <1>4 DEF SameId
  <2> QED BY <2>1, <1>1 DEF Ids
<1> QED BY <1>3, <1>4 DEF Identity, OneMark

\* mintedFor, once the pairing is adopted.
Minted(paired, minted, who) ==
    [k \in DOMAIN paired.table |->
        IF k \in DOMAIN minted THEN minted[k] ELSE who[paired.table[k].id]]

\* Every announced child gets a key minted for it.
LEMMA KeyOwner ==
    ASSUME NEW R, NEW tab \in Seq(R), NEW A \in Seq(R), NEW minted, DOMAIN minted = DOMAIN tab,
           NEW who, NEW ids, NEW name,
           NEW kids, Identity(tab, minted, who, ids, name, kids), Range(A) \subseteq kids,
           NEW paired, Paired(tab, A, paired), \A c \in kids : who[c.id] \in DOMAIN name,
           NEW id \in Ids(A)
    PROVE  Minted(paired, minted, who)[paired.keys[id]] = who[id]
<1>1. PICK i \in DOMAIN A : A[i].id = id
  BY DEF Ids
<1> DEFINE key == paired.keys[id]
<1>2. key \in DOMAIN paired.table /\ paired.table[key] = A[i]
  BY <1>1 DEF Paired
<1>3. CASE key \in DOMAIN tab
  <2>1. minted[key] = who[id]
    BY <1>1, <1>3, OldKeyOwner
  <2> QED BY <2>1, <1>2, <1>3 DEF Minted
<1>4. CASE key \notin DOMAIN tab
  BY <1>1, <1>2, <1>4 DEF Minted
<1> QED BY <1>3, <1>4

\* Nobody has two keys after the pairing, and the records are their owners'.
LEMMA MintedOnce ==
    ASSUME NEW R, NEW tab \in Seq(R), NEW A \in Seq(R), NEW minted, DOMAIN minted = DOMAIN tab,
           NEW who, NEW ids, NEW name,
           NEW kids, Identity(tab, minted, who, ids, name, kids), Range(A) \subseteq kids,
           NEW paired, paired.table \in Seq(R),
           Paired(tab, A, paired), \A c \in kids : who[c.id] \in DOMAIN name,
           DistinctPupils(A, who)
    PROVE  OwnRecords(paired.table, Minted(paired, minted, who), who)
<1> DEFINE after == Minted(paired, minted, who)
           T == paired.table
<1>1. ASSUME NEW k \in DOMAIN T PROVE after[k] = who[T[k].id]
  <2>1. CASE k \in DOMAIN tab /\ T[k] = tab[k]
    BY <2>1 DEF Identity, OwnRecords, Minted
  <2>2. CASE \E i \in DOMAIN A : paired.keys[A[i].id] = k
    <3>1. PICK i \in DOMAIN A : paired.keys[A[i].id] = k
      BY <2>2
    <3>2. T[k] = A[i] /\ A[i].id \in Ids(A)
      BY <3>1 DEF Paired, Ids
    <3> QED BY <3>1, <3>2, KeyOwner
  <2> QED BY <2>1, <2>2 DEF Paired
<1>2. ASSUME NEW j \in DOMAIN T, j \notin DOMAIN tab
      PROVE  \E i \in DOMAIN A : paired.keys[A[i].id] = j /\ T[j] = A[i]
  BY <1>2 DEF Paired
<1>3. ASSUME NEW j \in DOMAIN T, NEW k \in DOMAIN tab, j \notin DOMAIN tab PROVE after[j] # minted[k]
  <2>1. PICK i \in DOMAIN A : paired.keys[A[i].id] = j /\ T[j] = A[i]
    BY <1>2, <1>3
  <2>2. minted[k] # who[A[i].id]
    BY <2>1, <1>3, NoSecondKey
  <2> QED BY <2>1, <2>2, <1>1
<1>4. ASSUME NEW j \in DOMAIN after, NEW k \in DOMAIN after, after[j] = after[k] PROVE j = k
  <2>0. DOMAIN after = DOMAIN T
    BY DEF Minted
  <2>1. CASE j \in DOMAIN tab /\ k \in DOMAIN tab
    BY <2>0, <2>1, <1>4 DEF Identity, OwnRecords, IsInjective, Minted
  <2>2. CASE j \notin DOMAIN tab /\ k \in DOMAIN tab
    <3>1. after[k] = minted[k]
      BY <2>0, <2>2 DEF Minted
    <3> QED BY <2>0, <3>1, <2>2, <1>3, <1>4
  <2>3. CASE j \in DOMAIN tab /\ k \notin DOMAIN tab
    <3>1. after[j] = minted[j]
      BY <2>0, <2>3 DEF Minted
    <3> QED BY <2>0, <3>1, <2>3, <1>3, <1>4
  <2>4. CASE j \notin DOMAIN tab /\ k \notin DOMAIN tab
    <3>1. PICK i1 \in DOMAIN A : paired.keys[A[i1].id] = j /\ T[j] = A[i1]
      BY <2>0, <2>4, <1>2
    <3>2. PICK i2 \in DOMAIN A : paired.keys[A[i2].id] = k /\ T[k] = A[i2]
      BY <2>0, <2>4, <1>2
    <3>3. i1 = i2
      BY <2>0, <3>1, <3>2, <1>1, <1>4 DEF DistinctPupils
    <3> QED BY <3>1, <3>2, <3>3
  <2> QED BY <2>1, <2>2, <2>3, <2>4
<1> QED BY <1>1, <1>4 DEF OwnRecords, IsInjective

\* The pairing keeps what tells the pupils apart, for the children the client has
\* announced since: those paired are among them, or older.
LEMMA PairIdentity ==
    ASSUME NEW R, NEW tab \in Seq(R), NEW A \in Seq(R), NEW minted, DOMAIN minted = DOMAIN tab,
           NEW who, NEW ids, NEW name, IsInjective(name),
           NEW kids, Identity(tab, minted, who, ids, name, kids), Range(A) \subseteq kids,
           NEW paired, paired.table \in Seq(R),
           Paired(tab, A, paired), \A c \in kids : who[c.id] \in DOMAIN name,
           DistinctPupils(A, who),
           NEW C \in SUBSET kids, Earlier(Range(A), C, who, name)
    PROVE  Identity(paired.table, Minted(paired, minted, who), who, ids, name, C)
<1> DEFINE after == Minted(paired, minted, who)
           T == paired.table
<1>1. OwnRecords(T, after, who)
  BY MintedOnce
<1>2. DOMAIN tab \subseteq DOMAIN T /\ \A k \in DOMAIN tab : after[k] = minted[k]
  <2>1. DOMAIN tab \subseteq DOMAIN T
    BY DEF Paired
  <2> QED BY <2>1 DEF Minted
<1>3. ASSUME NEW k \in DOMAIN T
      PROVE  \/ k \in DOMAIN tab /\ T[k] = tab[k]
             \/ \E h \in Range(A) : T[k] = h /\ after[k] = who[h.id]
  <2>1. CASE \E i \in DOMAIN A : paired.keys[A[i].id] = k
    <3>1. PICK i \in DOMAIN A : paired.keys[A[i].id] = k
      BY <2>1
    <3>2. T[k] = A[i] /\ A[i] \in Range(A)
      BY <3>1 DEF Paired, Range
    <3> QED BY <3>2, <1>1 DEF OwnRecords
  <2> QED BY <2>1 DEF Paired
<1>4. ASSUME NEW k \in DOMAIN T
      PROVE  \/ after[k] \in DOMAIN name /\ T[k].name = name[after[k]]
             \/ \E l \in DOMAIN tab : minted[l] = after[k] /\ tab[l].name = T[k].name
  <2>1. CASE k \in DOMAIN tab /\ T[k] = tab[k]
    BY <2>1, <1>2
  <2>2. CASE \E h \in Range(A) : T[k] = h /\ after[k] = who[h.id]
    BY <2>2 DEF Identity, NamesKept
  <2> QED BY <2>1, <2>2, <1>3
<1>5. OwnNames(T, after, name)
  <2>1. ASSUME NEW k \in DOMAIN T, NEW q \in DOMAIN name, T[k].name = name[q] PROVE after[k] = q
    BY <2>1, <1>4 DEF Identity, OwnNames, IsInjective
  <2>2. ASSUME NEW j \in DOMAIN T, NEW k \in DOMAIN T, T[j].name = T[k].name PROVE j = k
    <3>1. after[j] = after[k]
      <4>1. CASE after[j] \in DOMAIN name /\ T[j].name = name[after[j]]
        BY <4>1, <2>1, <2>2
      <4>2. CASE after[k] \in DOMAIN name /\ T[k].name = name[after[k]]
        BY <4>2, <2>1, <2>2
      <4>3. CASE /\ \E l \in DOMAIN tab : minted[l] = after[j] /\ tab[l].name = T[j].name
                 /\ \E l \in DOMAIN tab : minted[l] = after[k] /\ tab[l].name = T[k].name
        BY <4>3, <2>2 DEF Identity, OwnNames
      <4> QED BY <4>1, <4>2, <4>3, <1>4
    <3>2. DOMAIN after = DOMAIN T
      BY DEF Minted
    <3> QED BY <3>1, <3>2, <1>1 DEF OwnRecords, IsInjective
  <2> QED BY <2>1, <2>2 DEF OwnNames
<1>6. NamesKept(T, after, who, name, C)
  <2> SUFFICES ASSUME NEW c \in C, c.name # name[who[c.id]]
               PROVE  \E k \in DOMAIN T : after[k] = who[c.id] /\ T[k].name = c.name
    BY DEF NamesKept
  <2>1. PICK k \in DOMAIN tab : minted[k] = who[c.id] /\ tab[k].name = c.name
    BY DEF Identity, NamesKept
  <2>2. k \in DOMAIN T /\ after[k] = who[c.id]
    BY <2>1, <1>2
  <2>3. CASE T[k] = tab[k]
    BY <2>1, <2>2, <2>3
  <2>4. CASE \E h \in Range(A) : T[k] = h /\ after[k] = who[h.id]
    BY <2>2, <2>4 DEF Earlier
  <2> QED BY <2>2, <2>3, <2>4, <1>3
<1>7. Newer(T, after, who, ids, C)
  <2>1. ASSUME NEW k \in DOMAIN T PROVE T[k].id <= ids[after[k]]
    <3>1. CASE k \in DOMAIN tab /\ T[k] = tab[k]
      BY <3>1, <1>2 DEF Identity, Newer
    <3>2. CASE \E h \in Range(A) : T[k] = h /\ after[k] = who[h.id]
      BY <3>2 DEF Identity, Newer
    <3> QED BY <3>1, <3>2, <1>3
  <2>2. ASSUME NEW k \in DOMAIN T, NEW c \in C, after[k] = who[c.id] PROVE T[k].id <= c.id
    <3>1. CASE k \in DOMAIN tab /\ T[k] = tab[k]
      BY <2>2, <3>1, <1>2 DEF Identity, Newer
    <3>2. CASE \E h \in Range(A) : T[k] = h /\ after[k] = who[h.id]
      BY <2>2, <3>2 DEF Earlier
    <3> QED BY <3>1, <3>2, <1>3
  <2>3. \A c \in C : c.id <= ids[who[c.id]]
    BY DEF Identity, Newer
  <2> QED BY <2>1, <2>2, <2>3 DEF Newer
<1>8. ASSUME NEW k \in DOMAIN T
      PROVE  SameName(T[k], after[k], who, name, C) \/ SameId(T[k], after[k], who, ids, C)
  <2>1. CASE k \in DOMAIN tab /\ T[k] = tab[k]
    BY <2>1, <1>2 DEF Identity, OneMark, SameName, SameId
  <2>2. CASE \E h \in Range(A) : T[k] = h /\ after[k] = who[h.id]
    <3>1. PICK h \in Range(A) : T[k] = h /\ after[k] = who[h.id]
      BY <2>2
    <3>2. h \in kids
      OBVIOUS
    <3>3. CASE k \in DOMAIN tab
      <4>1. minted[k] = who[h.id]
        BY <3>1, <3>3, <1>2
      <4>2. CASE SameName(tab[k], minted[k], who, name, kids)
        BY <3>1, <3>2, <4>1, <4>2 DEF SameName
      <4>3. CASE SameId(tab[k], minted[k], who, ids, kids)
        BY <3>1, <3>2, <4>1, <4>3 DEF SameId
      <4> QED BY <3>3, <4>2, <4>3 DEF Identity, OneMark
    <3>4. CASE k \notin DOMAIN tab
      <4>1. ASSUME NEW l \in DOMAIN tab PROVE minted[l] # after[k]
        <5>1. l \in DOMAIN T /\ after[l] = minted[l] /\ DOMAIN after = DOMAIN T
          BY <1>2 DEF Minted
        <5> QED BY <5>1, <3>4, <1>1 DEF OwnRecords, IsInjective
      <4>2. \A c \in kids : who[c.id] = after[k] => c.name = name[after[k]]
        BY <4>1 DEF Identity, NamesKept
      <4> QED BY <4>2, <3>1, <3>2 DEF SameName
    <3> QED BY <3>3, <3>4
  <2> QED BY <2>1, <2>2, <1>3
<1>9. OneMark(T, after, who, ids, name, C)
  BY <1>8 DEF OneMark
<1> QED BY <1>1, <1>5, <1>6, <1>7, <1>9 DEF Identity

\* Records of one identifier stay one, twins included.
LEMMA PairDistinct ==
    ASSUME NEW R, NEW tab \in Seq(R), NEW A \in Seq(R), DistinctIds(tab), DistinctIds(A),
           NEW paired, Paired(tab, A, paired)
    PROVE  DistinctIds(paired.table) /\ IsInjective(paired.keys)
<1> DEFINE T == paired.table
<1>1. ASSUME NEW i \in DOMAIN A, NEW k \in DOMAIN tab, tab[k].id = A[i].id
      PROVE  paired.keys[A[i].id] = k
  <2>1. A[i].id \in Ids(A) \intersect Ids(tab)
    BY <1>1 DEF Ids
  <2>2. LET l == LastWith(tab, A[i].id) IN l \in DOMAIN tab /\ tab[l].id = A[i].id
    BY <2>1, LastWithId
  <2>3. paired.keys[A[i].id] = LastWith(tab, A[i].id)
    BY <2>1 DEF Paired
  <2> QED BY <2>2, <2>3, <1>1 DEF DistinctIds
<1>2. ASSUME NEW j \in DOMAIN T, NEW k \in DOMAIN T, T[j].id = T[k].id PROVE j = k
  <2>1. CASE T[j] = tab[j] /\ j \in DOMAIN tab /\ T[k] = tab[k] /\ k \in DOMAIN tab
    BY <1>2, <2>1 DEF DistinctIds
  <2>2. ASSUME NEW i \in DOMAIN A, paired.keys[A[i].id] = j, k \in DOMAIN tab /\ T[k] = tab[k]
        PROVE  j = k
    <3>1. T[j] = A[i]
      BY <2>2 DEF Paired
    <3> QED BY <3>1, <2>2, <1>1, <1>2
  <2>3. ASSUME NEW i \in DOMAIN A, paired.keys[A[i].id] = k, j \in DOMAIN tab /\ T[j] = tab[j]
        PROVE  j = k
    <3>1. T[k] = A[i]
      BY <2>3 DEF Paired
    <3> QED BY <3>1, <2>3, <1>1, <1>2
  <2>4. ASSUME NEW i1 \in DOMAIN A, paired.keys[A[i1].id] = j,
               NEW i2 \in DOMAIN A, paired.keys[A[i2].id] = k
        PROVE  j = k
    <3>1. T[j] = A[i1] /\ T[k] = A[i2]
      BY <2>4 DEF Paired
    <3> QED BY <3>1, <2>4, <1>2 DEF DistinctIds
  <2>5. /\ (j \in DOMAIN tab /\ T[j] = tab[j]) \/ \E i \in DOMAIN A : paired.keys[A[i].id] = j
        /\ (k \in DOMAIN tab /\ T[k] = tab[k]) \/ \E i \in DOMAIN A : paired.keys[A[i].id] = k
    BY DEF Paired
  <2> QED BY <2>1, <2>2, <2>3, <2>4, <2>5
<1>3. IsInjective(paired.keys)
  BY DEF Paired
<1> QED BY <1>2, <1>3 DEF DistinctIds
=============================================================================
