--------------------------- MODULE RpcMacroProofs ---------------------------
(***************************************************************************)
(* Proofs about the expansion of any trait under any #[rpc(..)]: how its   *)
(* attributes are cut, what is collected of its entries, the names they    *)
(* get, the matches that are rendered from them and the trait that goes    *)
(* back.                                                                   *)
(***************************************************************************)
EXTENDS RpcMacro, WellFoundedInduction, TLAPS

-----------------------------------------------------------------------------
(* Leaving elements out of a list *)

\* f is how Omit goes through s: what is left after each of its elements.
Lefts(f, s, set, n) ==
  f = [i \in 0..n |->
        IF i = 0 THEN <<>>
        ELSE IF s[i] \in set THEN f[i - 1] ELSE Append(f[i - 1], s[i])]

\* Induction over the naturals, for a set: by its least missing element.
LEMMA NatsIn ==
  ASSUME NEW S, 0 \in S, \A n \in Nat : n \in S => n + 1 \in S
  PROVE  Nat \subseteq S
<1> DEFINE R == OpToRel(<, Nat)
           T == Nat \ S
<1> SUFFICES ASSUME T # {} PROVE FALSE
  OBVIOUS
<1>1. IsWellFoundedOn(R, Nat)
  BY NatLessThanWellFounded
<1>2. \A i, j \in Nat : i > j => <<j, i>> \in R
  BY DEF OpToRel
<1> HIDE DEF R
<1>3. PICK x \in T : \A y \in T : ~(<<y, x>> \in R)
  BY <1>1, WFMin
<1>4. x # 0 /\ x - 1 \in Nat /\ x = (x - 1) + 1 /\ x > x - 1
  OBVIOUS
<1> QED
  BY <1>2, <1>3, <1>4

\* Every list has been gone through somehow.
LEMMA LeftsExist ==
  ASSUME NEW s, NEW set
  PROVE  \A n \in Nat : \E f : Lefts(f, s, set, n)
<1> DEFINE S == {n \in Nat : \E f : Lefts(f, s, set, n)}
<1>1. 0 \in S
  <2>1. Lefts([i \in 0..0 |-> <<>>], s, set, 0)
    BY DEF Lefts
  <2> QED
    BY <2>1
<1>2. ASSUME NEW n \in Nat, n \in S PROVE n + 1 \in S
  <2>1. PICK f : Lefts(f, s, set, n)
    BY <1>2
  <2> DEFINE x == IF s[n + 1] \in set THEN f[n] ELSE Append(f[n], s[n + 1])
             g == [i \in 0..(n + 1) |-> IF i = n + 1 THEN x ELSE f[i]]
  <2>2. \A i \in 0..(n + 1) :
          g[i] = IF i = 0 THEN <<>>
                 ELSE IF s[i] \in set THEN g[i - 1] ELSE Append(g[i - 1], s[i])
    <3> TAKE i \in 0..(n + 1)
    <3>1. CASE i = n + 1
      BY <3>1
    <3>2. CASE i \in 0..n
      <4>1. g[i] = f[i] /\ (i # 0 => g[i - 1] = f[i - 1])
        BY <3>2
      <4>2. f[i] = IF i = 0 THEN <<>>
                   ELSE IF s[i] \in set THEN f[i - 1] ELSE Append(f[i - 1], s[i])
        BY <2>1, <3>2 DEF Lefts
      <4> QED
        BY <4>1, <4>2
    <3> QED
      BY <3>1, <3>2
  <2> HIDE DEF x
  <2>3. Lefts(g, s, set, n + 1)
    BY <2>2 DEF Lefts
  <2> QED
    BY <2>3
<1> HIDE DEF S
<1>3. Nat \subseteq S
  BY <1>1, <1>2, NatsIn
<1> QED
  BY <1>3 DEF S

LEMMA OmitIs ==
  ASSUME NEW s, Len(s) \in Nat, NEW set
  PROVE  \E f : Lefts(f, s, set, Len(s)) /\ Omit(s, set) = f[Len(s)]
<1> DEFINE f == CHOOSE f : Lefts(f, s, set, Len(s))
<1>1. Lefts(f, s, set, Len(s))
  BY LeftsExist
<1>2. Omit(s, set) = f[Len(s)]
  BY DEF Omit, Lefts
<1> QED
  BY <1>1, <1>2

LEMMA LeftsStep ==
  ASSUME NEW n \in Nat, NEW s, NEW set, NEW f, Lefts(f, s, set, n)
  PROVE  /\ f[0] = <<>>
         /\ \A i \in 0..(n - 1) :
              f[i + 1] = IF s[i + 1] \in set THEN f[i] ELSE Append(f[i], s[i + 1])
<1>1. \A i \in 0..n :
        f[i] = IF i = 0 THEN <<>>
               ELSE IF s[i] \in set THEN f[i - 1] ELSE Append(f[i - 1], s[i])
  BY DEF Lefts
<1>2. \A i \in 0..(n - 1) : i + 1 \in 0..n /\ i + 1 # 0 /\ (i + 1) - 1 = i
  OBVIOUS
<1> QED
  BY <1>1, <1>2

\* A sequence, whatever of, is a list.
LEMMA SeqIsList ==
  ASSUME NEW T, NEW t \in Seq(T)
  PROVE  IsList(t)
<1>1. Len(t) \in Nat /\ DOMAIN t = 1..Len(t) /\ t = [i \in 1..Len(t) |-> t[i]]
  OBVIOUS
<1>2. \A i \in 1..Len(t) : t[i] \in Elements(t)
  BY <1>1 DEF Elements
<1> QED
  BY <1>1, <1>2 DEF IsList

Firsts(s, n) == {s[i] : i \in 1..n}

LEMMA AppendElements ==
  ASSUME NEW T, NEW s \in Seq(T), NEW x \in T
  PROVE  Append(s, x) \in Seq(T) /\ Elements(Append(s, x)) = Elements(s) \cup {x}
<1>1. /\ Append(s, x) \in Seq(T)
      /\ Len(s) \in Nat /\ DOMAIN s = 1..Len(s)
      /\ DOMAIN Append(s, x) = 1..(Len(s) + 1)
      /\ \A i \in 1..(Len(s) + 1) :
           Append(s, x)[i] = IF i = Len(s) + 1 THEN x ELSE s[i]
  OBVIOUS
<1> QED
  BY <1>1 DEF Elements

\* What has been left after n elements are those of them that were not to go.
LEMMA OmitPrefixes ==
  ASSUME NEW s, IsList(s), NEW set, NEW f, Lefts(f, s, set, Len(s))
  PROVE  \A n \in 0..Len(s) :
           f[n] \in Seq(Elements(s)) /\ Elements(f[n]) = Firsts(s, n) \ set
<1>1. Len(s) \in Nat /\ DOMAIN s = 1..Len(s)
  BY DEF IsList
<1>2. Lefts(f, s, set, Len(s))
  OBVIOUS
<1> DEFINE S == {n \in Nat : n <= Len(s) => /\ f[n] \in Seq(Elements(s))
                                            /\ Elements(f[n]) = Firsts(s, n) \ set}
<1>3. 0 \in S
  BY <1>1, <1>2 DEF Lefts, Elements, Firsts
<1>4. ASSUME NEW n \in Nat, n \in S PROVE n + 1 \in S
  <2> SUFFICES ASSUME n + 1 <= Len(s)
               PROVE  /\ f[n + 1] \in Seq(Elements(s))
                      /\ Elements(f[n + 1]) = Firsts(s, n + 1) \ set
    OBVIOUS
  <2>1. /\ f[n] \in Seq(Elements(s)) /\ Elements(f[n]) = Firsts(s, n) \ set
    BY <1>1, <1>4
  <2>2. s[n + 1] \in Elements(s)
    BY <1>1 DEF Elements
  <2>3. f[n + 1] = IF s[n + 1] \in set THEN f[n] ELSE Append(f[n], s[n + 1])
    <3>1. n \in 0..(Len(s) - 1)
      BY <1>1
    <3> QED
      BY <1>1, <1>2, <3>1, LeftsStep
  <2>4. Firsts(s, n + 1) = Firsts(s, n) \cup {s[n + 1]}
    BY <1>1 DEF Firsts
  <2>5. CASE s[n + 1] \in set
    BY <2>1, <2>3, <2>4, <2>5
  <2>6. CASE s[n + 1] \notin set
    <3>1. f[n + 1] = Append(f[n], s[n + 1])
      BY <2>3, <2>6
    <3>2. /\ f[n + 1] \in Seq(Elements(s))
          /\ Elements(f[n + 1]) = Elements(f[n]) \cup {s[n + 1]}
      BY <2>1, <2>2, <3>1, AppendElements
    <3> QED
      BY <2>1, <2>4, <2>6, <3>2
  <2> QED
    BY <2>5, <2>6
<1> HIDE DEF S
<1>5. Nat \subseteq S
  BY <1>3, <1>4, NatsIn
<1>6. \A n \in 0..Len(s) : n \in Nat /\ n <= Len(s) /\ n \in S
  BY <1>1, <1>5
<1> QED
  BY <1>6 DEF S

\* What is left of a list is a list, of the elements that were not to go.
LEMMA OmitElements ==
  ASSUME NEW s, IsList(s), NEW set
  PROVE  /\ Omit(s, set) \in Seq(Elements(s)) /\ IsList(Omit(s, set))
         /\ Elements(Omit(s, set)) = Elements(s) \ set
<1>1. Len(s) \in Nat /\ DOMAIN s = 1..Len(s)
  BY DEF IsList
<1>2. PICK f : Lefts(f, s, set, Len(s)) /\ Omit(s, set) = f[Len(s)]
  BY <1>1, OmitIs
<1>3. Len(s) \in 0..Len(s) /\ Elements(s) = Firsts(s, Len(s))
  BY <1>1 DEF Elements, Firsts
<1>4. Omit(s, set) \in Seq(Elements(s)) /\ Elements(Omit(s, set)) = Elements(s) \ set
  BY <1>2, <1>3, OmitPrefixes
<1>5. \A t \in Seq(Elements(s)) : IsList(t)
  BY SeqIsList
<1> QED
  BY <1>4, <1>5

\* Where there is nothing to omit, nothing is.
LEMMA OmitNothing ==
  ASSUME NEW s, IsList(s), NEW set, \A i \in DOMAIN s : s[i] \notin set
  PROVE  Omit(s, set) = s
<1>1. Len(s) \in Nat /\ DOMAIN s = 1..Len(s) /\ s = [i \in 1..Len(s) |-> s[i]]
  BY DEF IsList
<1>2. PICK f : Lefts(f, s, set, Len(s)) /\ Omit(s, set) = f[Len(s)]
  BY <1>1, OmitIs
<1>3. \A i \in 0..(Len(s) - 1) :
         f[i + 1] = IF s[i + 1] \in set THEN f[i] ELSE Append(f[i], s[i + 1])
  BY <1>1, <1>2, LeftsStep
<1> DEFINE S == {n \in Nat : n <= Len(s) => f[n] = [i \in 1..n |-> s[i]]}
<1>4. 0 \in S
  BY <1>1, <1>2 DEF Lefts
<1>5. ASSUME NEW n \in Nat, n \in S PROVE n + 1 \in S
  <2> SUFFICES ASSUME n + 1 <= Len(s) PROVE f[n + 1] = [i \in 1..(n + 1) |-> s[i]]
    OBVIOUS
  <2> DEFINE g == [i \in 1..n |-> s[i]]
  <2>1. f[n + 1] = Append(g, s[n + 1])
    <3>1. n \in 0..(Len(s) - 1) /\ f[n] = g /\ s[n + 1] \notin set
      BY <1>1, <1>5
    <3>2. f[n + 1] = IF s[n + 1] \in set THEN f[n] ELSE Append(f[n], s[n + 1])
      BY <1>3, <3>1
    <3> HIDE DEF g
    <3> QED
      BY <3>1, <3>2
  <2>2. g \in Seq(Elements(s)) /\ Len(g) = n
    BY <1>1, <1>5 DEF Elements
  <2> HIDE DEF g
  <2>3. s[n + 1] \in Elements(s)
    BY <1>1 DEF Elements
  <2>4. /\ Append(g, s[n + 1]) \in Seq(Elements(s)) /\ Len(Append(g, s[n + 1])) = n + 1
        /\ \A i \in 1..(n + 1) :
             Append(g, s[n + 1])[i] = IF i = n + 1 THEN s[n + 1] ELSE g[i]
    BY <2>2, <2>3
  <2>5. Append(g, s[n + 1]) = [i \in 1..(n + 1) |-> Append(g, s[n + 1])[i]]
    BY <2>4
  <2>6. \A i \in 1..(n + 1) : Append(g, s[n + 1])[i] = s[i]
    BY <2>4 DEF g
  <2> QED
    BY <2>1, <2>5, <2>6
<1> HIDE DEF S
<1>6. Nat \subseteq S
  BY <1>4, <1>5, NatsIn
<1> QED
  BY <1>1, <1>2, <1>6 DEF S

\* What two sequences end in, and go on from.
LEMMA SameAppended ==
  ASSUME NEW T, NEW a \in Seq(T), NEW b \in Seq(T), NEW c \in T, NEW d \in T
  PROVE  /\ Append(a, c) # <<>>
         /\ Append(a, c) = Append(b, d) => a = b /\ c = d
<1>1. /\ Len(a) \in Nat /\ Len(b) \in Nat
      /\ Len(Append(a, c)) = Len(a) + 1 /\ Len(Append(b, d)) = Len(b) + 1
      /\ \A i \in 1..Len(a) : Append(a, c)[i] = a[i]
      /\ \A i \in 1..Len(b) : Append(b, d)[i] = b[i]
      /\ Append(a, c)[Len(a) + 1] = c /\ Append(b, d)[Len(b) + 1] = d
      /\ a = [i \in 1..Len(a) |-> a[i]] /\ b = [i \in 1..Len(b) |-> b[i]]
  OBVIOUS
<1>2. Append(a, c) # <<>>
  BY <1>1
<1>3. ASSUME Append(a, c) = Append(b, d) PROVE a = b /\ c = d
  <2> DEFINE s == Append(a, c)
             t == Append(b, d)
  <2>1. /\ Len(s) = Len(a) + 1 /\ Len(t) = Len(b) + 1 /\ s = t
        /\ Len(a) \in Nat /\ Len(b) \in Nat
        /\ \A i \in 1..Len(a) : s[i] = a[i]
        /\ \A i \in 1..Len(b) : t[i] = b[i]
        /\ s[Len(a) + 1] = c /\ t[Len(b) + 1] = d
    BY <1>1, <1>3
  <2> HIDE DEF s, t
  <2>2. Len(a) = Len(b) /\ c = d /\ \A i \in 1..Len(a) : a[i] = b[i]
    BY <2>1
  <2> QED
    BY <1>1, <2>2
<1> QED
  BY <1>2, <1>3

-----------------------------------------------------------------------------
(* Names *)

\* A capital goes where its letter goes.
LEMMA CapitalsGo ==
  ASSUME NEW x \in DOMAIN Upper
  PROVE  /\ x \in Begins => Upper[x] \in Begins
         /\ x \in Continues => Upper[x] \in Continues
BY IdentAssumption

\* What snake_to_camel is about to take the underscores out of.
Raised(u) ==
  [i \in DOMAIN u |-> IF i > 1 /\ u[i - 1] = Underscore THEN Upper[u[i]] ELSE u[i]]

After(u, i) == i > 1 /\ u[i - 1] = Underscore

LEMMA SnakeEnds ==
  ASSUME NEW u, IsList(u), Snake(u)
  PROVE  /\ Len(u) \in Nat \ {0} /\ DOMAIN u = 1..Len(u)
         /\ u[1] # Underscore /\ u[Len(u)] # Underscore
         /\ IsList(Raised(u)) /\ Len(Raised(u)) = Len(u)
<1>1. Len(u) \in Nat \ {0} /\ DOMAIN u = 1..Len(u)
  BY DEF IsList, Snake, IsIdent
<1>2. u[1] # Underscore /\ u[Len(u)] # Underscore
  BY <1>1 DEF Snake
<1>3. Raised(u) = [i \in 1..Len(u) |-> Raised(u)[i]]
  BY <1>1 DEF Raised
<1>4. \A i \in 1..Len(u) : Raised(u)[i] \in Elements(Raised(u))
  BY <1>3 DEF Elements
<1>5. Raised(u) \in Seq(Elements(Raised(u))) /\ Len(Raised(u)) = Len(u)
  BY <1>1, <1>3, <1>4
<1> QED
  BY <1>1, <1>2, <1>5 DEF IsList

\* A character of a name in snake case, and what becomes of it.
LEMMA RaisedAt ==
  ASSUME NEW u, IsList(u), Snake(u), NEW i \in 1..Len(u)
  PROVE  /\ u[i] \in DOMAIN Upper \ Capitals /\ u[i] # Dash
         /\ Raised(u)[i] \in Elements(Raised(u))
         /\ Raised(u)[i] = Underscore <=> u[i] = Underscore
         /\ After(u, i) => /\ i > 2 /\ u[i - 1] = Underscore /\ u[i - 2] # Underscore
                           /\ Raised(u)[i] = Upper[u[i]] /\ Raised(u)[i] \in Capitals
         /\ ~After(u, i) => Raised(u)[i] = u[i] /\ (i = 1 \/ u[i - 1] # Underscore)
<1>1. /\ Len(u) \in Nat \ {0} /\ DOMAIN u = 1..Len(u)
  BY SnakeEnds
<1>2. u[i] \in DOMAIN Upper \ Capitals /\ u[i] # Dash
  BY <1>1 DEF Snake, Elements
<1>3. \A k \in 1..Len(u) : u[k] = Underscore =>
        k > 1 /\ k < Len(u) /\ u[k + 1] # Underscore /\ Upper[u[k + 1]] # u[k + 1]
  BY <1>1 DEF Snake
<1>4. ASSUME After(u, i)
      PROVE  i > 2 /\ u[i - 1] = Underscore /\ u[i - 2] # Underscore /\ u[i] # Underscore /\ Upper[u[i]] # u[i]
  <2>1. i - 1 \in 1..Len(u) /\ (i - 1) + 1 = i /\ u[i - 1] = Underscore
    BY <1>1, <1>4 DEF After
  <2>2. i > 2 /\ u[i] # Underscore /\ Upper[u[i]] # u[i]
    BY <1>1, <1>3, <2>1
  <2>3. i - 2 \in 1..Len(u) /\ (i - 2) + 1 = i - 1
    BY <1>1, <2>2
  <2>4. u[i - 2] # Underscore
    BY <1>3, <2>1, <2>3
  <2> QED
    BY <2>1, <2>2, <2>4
<1>5. Raised(u)[i] = IF After(u, i) THEN Upper[u[i]] ELSE u[i]
  BY <1>1 DEF Raised, After
<1>6. Raised(u)[i] \in Elements(Raised(u))
  BY <1>1 DEF Raised, Elements
<1>7. After(u, i) => Upper[u[i]] \in Capitals
  BY <1>2, <1>4 DEF Capitals
<1>8. Underscore \notin Capitals
  BY UpperAssumption
<1>9. ~After(u, i) => i = 1 \/ u[i - 1] # Underscore
  BY <1>1 DEF After
<1> QED
  BY <1>2, <1>4, <1>5, <1>6, <1>7, <1>8, <1>9

\* f is how snake_to_camel goes through u.
Camels(f, u) == IsList(u) /\ Snake(u) /\ Lefts(f, Raised(u), {Underscore}, Len(u))

LEMMA CamelAt ==
  ASSUME NEW u, NEW f, Camels(f, u), NEW i \in 1..Len(u)
  PROVE  /\ f[i - 1] \in Seq(Elements(Raised(u)))
         /\ f[i] = IF u[i] = Underscore THEN f[i - 1] ELSE Append(f[i - 1], Raised(u)[i])
<1>1. /\ IsList(u) /\ Snake(u) /\ Len(u) \in Nat \ {0}
      /\ IsList(Raised(u)) /\ Len(Raised(u)) = Len(u)
      /\ Lefts(f, Raised(u), {Underscore}, Len(u))
  BY SnakeEnds DEF Camels
<1>2. i - 1 \in 0..Len(u) /\ i - 1 \in 0..(Len(u) - 1) /\ (i - 1) + 1 = i
  BY <1>1
<1>3. f[i - 1] \in Seq(Elements(Raised(u)))
  BY <1>1, <1>2, OmitPrefixes
<1>4. f[i] = IF Raised(u)[i] \in {Underscore} THEN f[i - 1]
             ELSE Append(f[i - 1], Raised(u)[i])
  BY <1>1, <1>2, LeftsStep
<1>5. Raised(u)[i] = Underscore <=> u[i] = Underscore
  BY <1>1, RaisedAt
<1> QED
  BY <1>3, <1>4, <1>5

LEMMA CamelZero == ASSUME NEW u, NEW f, Camels(f, u) PROVE f[0] = <<>>
BY SnakeEnds, LeftsStep DEF Camels

EndsWord(w, i) == i = 0 \/ w[i] # Underscore

\* The last character rendered, and what was rendered before it.
LEMMA CamelLast ==
  ASSUME NEW u, NEW f, Camels(f, u), NEW v, NEW g, Camels(g, v),
         NEW i \in 1..Len(u), u[i] # Underscore, NEW j \in 0..Len(v), EndsWord(v, j),
         f[i] = g[j]
  PROVE  /\ j \in 1..Len(v) /\ v[j] # Underscore
         /\ f[i - 1] = g[j - 1] /\ Raised(u)[i] = Raised(v)[j]
<1> DEFINE T == Elements(Raised(u)) \cup Elements(Raised(v))
<1>1. Len(u) \in Nat /\ Len(v) \in Nat
  BY SnakeEnds DEF Camels
<1>2. f[i] = Append(f[i - 1], Raised(u)[i]) /\ f[i - 1] \in Seq(Elements(Raised(u)))
  BY CamelAt
<1>3. Raised(u)[i] \in Elements(Raised(u))
  BY RaisedAt DEF Camels
<1>4. f[i - 1] \in Seq(T) /\ Raised(u)[i] \in T
  BY <1>2, <1>3
<1>5. j # 0
  <2>1. g[0] = <<>>
    BY CamelZero
  <2>2. f[i] # <<>>
    BY <1>2, <1>4, SameAppended
  <2> QED
    BY <2>1, <2>2
<1>6. j \in 1..Len(v) /\ v[j] # Underscore
  BY <1>1, <1>5 DEF EndsWord
<1>7. g[j] = Append(g[j - 1], Raised(v)[j]) /\ g[j - 1] \in Seq(Elements(Raised(v)))
  BY <1>6, CamelAt
<1>8. Raised(v)[j] \in Elements(Raised(v))
  BY <1>6, RaisedAt DEF Camels
<1>9. g[j - 1] \in Seq(T) /\ Raised(v)[j] \in T
  BY <1>7, <1>8
<1> HIDE DEF T
<1>10. Append(f[i - 1], Raised(u)[i]) = Append(g[j - 1], Raised(v)[j])
  BY <1>2, <1>7
<1> QED
  BY <1>4, <1>6, <1>9, <1>10, SameAppended

Same(u, i, v, j) == i = j /\ \A k \in 1..i : u[k] = v[k]

\* What is rendered up to the i-th character of u is never what is rendered
\* of another beginning of v.
Told(f, u, g, v, i) ==
  i <= Len(u) /\ EndsWord(u, i) =>
    \A j \in 0..Len(v) : EndsWord(v, j) /\ f[i] = g[j] => Same(u, i, v, j)

LEMMA ToldNext ==
  ASSUME NEW u, NEW f, Camels(f, u), NEW v, NEW g, Camels(g, v),
         NEW n \in Nat, \A i \in 0..n : Told(f, u, g, v, i)
  PROVE  Told(f, u, g, v, n + 1)
<1> DEFINE i == n + 1
<1> SUFFICES ASSUME i <= Len(u), EndsWord(u, i),
                    NEW j \in 0..Len(v), EndsWord(v, j), f[i] = g[j]
             PROVE  Same(u, i, v, j)
  BY DEF Told
<1>1. /\ i \in 1..Len(u) /\ i \in Nat /\ u[i] # Underscore /\ i # 0 /\ i - 1 = n
      /\ Len(u) \in Nat /\ Len(v) \in Nat
  BY SnakeEnds DEF Camels, EndsWord
<1>2. /\ j \in 1..Len(v) /\ v[j] # Underscore /\ j \in Nat
      /\ f[i - 1] = g[j - 1] /\ Raised(u)[i] = Raised(v)[j]
  BY <1>1, CamelLast
<1> HIDE DEF i
<1>3. /\ u[i] \in DOMAIN Upper \ Capitals
      /\ After(u, i) => /\ i > 2 /\ u[i - 1] = Underscore /\ u[i - 2] # Underscore
                        /\ Raised(u)[i] = Upper[u[i]] /\ Raised(u)[i] \in Capitals
      /\ ~After(u, i) => Raised(u)[i] = u[i] /\ (i = 1 \/ u[i - 1] # Underscore)
  BY <1>1, RaisedAt DEF Camels
<1>4. /\ v[j] \in DOMAIN Upper \ Capitals
      /\ After(v, j) => /\ j > 2 /\ v[j - 1] = Underscore /\ v[j - 2] # Underscore
                        /\ Raised(v)[j] = Upper[v[j]] /\ Raised(v)[j] \in Capitals
      /\ ~After(v, j) => Raised(v)[j] = v[j] /\ (j = 1 \/ v[j - 1] # Underscore)
  BY <1>2, RaisedAt DEF Camels
<1>5. After(u, i) <=> After(v, j)
  BY <1>2, <1>3, <1>4
<1>6. u[i] = v[j]
  <2>1. CASE After(u, i)
    <3>1. Upper[u[i]] = Upper[v[j]]
      BY <1>2, <1>3, <1>4, <1>5, <2>1
    <3> QED
      BY <1>3, <1>4, <3>1, UpperAssumption
  <2>2. CASE ~After(u, i)
    BY <1>2, <1>3, <1>4, <1>5, <2>2
  <2> QED
    BY <2>1, <2>2
<1>7. CASE After(u, i)
  <2>1. i - 2 \in 0..n /\ i - 2 <= Len(u) /\ j - 2 \in 0..Len(v) /\ i > 2 /\ j > 2
    BY <1>1, <1>2, <1>3, <1>4, <1>5, <1>7
  <2>2. i - 1 \in 1..Len(u) /\ j - 1 \in 1..Len(v)
        /\ (i - 1) - 1 = i - 2 /\ (j - 1) - 1 = j - 2
    BY <1>1, <1>2, <2>1
  <2>3. f[i - 1] = f[i - 2]
    BY <1>3, <1>7, <2>2, CamelAt
  <2>4. g[j - 1] = g[j - 2]
    BY <1>4, <1>5, <1>7, <2>2, CamelAt
  <2>5. EndsWord(u, i - 2) /\ EndsWord(v, j - 2)
    BY <1>3, <1>4, <1>5, <1>7 DEF EndsWord
  <2>6. Told(f, u, g, v, i - 2)
    BY <2>1
  <2>7. Same(u, i - 2, v, j - 2)
    BY <1>2, <2>1, <2>3, <2>4, <2>5, <2>6 DEF Told
  <2>8. i = j /\ \A k \in 1..(i - 2) : u[k] = v[k]
    BY <1>1, <1>2, <2>7 DEF Same
  <2>9. \A k \in 1..i : k \in 1..(i - 2) \/ k = i - 1 \/ k = i
    BY <1>1
  <2>10. u[i - 1] = v[i - 1]
    BY <1>3, <1>4, <1>5, <1>7, <2>8
  <2> QED
    BY <1>6, <2>8, <2>9, <2>10 DEF Same
<1>8. CASE ~After(u, i)
  <2>1. n \in 0..n /\ n <= Len(u) /\ j - 1 \in 0..Len(v)
    BY <1>1, <1>2
  <2>2. EndsWord(u, n) /\ EndsWord(v, j - 1)
    BY <1>1, <1>2, <1>3, <1>4, <1>5, <1>8 DEF EndsWord
  <2>3. Told(f, u, g, v, n)
    BY <2>1
  <2>4. Same(u, n, v, j - 1)
    BY <1>1, <1>2, <2>1, <2>2, <2>3 DEF Told
  <2>5. i = j /\ \A k \in 1..n : u[k] = v[k]
    BY <1>1, <1>2, <2>4 DEF Same
  <2>6. \A k \in 1..i : k \in 1..n \/ k = i
    BY <1>1
  <2> QED
    BY <1>6, <2>5, <2>6 DEF Same
<1> QED
  BY <1>7, <1>8

LEMMA ToldAll ==
  ASSUME NEW u, NEW f, Camels(f, u), NEW v, NEW g, Camels(g, v)
  PROVE  \A n \in Nat : Told(f, u, g, v, n)
<1> DEFINE S == {n \in Nat : \A i \in 0..n : Told(f, u, g, v, i)}
<1>1. Told(f, u, g, v, 0)
  <2> SUFFICES ASSUME NEW j \in 0..Len(v), EndsWord(v, j), g[j] = <<>>, j # 0
               PROVE  FALSE
    BY CamelZero DEF Told, Same
  <2>1. j \in 1..Len(v) /\ v[j] # Underscore
    BY SnakeEnds DEF Camels, EndsWord
  <2>2. /\ g[j] = Append(g[j - 1], Raised(v)[j])
        /\ g[j - 1] \in Seq(Elements(Raised(v)))
    BY <2>1, CamelAt
  <2>3. Raised(v)[j] \in Elements(Raised(v))
    BY <2>1, RaisedAt DEF Camels
  <2> QED
    BY <2>2, <2>3, SameAppended
<1>2. 0 \in S
  BY <1>1
<1>3. ASSUME NEW n \in Nat, n \in S PROVE n + 1 \in S
  <2>1. \A i \in 0..n : Told(f, u, g, v, i)
    BY <1>3
  <2>2. Told(f, u, g, v, n + 1)
    BY <2>1, ToldNext
  <2>3. \A i \in 0..(n + 1) : i \in 0..n \/ i = n + 1
    OBVIOUS
  <2> QED
    BY <2>1, <2>2, <2>3
<1> HIDE DEF S
<1>4. Nat \subseteq S
  BY <1>2, <1>3, NatsIn
<1>5. \A n \in Nat : n \in 0..n
  OBVIOUS
<1> QED
  BY <1>4, <1>5 DEF S

\* snake_to_camel loses nothing of a name in snake case.
LEMMA CamelInjective ==
  ASSUME NEW u, IsList(u), Snake(u), NEW v, IsList(v), Snake(v),
         snake_to_camel(u) = snake_to_camel(v)
  PROVE  u = v
<1>1. snake_to_camel(u) = Omit(Raised(u), {Underscore})
      /\ snake_to_camel(v) = Omit(Raised(v), {Underscore})
  BY DEF snake_to_camel, Raised
<1>2. PICK f : Lefts(f, Raised(u), {Underscore}, Len(u)) /\ Omit(Raised(u), {Underscore}) = f[Len(u)]
  BY SnakeEnds, OmitIs
<1>3. PICK g : Lefts(g, Raised(v), {Underscore}, Len(v)) /\ Omit(Raised(v), {Underscore}) = g[Len(v)]
  BY SnakeEnds, OmitIs
<1>4. Camels(f, u) /\ Camels(g, v)
  BY <1>2, <1>3 DEF Camels
<1>5. /\ Len(u) \in Nat /\ Len(v) \in Nat /\ Len(v) \in 0..Len(v) /\ Len(u) <= Len(u)
      /\ EndsWord(u, Len(u)) /\ EndsWord(v, Len(v))
  BY SnakeEnds DEF EndsWord
<1>6. Told(f, u, g, v, Len(u))
  BY <1>4, <1>5, ToldAll
<1>7. Same(u, Len(u), v, Len(v))
  BY <1>1, <1>2, <1>3, <1>5, <1>6 DEF Told
<1>8. u = [i \in 1..Len(u) |-> u[i]] /\ v = [i \in 1..Len(v) |-> v[i]]
  BY DEF IsList
<1> QED
  BY <1>7, <1>8 DEF Same

\* The first character stays, there are no dividers, and nothing is new that
\* an identifier does not go on with.
LEMMA CamelChars ==
  ASSUME NEW u, IsList(u), Snake(u), NEW c, c = snake_to_camel(u)
  PROVE  /\ IsList(c) /\ Len(c) \in Nat \ {0} /\ DOMAIN c = 1..Len(c)
         /\ \A i \in 1..Len(c) : c[i] \notin {Underscore, Dash}
         /\ c[1] = u[1] /\ c[1] \in DOMAIN Upper \ Capitals
         /\ Elements(c) \subseteq Continues
<1>1. c = Omit(Raised(u), {Underscore})
  BY DEF snake_to_camel, Raised
<1>2. PICK f : /\ Lefts(f, Raised(u), {Underscore}, Len(u))
               /\ c = f[Len(u)]
  BY <1>1, SnakeEnds, OmitIs
<1>3. Camels(f, u)
  BY <1>2 DEF Camels
<1>4. Len(u) \in Nat \ {0} /\ DOMAIN u = 1..Len(u) /\ u[1] # Underscore
  BY SnakeEnds
<1>5. IsList(c) /\ Elements(c) = Elements(Raised(u)) \ {Underscore}
  BY <1>1, SnakeEnds, OmitElements
<1>6. Len(c) \in Nat /\ DOMAIN c = 1..Len(c)
  BY <1>5 DEF IsList
<1>7. ASSUME NEW i \in 1..Len(c) PROVE c[i] \notin {Underscore, Dash}
  <2>1. c[i] \in Elements(c)
    BY <1>6, <1>7 DEF Elements
  <2>2. PICK k \in DOMAIN Raised(u) : c[i] = Raised(u)[k]
    BY <1>5, <2>1 DEF Elements
  <2>3. k \in 1..Len(u)
    BY <1>4, <2>2 DEF Raised
  <2>4. Raised(u)[k] # Dash
    <3>1. u[k] # Dash /\ (Raised(u)[k] = u[k] \/ Raised(u)[k] \in Capitals)
      BY <2>3, RaisedAt
    <3> QED
      BY <3>1, UpperAssumption
  <2> QED
    BY <1>5, <2>1, <2>2, <2>4
<1> DEFINE Begun(n) == Len(f[n]) \in Nat \ {0} /\ f[n][1] = u[1]
           S == {n \in Nat : n + 1 <= Len(u) => Begun(n + 1)}
<1>8. 0 \in S
  <2>1. 1 \in 1..Len(u) /\ 1 - 1 = 0 /\ ~After(u, 1)
    BY <1>4 DEF After
  <2>2. f[1] = Append(f[0], Raised(u)[1]) /\ Raised(u)[1] = u[1]
    <3>1. f[1] = Append(f[1 - 1], Raised(u)[1])
      BY <1>3, <1>4, <2>1, CamelAt
    <3> QED
      BY <2>1, <3>1, RaisedAt
  <2>3. f[0] = <<>>
    BY <1>3, CamelZero
  <2>4. f[1] = <<u[1]>>
    BY <2>2, <2>3
  <2>5. Begun(1)
    BY <2>4
  <2> HIDE DEF Begun
  <2> QED
    BY <2>5
<1>9. ASSUME NEW n \in Nat, n \in S PROVE n + 1 \in S
  <2> SUFFICES ASSUME (n + 1) + 1 <= Len(u) PROVE Begun((n + 1) + 1)
    OBVIOUS
  <2> DEFINE i == (n + 1) + 1
  <2>1. i \in 1..Len(u) /\ i - 1 = n + 1
    BY <1>4
  <2>2. Begun(n + 1)
    BY <1>4, <1>9
  <2>3. /\ f[n + 1] \in Seq(Elements(Raised(u)))
        /\ f[i] = f[n + 1] \/ f[i] = Append(f[n + 1], Raised(u)[i])
    BY <1>3, <2>1, CamelAt
  <2>4. Raised(u)[i] \in Elements(Raised(u))
    BY <2>1, RaisedAt
  <2> QED
    BY <2>2, <2>3, <2>4
<1> HIDE DEF S
<1>10. Nat \subseteq S
  BY <1>8, <1>9, NatsIn
<1>11. Begun(Len(u))
  <2>1. Len(u) - 1 \in Nat /\ (Len(u) - 1) + 1 = Len(u)
    BY <1>4
  <2> QED
    BY <1>4, <1>10, <2>1 DEF S
<1>12. c[1] = u[1] /\ Len(c) # 0
  BY <1>2, <1>11
<1>13. u[1] \in DOMAIN Upper \ Capitals
  BY <1>4, RaisedAt
<1>14. Elements(Raised(u)) \subseteq Continues
  <2> SUFFICES ASSUME NEW k \in 1..Len(u) PROVE Raised(u)[k] \in Continues
    BY <1>4 DEF Raised, Elements
  <2>1. u[k] \in Continues /\ u[k] \in DOMAIN Upper
    BY <1>4, RaisedAt DEF Snake, IsIdent, Elements
  <2>2. Raised(u)[k] = u[k] \/ Raised(u)[k] = Upper[u[k]]
    <3> HIDE DEF Raised
    <3>1. After(u, k) \/ ~After(u, k)
      OBVIOUS
    <3> QED
      BY <3>1, RaisedAt
  <2>3. Upper[u[k]] \in Continues
    BY <2>1, CapitalsGo
  <2> QED
    BY <2>1, <2>2, <2>3
<1> QED
  BY <1>5, <1>6, <1>7, <1>12, <1>13, <1>14

\* A name without dividers becomes a variant by its first character.
LEMMA VariantOfCamel ==
  ASSUME NEW c, IsList(c), Len(c) \in Nat \ {0}, DOMAIN c = 1..Len(c),
         \A i \in 1..Len(c) : c[i] \notin {Underscore, Dash},
         c[1] \in DOMAIN Upper \ Capitals
  PROVE  to_variant_name(c) = [i \in 1..Len(c) |-> IF i = 1 THEN Upper[c[1]] ELSE c[i]]
<1> DEFINE t == [i \in 1..Len(c) |-> IF i = 1 THEN Upper[c[1]] ELSE c[i]]
           w == [i \in DOMAIN c |->
                   IF i = 1 \/ c[i - 1] \in {Underscore, Dash} THEN Upper[c[i]] ELSE c[i]]
<1>1. w = t
  <2>1. \A i \in 1..Len(c) : i = 1 \/ i - 1 \in 1..Len(c)
    OBVIOUS
  <2>2. \A i \in 1..Len(c) : i = 1 \/ c[i - 1] \notin {Underscore, Dash}
    BY <2>1
  <2> QED
    BY <2>2
<1>2. to_variant_name(c) = Omit(t, {Underscore, Dash})
  BY <1>1 DEF to_variant_name
<1>3. DOMAIN t = 1..Len(c) /\ \A i \in 1..Len(c) : t[i] \in Elements(t)
  BY DEF Elements
<1>4. t \in Seq(Elements(t))
  BY <1>3
<1>5. IsList(t)
  BY <1>4 DEF IsList
<1>6. \A i \in DOMAIN t : t[i] \notin {Underscore, Dash}
  <2>1. Upper[c[1]] \notin {Underscore, Dash}
    <3>1. c[1] # Underscore /\ c[1] # Dash
      OBVIOUS
    <3>2. /\ Underscore \in DOMAIN Upper \ Capitals /\ Upper[Underscore] = Underscore
          /\ Dash \in DOMAIN Upper \ Capitals /\ Upper[Dash] = Dash
      BY UpperAssumption
    <3> QED
      BY <3>1, <3>2, UpperAssumption
  <2> QED
    BY <2>1
<1> HIDE DEF t, w
<1>7. Omit(t, {Underscore, Dash}) = t
  BY <1>5, <1>6, OmitNothing
<1> QED
  BY <1>2, <1>7 DEF t

\* Nor does the enum bring two camel case names together.
LEMMA VariantInjective ==
  ASSUME NEW u, IsList(u), Snake(u), NEW v, IsList(v), Snake(v),
         to_variant_name(snake_to_camel(u)) = to_variant_name(snake_to_camel(v))
  PROVE  u = v
<1> DEFINE c == snake_to_camel(u)
           d == snake_to_camel(v)
           s == to_variant_name(c)
           t == to_variant_name(d)
<1>1. /\ IsList(c) /\ Len(c) \in Nat \ {0} /\ DOMAIN c = 1..Len(c)
      /\ \A i \in 1..Len(c) : c[i] \notin {Underscore, Dash}
      /\ c[1] \in DOMAIN Upper \ Capitals
  BY CamelChars
<1>2. /\ IsList(d) /\ Len(d) \in Nat \ {0} /\ DOMAIN d = 1..Len(d)
      /\ \A i \in 1..Len(d) : d[i] \notin {Underscore, Dash}
      /\ d[1] \in DOMAIN Upper \ Capitals
  BY CamelChars
<1> HIDE DEF c, d
<1>3. s = [i \in 1..Len(c) |-> IF i = 1 THEN Upper[c[1]] ELSE c[i]]
  BY <1>1, VariantOfCamel
<1>4. t = [i \in 1..Len(d) |-> IF i = 1 THEN Upper[d[1]] ELSE d[i]]
  BY <1>2, VariantOfCamel
<1>5. s = t
  BY DEF c, d
<1> HIDE DEF s, t
<1>6. Len(c) = Len(d)
  <2>1. DOMAIN s = 1..Len(c) /\ DOMAIN t = 1..Len(d)
    BY <1>3, <1>4
  <2>2. 1..Len(c) = 1..Len(d)
    BY <1>5, <2>1
  <2>3. Len(c) \in 1..Len(c) /\ Len(d) \in 1..Len(d)
    BY <1>1, <1>2
  <2>4. Len(c) \in 1..Len(d) /\ Len(d) \in 1..Len(c)
    BY <2>2, <2>3
  <2>5. Len(c) \in Nat /\ Len(d) \in Nat
    BY <1>1, <1>2
  <2> QED
    BY <2>4, <2>5
<1>7. \A i \in 1..Len(c) : c[i] = d[i]
  <2> TAKE i \in 1..Len(c)
  <2>1. CASE i = 1
    <3>1. Upper[c[1]] = Upper[d[1]]
      BY <1>3, <1>4, <1>5, <1>6, <2>1
    <3> QED
      BY <1>1, <1>2, <2>1, <3>1, UpperAssumption
  <2>2. CASE i # 1
    BY <1>3, <1>4, <1>5, <1>6, <2>2
  <2> QED
    BY <2>1, <2>2
<1>8. c = [i \in 1..Len(c) |-> c[i]] /\ d = [i \in 1..Len(d) |-> d[i]]
  BY <1>1, <1>2 DEF IsList
<1>9. c = d
  BY <1>6, <1>7, <1>8
<1> QED
  BY <1>9, CamelInjective DEF c, d

-----------------------------------------------------------------------------
(* What is collected *)

ItemsOf(items) == \A i \in DOMAIN items :
  items[i].from \in DOMAIN entries /\ items[i].kind \in {"array", "map"}

\* Both lists are lists of items, and what is out is rendered from them.
MacroInv ==
  /\ entries \in Seq({entries[n] : n \in DOMAIN entries})
  /\ pc \in {"switches", "entries", "refused", "panicked", "expanded"}
  /\ at \in 1..(Len(entries) + 1)
  /\ methods \in Seq({methods[i] : i \in DOMAIN methods})
  /\ subscriptions \in Seq({subscriptions[i] : i \in DOMAIN subscriptions})
  /\ ItemsOf(methods) /\ ItemsOf(subscriptions)
  /\ IF pc = "expanded" THEN out.enum = request_enum /\ out.matches = matches
     ELSE out = Nothing
  /\ CollectsInOrder

\* A list of itself has its positions as domain.
LEMMA ListDomain ==
  ASSUME NEW s, s \in Seq({s[i] : i \in DOMAIN s})
  PROVE  DOMAIN s = 1..Len(s) /\ Len(s) \in Nat
OBVIOUS

\* One more element at the end.
LEMMA Appended ==
  ASSUME NEW s, s \in Seq({s[i] : i \in DOMAIN s}), NEW x
  PROVE  LET t == Append(s, x) IN
         /\ Len(t) = Len(s) + 1 /\ DOMAIN t = 1..(Len(s) + 1)
         /\ \A i \in DOMAIN s : t[i] = s[i]
         /\ t[Len(s) + 1] = x
         /\ t \in Seq({t[i] : i \in DOMAIN t})
<1> DEFINE T == {s[i] : i \in DOMAIN s} \cup {x}
<1> DEFINE t == Append(s, x)
<1>1. s \in Seq(T)
  <2>1. Len(s) \in Nat /\ DOMAIN s = 1..Len(s) /\ s = [i \in 1..Len(s) |-> s[i]]
    OBVIOUS
  <2>2. \A i \in 1..Len(s) : s[i] \in T
    BY <2>1
  <2> QED
    BY <2>1, <2>2
<1>2. /\ t \in Seq(T) /\ Len(t) = Len(s) + 1
      /\ \A i \in 1..Len(s) : t[i] = s[i]
      /\ t[Len(s) + 1] = x
  BY <1>1
<1>3. DOMAIN t = 1..(Len(s) + 1) /\ DOMAIN s = 1..Len(s)
  BY <1>1, <1>2
<1>4. t \in Seq({t[i] : i \in DOMAIN t})
  <2>1. Len(t) \in Nat /\ t = [i \in 1..Len(t) |-> t[i]] /\ DOMAIN t = 1..Len(t)
    <3>1. t \in Seq(T)
      BY <1>2
    <3> HIDE DEF t, T
    <3> QED
      BY <3>1
  <2>2. \A i \in 1..Len(t) : t[i] \in {t[j] : j \in DOMAIN t}
    BY <2>1
  <2> HIDE DEF t
  <2> QED
    BY <2>1, <2>2
<1> QED
  BY <1>2, <1>3, <1>4

\* Taking the entry that is next, the n-th, into a list that is in order keeps
\* it in order.
LEMMA TakeKeepsOrder ==
  ASSUME NEW items, items \in Seq({items[i] : i \in DOMAIN items}),
         NEW n \in Nat, NEW x, x.from = n, NEW t, t = Append(items, x),
         \A i \in DOMAIN items : items[i].from \in Nat /\ items[i].from < n,
         \A i, j \in DOMAIN items : i < j => items[i].from < items[j].from
  PROVE  /\ \A i, j \in DOMAIN t : i < j => t[i].from < t[j].from
         /\ \A i \in DOMAIN t : t[i].from < n + 1
         /\ Places(t) = Places(items) \cup {n}
<1>1. /\ DOMAIN t = 1..(Len(items) + 1) /\ Len(items) \in Nat
      /\ DOMAIN items = 1..Len(items)
      /\ \A i \in DOMAIN items : t[i] = items[i]
      /\ t[Len(items) + 1] = x
  BY Appended, ListDomain
<1>2. \A i \in DOMAIN t : i \in DOMAIN items \/ (i = Len(items) + 1 /\ t[i] = x)
  BY <1>1
<1>3. \A i, j \in DOMAIN t : i < j => t[i].from < t[j].from
  <2> SUFFICES ASSUME NEW i \in DOMAIN t, NEW j \in DOMAIN t, i < j
               PROVE  t[i].from < t[j].from
    OBVIOUS
  <2>1. i \in DOMAIN items /\ t[i] = items[i]
    BY <1>1
  <2>2. CASE j \in DOMAIN items
    BY <1>1, <2>1, <2>2
  <2>3. CASE j = Len(items) + 1
    BY <1>1, <2>1, <2>3
  <2> QED
    BY <1>2, <2>2, <2>3
<1>4. \A i \in DOMAIN t : t[i].from < n + 1
  BY <1>1, <1>2
<1>5. Places(t) = Places(items) \cup {n}
  BY <1>1, <1>2 DEF Places
<1> QED
  BY <1>3, <1>4, <1>5

\* An item's encoding is one of the two.
LEMMA KindChecked ==
  ASSUME NEW a, NEW e, NEW from, NEW name, NEW unsub, parse_param_kind(a)
  PROVE  /\ Item(a, e, from, name, unsub).kind \in {"array", "map"}
         /\ Item(a, e, from, name, unsub).from = from
BY DEF parse_param_kind, Item

LEMMA MacroInit == Init => MacroInv
<1> SUFFICES ASSUME Init PROVE MacroInv
  OBVIOUS
<1>1. entries \in Seq({entries[n] : n \in DOMAIN entries})
  BY MacroAssumption DEF Init, IsList, Elements
<1>2. Len(entries) \in Nat
  BY <1>1
<1>3. DOMAIN methods = {} /\ DOMAIN subscriptions = {}
      /\ methods \in Seq({methods[i] : i \in DOMAIN methods})
      /\ subscriptions \in Seq({subscriptions[i] : i \in DOMAIN subscriptions})
  BY DEF Init
<1>4. CollectsInOrder
  <2>1. Places(methods) = {} /\ Places(subscriptions) = {}
    BY <1>3 DEF Places
  <2>2. 1..(at - 1) = {}
    BY DEF Init
  <2> QED
    BY <1>3, <2>1, <2>2 DEF CollectsInOrder, InOrder
<1> QED
  BY <1>1, <1>2, <1>3, <1>4 DEF Init, MacroInv, ItemsOf

\* Steps that collect nothing and render nothing.
LEMMA EndsKeeps ==
  ASSUME MacroInv, pc # "expanded", NEW how \in {"entries", "refused", "panicked"},
         Ends(how)
  PROVE  MacroInv'
<1>1. CollectsInOrder' /\ ItemsOf(methods)' /\ ItemsOf(subscriptions)'
  BY DEF MacroInv, Ends, ItemsOf, CollectsInOrder, InOrder, Places, IsSub, HasAttr
<1>2. pc' = how /\ UNCHANGED <<entries, at, methods, subscriptions, out>>
  BY DEF Ends
<1>3. out = Nothing
  BY DEF MacroInv
<1> QED
  BY <1>1, <1>2, <1>3 DEF MacroInv

\* An entry becomes a method.
LEMMA MethodTaken ==
  ASSUME MacroInv, TakeMethod
  PROVE  MacroInv'
<1> DEFINE x == MethodItem(Entry, at)
<1>1. /\ pc = "entries" /\ at \in 1..Len(entries) /\ at' = at + 1 /\ at \in Nat
      /\ Len(entries) \in Nat /\ DOMAIN entries = 1..Len(entries)
      /\ methods' = Append(methods, x)
      /\ UNCHANGED <<attr, entries, pc, subscriptions, out>>
      /\ ~IsSub(entries[at])
  BY ListDomain DEF MacroInv, TakeMethod, AtEntry, Entry
<1>2. x.kind \in {"array", "map"} /\ x.from = at
  BY KindChecked DEF TakeMethod, MethodOk, MethodItem
<1> HIDE DEF x
<1>3. /\ \A i \in DOMAIN methods : methods[i].from \in Nat
      /\ methods \in Seq({methods[i] : i \in DOMAIN methods})
  BY <1>1 DEF MacroInv, ItemsOf
<1>4. /\ DOMAIN methods' = 1..(Len(methods) + 1)
      /\ DOMAIN methods = 1..Len(methods) /\ Len(methods) \in Nat
      /\ \A i \in DOMAIN methods : methods'[i] = methods[i]
      /\ methods'[Len(methods) + 1] = x
      /\ methods' \in Seq({methods'[i] : i \in DOMAIN methods'})
  <2>1. methods' = Append(methods, x)
    BY <1>1
  <2>2. LET t == Append(methods, x) IN
        /\ Len(t) = Len(methods) + 1 /\ DOMAIN t = 1..(Len(methods) + 1)
        /\ \A i \in DOMAIN methods : t[i] = methods[i]
        /\ t[Len(methods) + 1] = x
        /\ t \in Seq({t[i] : i \in DOMAIN t})
    BY <1>3, Appended
  <2>3. DOMAIN methods = 1..Len(methods) /\ Len(methods) \in Nat
    BY <1>3, ListDomain
  <2> QED
    BY <2>1, <2>2, <2>3
<1>5. ItemsOf(methods)'
  <2> SUFFICES ASSUME NEW i \in DOMAIN methods'
               PROVE  /\ methods'[i].from \in DOMAIN entries
                      /\ methods'[i].kind \in {"array", "map"}
    BY <1>1 DEF ItemsOf
  <2>1. i \in DOMAIN methods \/ i = Len(methods) + 1
    BY <1>4
  <2> QED
    BY <1>1, <1>2, <1>4, <2>1 DEF MacroInv, ItemsOf
<1>6. /\ InOrder(methods) /\ InOrder(subscriptions)
      /\ Places(methods) \cup Places(subscriptions) = 1..(at - 1)
      /\ \A i \in Places(methods) : ~IsSub(entries[i])
      /\ \A i \in Places(subscriptions) : IsSub(entries[i])
  BY DEF MacroInv, CollectsInOrder
<1>7. /\ InOrder(methods)'
      /\ Places(methods)' = Places(methods) \cup {at}
  <2>1. /\ \A i, j \in DOMAIN methods' : i < j => methods'[i].from < methods'[j].from
        /\ \A i \in DOMAIN methods' : methods'[i].from < at + 1
        /\ Places(methods') = Places(methods) \cup {at}
    <3>1. \A i \in DOMAIN methods : methods[i].from \in Nat /\ methods[i].from < at
      BY <1>3, <1>6 DEF InOrder
    <3>2. \A i, j \in DOMAIN methods : i < j => methods[i].from < methods[j].from
      BY <1>6 DEF InOrder
    <3>3. methods \in Seq({methods[i] : i \in DOMAIN methods})
      BY <1>3
    <3>4. at \in Nat /\ x.from = at /\ methods' = Append(methods, x)
      BY <1>1, <1>2
    <3> QED
      BY <3>1, <3>2, <3>3, <3>4, TakeKeepsOrder
  <2>2. at' = at + 1
    BY <1>1
  <2>3. InOrder(methods)'
    BY <2>1, <2>2 DEF InOrder
  <2> QED
    BY <2>1, <2>3
<1>8. CollectsInOrder'
  <2>1. Places(subscriptions)' = Places(subscriptions)
    BY <1>1 DEF Places
  <2>2. InOrder(subscriptions)'
    <3>1. \A i \in DOMAIN subscriptions : subscriptions[i].from \in Nat
      BY <1>1 DEF MacroInv, ItemsOf
    <3> QED
      BY <1>1, <1>6, <3>1 DEF InOrder
  <2>3. 1..(at' - 1) = 1..(at - 1) \cup {at}
    BY <1>1
  <2>4. \A i \in 1..(at - 1) \cup {at} : IsSub(entries[i])' <=> IsSub(entries[i])
    BY <1>1 DEF IsSub, HasAttr
  <2>5. (Places(methods) \cup Places(subscriptions))' = 1..(at' - 1)
    BY <1>6, <1>7, <2>1, <2>3
  <2>6. \A i \in Places(methods)' : ~IsSub(entries[i])'
    BY <1>1, <1>6, <1>7, <2>4
  <2>7. \A i \in Places(subscriptions)' : IsSub(entries[i])'
    <3> SUFFICES ASSUME NEW i \in Places(subscriptions) PROVE IsSub(entries[i])'
      BY <2>1
    <3>1. IsSub(entries[i])
      BY <1>6
    <3> QED
      BY <1>1, <3>1 DEF IsSub, HasAttr
  <2> QED
    BY <1>7, <2>2, <2>5, <2>6, <2>7 DEF CollectsInOrder
<1>9. ItemsOf(subscriptions)'
  BY <1>1 DEF MacroInv, ItemsOf
<1>10. /\ subscriptions' \in Seq({subscriptions[i] : i \in DOMAIN subscriptions})'
       /\ methods' \in Seq({methods[i] : i \in DOMAIN methods})'
       /\ entries' \in Seq({entries[n] : n \in DOMAIN entries})'
  BY <1>1, <1>4 DEF MacroInv
<1>11. at' \in 1..(Len(entries') + 1) /\ pc' = "entries" /\ out' = Nothing
  BY <1>1 DEF MacroInv
<1> QED
  BY <1>5, <1>8, <1>9, <1>10, <1>11 DEF MacroInv

\* An entry becomes a subscription.
LEMMA SubscriptionTaken ==
  ASSUME MacroInv, TakeSubscription
  PROVE  MacroInv'
<1> DEFINE x == SubItem(Entry, at)
<1>1. /\ pc = "entries" /\ at \in 1..Len(entries) /\ at' = at + 1 /\ at \in Nat
      /\ Len(entries) \in Nat /\ DOMAIN entries = 1..Len(entries)
      /\ subscriptions' = Append(subscriptions, x)
      /\ UNCHANGED <<attr, entries, pc, methods, out>>
  BY ListDomain DEF MacroInv, TakeSubscription, AtEntry, Entry
<1>2. x.kind \in {"array", "map"} /\ x.from = at
  BY KindChecked DEF TakeSubscription, SubAttrOk, SubItem
<1>2a. IsSub(entries[at])
  BY DEF TakeSubscription, Entry
<1> HIDE DEF x
<1>3. /\ \A i \in DOMAIN subscriptions : subscriptions[i].from \in Nat
      /\ subscriptions \in Seq({subscriptions[i] : i \in DOMAIN subscriptions})
  BY <1>1 DEF MacroInv, ItemsOf
<1>4. /\ DOMAIN subscriptions' = 1..(Len(subscriptions) + 1)
      /\ DOMAIN subscriptions = 1..Len(subscriptions) /\ Len(subscriptions) \in Nat
      /\ \A i \in DOMAIN subscriptions : subscriptions'[i] = subscriptions[i]
      /\ subscriptions'[Len(subscriptions) + 1] = x
      /\ subscriptions' \in Seq({subscriptions'[i] : i \in DOMAIN subscriptions'})
  <2>1. subscriptions' = Append(subscriptions, x)
    BY <1>1
  <2>2. LET t == Append(subscriptions, x) IN
        /\ Len(t) = Len(subscriptions) + 1 /\ DOMAIN t = 1..(Len(subscriptions) + 1)
        /\ \A i \in DOMAIN subscriptions : t[i] = subscriptions[i]
        /\ t[Len(subscriptions) + 1] = x
        /\ t \in Seq({t[i] : i \in DOMAIN t})
    BY <1>3, Appended
  <2>3. DOMAIN subscriptions = 1..Len(subscriptions) /\ Len(subscriptions) \in Nat
    BY <1>3, ListDomain
  <2> QED
    BY <2>1, <2>2, <2>3
<1>5. ItemsOf(subscriptions)'
  <2> SUFFICES ASSUME NEW i \in DOMAIN subscriptions'
               PROVE  /\ subscriptions'[i].from \in DOMAIN entries
                      /\ subscriptions'[i].kind \in {"array", "map"}
    BY <1>1 DEF ItemsOf
  <2>1. i \in DOMAIN subscriptions \/ i = Len(subscriptions) + 1
    BY <1>4
  <2> QED
    BY <1>1, <1>2, <1>4, <2>1 DEF MacroInv, ItemsOf
<1>6. /\ InOrder(methods) /\ InOrder(subscriptions)
      /\ Places(methods) \cup Places(subscriptions) = 1..(at - 1)
      /\ \A i \in Places(methods) : ~IsSub(entries[i])
      /\ \A i \in Places(subscriptions) : IsSub(entries[i])
  BY DEF MacroInv, CollectsInOrder
<1>7. /\ InOrder(subscriptions)'
      /\ Places(subscriptions)' = Places(subscriptions) \cup {at}
  <2>1. /\ \A i, j \in DOMAIN subscriptions' : i < j => subscriptions'[i].from < subscriptions'[j].from
        /\ \A i \in DOMAIN subscriptions' : subscriptions'[i].from < at + 1
        /\ Places(subscriptions') = Places(subscriptions) \cup {at}
    <3>1. \A i \in DOMAIN subscriptions : subscriptions[i].from \in Nat /\ subscriptions[i].from < at
      BY <1>3, <1>6 DEF InOrder
    <3>2. \A i, j \in DOMAIN subscriptions : i < j => subscriptions[i].from < subscriptions[j].from
      BY <1>6 DEF InOrder
    <3>3. subscriptions \in Seq({subscriptions[i] : i \in DOMAIN subscriptions})
      BY <1>3
    <3>4. at \in Nat /\ x.from = at /\ subscriptions' = Append(subscriptions, x)
      BY <1>1, <1>2
    <3> QED
      BY <3>1, <3>2, <3>3, <3>4, TakeKeepsOrder
  <2>2. at' = at + 1
    BY <1>1
  <2>3. InOrder(subscriptions)'
    BY <2>1, <2>2 DEF InOrder
  <2> QED
    BY <2>1, <2>3
<1>8. CollectsInOrder'
  <2>1. Places(methods)' = Places(methods)
    BY <1>1 DEF Places
  <2>2. InOrder(methods)'
    <3>1. \A i \in DOMAIN methods : methods[i].from \in Nat
      BY <1>1 DEF MacroInv, ItemsOf
    <3> QED
      BY <1>1, <1>6, <3>1 DEF InOrder
  <2>3. 1..(at' - 1) = 1..(at - 1) \cup {at}
    BY <1>1
  <2>4. \A i \in 1..(at - 1) \cup {at} : IsSub(entries[i])' <=> IsSub(entries[i])
    BY <1>1 DEF IsSub, HasAttr
  <2>5. (Places(methods) \cup Places(subscriptions))' = 1..(at' - 1)
    BY <1>6, <1>7, <2>1, <2>3
  <2>6. \A i \in Places(methods)' : ~IsSub(entries[i])'
    BY <1>1, <1>6, <2>1, <2>4
  <2>7. \A i \in Places(subscriptions)' : IsSub(entries[i])'
    <3> SUFFICES ASSUME NEW i \in Places(subscriptions) \cup {at}
                 PROVE  IsSub(entries[i])'
      BY <1>7
    <3>1. IsSub(entries[i])
      BY <1>6, <1>2a
    <3> QED
      BY <1>1, <3>1 DEF IsSub, HasAttr
  <2> QED
    BY <1>7, <2>2, <2>5, <2>6, <2>7 DEF CollectsInOrder
<1>9. ItemsOf(methods)'
  BY <1>1 DEF MacroInv, ItemsOf
<1>11. out = Nothing
  BY <1>1 DEF MacroInv
<1>12. /\ subscriptions' \in Seq({subscriptions[i] : i \in DOMAIN subscriptions})'
       /\ methods' \in Seq({methods[i] : i \in DOMAIN methods})'
       /\ entries' \in Seq({entries[n] : n \in DOMAIN entries})'
  BY <1>1, <1>4 DEF MacroInv
<1>13. at' \in 1..(Len(entries') + 1) /\ pc' = "entries" /\ out' = Nothing
  BY <1>1, <1>11
<1> QED
  BY <1>5, <1>8, <1>9, <1>12, <1>13 DEF MacroInv

\* Rendering takes what was collected, and is the last step.
LEMMA Rendered ==
  ASSUME MacroInv, Render
  PROVE  MacroInv'
<1>1. /\ pc' = "expanded" /\ UNCHANGED <<attr, entries, at, methods, subscriptions>>
      /\ out'.enum = request_enum /\ out'.matches = matches
  BY DEF Render
<1>2. request_enum' = request_enum /\ matches' = matches
  BY <1>1 DEF request_enum, render_client_request_enum, matches, Variants
<1>3. CollectsInOrder' /\ ItemsOf(methods)' /\ ItemsOf(subscriptions)'
  BY <1>1
  DEF MacroInv, CollectsInOrder, InOrder, Places, IsSub, HasAttr, ItemsOf
<1> QED
  BY <1>1, <1>2, <1>3 DEF MacroInv

LEMMA MacroStep ==
  ASSUME MacroInv, [Next]_vars
  PROVE  MacroInv'
<1>1. CASE TakeMethod
  BY <1>1, MethodTaken
<1>2. CASE TakeSubscription
  BY <1>2, SubscriptionTaken
<1>3. CASE Render
  BY <1>3, Rendered
<1>4. CASE \/ AcceptSwitches \/ RefuseSwitches \/ RefuseEntry \/ RefuseMethod
           \/ RefuseSubscription \/ PanicSubscription \/ RefuseEmpty \/ PanicRender
  <2>1. PICK how \in {"entries", "refused", "panicked"} : Ends(how)
    BY <1>4
    DEF AcceptSwitches, RefuseSwitches, RefuseEntry, RefuseMethod,
        RefuseSubscription, PanicSubscription, RefuseEmpty, PanicRender
  <2>2. pc # "expanded"
    BY <1>4
    DEF AcceptSwitches, RefuseSwitches, RefuseEntry, RefuseMethod, AtEnd,
        RefuseSubscription, PanicSubscription, RefuseEmpty, PanicRender, AtEntry
  <2> QED
    BY <2>1, <2>2, EndsKeeps
<1>5. CASE UNCHANGED vars
  <2>1. request_enum' = request_enum /\ matches' = matches
    BY <1>5 DEF vars, request_enum, render_client_request_enum, matches, Variants
  <2>2. CollectsInOrder' /\ ItemsOf(methods)' /\ ItemsOf(subscriptions)'
    BY <1>5
    DEF vars, MacroInv, CollectsInOrder, InOrder, Places, IsSub, HasAttr, ItemsOf
  <2> QED
    BY <1>5, <2>1, <2>2 DEF vars, MacroInv
<1> QED
  BY <1>1, <1>2, <1>3, <1>4, <1>5 DEF Next

\* The inductive invariant behind the theorems below.
THEOREM MacroInvariant == Spec => []MacroInv
BY MacroInit, MacroStep, PTL DEF Spec

\* Of any trait, every entry gone through is collected once, in its place, as
\* what its attribute says it is.
THEOREM EntriesCollected == Spec => []CollectsInOrder
<1>1. MacroInv => CollectsInOrder
  BY DEF MacroInv
<1> QED
  BY <1>1, MacroInvariant, PTL

\* Whatever the trait, the matches in the generated code cover the generated
\* enum, unless it has subscriptions and asks for a server and a client.
THEOREM MatchesExhaustive == Spec => []ExhaustiveMatches
<1>1. MacroInv => ExhaustiveMatches
  <2> SUFFICES ASSUME MacroInv,
                      ~(Server(attr) /\ Client(attr) /\ subscriptions # <<>>),
                      NEW m \in out.matches
               PROVE  Elements(m.arms) = Elements(out.enum)
    BY DEF ExhaustiveMatches, Exhaustive
  <2>1. pc = "expanded"
    BY DEF MacroInv, Nothing
  <2>2. out.enum = request_enum /\ m \in matches
    BY <2>1 DEF MacroInv
  <2>3. methods \in Seq({methods[i] : i \in DOMAIN methods})
    BY DEF MacroInv
  <2>4. methods \o <<>> = methods
    BY <2>3
  <2>5. CASE m.half = "server"
    BY <2>2, <2>5 DEF matches, request_enum
  <2>6. CASE m.half = "client"
    <3>1. m.arms = Variants(methods) /\ Client(attr)
      BY <2>2, <2>6 DEF matches
    <3>2. out.enum = Variants(methods)
      <4>1. CASE Server(attr)
        BY <2>2, <2>4, <3>1, <4>1 DEF request_enum
      <4>2. CASE ~Server(attr)
        BY <2>2, <4>2 DEF request_enum, render_client_request_enum
      <4> QED
        BY <4>1, <4>2
    <3> QED
      BY <3>1, <3>2
  <2> QED
    BY <2>2, <2>5, <2>6 DEF matches
<1> QED
  BY <1>1, MacroInvariant, PTL

\* What is in the two lists together is in one of them.
LEMMA JoinedElements ==
  ASSUME MacroInv
  PROVE  \A m \in Elements(methods \o subscriptions) :
           m \in Elements(methods) \/ m \in Elements(subscriptions)
<1>1. Len(methods) \in Nat /\ Len(subscriptions) \in Nat
  BY ListDomain DEF MacroInv
<1> DEFINE n == Len(methods)
           k == Len(subscriptions)
           c == methods \o subscriptions
<1>2. DOMAIN methods = 1..n /\ DOMAIN subscriptions = 1..k
  BY ListDomain DEF MacroInv
<1>3. /\ DOMAIN c = 1..(n + k)
      /\ \A i \in 1..(n + k) :
           c[i] = IF i <= n THEN methods[i] ELSE subscriptions[i - n]
  BY DEF MacroInv
<1> HIDE DEF c, n, k
<1>4. n \in Nat /\ k \in Nat
  BY <1>1 DEF n, k
<1>5. \A i \in 1..(n + k) : i \in 1..n \/ (i - n \in 1..k /\ ~(i <= n))
  BY <1>4
<1>6. \A i \in DOMAIN c :
        c[i] \in Elements(methods) \/ c[i] \in Elements(subscriptions)
  <2> TAKE i \in DOMAIN c
  <2>1. CASE i \in 1..n
    BY <1>2, <1>3, <1>4, <2>1 DEF Elements
  <2>2. CASE i - n \in 1..k /\ ~(i <= n)
    BY <1>2, <1>3, <2>2 DEF Elements
  <2> QED
    BY <1>3, <1>5, <2>1, <2>2
<1> QED
  BY <1>6 DEF Elements, c

\* The expansion of any trait keeps its types: no encoding but the two.
THEOREM MacroTypes == Spec => []MacroTypeOK
<1>1. MacroInv => MacroTypeOK
  <2> SUFFICES ASSUME MacroInv PROVE MacroTypeOK
    OBVIOUS
  <2>1. \A m \in Elements(methods \o subscriptions) :
          m \in Elements(methods) \/ m \in Elements(subscriptions)
    BY JoinedElements
  <2>2. \A m \in Elements(methods) \cup Elements(subscriptions) :
          m.from \in DOMAIN entries /\ m.kind \in {"array", "map"}
    BY DEF MacroInv, ItemsOf, Elements
  <2> QED
    BY <2>1, <2>2 DEF MacroInv, MacroTypeOK
<1> QED
  BY <1>1, MacroInvariant, PTL

-----------------------------------------------------------------------------
(* What is kept of the entries, and what goes out *)

\* An invariant of its own for each of the theorems below, beside MacroInv.
EntriesInv == IsList(entries) /\ \A e \in Elements(entries) : IsEntry(e)

Rewritten ==
  pc = "expanded" => out.def = [i \in DOMAIN entries |-> rewritten(entries[i])]

TheMethod(m, e) == m = MethodItem(e, m.from) /\ MethodOk(e) /\ ~IsSub(e)
TheSub(m, e) ==
  m = SubItem(e, m.from) /\ SubAttrOk(e) /\ ParamsOk(e) /\ IsSub(e)

\* The items are what from_item makes of entries it takes.
Recorded ==
  /\ \A i \in DOMAIN methods : TheMethod(methods[i], entries[methods[i].from])
  /\ \A i \in DOMAIN subscriptions :
       TheSub(subscriptions[i], entries[subscriptions[i].from])

LEMMA InputStays ==
  ASSUME [Next]_vars
  PROVE  UNCHANGED <<attr, entries>>
BY DEF vars, Next, Ends, AcceptSwitches, RefuseSwitches, RefuseEntry, TakeMethod,
       RefuseMethod, TakeSubscription, RefuseSubscription, PanicSubscription,
       RefuseEmpty, Render, PanicRender

LEMMA EntriesStay == Spec => []EntriesInv
<1>1. Init => EntriesInv
  BY MacroAssumption DEF Init, EntriesInv
<1>2. EntriesInv /\ [Next]_vars => EntriesInv'
  BY InputStays DEF EntriesInv
<1> QED
  BY <1>1, <1>2, PTL DEF Spec

LEMMA RewrittenStep ==
  ASSUME Rewritten, [Next]_vars
  PROVE  Rewritten'
<1>1. CASE Render
  BY <1>1 DEF Render, Rewritten
<1>2. CASE pc' # "expanded"
  BY <1>2 DEF Rewritten
<1>3. CASE UNCHANGED vars
  BY <1>3 DEF vars, Rewritten
<1> QED
  BY <1>1, <1>2, <1>3
  DEF Next, Ends, AcceptSwitches, RefuseSwitches, RefuseEntry, TakeMethod,
      RefuseMethod, TakeSubscription, RefuseSubscription, PanicSubscription,
      RefuseEmpty, PanicRender, AtEntry, AtEnd

\* The attributes that stay are the others.
LEMMA WithoutAttrs ==
  ASSUME NEW attrs, IsList(attrs), NEW paths
  PROVE  /\ \A a \in Elements(Without(attrs, paths)) : a.path \notin paths
         /\ \A a \in Elements(attrs) :
              a.path \in paths \/ a \in Elements(Without(attrs, paths))
<1> DEFINE gone == {a \in Elements(attrs) : a.path \in paths}
<1>1. Elements(Omit(attrs, gone)) = Elements(attrs) \ gone
  BY OmitElements
<1> QED
  BY <1>1 DEF Without

LEMMA RewrittenClean ==
  ASSUME NEW x, IsEntry(x), NEW e, e = rewritten(x)
  PROVE  /\ ~e.async /\ e.ident = x.ident /\ Len(e.params) = Len(x.params)
         /\ \A a \in Elements(e.attrs) : a.path \notin {"method", "subscription"}
         /\ \A a \in Elements(x.attrs) :
              a.path \in {"method", "subscription"} \/ a \in Elements(e.attrs)
         /\ \A j \in DOMAIN e.params :
              LET p == x.params[j] IN
              /\ ~Renamed(e.params[j])
              /\ e.params[j].pat = p.pat /\ e.params[j].ident = p.ident
              /\ \A a \in Elements(p.attrs) :
                   a.path = "argument" \/ a \in Elements(e.params[j].attrs)
<1>1. /\ e.async = FALSE /\ e.ident = x.ident
      /\ e.attrs = Without(x.attrs, {"method", "subscription"})
      /\ e.params = [i \in DOMAIN x.params |-> stripped(x.params[i])]
  <2>1. DOMAIN x = {"fn", "receiver", "attrs", "ident", "async", "params"}
    <3>1. x = [fn |-> x.fn, receiver |-> x.receiver, attrs |-> x.attrs,
               ident |-> x.ident, async |-> x.async, params |-> x.params]
      BY DEF IsEntry
    <3> QED
      BY <3>1
  <2>2. e = [x EXCEPT !.attrs = Without(x.attrs, {"method", "subscription"}),
                      !.async = FALSE,
                      !.params = [i \in DOMAIN x.params |-> stripped(x.params[i])]]
    BY <2>1 DEF rewritten
  <2> QED
    BY <2>1, <2>2
<1>2. IsList(x.attrs) /\ IsList(x.params) /\ \A p \in Elements(x.params) : IsParam(p)
  BY DEF IsEntry, IsAttrs
<1>3. Len(e.params) = Len(x.params)
  <2>1. DOMAIN x.params = 1..Len(x.params) /\ Len(x.params) \in Nat
    BY <1>2 DEF IsList
  <2>2. e.params = [i \in 1..Len(x.params) |-> stripped(x.params[i])]
    BY <1>1, <2>1
  <2> QED
    BY <2>1, <2>2
<1>4. ASSUME NEW i \in DOMAIN x.params, NEW p, p = x.params[i]
      PROVE  /\ ~Renamed(e.params[i])
             /\ e.params[i].pat = p.pat /\ e.params[i].ident = p.ident
             /\ \A a \in Elements(p.attrs) :
                  a.path = "argument" \/ a \in Elements(e.params[i].attrs)
  <2>1. IsParam(p) /\ e.params[i] = stripped(p)
    BY <1>1, <1>2, <1>4 DEF Elements
  <2>2. /\ stripped(p).attrs = Without(p.attrs, {"argument"}) /\ IsList(p.attrs)
        /\ stripped(p).pat = p.pat /\ stripped(p).ident = p.ident
    BY <2>1 DEF IsParam, IsAttrs, stripped
  <2>3. /\ \A a \in Elements(Without(p.attrs, {"argument"})) : a.path \notin {"argument"}
        /\ \A a \in Elements(p.attrs) :
             a.path \in {"argument"} \/ a \in Elements(Without(p.attrs, {"argument"}))
    BY <2>2, WithoutAttrs
  <2> QED
    BY <2>1, <2>2, <2>3 DEF Renamed, HasAttr, Elements
<1>5. /\ \A a \in Elements(e.attrs) : a.path \notin {"method", "subscription"}
      /\ \A a \in Elements(x.attrs) :
           a.path \in {"method", "subscription"} \/ a \in Elements(e.attrs)
  BY <1>1, <1>2, WithoutAttrs
<1>6. DOMAIN e.params = DOMAIN x.params
  BY <1>1
<1> QED
  BY <1>1, <1>3, <1>4, <1>5, <1>6

\* Of any trait, what goes out has its functions and parameters, no attribute
\* of the macro's, no async fn, and every other attribute that was there.
THEOREM GoesOutClean == Spec => []OutputClean
<1>1. Init => Rewritten
  BY DEF Init, Rewritten
<1>2. Rewritten /\ [Next]_vars => Rewritten'
  BY RewrittenStep
<1>3. EntriesInv /\ Rewritten => OutputClean
  <2> SUFFICES ASSUME EntriesInv, Rewritten, pc = "expanded" PROVE OutputClean
    BY DEF OutputClean
  <2>1. out.def = [i \in DOMAIN entries |-> rewritten(entries[i])]
    BY DEF Rewritten
  <2>2. DOMAIN entries = 1..Len(entries) /\ Len(entries) \in Nat
    BY DEF EntriesInv, IsList
  <2>3. Len(out.def) = Len(entries)
    BY <2>1, <2>2
  <2>4. \A i \in DOMAIN entries :
          IsEntry(entries[i]) /\ out.def[i] = rewritten(entries[i])
    BY <2>1 DEF EntriesInv, Elements
  <2> QED
    BY <2>3, <2>4, RewrittenClean DEF OutputClean
<1> QED
  BY <1>1, <1>2, <1>3, EntriesStay, PTL DEF Spec

LEMMA RecordedStep ==
  ASSUME MacroInv, Recorded, [Next]_vars
  PROVE  Recorded'
<1>1. CASE TakeMethod
  <2> DEFINE x == MethodItem(Entry, at)
  <2>1. /\ methods' = Append(methods, x) /\ entries' = entries /\ subscriptions' = subscriptions
        /\ TheMethod(x, entries[at]) /\ x.from = at
    BY <1>1 DEF TakeMethod, Entry, TheMethod, MethodItem, Item
  <2> HIDE DEF x
  <2>2. /\ DOMAIN methods' = 1..(Len(methods) + 1) /\ Len(methods) \in Nat
        /\ DOMAIN methods = 1..Len(methods)
        /\ \A i \in DOMAIN methods : methods'[i] = methods[i]
        /\ methods'[Len(methods) + 1] = x
    BY <2>1, Appended, ListDomain DEF MacroInv
  <2>3. \A i \in DOMAIN methods' : i \in DOMAIN methods \/ i = Len(methods) + 1
    BY <2>2
  <2> QED
    BY <2>1, <2>2, <2>3 DEF Recorded
<1>2. CASE TakeSubscription
  <2> DEFINE x == SubItem(Entry, at)
  <2>1. /\ subscriptions' = Append(subscriptions, x) /\ entries' = entries /\ methods' = methods
        /\ TheSub(x, entries[at]) /\ x.from = at
    BY <1>2 DEF TakeSubscription, Entry, TheSub, SubItem, Item
  <2> HIDE DEF x
  <2>2. /\ DOMAIN subscriptions' = 1..(Len(subscriptions) + 1) /\ Len(subscriptions) \in Nat
        /\ DOMAIN subscriptions = 1..Len(subscriptions)
        /\ \A i \in DOMAIN subscriptions : subscriptions'[i] = subscriptions[i]
        /\ subscriptions'[Len(subscriptions) + 1] = x
    BY <2>1, Appended, ListDomain DEF MacroInv
  <2>3. \A i \in DOMAIN subscriptions' : i \in DOMAIN subscriptions \/ i = Len(subscriptions) + 1
    BY <2>2
  <2> QED
    BY <2>1, <2>2, <2>3 DEF Recorded
<1>3. CASE UNCHANGED <<methods, subscriptions, entries>>
  BY <1>3 DEF Recorded
<1>4. TakeMethod \/ TakeSubscription \/ UNCHANGED <<methods, subscriptions, entries>>
  BY DEF vars, Next, Ends, AcceptSwitches, RefuseSwitches, RefuseEntry, RefuseMethod,
         RefuseSubscription, PanicSubscription, RefuseEmpty, Render, PanicRender
<1> QED
  BY <1>1, <1>2, <1>3, <1>4

LEMMA RecordedAlways == Spec => []Recorded
<1>1. Init => Recorded
  BY DEF Init, Recorded
<1>2. MacroInv /\ Recorded /\ [Next]_vars => Recorded'
  BY RecordedStep
<1> QED
  BY <1>1, <1>2, MacroInvariant, PTL DEF Spec

\* Of any trait, methods in snake case that keep the names derived from their
\* identifiers have different names on the wire and in the enum.
THEOREM NamesKeptApart == Spec => []DefaultNamesDistinct
<1>1. MacroInv /\ EntriesInv /\ Recorded => DefaultNamesDistinct
  <2> SUFFICES ASSUME MacroInv, EntriesInv, Recorded,
                      NEW i \in DOMAIN methods, NEW j \in DOMAIN methods,
                      NEW e, e = entries[methods[i].from],
                      NEW f, f = entries[methods[j].from],
                      e.ident # f.ident, Snake(e.ident), Snake(f.ident),
                      ~Given(MethodAttr(e), "name"), ~Given(MethodAttr(f), "name")
               PROVE  /\ methods[i].name # methods[j].name
                      /\ to_variant_name(methods[i].name) # to_variant_name(methods[j].name)
    BY DEF DefaultNamesDistinct
  <2>1. methods[i].from \in DOMAIN entries /\ methods[j].from \in DOMAIN entries
    BY DEF MacroInv, ItemsOf
  <2>2. IsList(e.ident) /\ IsList(f.ident)
    BY <2>1 DEF EntriesInv, Elements, IsEntry
  <2>3. /\ methods[i] = MethodItem(e, methods[i].from)
        /\ methods[j] = MethodItem(f, methods[j].from)
    BY DEF Recorded, TheMethod
  <2>4. methods[i].name = snake_to_camel(e.ident)
    BY <2>3 DEF MethodItem, Item, Value
  <2>5. methods[j].name = snake_to_camel(f.ident)
    BY <2>3 DEF MethodItem, Item, Value
  <2> QED
    BY <2>2, <2>4, <2>5, CamelInjective, VariantInjective
<1> QED
  BY <1>1, RecordedAlways, EntriesStay, MacroInvariant, PTL

\* An identifier in snake case becomes a variant that is one.
LEMMA VariantIdent ==
  ASSUME NEW u, IsList(u), Snake(u)
  PROVE  IsIdent(to_variant_name(snake_to_camel(u)))
<1> DEFINE c == snake_to_camel(u)
           v == to_variant_name(c)
<1>1. /\ IsList(c) /\ Len(c) \in Nat \ {0} /\ DOMAIN c = 1..Len(c)
      /\ \A i \in 1..Len(c) : c[i] \notin {Underscore, Dash}
      /\ c[1] = u[1] /\ c[1] \in DOMAIN Upper \ Capitals
      /\ Elements(c) \subseteq Continues
  BY CamelChars
<1> HIDE DEF c
<1>2. v = [i \in 1..Len(c) |-> IF i = 1 THEN Upper[c[1]] ELSE c[i]]
  BY <1>1, VariantOfCamel
<1> HIDE DEF v
<1>3. u[1] \in Begins
  BY DEF Snake, IsIdent
<1>4. DOMAIN v = 1..Len(c) /\ 1 \in DOMAIN v /\ v[1] = Upper[c[1]]
  BY <1>1, <1>2
<1>5. v[1] \in Begins /\ v[1] \in Continues
  BY <1>1, <1>3, <1>4, CapitalsGo, IdentAssumption
<1>6. \A i \in DOMAIN v : v[i] \in Continues
  BY <1>1, <1>2, <1>4, <1>5 DEF Elements
<1>7. v # <<>>
  BY <1>4
<1> QED
  BY <1>5, <1>6, <1>7 DEF IsIdent, Elements, v, c

\* A panic after the entries is one over a name that is no identifier.
PanicInv == pc = "panicked" /\ at > Len(entries) => ~Named(request_enum)

LEMMA PanicStep ==
  ASSUME MacroInv, PanicInv, [Next]_vars
  PROVE  PanicInv'
<1>1. CASE pc' # "panicked"
  BY <1>1 DEF PanicInv
<1>2. CASE PanicRender \/ UNCHANGED vars
  <2>1. request_enum' = request_enum
    BY <1>2 DEF vars, PanicRender, Ends, request_enum, render_client_request_enum, Variants
  <2>2. Named(request_enum)' <=> Named(request_enum)
    BY <2>1 DEF Named, Elements
  <2> QED
    BY <1>2, <2>2 DEF vars, PanicRender, Ends, PanicInv
<1>3. CASE PanicSubscription
  <2>1. at \in Nat /\ at <= Len(entries) /\ Len(entries) \in Nat
    BY <1>3, ListDomain DEF PanicSubscription, AtEntry, MacroInv
  <2> QED
    BY <1>3, <2>1 DEF PanicSubscription, Ends, PanicInv
<1> QED
  BY <1>1, <1>2, <1>3
  DEF Next, Ends, AcceptSwitches, RefuseSwitches, RefuseEntry, TakeMethod,
      RefuseMethod, TakeSubscription, RefuseSubscription, RefuseEmpty, Render,
      AtEntry

\* The enum has the variants of these items.
LEMMA VariedNames ==
  ASSUME MacroInv, NEW v \in Elements(request_enum)
  PROVE  \E m \in Varied : v = to_variant_name(m.name)
<1>1. CASE Server(attr)
  <2>1. request_enum = Variants(methods \o subscriptions)
    BY <1>1 DEF request_enum
  <2>2. PICK i \in DOMAIN (methods \o subscriptions) :
          v = to_variant_name((methods \o subscriptions)[i].name)
    BY <2>1 DEF Variants, Elements
  <2>3. (methods \o subscriptions)[i] \in Elements(methods \o subscriptions)
    BY DEF Elements
  <2> QED
    BY <1>1, <2>2, <2>3, JoinedElements DEF Varied
<1>2. CASE ~Server(attr)
  BY <1>2 DEF request_enum, render_client_request_enum, Variants, Elements, Varied
<1> QED
  BY <1>1, <1>2

\* Whatever the trait and its namespace: names derived from identifiers in
\* snake case are never what rendering panics over.
THEOREM NamesRender == Spec => []DefaultNamesRender
<1>1. Init => PanicInv
  BY DEF Init, PanicInv
<1>2. MacroInv /\ PanicInv /\ [Next]_vars => PanicInv'
  BY PanicStep
<1>3. MacroInv /\ EntriesInv /\ Recorded /\ PanicInv => DefaultNamesRender
  <2> SUFFICES ASSUME MacroInv, EntriesInv, Recorded, PanicInv,
                      pc = "panicked", at > Len(entries)
               PROVE  \E m \in Varied :
                        /\ ~IsIdent(to_variant_name(m.name))
                        /\ \/ ~Snake(entries[m.from].ident)
                           \/ Given(Marking(entries[m.from]), "name")
    BY DEF DefaultNamesRender
  <2>1. PICK v \in Elements(request_enum) : ~IsIdent(v)
    BY DEF PanicInv, Named
  <2>2. PICK m \in Varied : v = to_variant_name(m.name)
    BY VariedNames
  <2>3. CASE m \in Elements(subscriptions)
    BY <2>1, <2>2, <2>3 DEF Recorded, TheSub, SubAttrOk, Marking, Elements
  <2>4. CASE m \in Elements(methods)
    <3>1. /\ TheMethod(m, entries[m.from])
          /\ m.from \in DOMAIN entries
      BY <2>4 DEF Recorded, Elements, MacroInv, ItemsOf
    <3>2. IsList(entries[m.from].ident)
      BY <3>1 DEF EntriesInv, Elements, IsEntry
    <3> SUFFICES ASSUME Snake(entries[m.from].ident),
                        ~Given(MethodAttr(entries[m.from]), "name")
                 PROVE  FALSE
      BY <2>1, <2>2, <3>1 DEF TheMethod, Marking
    <3>3. m.name = snake_to_camel(entries[m.from].ident)
      BY <3>1 DEF TheMethod, MethodItem, Item, Value
    <3> QED
      BY <2>1, <2>2, <3>2, <3>3, VariantIdent
  <2> QED
    BY <2>3, <2>4 DEF Varied
<1> QED
  BY <1>1, <1>2, <1>3, RecordedAlways, EntriesStay, MacroInvariant, PTL DEF Spec

-----------------------------------------------------------------------------
(* Cutting an attribute into its arguments *)

\* f is how scope goes through the first n of these tokens.
Depths(f, tokens, n) ==
  f = [i \in 0..n |->
        IF i = 0 THEN 0
        ELSE IF tokens[i] = Open THEN f[i - 1] + 1
        ELSE IF tokens[i] \in Closing /\ f[i - 1] > 0 THEN f[i - 1] - 1
        ELSE f[i - 1]]

\* The depth after a token, from the depth before it.
Deeper(token, d) ==
  IF token = Open THEN d + 1 ELSE IF token \in Closing /\ d > 0 THEN d - 1 ELSE d

LEMMA DepthsExist ==
  ASSUME NEW tokens
  PROVE  \A n \in Nat : \E f : Depths(f, tokens, n)
<1> DEFINE S == {n \in Nat : \E f : Depths(f, tokens, n)}
<1>1. 0 \in S
  <2>1. Depths([i \in 0..0 |-> 0], tokens, 0)
    BY DEF Depths
  <2> QED
    BY <2>1
<1>2. ASSUME NEW n \in Nat, n \in S PROVE n + 1 \in S
  <2>1. PICK f : Depths(f, tokens, n)
    BY <1>2
  <2> DEFINE g == [i \in 0..(n + 1) |->
                    IF i = n + 1 THEN Deeper(tokens[n + 1], f[n]) ELSE f[i]]
  <2>2. \A i \in 0..(n + 1) :
          g[i] = IF i = 0 THEN 0 ELSE Deeper(tokens[i], g[i - 1])
    <3> TAKE i \in 0..(n + 1)
    <3>1. CASE i = n + 1
      BY <3>1
    <3>2. CASE i \in 0..n
      <4>1. g[i] = f[i] /\ (i # 0 => g[i - 1] = f[i - 1])
        BY <3>2
      <4>2. f[i] = IF i = 0 THEN 0 ELSE Deeper(tokens[i], f[i - 1])
        BY <2>1, <3>2 DEF Depths, Deeper
      <4> QED
        BY <4>1, <4>2
    <3> QED
      BY <3>1, <3>2
  <2>3. Depths(g, tokens, n + 1)
    BY <2>2 DEF Depths, Deeper
  <2> QED
    BY <2>3
<1> HIDE DEF S
<1>3. Nat \subseteq S
  BY <1>1, <1>2, NatsIn
<1> QED
  BY <1>3 DEF S

\* The count of brackets begins at none and goes token by token.
LEMMA ScopeSteps ==
  ASSUME NEW tokens, Len(tokens) \in Nat
  PROVE  /\ scope(tokens)[0] = 0
         /\ \A i \in 1..Len(tokens) :
              scope(tokens)[i] = Deeper(tokens[i], scope(tokens)[i - 1])
<1> DEFINE f == CHOOSE f : Depths(f, tokens, Len(tokens))
<1>1. Depths(f, tokens, Len(tokens))
  BY DepthsExist
<1>2. scope(tokens) = f
  BY DEF scope, Depths
<1> HIDE DEF f
<1>3. f[0] = 0 /\ \A i \in 1..Len(tokens) : f[i] = Deeper(tokens[i], f[i - 1])
  BY <1>1 DEF Depths, Deeper
<1> QED
  BY <1>2, <1>3

\* It is never negative (saturating_sub).
LEMMA ScopeNat ==
  ASSUME NEW tokens, Len(tokens) \in Nat
  PROVE  \A i \in 0..Len(tokens) : scope(tokens)[i] \in Nat
<1> DEFINE P == {i \in Nat : i <= Len(tokens) => scope(tokens)[i] \in Nat}
<1>1. 0 \in P
  BY ScopeSteps
<1>2. ASSUME NEW i \in Nat, i \in P PROVE i + 1 \in P
  <2>1. i + 1 <= Len(tokens) =>
          scope(tokens)[i + 1] = Deeper(tokens[i + 1], scope(tokens)[i])
    BY ScopeSteps
  <2> QED
    BY <1>2, <2>1 DEF Deeper
<1> HIDE DEF P
<1>3. Nat \subseteq P
  BY <1>1, <1>2, NatsIn
<1> QED
  BY <1>3 DEF P

\* Before every token, the last separator; after every token, the next one.
LEMMA SeparatorBefore ==
  ASSUME NEW S, NEW i \in Nat
  PROVE  \E j \in {0} \cup S : j \in 0..i /\ \A k \in (j + 1)..i : k \notin S
<1> DEFINE P == {n \in Nat : \E j \in {0} \cup S :
                   j \in 0..n /\ \A k \in (j + 1)..n : k \notin S}
<1>1. 0 \in P
  OBVIOUS
<1>2. ASSUME NEW n \in Nat, n \in P PROVE n + 1 \in P
  <2>1. PICK j \in {0} \cup S : j \in 0..n /\ \A k \in (j + 1)..n : k \notin S
    BY <1>2
  <2>2. CASE n + 1 \in S
    BY <2>2
  <2>3. CASE n + 1 \notin S
    <3>1. j \in 0..(n + 1) /\ \A k \in (j + 1)..(n + 1) : k \in (j + 1)..n \/ k = n + 1
      BY <2>1
    <3> QED
      BY <2>1, <2>3, <3>1
  <2> QED
    BY <2>2, <2>3
<1> HIDE DEF P
<1>3. i \in P
  BY <1>1, <1>2, NatsIn
<1> QED
  BY <1>3 DEF P

LEMMA SeparatorAfter ==
  ASSUME NEW n \in Nat, NEW S, S \subseteq 1..n, NEW s \in 1..n
  PROVE  \E e \in S \cup {n + 1} : e >= s /\ \A k \in s..(e - 1) : k \notin S
<1> DEFINE Found(m) == \E e \in S \cup {n + 1} :
                         e >= m /\ \A k \in m..(e - 1) : k \notin S
           P == {d \in Nat : d > n \/ Found(n + 1 - d)}
<1>1. 0 \in P
  <2>1. Found(n + 1 - 0)
    OBVIOUS
  <2> QED
    BY <2>1
<1>2. ASSUME NEW d \in Nat, d \in P PROVE d + 1 \in P
  <2>1. CASE d + 1 > n
    BY <2>1
  <2>2. CASE d + 1 <= n
    <3> DEFINE m == n + 1 - d
    <3>0. m \in 2..(n + 1) /\ m - 1 \in 1..n /\ n + 1 - (d + 1) = m - 1
      BY <2>2
    <3>1. PICK e \in S \cup {n + 1} : e >= m /\ \A k \in m..(e - 1) : k \notin S
      BY <1>2, <2>2
    <3> HIDE DEF m
    <3>2. CASE m - 1 \in S
      BY <3>0, <3>2
    <3>3. CASE m - 1 \notin S
      <4>1. e \in Nat
        OBVIOUS
      <4>2. e >= m - 1 /\ \A k \in (m - 1)..(e - 1) : k \in m..(e - 1) \/ k = m - 1
        BY <3>0, <3>1, <4>1
      <4>3. Found(m - 1)
        BY <3>1, <3>3, <4>2
      <4> QED
        BY <3>0, <4>3
    <3> QED
      BY <3>2, <3>3
  <2> QED
    BY <2>1, <2>2
<1> HIDE DEF P
<1>3. n + 1 - s \in P /\ n + 1 - s \in Nat
  BY <1>1, <1>2, NatsIn
<1>4. Found(n + 1 - (n + 1 - s)) /\ n + 1 - (n + 1 - s) = s
  BY <1>3 DEF P
<1> QED
  BY <1>4

\* The tokens an argument takes up, its label the first of them.
Span(a) == a.start..(a.start + Len(a.tokens))

\* A list of tokens, however long, and the places of its separators.
LEMMA TokenFacts ==
  ASSUME NEW tokens, IsList(tokens)
  PROVE  /\ Len(tokens) \in Nat /\ DOMAIN tokens = 1..Len(tokens)
         /\ Separators(tokens) \subseteq 1..Len(tokens)
BY DEF IsList, Separators

\* What a part of a sequence is.
LEMMA PartOf ==
  ASSUME NEW T, NEW t \in Seq(T), NEW m \in 1..(Len(t) + 1), NEW n \in (m - 1)..Len(t),
         NEW cut, cut = SubSeq(t, m, n)
  PROVE  Len(cut) = n + 1 - m /\ \A k \in 1..Len(cut) : cut[k] = t[m + k - 1]
OBVIOUS

\* What Arguments makes of the tokens from s on.
Cut(tokens, s) == SubSeq(tokens, s + 1, EndOf(tokens, s) - 1)
ArgumentFrom(tokens, s) ==
  [start |-> s, label |-> tokens[s][2], tokens |-> Cut(tokens, s)]

\* a is the argument that starts at s and goes up to a separator, at e.
CutRight(meta, tokens, s, e, a) ==
  /\ a \in Arguments(meta)
  /\ s \in 1..Len(tokens) /\ e \in (s + 1)..(Len(tokens) + 1)
  /\ e \in Separators(tokens) \cup {Len(tokens) + 1}
  /\ \A k \in s..(e - 1) : k \notin Separators(tokens)
  /\ Len(a.tokens) = e - 1 - s
  /\ \A k \in 1..Len(a.tokens) : a.tokens[k] = tokens[s + k]
  /\ a.start = s /\ Span(a) = s..(e - 1)

\* Where labels stand where arguments start, an argument goes up to the next
\* separator, and there is one.
LEMMA ArgumentAt ==
  ASSUME NEW meta, NEW tokens, tokens = meta.tokens, IsList(tokens), Parses(meta),
         NEW s \in Starts(tokens), NEW e, e = EndOf(tokens, s),
         NEW a, a = ArgumentFrom(tokens, s)
  PROVE  CutRight(meta, tokens, s, e, a)
<1> DEFINE n == Len(tokens)
           cut == Cut(tokens, s)
<1>1. n \in Nat /\ DOMAIN tokens = 1..n /\ Separators(tokens) \subseteq 1..n
  BY TokenFacts
<1>2. s \in 1..n
  BY <1>1 DEF Starts
<1>3. tokens[s][1] = "word" /\ s \notin Separators(tokens)
  <2>1. tokens[s][1] = "word" /\ Comma[1] # "word"
    BY DEF Parses, Comma
  <2> QED
    BY <2>1 DEF Separators
<1>4. /\ e \in Separators(tokens) \cup {n + 1} /\ e >= s
      /\ \A k \in s..(e - 1) : k \notin Separators(tokens)
  BY <1>1, <1>2, SeparatorAfter DEF EndOf
<1>5. e \in (s + 1)..(n + 1)
  BY <1>1, <1>2, <1>3, <1>4
<1>6. a \in Arguments(meta) /\ a.start = s /\ a.tokens = cut
  BY <1>3 DEF Arguments, ArgumentFrom, Cut
<1>7. tokens \in Seq(Elements(tokens))
  BY DEF IsList
<1>8. cut = SubSeq(tokens, s + 1, e - 1)
  BY DEF Cut
<1> HIDE DEF cut
<1>9. Len(cut) = e - 1 - s /\ \A k \in 1..Len(cut) : cut[k] = tokens[s + k]
  <2>1. PICK m, q : m = s + 1 /\ q = e - 1
    OBVIOUS
  <2>2. m \in 1..(Len(tokens) + 1) /\ q \in (m - 1)..Len(tokens)
    BY <1>1, <1>2, <1>5, <2>1
  <2>3. cut = SubSeq(tokens, m, q)
    BY <1>8, <2>1
  <2>4. Len(cut) = q + 1 - m /\ \A k \in 1..Len(cut) : cut[k] = tokens[m + k - 1]
    BY <1>7, <2>2, <2>3, PartOf
  <2>5. Len(cut) = e - 1 - s
    BY <1>1, <1>2, <1>5, <2>1, <2>4
  <2>6. ASSUME NEW k \in 1..Len(cut) PROVE cut[k] = tokens[s + k]
    <3>1. m + k - 1 = s + k
      BY <1>1, <1>2, <1>5, <2>1, <2>5
    <3> QED
      BY <2>4, <3>1
  <2> QED
    BY <2>5, <2>6
<1>10. Span(a) = s..(e - 1)
  BY <1>2, <1>5, <1>6, <1>9 DEF Span
<1> QED
  BY <1>2, <1>4, <1>5, <1>6, <1>9, <1>10 DEF CutRight

\* An argument counts the brackets it opens and closes from none, on its own:
\* that of the whole attribute is the same count.
LEMMA CountsAlone ==
  ASSUME NEW tokens, IsList(tokens), NEW s \in Starts(tokens),
         tokens[s][1] = "word",
         NEW cut, Len(cut) \in Nat, s + Len(cut) <= Len(tokens),
         \A k \in 1..Len(cut) : cut[k] = tokens[s + k]
  PROVE  \A k \in 0..Len(cut) : scope(cut)[k] = scope(tokens)[s + k]
<1> DEFINE P == {k \in Nat : k <= Len(cut) => scope(cut)[k] = scope(tokens)[s + k]}
<1>1. Len(tokens) \in Nat /\ s \in 1..Len(tokens)
  BY TokenFacts DEF Starts
<1>2. scope(tokens)[s - 1] = 0
  <2>1. CASE s = 1
    BY <1>1, <2>1, ScopeSteps
  <2>2. CASE s # 1
    <3>1. /\ s - 1 \in 1..Len(tokens) /\ tokens[s - 1] = Comma
          /\ scope(tokens)[(s - 1) - 1] = 0
      BY <1>1, <2>2, TokenFacts DEF Starts, Separators
    <3>2. scope(tokens)[s - 1] = Deeper(Comma, 0)
      BY <1>1, <3>1, ScopeSteps
    <3> QED
      BY <3>2 DEF Deeper, Comma, Open
  <2> QED
    BY <2>1, <2>2
<1>3. scope(tokens)[s] = 0
  <2>1. scope(tokens)[s] = Deeper(tokens[s], 0)
    BY <1>1, <1>2, ScopeSteps
  <2>2. tokens[s] # Open
    BY DEF Open
  <2> QED
    BY <2>1, <2>2 DEF Deeper
<1>4. 0 \in P
  BY <1>1, <1>3, ScopeSteps
<1>5. ASSUME NEW k \in Nat, k \in P PROVE k + 1 \in P
  <2> SUFFICES ASSUME k + 1 <= Len(cut)
               PROVE  scope(cut)[k + 1] = scope(tokens)[s + (k + 1)]
    OBVIOUS
  <2>1. /\ k + 1 \in 1..Len(cut) /\ s + (k + 1) \in 1..Len(tokens)
        /\ s + (k + 1) - 1 = s + k /\ (k + 1) - 1 = k
    BY <1>1
  <2>2. scope(cut)[k + 1] = Deeper(cut[k + 1], scope(cut)[k])
    BY <2>1, ScopeSteps
  <2>3. scope(tokens)[s + (k + 1)] = Deeper(tokens[s + (k + 1)], scope(tokens)[s + k])
    BY <1>1, <2>1, ScopeSteps
  <2> QED
    BY <1>5, <2>1, <2>2, <2>3
<1> HIDE DEF P
<1>6. Nat \subseteq P
  BY <1>4, <1>5, NatsIn
<1> QED
  BY <1>6 DEF P

\* However long an attribute is and however its brackets nest, its arguments
\* cover all of it but the separators, do not overlap, and are themselves what
\* the cutter read: a comma in one is inside angle brackets of this argument.
THEOREM ArgumentsCover ==
  ASSUME NEW meta, IsList(meta.tokens), Parses(meta)
  PROVE  /\ \A i \in DOMAIN meta.tokens :
              i \notin Separators(meta.tokens) <=>
                \E a \in Arguments(meta) : i \in Span(a)
         /\ \A a, b \in Arguments(meta) : a # b => Span(a) \cap Span(b) = {}
         /\ \A a \in Arguments(meta) : \A k \in 1..Len(a.tokens) :
              /\ a.tokens[k] = meta.tokens[a.start + k]
              /\ a.tokens[k] = Comma => scope(a.tokens)[k - 1] > 0
<1>0. PICK tokens, S : tokens = meta.tokens /\ S = Separators(tokens)
  OBVIOUS
<1> DEFINE Arg(s) == ArgumentFrom(tokens, s)
<1>1. Len(tokens) \in Nat /\ DOMAIN tokens = 1..Len(tokens) /\ S \subseteq 1..Len(tokens)
  BY <1>0, TokenFacts
<1>2. \A a \in Arguments(meta) : a.start \in Starts(tokens) /\ a = Arg(a.start)
  BY <1>0 DEF Arguments, ArgumentFrom, Cut
<1>3. ASSUME NEW s \in Starts(tokens)
      PROVE  /\ Arg(s) \in Arguments(meta)
             /\ s \in 1..Len(tokens)
             /\ EndOf(tokens, s) \in (s + 1)..(Len(tokens) + 1)
             /\ EndOf(tokens, s) \in S \cup {Len(tokens) + 1}
             /\ \A k \in s..(EndOf(tokens, s) - 1) : k \notin S
             /\ Len(Arg(s).tokens) = EndOf(tokens, s) - 1 - s
             /\ \A k \in 1..Len(Arg(s).tokens) : Arg(s).tokens[k] = tokens[s + k]
             /\ Arg(s).start = s /\ Span(Arg(s)) = s..(EndOf(tokens, s) - 1)
  <2>1. PICK e, a : e = EndOf(tokens, s) /\ a = Arg(s)
    OBVIOUS
  <2>2. /\ tokens = meta.tokens /\ IsList(tokens)
        /\ e = EndOf(tokens, s) /\ a = ArgumentFrom(tokens, s)
    BY <1>0, <2>1
  <2> HIDE DEF Arg
  <2>3. CutRight(meta, tokens, s, e, a)
    BY <2>2, ArgumentAt
  <2> QED
    BY <1>0, <2>1, <2>3 DEF CutRight
<1>4. \A s \in Starts(tokens) : s = 1 \/ s - 1 \in S
  BY <1>0, <1>1 DEF Starts
<1> HIDE DEF Arg
<1>5. ASSUME NEW i \in 1..Len(tokens), i \notin S
      PROVE  \E a \in Arguments(meta) : i \in Span(a)
  <2>0. i \in Nat
    BY <1>5, <1>1
  <2>1. PICK j \in {0} \cup S : j \in 0..i /\ \A k \in (j + 1)..i : k \notin S
    BY <2>0, SeparatorBefore
  <2>2. j + 1 \in 1..i
    BY <1>5, <2>1
  <2>3. j + 1 \in Starts(tokens)
    BY <1>0, <1>1, <2>1, <2>2 DEF Starts
  <2> DEFINE e == EndOf(tokens, j + 1)
  <2>4. e \in S \cup {Len(tokens) + 1} /\ e \in (j + 2)..(Len(tokens) + 1)
    BY <1>3, <2>2, <2>3
  <2>5. i \in (j + 1)..(e - 1)
    BY <1>1, <2>1, <2>2, <2>4
  <2> QED
    BY <1>3, <2>3, <2>5
<1>6. ASSUME NEW a \in Arguments(meta), NEW i \in Span(a) PROVE i \notin S
  BY <1>2, <1>3, <1>6
<1>7. ASSUME NEW s \in Starts(tokens), NEW t \in Starts(tokens), s < t
      PROVE  Span(Arg(s)) \cap Span(Arg(t)) = {}
  <2>1. t - 1 \in S
    BY <1>3, <1>4, <1>7
  <2>2. ~(t - 1 \in s..(EndOf(tokens, s) - 1))
    BY <1>3, <2>1
  <2>3. EndOf(tokens, s) <= t - 1
    BY <1>1, <1>3, <1>7, <2>2
  <2> QED
    BY <1>3, <2>3
<1>8. ASSUME NEW a \in Arguments(meta), NEW b \in Arguments(meta), a # b
      PROVE  Span(a) \cap Span(b) = {}
  <2>1. a.start < b.start \/ b.start < a.start
    BY <1>2, <1>3, <1>8
  <2> QED
    BY <1>2, <1>7, <2>1
<1>9. ASSUME NEW a \in Arguments(meta), NEW k \in 1..Len(a.tokens)
      PROVE  /\ a.tokens[k] = tokens[a.start + k]
             /\ a.tokens[k] = Comma => scope(a.tokens)[k - 1] > 0
  <2>1. PICK s \in Starts(tokens) :
          s = a.start /\ a = Arg(s) /\ tokens[s][1] = "word"
    BY <1>0, <1>2 DEF Parses
  <2>2. PICK e, cut : e = EndOf(tokens, s) /\ cut = a.tokens
    OBVIOUS
  <2>3. /\ s \in 1..Len(tokens) /\ e \in (s + 1)..(Len(tokens) + 1)
        /\ Len(cut) = e - 1 - s
        /\ \A m \in 1..Len(cut) : cut[m] = tokens[s + m]
        /\ Span(a) = s..(e - 1)
    <3>1. /\ s \in 1..Len(tokens) /\ e \in (s + 1)..(Len(tokens) + 1)
          /\ Len(Arg(s).tokens) = e - 1 - s
          /\ \A m \in 1..Len(Arg(s).tokens) : Arg(s).tokens[m] = tokens[s + m]
          /\ Span(Arg(s)) = s..(e - 1)
      BY <1>3, <2>2
    <3>2. Arg(s).tokens = cut
      BY <2>1, <2>2
    <3> QED
      BY <2>1, <3>1, <3>2
  <2>4. Len(cut) \in Nat /\ s + Len(cut) <= Len(tokens)
    BY <1>1, <2>3
  <2>5. k \in 1..Len(cut) /\ k - 1 \in 0..Len(cut)
    BY <1>9, <2>2, <2>4
  <2>6. scope(cut)[k - 1] = scope(tokens)[s + (k - 1)]
    <3>1. \A m \in 1..Len(cut) : cut[m] = tokens[s + m]
      BY <2>3
    <3>2. IsList(tokens) /\ tokens[s][1] = "word"
      BY <1>0, <2>1
    <3>3. \A m \in 0..Len(cut) : scope(cut)[m] = scope(tokens)[s + m]
      BY <2>4, <3>1, <3>2, CountsAlone
    <3> QED
      BY <2>5, <3>3
  <2>7. /\ s + k \in Span(a) /\ s + k \in 1..Len(tokens)
        /\ s + (k - 1) = (s + k) - 1 /\ s + k \notin S
    <3>1. s + k \in s..(e - 1) /\ s + k \in 1..Len(tokens)
      BY <1>1, <2>3, <2>5
    <3> QED
      BY <1>6, <2>3, <2>5, <3>1
  <2>8. tokens[s + k] = Comma => scope(tokens)[(s + k) - 1] # 0
    BY <1>0, <1>1, <2>7 DEF Separators
  <2>9. scope(cut)[k - 1] \in Nat
    BY <2>4, <2>5, ScopeNat
  <2>10. cut[k] = tokens[s + k]
    BY <2>3, <2>5
  <2>11. cut[k] = Comma => scope(cut)[k - 1] > 0
    BY <2>6, <2>7, <2>8, <2>9, <2>10
  <2> QED
    BY <1>0, <2>1, <2>2, <2>10, <2>11
<1> QED
  BY <1>0, <1>1, <1>5, <1>6, <1>8, <1>9

-----------------------------------------------------------------------------
(* What the author wrote *)

\* A value that is written after a label is the value of that argument.
LEMMA SaidIsValue ==
  ASSUME NEW meta, IsList(meta.tokens), NEW allowed, retain(meta, allowed),
         NEW label, NEW form \in {"string", "word", "list", "mapping"},
         optional(meta, label, form), NEW default, NEW x \in Said(meta, label)
  PROVE  x = Value(meta, label, default)
<1>1. PICK s \in Starts(meta.tokens) :
         /\ s + 2 <= Len(meta.tokens) /\ meta.tokens[s] = Word(label)
         /\ x = meta.tokens[s + 2][2]
  BY DEF Said
<1>2. PICK tokens, e, a :
         /\ tokens = meta.tokens /\ e = EndOf(tokens, s)
         /\ a = ArgumentFrom(tokens, s)
  OBVIOUS
<1>3. Parses(meta)
  BY DEF retain
<1>4. CutRight(meta, tokens, s, e, a)
  BY <1>1, <1>2, <1>3, ArgumentAt
<1>5. a \in Arguments(meta) /\ a.label = label
  BY <1>1, <1>2, <1>4 DEF CutRight, ArgumentFrom, Word
<1>6. \A b \in Arguments(meta) : b.label = label => b = a
  BY <1>5 DEF retain
<1>7. Given(meta, label) /\ Tokens(meta, label) = a.tokens
  BY <1>5, <1>6 DEF Given, Tokens
<1>8. Valued(a.tokens, "str") \/ Valued(a.tokens, "word") \/ Valued(a.tokens, "list")
  <2>1. Fits(a.tokens, form)
    BY <1>7 DEF optional
  <2> QED
    BY <2>1 DEF Fits, NameMapping, Bracketed
<1>9. 2 \in 1..Len(a.tokens)
  <2>1. Len(a.tokens) \in Int /\ Len(a.tokens) >= 2
    BY <1>4, <1>8 DEF CutRight, Valued
  <2> QED
    BY <2>1
<1>10. a.tokens[2] = meta.tokens[s + 2]
  BY <1>2, <1>4, <1>9 DEF CutRight
<1> QED
  BY <1>1, <1>7, <1>10 DEF Value

\* Where an attribute is there, there is a first one.
LEMMA FirstAttr ==
  ASSUME NEW attrs, IsAttrs(attrs), NEW path, HasAttr(attrs, path)
  PROVE  IsList(find_attr(attrs, path).tokens)
<1> DEFINE n == Len(attrs)
           S == {i \in 1..n : attrs[i].path = path}
<1>1. n \in Nat /\ DOMAIN attrs = 1..n
  BY DEF IsAttrs, IsList
<1>2. PICK i \in 1..n : i \in S
  BY <1>1 DEF HasAttr
<1>3. n \in Nat /\ S \subseteq 1..n /\ 1 \in 1..n
  BY <1>1, <1>2
<1> HIDE DEF S
<1>4. PICK e \in S \cup {n + 1} : e >= 1 /\ \A k \in 1..(e - 1) : k \notin S
  BY <1>3, SeparatorAfter
<1>5. e \in S
  <2> SUFFICES ASSUME e = n + 1 PROVE FALSE
    BY <1>4
  <2> QED
    BY <1>1, <1>2, <1>4
<1>6. e \in DOMAIN attrs /\ attrs[e].path = path /\ \A j \in 1..(e - 1) : attrs[j].path # path
  BY <1>1, <1>4, <1>5 DEF S
<1>7. \E j \in DOMAIN attrs : find_attr(attrs, path) = attrs[j]
  BY <1>6 DEF find_attr
<1> QED
  BY <1>7 DEF IsAttrs, Elements

LEMMA MarkingTokens ==
  ASSUME NEW e, IsEntry(e)
  PROVE  /\ IsList(Marking(e).tokens)
         /\ \A j \in DOMAIN e.params : Renamed(e.params[j]) =>
              IsList(find_attr(e.params[j].attrs, "argument").tokens)
<1>1. IsAttrs(e.attrs) /\ \A p \in Elements(e.params) : IsAttrs(p.attrs)
  BY DEF IsEntry, IsParam
<1>2. IsList(Marking(e).tokens)
  <2>1. CASE IsSub(e)
    BY <1>1, <2>1, FirstAttr DEF Marking, SubAttr, IsSub
  <2>2. CASE ~IsSub(e) /\ HasAttr(e.attrs, "method")
    BY <1>1, <2>2, FirstAttr DEF Marking, MethodAttr
  <2>3. CASE ~IsSub(e) /\ ~HasAttr(e.attrs, "method")
    BY <2>3 DEF Marking, MethodAttr, IsList, Elements
  <2> QED
    BY <2>1, <2>2, <2>3
<1>3. \A j \in DOMAIN e.params : Renamed(e.params[j]) =>
        IsList(find_attr(e.params[j].attrs, "argument").tokens)
  BY <1>1, FirstAttr DEF Renamed, Elements
<1> QED
  BY <1>2, <1>3

\* The arguments of parameters, as renamed.
LEMMA KeysSaid ==
  ASSUME NEW e, IsEntry(e), ParamsOk(e), NEW j \in DOMAIN e.params, Renamed(e.params[j])
  PROVE  Said(find_attr(e.params[j].attrs, "argument"), "rename") \subseteq {Key(e.params[j])}
<1> DEFINE p == e.params[j]
           meta == find_attr(p.attrs, "argument")
<1>1. retain(meta, {"rename"}) /\ optional(meta, "rename", "string")
  BY DEF ParamsOk, ArgumentOk
<1>2. IsList(meta.tokens)
  BY MarkingTokens
<1>3. Key(p) = Value(meta, "rename", p.ident)
  BY DEF Key
<1> HIDE DEF p, meta
<1>4. \A x \in Said(meta, "rename") : x = Value(meta, "rename", p.ident)
  BY <1>1, <1>2, SaidIsValue
<1> QED
  BY <1>3, <1>4 DEF p, meta

\* What is recorded of an entry, for a method and for a subscription.
LEMMA MethodSaid ==
  ASSUME NEW e, IsEntry(e), NEW m, TheMethod(m, e)
  PROVE  /\ Said(Marking(e), "name") \subseteq {m.name}
         /\ Said(Marking(e), "aliases") \subseteq {m.aliases}
         /\ Said(Marking(e), "param_kind") \subseteq {m.kind}
         /\ \A j \in DOMAIN e.params : m.keys[j] = Key(e.params[j])
<1> DEFINE meta == Marking(e)
<1>1. /\ retain(meta, {"aliases", "blocking", "name", "param_kind", "with_extensions"})
      /\ optional(meta, "aliases", "list") /\ optional(meta, "name", "string")
      /\ optional(meta, "param_kind", "word")
  BY DEF TheMethod, MethodOk, Marking, parse_param_kind
<1>2. /\ m.name = Value(meta, "name", snake_to_camel(e.ident))
      /\ m.aliases = Value(meta, "aliases", <<>>)
      /\ m.kind = Value(meta, "param_kind", "array")
      /\ \A j \in DOMAIN e.params : m.keys[j] = Key(e.params[j])
  BY DEF TheMethod, MethodItem, Item, Marking
<1>3. IsList(meta.tokens)
  BY MarkingTokens
<1> HIDE DEF meta
<1>4. \A x \in Said(meta, "name") : x = m.name
  BY <1>1, <1>2, <1>3, SaidIsValue
<1>5. \A x \in Said(meta, "aliases") : x = m.aliases
  BY <1>1, <1>2, <1>3, SaidIsValue
<1>6. \A x \in Said(meta, "param_kind") : x = m.kind
  BY <1>1, <1>2, <1>3, SaidIsValue
<1> QED
  BY <1>2, <1>4, <1>5, <1>6 DEF meta

LEMMA SubSaid ==
  ASSUME NEW e, IsEntry(e), NEW m, TheSub(m, e)
  PROVE  /\ Said(Marking(e), "name") \subseteq {m.name}
         /\ Said(Marking(e), "aliases") \subseteq {m.aliases}
         /\ Said(Marking(e), "param_kind") \subseteq {m.kind}
         /\ Said(Marking(e), "unsubscribe") \subseteq {m.unsubscribe}
         /\ \A j \in DOMAIN e.params : m.keys[j] = Key(e.params[j])
<1> DEFINE meta == Marking(e)
<1>1. /\ retain(meta, {"aliases", "item", "name", "param_kind", "unsubscribe",
                       "unsubscribe_aliases", "with_extensions"})
      /\ optional(meta, "aliases", "list") /\ optional(meta, "name", "mapping")
      /\ optional(meta, "param_kind", "word") /\ optional(meta, "unsubscribe", "string")
  BY DEF TheSub, SubAttrOk, Marking, parse_param_kind
<1>2. /\ m.name = Value(meta, "name", <<>>)
      /\ m.aliases = Value(meta, "aliases", <<>>)
      /\ m.kind = Value(meta, "param_kind", "array")
      /\ Given(meta, "unsubscribe") => m.unsubscribe = Value(meta, "unsubscribe", <<>>)
      /\ \A j \in DOMAIN e.params : m.keys[j] = Key(e.params[j])
  BY DEF TheSub, SubItem, Item, Marking
<1>3. IsList(meta.tokens)
  BY MarkingTokens
<1> HIDE DEF meta
<1>4. \A x \in Said(meta, "name") : x = m.name
  BY <1>1, <1>2, <1>3, SaidIsValue
<1>5. \A x \in Said(meta, "aliases") : x = m.aliases
  BY <1>1, <1>2, <1>3, SaidIsValue
<1>6. \A x \in Said(meta, "param_kind") : x = m.kind
  BY <1>1, <1>2, <1>3, SaidIsValue
<1>7. \A x \in Said(meta, "unsubscribe") : x = m.unsubscribe
  <2>1. \A x \in Said(meta, "unsubscribe") : x = Value(meta, "unsubscribe", <<>>)
    BY <1>1, <1>3, SaidIsValue
  <2>2. Said(meta, "unsubscribe") # {} => Given(meta, "unsubscribe")
    <3> SUFFICES ASSUME NEW s \in Starts(meta.tokens), meta.tokens[s] = Word("unsubscribe")
                 PROVE  Given(meta, "unsubscribe")
      BY DEF Said
    <3>1. PICK tokens, end, a : /\ tokens = meta.tokens /\ end = EndOf(tokens, s)
                               /\ a = ArgumentFrom(tokens, s)
      OBVIOUS
    <3>2. CutRight(meta, tokens, s, end, a)
      BY <1>1, <1>3, <3>1, ArgumentAt DEF retain
    <3>3. a.label = "unsubscribe"
      BY <3>1 DEF ArgumentFrom, Word
    <3> QED
      BY <3>2, <3>3 DEF CutRight, Given
  <2> QED
    BY <1>2, <2>1, <2>2
<1> QED
  BY <1>2, <1>4, <1>5, <1>6, <1>7 DEF meta

\* Of any trait and any entry that is taken, every value its author wrote, in
\* whatever order and between whatever else, is the one that is recorded.
THEOREM WrittenRecorded == Spec => []WrittenIsRecorded
<1>1. MacroInv /\ EntriesInv /\ Recorded => WrittenIsRecorded
  <2> SUFFICES ASSUME MacroInv, EntriesInv, Recorded,
                      NEW m \in Elements(methods) \cup Elements(subscriptions),
                      NEW e, e = entries[m.from]
               PROVE  /\ Said(Marking(e), "name") \subseteq {m.name}
                      /\ Said(Marking(e), "aliases") \subseteq {m.aliases}
                      /\ Said(Marking(e), "param_kind") \subseteq {m.kind}
                      /\ IsSub(e) => Said(Marking(e), "unsubscribe") \subseteq {m.unsubscribe}
                      /\ \A j \in DOMAIN e.params : Renamed(e.params[j]) =>
                           Said(find_attr(e.params[j].attrs, "argument"), "rename")
                             \subseteq {m.keys[j]}
    BY DEF WrittenIsRecorded
  <2>1. m.from \in DOMAIN entries /\ (TheMethod(m, e) \/ TheSub(m, e))
    BY DEF MacroInv, ItemsOf, Elements, Recorded
  <2>2. IsEntry(e)
    BY <2>1 DEF EntriesInv, Elements
  <2>3. ParamsOk(e)
    BY <2>1 DEF TheMethod, TheSub, MethodOk
  <2>4. \A j \in DOMAIN e.params : Renamed(e.params[j]) =>
          Said(find_attr(e.params[j].attrs, "argument"), "rename") \subseteq {Key(e.params[j])}
    BY <2>2, <2>3, KeysSaid
  <2>5. CASE TheMethod(m, e)
    BY <2>2, <2>4, <2>5, MethodSaid DEF TheMethod
  <2>6. CASE TheSub(m, e)
    BY <2>2, <2>4, <2>6, SubSaid
  <2> QED
    BY <2>1, <2>5, <2>6
<1> QED
  BY <1>1, RecordedAlways, EntriesStay, MacroInvariant, PTL
=============================================================================
