------------------------------ MODULE PartsProofs ----------------------------
(***************************************************************************)
(* Four parts that work on data.  The list of kernel/data/list.c, for any  *)
(* number of nodes: walks are sound between the assignments of list_push   *)
(* too, and the links implement the sequence of ListSpec.  load_elf_binary:*)
(* where the bytes of a program end up.  put_char and the cursor.          *)
(* `limine enroll-config`: where it writes.                                *)
(***************************************************************************)
EXTENDS List, ElfLoader, Screen, Enroll, SequenceTheorems, WellFoundedInduction, TLAPS

-----------------------------------------------------------------------------
(* The inductive invariant: some sequence s is what the links spell.       *)

\* s is what the links spell: h its first node, n[s[k]] the node behind s[k]; its nodes
\* are allocated, not freed and all different.
Spells(s, h, n, g) ==
    /\ s \in Seq(1 .. Len(n))
    /\ h = IF Len(s) = 0 THEN 0 ELSE s[1]
    /\ \A k \in 1 .. Len(s) : /\ s[k] \notin g
                              /\ n[s[k]] = IF k = Len(s) THEN 0 ELSE s[k + 1]
    /\ \A j, k \in 1 .. Len(s) : s[j] = s[k] => j = k

\* Nodes are made in order; a list_push has linked its node to the list before the list
\* begins with it, and counts it last.
ListRep(s, h, c, n, g, p) ==
    /\ n \in Seq(0 .. MaxNodes) /\ Len(n) <= MaxNodes
    /\ g \subseteq 1 .. Len(n)
    /\ p \in {"idle", "node", "head"}
    /\ Spells(s, h, n, g)
    /\ c \in Nat /\ Len(s) = IF p = "head" THEN c + 1 ELSE c
    /\ Len(s) <= IF p = "node" THEN Len(n) - 1 ELSE Len(n)
    /\ p = "node" => /\ n[Len(n)] = h /\ Len(n) \notin g
                     /\ \A k \in 1 .. Len(s) : s[k] # Len(n)

Represents(s) == ListRep(s, head, count, next, freed, pc)

ListInv == \E s : Represents(s)

\* A set of numbers that is not empty has a least one.
LEMMA Least ==
    ASSUME NEW T, T \subseteq Nat, T # {}
    PROVE  \E n \in T : \A m \in T : n <= m
<1> DEFINE R == OpToRel(<, Nat)
<1>1. IsWellFoundedOn(R, Nat)
  BY NatLessThanWellFounded
<1> HIDE DEF R
<1>2. PICK n \in T : \A m \in T : ~(<<m, n>> \in R)
  BY ONLY <1>1, T \subseteq Nat, T # {}, WFMin
<1>3. \A m \in T : ~(m < n)
  BY ONLY <1>2, T \subseteq Nat DEF R, OpToRel
<1> QED BY ONLY <1>3, n \in T, T \subseteq Nat

-----------------------------------------------------------------------------
(* What the walk finds. *)

\* The function Walk is meant to be.
Steps(s) == [k \in 0 .. MaxNodes |-> IF k < Len(s) THEN s[k + 1] ELSE 0]

Follows(f) ==
    f = [k \in 0 .. MaxNodes |->
            IF k = 0 THEN head ELSE IF f[k - 1] = NULL THEN NULL ELSE next[f[k - 1]]]

\* Following next through the nodes that s lists gives Steps(s).
LEMMA StepsFollow ==
    ASSUME MaxNodes \in Nat, NEW s, Spells(s, head, next, freed), Len(s) <= MaxNodes
    PROVE  Follows(Steps(s))
<1> DEFINE f == Steps(s)
           e(k) == IF k = 0 THEN head ELSE IF f[k - 1] = 0 THEN 0 ELSE next[f[k - 1]]
<1>1. Len(s) \in Nat /\ \A k \in 1 .. Len(s) : s[k] # 0
  <2>1. s \in Seq(1 .. Len(next))
    BY ONLY Spells(s, head, next, freed) DEF Spells
  <2> QED BY ONLY <2>1, LenProperties, ElementOfSeq
<1>2. ASSUME NEW k \in 0 .. MaxNodes PROVE f[k] = e(k)
  <2>1. CASE k = 0
    BY <1>1, <2>1 DEF Spells, Steps
  <2>2. CASE k > 0 /\ k <= Len(s)
    <3>1. f[k - 1] = s[k] /\ s[k] # 0
      BY <2>2, <1>1 DEF Steps
    <3>2. next[s[k]] = f[k]
      BY <2>2, <1>1 DEF Steps, Spells
    <3> QED BY <3>1, <3>2, <2>2
  <2>3. CASE k > Len(s)
    BY <2>3, <1>1 DEF Steps
  <2> QED BY <2>1, <2>2, <2>3, <1>1
<1>3. f = [k \in 0 .. MaxNodes |-> f[k]]
  BY DEF Steps
<1>4. f = [k \in 0 .. MaxNodes |-> e(k)]
  <2> HIDE DEF f, e
  <2> QED BY ONLY <1>2, <1>3, Zenon
<1> QED BY <1>4 DEF Follows, NULL

\* Walk is the function its recursion defines, since there is one.
LEMMA WalkFollows ==
    ASSUME NEW f, Follows(f)
    PROVE  Follows(Walk)
BY Zenon DEF Walk, Follows

\* There is only one such function: two cannot differ first anywhere.
LEMMA FollowsOnce ==
    ASSUME MaxNodes \in Nat, NEW f, Follows(f), NEW g, Follows(g)
    PROVE  f = g
<1> DEFINE e(x, k) == IF k = 0 THEN head ELSE IF x[k - 1] = 0 THEN 0 ELSE next[x[k - 1]]
           T == {k \in 0 .. MaxNodes : f[k] # g[k]}
<1>1. /\ f = [k \in 0 .. MaxNodes |-> e(f, k)]
      /\ g = [k \in 0 .. MaxNodes |-> e(g, k)]
  BY DEF Follows, NULL
<1>2. \A k \in 0 .. MaxNodes : f[k] = e(f, k) /\ g[k] = e(g, k)
  BY <1>1
<1>t. T \subseteq Nat
  OBVIOUS
<1>3. ASSUME T # {} PROVE FALSE
  <2>1. PICK k \in T : \A m \in T : k <= m
    <3> HIDE DEF T
    <3> QED BY ONLY <1>3, <1>t, Least
  <2>2. CASE k = 0
    BY <2>1, <2>2, <1>2
  <2>3. CASE k # 0
    <3>1. k - 1 \in 0 .. MaxNodes /\ k - 1 \notin T
      BY <2>1, <2>3
    <3>2. f[k - 1] = g[k - 1]
      BY <3>1
    <3> QED BY <3>2, <2>1, <1>2
  <2> QED BY <2>2, <2>3
<1>4. \A k \in 0 .. MaxNodes : f[k] = g[k]
  BY <1>3
<1>5. f = [k \in 0 .. MaxNodes |-> f[k]] /\ g = [k \in 0 .. MaxNodes |-> g[k]]
  BY <1>1
<1> QED BY <1>4, <1>5

\* Walk finds the elements of s one by one, and then NULL.
LEMMA WalkIs ==
    ASSUME MaxNodes \in Nat, NEW s, Represents(s)
    PROVE  /\ Walk = Steps(s)
           /\ Len(s) \in 0 .. MaxNodes
<1>0. /\ Spells(s, head, next, freed)
      /\ next \in Seq(0 .. MaxNodes) /\ Len(next) <= MaxNodes
      /\ Len(s) <= IF pc = "node" THEN Len(next) - 1 ELSE Len(next)
  BY ONLY Represents(s) DEF Represents, ListRep
<1>2. Len(s) \in Nat /\ Len(next) \in Nat
  BY ONLY <1>0, LenProperties DEF Spells
<1>1. Len(s) <= MaxNodes
  BY ONLY <1>0, <1>2, MaxNodes \in Nat
<1>3. Follows(Steps(s))
  BY <1>0, <1>1, StepsFollow
<1> QED BY <1>1, <1>2, <1>3, WalkFollows, FollowsOnce

\* What next links is s.
LEMMA ElemsIs ==
    ASSUME MaxNodes \in Nat, NEW s, Represents(s)
    PROVE  Elems = s
<1>1. Walk = Steps(s) /\ Len(s) \in 0 .. MaxNodes
  BY WalkIs
<1>2. s \in Seq(1 .. Len(next)) /\ Len(s) \in Nat /\ \A k \in 1 .. Len(s) : s[k] # 0
  <2>1. s \in Seq(1 .. Len(next))
    BY ONLY Represents(s) DEF Represents, ListRep, Spells
  <2> QED BY ONLY <2>1, LenProperties, ElementOfSeq
<1>3. {j \in 1 .. MaxNodes : Walk[j - 1] # 0} = 1 .. Len(s)
  <2>1. ASSUME NEW j \in 1 .. MaxNodes PROVE Walk[j - 1] # 0 <=> j \in 1 .. Len(s)
    <3>1. /\ j - 1 \in 0 .. MaxNodes /\ (j - 1) + 1 = j
          /\ j \in 1 .. Len(s) <=> j - 1 < Len(s)
      BY <1>2, <2>1
    <3> QED BY <3>1, <1>1, <1>2 DEF Steps
  <2>2. 1 .. Len(s) \subseteq 1 .. MaxNodes
    BY <1>1, <1>2
  <2> QED BY ONLY <2>1, <2>2, Zenon
<1>5. Elems = [k \in 1 .. Len(s) |-> Walk[k - 1]]
  BY ONLY <1>3, Zenon DEF Elems, Node, NULL
<1>6. \A k \in 1 .. Len(s) : Walk[k - 1] = s[k]
  BY <1>1, <1>2 DEF Steps
<1>7. s = [k \in 1 .. Len(s) |-> s[k]]
  BY <1>2
<1> QED BY <1>5, <1>6, <1>7

-----------------------------------------------------------------------------
(* Insertion and removal. *)

Ins(s, at, d) ==
    [k \in 1 .. Len(s) + 1 |-> IF k < at THEN s[k] ELSE IF k = at THEN d ELSE s[k - 1]]

Rem(s, at) == [k \in 1 .. Len(s) - 1 |-> IF k < at THEN s[k] ELSE s[k + 1]]

\* What Ins holds, and where.
LEMMA InsFacts ==
    ASSUME NEW S, NEW s \in Seq(S), NEW d \in S, NEW at \in 1 .. Len(s) + 1
    PROVE  Ins(s, at, d) \in Seq(S) /\ Len(Ins(s, at, d)) = Len(s) + 1 /\ Len(s) \in Nat
<1>1. Len(s) \in Nat /\ \A k \in 1 .. Len(s) : s[k] \in S
  BY ONLY s \in Seq(S), LenProperties, ElementOfSeq
<1>2. \A k \in 1 .. Len(s) + 1 : (IF k < at THEN s[k] ELSE IF k = at THEN d ELSE s[k - 1]) \in S
  BY <1>1
<1> QED BY ONLY <1>1, <1>2 DEF Ins

\* What Rem holds, and where.
LEMMA RemFacts ==
    ASSUME NEW S, NEW s \in Seq(S), NEW at \in 1 .. Len(s)
    PROVE  Rem(s, at) \in Seq(S) /\ Len(Rem(s, at)) = Len(s) - 1 /\ Len(s) \in Nat
<1>1. Len(s) \in Nat /\ \A k \in 1 .. Len(s) : s[k] \in S
  BY ONLY s \in Seq(S), LenProperties, ElementOfSeq
<1>2. Len(s) - 1 \in Nat
  BY <1>1
<1>3. \A k \in 1 .. Len(s) - 1 : (IF k < at THEN s[k] ELSE s[k + 1]) \in S
  BY <1>1
<1> QED BY ONLY <1>1, <1>2, <1>3 DEF Rem

\* Adding an element to a sequence, as ListSpec does it.
LEMMA InsIs ==
    ASSUME NEW S, NEW s \in Seq(S), NEW d \in S, NEW at \in 1 .. Len(s) + 1
    PROVE  SubSeq(s, 1, at - 1) \o <<d>> \o SubSeq(s, at, Len(s)) = Ins(s, at, d)
<1> DEFINE a == SubSeq(s, 1, at - 1)
           z == SubSeq(s, at, Len(s))
           t == a \o <<d>> \o z
<1>1. Len(s) \in Nat /\ at \in Nat /\ 1 <= at /\ at <= Len(s) + 1 /\ s \in Seq(S)
  BY ONLY s \in Seq(S), at \in 1 .. Len(s) + 1, LenProperties
<1>2. a \in Seq(S) /\ Len(a) = at - 1 /\ \A k \in 1 .. at - 1 : a[k] = s[k]
  BY <1>1
<1>3. z \in Seq(S) /\ Len(z) = Len(s) - at + 1 /\ \A k \in 1 .. Len(s) - at + 1 : z[k] = s[at + k - 1]
  BY <1>1
<1> HIDE DEF a, z
<1>4. <<d>> \in Seq(S) /\ Len(<<d>>) = 1 /\ <<d>>[1] = d
  OBVIOUS
<1>5. a \o <<d>> \in Seq(S) /\ Len(a \o <<d>>) = at
      /\ \A k \in 1 .. at : (a \o <<d>>)[k] = IF k < at THEN s[k] ELSE d
  BY ONLY <1>1, <1>2, <1>4, ConcatProperties
<1>6. t \in Seq(S) /\ Len(t) = Len(s) + 1
      /\ \A k \in 1 .. Len(s) + 1 : t[k] = IF k <= at THEN (a \o <<d>>)[k] ELSE z[k - at]
  BY ONLY <1>1, <1>3, <1>5, ConcatProperties
<1>7. \A k \in 1 .. Len(s) + 1 : t[k] = IF k < at THEN s[k] ELSE IF k = at THEN d ELSE s[k - 1]
  BY ONLY <1>1, <1>3, <1>5, <1>6
<1>8. t = [k \in 1 .. Len(s) + 1 |-> t[k]]
  BY ONLY <1>6
<1> QED BY ONLY <1>7, <1>8, Zenon DEF Ins, a, z

\* Taking one out of it.
LEMMA RemIs ==
    ASSUME NEW S, NEW s \in Seq(S), NEW at \in 1 .. Len(s)
    PROVE  SubSeq(s, 1, at - 1) \o SubSeq(s, at + 1, Len(s)) = Rem(s, at)
<1> DEFINE a == SubSeq(s, 1, at - 1)
           z == SubSeq(s, at + 1, Len(s))
           t == a \o z
<1>1. Len(s) \in Nat /\ at \in Nat /\ 1 <= at /\ at <= Len(s) /\ s \in Seq(S)
  BY ONLY s \in Seq(S), at \in 1 .. Len(s), LenProperties
<1>2. a \in Seq(S) /\ Len(a) = at - 1 /\ \A k \in 1 .. at - 1 : a[k] = s[k]
  BY <1>1
<1>3. z \in Seq(S) /\ Len(z) = Len(s) - at /\ \A k \in 1 .. Len(s) - at : z[k] = s[at + k]
  BY <1>1
<1> HIDE DEF a, z
<1>6. t \in Seq(S) /\ Len(t) = Len(s) - 1
      /\ \A k \in 1 .. Len(s) - 1 : t[k] = IF k < at THEN a[k] ELSE z[k - (at - 1)]
  <2>1. /\ t \in Seq(S) /\ Len(t) = Len(a) + Len(z)
        /\ \A k \in 1 .. Len(a) + Len(z) : t[k] = IF k <= Len(a) THEN a[k] ELSE z[k - Len(a)]
    BY ONLY <1>2, <1>3, ConcatProperties, Zenon
  <2> HIDE DEF t
  <2>2. Len(a) + Len(z) = Len(s) - 1
    BY ONLY <1>1, <1>2, <1>3
  <2>3. ASSUME NEW k \in 1 .. Len(s) - 1
        PROVE  t[k] = IF k < at THEN a[k] ELSE z[k - (at - 1)]
    <3>1. k <= Len(a) <=> k < at
      BY ONLY <1>1, <1>2, <2>3
    <3> QED BY ONLY <3>1, <2>1, <2>2, <2>3, <1>2, Zenon
  <2> QED BY ONLY <2>1, <2>2, <2>3
<1>7. ASSUME NEW k \in 1 .. Len(s) - 1 PROVE t[k] = IF k < at THEN s[k] ELSE s[k + 1]
  <2> HIDE DEF t
  <2>1. CASE k < at
    BY ONLY <2>1, <1>1, <1>2, <1>6, <1>7
  <2>2. CASE ~(k < at)
    <3>1. k - (at - 1) \in 1 .. Len(s) - at /\ at + (k - (at - 1)) = k + 1
      BY ONLY <2>2, <1>1, <1>7
    <3> QED BY ONLY <3>1, <2>2, <1>3, <1>6, <1>7
  <2> QED BY <2>1, <2>2
<1>8. t = [k \in 1 .. Len(s) - 1 |-> t[k]]
  <2> HIDE DEF t
  <2>1. t = [k \in 1 .. Len(t) |-> t[k]]
    BY ONLY <1>6
  <2> QED BY ONLY <2>1, <1>6
<1> QED BY ONLY <1>7, <1>8, Zenon DEF Rem, a, z

-----------------------------------------------------------------------------
(* How the operations change what the links spell. *)

\* A node that is not linked from anywhere may be made, or changed.
LEMMA SpellsKeeps ==
    ASSUME NEW s, NEW h, NEW n, NEW g, Spells(s, h, n, g), NEW m,
           Len(n) \in Nat, Len(m) \in Nat, Len(n) <= Len(m),
           \A k \in 1 .. Len(n) : m[k] = n[k]
    PROVE  Spells(s, h, m, g)
<1>1. s \in Seq(1 .. Len(n)) /\ \A k \in 1 .. Len(s) : s[k] \in 1 .. Len(n)
  BY ONLY Spells(s, h, n, g), ElementOfSeq DEF Spells
<1>2. 1 .. Len(n) \subseteq 1 .. Len(m)
  BY ONLY Len(n) \in Nat, Len(m) \in Nat, Len(n) <= Len(m)
<1>3. s \in Seq(1 .. Len(m))
  BY ONLY <1>1, <1>2, SeqMonotonic
<1>4. \A k \in 1 .. Len(s) : m[s[k]] = n[s[k]]
  BY ONLY <1>1, \A k \in 1 .. Len(n) : m[k] = n[k]
<1> QED BY ONLY Spells(s, h, n, g), <1>3, <1>4 DEF Spells

\* list_push.
LEMMA SpellsPush ==
    ASSUME NEW s, NEW h, NEW n, NEW g, Spells(s, h, n, g), NEW d \in 1 .. Len(n),
           n[d] = h, d \notin g, \A k \in 1 .. Len(s) : s[k] # d
    PROVE  Spells(Ins(s, 1, d), d, n, g)
<1> DEFINE t == Ins(s, 1, d)
<1>0. s \in Seq(1 .. Len(n))
  BY DEF Spells
<1>1. Len(s) \in Nat
  BY ONLY <1>0, LenProperties
<1>2. t \in Seq(1 .. Len(n)) /\ Len(t) = Len(s) + 1
  <2>1. 1 \in 1 .. Len(s) + 1
    BY ONLY <1>1
  <2> QED BY ONLY <2>1, <1>0, d \in 1 .. Len(n), InsFacts
<1>3. t[1] = d /\ \A k \in 2 .. Len(s) + 1 : t[k] = s[k - 1]
  BY ONLY <1>1 DEF Ins
<1> HIDE DEF t
<1>4. ASSUME NEW k \in 1 .. Len(t)
      PROVE  t[k] \notin g /\ n[t[k]] = IF k = Len(t) THEN 0 ELSE t[k + 1]
  <2>1. CASE k = 1
    BY ONLY <2>1, <1>1, <1>2, <1>3, n[d] = h, d \notin g, Spells(s, h, n, g) DEF Spells
  <2>2. CASE k # 1
    <3>1. k - 1 \in 1 .. Len(s) /\ t[k] = s[k - 1]
      BY ONLY <2>2, <1>1, <1>2, <1>3, <1>4
    <3>2. s[k - 1] \notin g /\ n[s[k - 1]] = IF k - 1 = Len(s) THEN 0 ELSE s[k]
      BY ONLY <3>1, <1>1, Spells(s, h, n, g), SMTT(30) DEF Spells
    <3>3. k # Len(t) => k + 1 \in 2 .. Len(s) + 1 /\ (k + 1) - 1 = k /\ k - 1 # Len(s)
      BY ONLY <2>2, <1>1, <1>2, <1>4
    <3>4. k = Len(t) => k - 1 = Len(s)
      BY ONLY <1>1, <1>2
    <3>5. k # Len(t) => t[k + 1] = s[k]
      BY ONLY <3>3, <1>3
    <3> QED BY ONLY <3>1, <3>2, <3>3, <3>4, <3>5
  <2> QED BY <2>1, <2>2
<1>5. ASSUME NEW j \in 1 .. Len(t), NEW k \in 1 .. Len(t), t[j] = t[k] PROVE j = k
  <2>1. \A i \in 1 .. Len(t) : i # 1 => i - 1 \in 1 .. Len(s) /\ t[i] = s[i - 1]
    BY ONLY <1>1, <1>2, <1>3
  <2>2. CASE j = 1 \/ k = 1
    BY ONLY <2>1, <2>2, <1>5, <1>3, \A i \in 1 .. Len(s) : s[i] # d
  <2>3. CASE j # 1 /\ k # 1
    <3>0. j - 1 \in 1 .. Len(s) /\ k - 1 \in 1 .. Len(s) /\ s[j - 1] = s[k - 1]
      BY ONLY <2>1, <2>3, <1>5
    <3>1. j - 1 = k - 1
      BY ONLY <3>0, Spells(s, h, n, g), Zenon DEF Spells
    <3> QED BY ONLY <3>1, <1>5, <1>1, <1>2
  <2> QED BY <2>2, <2>3
<1> QED BY ONLY <1>1, <1>2, <1>3, <1>4, <1>5 DEF Spells, t

\* list_insert_at.
LEMMA SpellsInsert ==
    ASSUME NEW s, NEW h, NEW S, NEW n \in Seq(S), NEW g, Spells(s, h, n, g),
           g \subseteq 1 .. Len(n), NEW at \in 1 .. Len(s) - 1, Len(n) + 1 \in S
    PROVE  Spells(Ins(s, at + 1, Len(n) + 1), h,
                  Append([n EXCEPT ![s[at]] = Len(n) + 1], n[s[at]]), g)
<1> DEFINE d == Len(n) + 1
           t == Ins(s, at + 1, d)
           m == Append([n EXCEPT ![s[at]] = d], n[s[at]])
<1>0. s \in Seq(1 .. Len(n)) /\ Len(n) \in Nat
  BY ONLY n \in Seq(S), Spells(s, h, n, g), LenProperties DEF Spells
<1>1. Len(s) \in Nat /\ \A k \in 1 .. Len(s) : s[k] \in 1 .. Len(n)
  BY ONLY <1>0, LenProperties, ElementOfSeq
<1>m. Len(m) = Len(n) + 1 /\ m[d] = n[s[at]]
      /\ \A k \in 1 .. Len(n) : m[k] = IF k = s[at] THEN d ELSE n[k]
  <2>1. s[at] \in 1 .. Len(n)
    BY ONLY <1>1, at \in 1 .. Len(s) - 1
  <2> QED BY ONLY <2>1, <1>0, n \in Seq(S)
<1>2. t \in Seq(1 .. Len(m)) /\ Len(t) = Len(s) + 1
  <2>1. 1 .. Len(n) \subseteq 1 .. Len(m) /\ d \in 1 .. Len(m)
    BY ONLY <1>0, <1>m
  <2>2. s \in Seq(1 .. Len(m))
    BY ONLY <2>1, <1>0, SeqMonotonic
  <2>3. at + 1 \in 1 .. Len(s) + 1
    BY ONLY <1>1, at \in 1 .. Len(s) - 1
  <2> HIDE DEF d, m
  <2> QED BY ONLY <2>1, <2>2, <2>3, InsFacts
<1>3. /\ \A k \in 1 .. at : t[k] = s[k]
      /\ t[at + 1] = d
      /\ \A k \in at + 2 .. Len(s) + 1 : t[k] = s[k - 1]
  BY ONLY <1>1, at \in 1 .. Len(s) - 1 DEF Ins
<1>a. at \in Nat /\ at >= 1 /\ at < Len(s)
  BY ONLY <1>1, at \in 1 .. Len(s) - 1
<1>s. /\ h = s[1]
      /\ \A k \in 1 .. Len(s) : s[k] \notin g /\ n[s[k]] = IF k = Len(s) THEN 0 ELSE s[k + 1]
      /\ \A j, k \in 1 .. Len(s) : s[j] = s[k] => j = k
  BY ONLY <1>a, <1>1, Spells(s, h, n, g) DEF Spells
<1>d. \A k \in 1 .. Len(s) : s[k] # d
  BY ONLY <1>0, <1>1
<1>g. d \notin g
  BY ONLY g \subseteq 1 .. Len(n), <1>0
<1> HIDE DEF t, m, d
<1>4. ASSUME NEW k \in 1 .. Len(t)
      PROVE  t[k] \notin g /\ m[t[k]] = IF k = Len(t) THEN 0 ELSE t[k + 1]
  <2>1. CASE k < at
    <3>0. k \in 1 .. at /\ k + 1 \in 1 .. at /\ k \in 1 .. Len(s) /\ at \in 1 .. Len(s) /\ k # at
          /\ k # Len(t) /\ k # Len(s)
      BY ONLY <2>1, <1>1, <1>2, <1>4, <1>a, SMTT(30)
    <3>1. t[k] = s[k] /\ t[k + 1] = s[k + 1] /\ s[k] # s[at] /\ k # Len(t) /\ k # Len(s)
      BY ONLY <3>0, <1>3, <1>s
    <3>2. s[k] \notin g /\ n[s[k]] = s[k + 1] /\ s[k] \in 1 .. Len(n)
      BY ONLY <2>1, <3>1, <1>1, <1>4, <1>a, <1>s
    <3> QED BY ONLY <3>1, <3>2, <1>m
  <2>2. CASE k = at
    <3>1. t[k] = s[at] /\ t[k + 1] = d /\ k # Len(t)
      BY ONLY <2>2, <1>1, <1>2, <1>3, <1>a
    <3>2. s[at] \notin g /\ s[at] \in 1 .. Len(n)
      BY ONLY <1>1, <1>a, <1>s
    <3> QED BY ONLY <3>1, <3>2, <1>m
  <2>3. CASE k = at + 1
    <3>1. t[k] = d /\ t[k + 1] = s[at + 1] /\ k # Len(t)
      BY ONLY <2>3, <1>1, <1>2, <1>3, <1>a, SMTT(30)
    <3>2. n[s[at]] = s[at + 1]
      BY ONLY <1>1, <1>a, <1>s
    <3> QED BY ONLY <3>1, <3>2, <1>m, <1>g
  <2>4. CASE k > at + 1
    <3>k. k \in Int /\ k <= Len(s) + 1 /\ (k # Len(t) => k # Len(s) + 1)
      BY ONLY <1>1, <1>2, <1>4
    <3>i. k - 1 \in 1 .. Len(s) /\ k \in at + 2 .. Len(s) + 1 /\ k - 1 # at /\ at \in 1 .. Len(s)
      BY ONLY <3>k, <2>4, <1>1, <1>a
    <3>0. k - 1 \in 1 .. Len(s) /\ t[k] = s[k - 1] /\ k - 1 # at /\ at \in 1 .. Len(s)
      BY ONLY <3>i, <1>3
    <3>1. s[k - 1] # s[at] /\ s[k - 1] \in 1 .. Len(n) /\ s[k - 1] \notin g
      BY ONLY <3>0, <1>1, <1>s
    <3>2. n[s[k - 1]] = IF k - 1 = Len(s) THEN 0 ELSE s[(k - 1) + 1]
      BY ONLY <3>0, <1>s, Zenon
    <3>5. ASSUME k # Len(t)
          PROVE  k + 1 \in at + 2 .. Len(s) + 1 /\ (k + 1) - 1 = (k - 1) + 1 /\ k - 1 # Len(s)
      <4>1. k # Len(s) + 1
        BY ONLY <3>k, <3>5
      <4> QED BY ONLY <4>1, <3>k, <2>4, <1>1, <1>a
    <3>3. k # Len(t) => t[k + 1] = s[(k - 1) + 1] /\ k - 1 # Len(s)
      BY ONLY <3>5, <1>3
    <3>4. k = Len(t) => k - 1 = Len(s)
      BY ONLY <1>1, <1>2
    <3> QED BY ONLY <3>0, <3>1, <3>2, <3>3, <3>4, <1>m
  <2> QED BY ONLY <2>1, <2>2, <2>3, <2>4, <1>4, <1>a, <1>1, <1>2
<1>5. ASSUME NEW j \in 1 .. Len(t), NEW k \in 1 .. Len(t), t[j] = t[k] PROVE j = k
  <2> DEFINE f(i) == IF i <= at THEN i ELSE i - 1
  <2>1. \A i \in 1 .. Len(t) : i # at + 1 => f(i) \in 1 .. Len(s) /\ t[i] = s[f(i)]
    <3> SUFFICES ASSUME NEW i \in 1 .. Len(t), i # at + 1
                 PROVE  f(i) \in 1 .. Len(s) /\ t[i] = s[f(i)]
      OBVIOUS
    <3>1. CASE i <= at
      <4>1. i \in 1 .. at /\ i \in 1 .. Len(s)
        BY ONLY <3>1, <1>1, <1>2, <1>a, i \in 1 .. Len(t)
      <4> QED BY ONLY <3>1, <4>1, <1>3
    <3>2. CASE ~(i <= at)
      <4>1. i \in at + 2 .. Len(s) + 1 /\ i - 1 \in 1 .. Len(s)
        BY ONLY <3>2, <1>1, <1>2, <1>a, i \in 1 .. Len(t), i # at + 1
      <4> QED BY ONLY <3>2, <4>1, <1>3
    <3> QED BY <3>1, <3>2
  <2>2. CASE j # at + 1 /\ k # at + 1
    <3>1. f(j) = f(k)
      <4> HIDE DEF f
      <4>1. f(j) \in 1 .. Len(s) /\ f(k) \in 1 .. Len(s) /\ s[f(j)] = s[f(k)]
        BY ONLY <2>1, <2>2, <1>5
      <4> QED BY ONLY <4>1, <1>s
    <3>2. at \in Nat /\ j \in Int /\ k \in Int
      BY ONLY <1>5, <1>1, <1>2, <1>a
    <3> QED BY ONLY <3>1, <3>2, <2>2
  <2>3. CASE j = at + 1 \/ k = at + 1
    <3> HIDE DEF f
    <3> QED BY ONLY <2>1, <2>3, <1>5, <1>3, <1>d
  <2> QED BY <2>2, <2>3
<1>6. t[1] = h /\ Len(t) # 0
  BY ONLY <1>1, <1>2, <1>3, <1>a, <1>s
<1> QED BY ONLY <1>2, <1>4, <1>5, <1>6, Zenon DEF Spells, t, m, d

\* list_pop and list_remove_at: the node behind the removed one follows the one before
\* it, m differs from n in nothing else.
LEMMA SpellsRemove ==
    ASSUME NEW s, NEW h, NEW S, NEW n \in Seq(S), NEW g, Spells(s, h, n, g),
           NEW at \in 1 .. Len(s), NEW m, Len(m) = Len(n),
           \A k \in 1 .. Len(n) :
               m[k] = IF at > 1 /\ k = s[at - 1] THEN n[s[at]] ELSE n[k]
    PROVE  Spells(Rem(s, at), IF at = 1 THEN n[h] ELSE h, m, g \cup {s[at]})
<1> DEFINE t == Rem(s, at)
           h2 == IF at = 1 THEN n[h] ELSE h
           g2 == g \cup {s[at]}
<1>0. s \in Seq(1 .. Len(n)) /\ Len(n) \in Nat
  BY ONLY n \in Seq(S), Spells(s, h, n, g), LenProperties DEF Spells
<1>1. Len(s) \in Nat /\ \A k \in 1 .. Len(s) : s[k] \in 1 .. Len(n)
  BY ONLY <1>0, LenProperties, ElementOfSeq
<1>a. at \in Nat /\ at >= 1 /\ at <= Len(s) /\ Len(s) >= 1
  BY ONLY <1>1, at \in 1 .. Len(s)
<1>2. t \in Seq(1 .. Len(m)) /\ Len(t) = Len(s) - 1
  BY ONLY <1>0, at \in 1 .. Len(s), Len(m) = Len(n), RemFacts
<1>3. /\ \A k \in 1 .. Len(t) : k < at => t[k] = s[k]
      /\ \A k \in 1 .. Len(t) : k >= at => t[k] = s[k + 1]
  BY ONLY <1>1, <1>2, <1>a DEF Rem
<1>s. /\ h = s[1]
      /\ \A k \in 1 .. Len(s) : s[k] \notin g /\ n[s[k]] = IF k = Len(s) THEN 0 ELSE s[k + 1]
      /\ \A j, k \in 1 .. Len(s) : s[j] = s[k] => j = k
  BY ONLY <1>a, <1>1, Spells(s, h, n, g) DEF Spells
<1> HIDE DEF t
<1>4. ASSUME NEW k \in 1 .. Len(t)
      PROVE  t[k] \notin g2 /\ m[t[k]] = IF k = Len(t) THEN 0 ELSE t[k + 1]
  <2>k. /\ k \in Nat /\ k >= 1 /\ k <= Len(s) - 1 /\ k + 1 \in 1 .. Len(s) /\ k \in 1 .. Len(s)
        /\ k # Len(s) /\ (k = Len(t) <=> k + 1 = Len(s)) /\ (k # Len(t) => k + 1 \in 1 .. Len(t))
    BY ONLY <1>1, <1>2, <1>4
  <2>1. CASE k < at - 1
    <3>1. k + 1 < at /\ k < at /\ k # at /\ k # Len(t)
      BY ONLY <2>1, <2>k, <1>a, <1>1
    <3>2. t[k] = s[k] /\ t[k + 1] = s[k + 1]
      BY ONLY <3>1, <2>k, <1>3
    <3>3. s[k] # s[at] /\ s[k] \notin g /\ n[s[k]] = s[k + 1] /\ s[k] \in 1 .. Len(n)
      BY ONLY <3>1, <2>k, <1>1, <1>s, at \in 1 .. Len(s)
    <3>4. at > 1 => s[k] # s[at - 1]
      <4>1. at > 1 => at - 1 \in 1 .. Len(s) /\ k # at - 1
        BY ONLY <2>1, <2>k, <1>a, <1>1
      <4> QED BY ONLY <4>1, <2>k, <1>s
    <3> QED BY ONLY <3>1, <3>2, <3>3, <3>4, \A i \in 1 .. Len(n) :
               m[i] = IF at > 1 /\ i = s[at - 1] THEN n[s[at]] ELSE n[i]
  <2>2. CASE k = at - 1
    <3>1. k < at /\ k # at /\ at > 1 /\ k + 1 = at
      BY ONLY <2>2, <2>k, <1>a
    <3>2. t[k] = s[k] /\ s[k] # s[at] /\ s[k] \notin g /\ s[k] \in 1 .. Len(n)
      BY ONLY <3>1, <2>k, <1>1, <1>3, <1>s, <1>4, at \in 1 .. Len(s)
    <3>3. m[s[k]] = n[s[at]]
      BY ONLY <3>1, <3>2, <2>2, \A i \in 1 .. Len(n) :
               m[i] = IF at > 1 /\ i = s[at - 1] THEN n[s[at]] ELSE n[i]
    <3>4. n[s[at]] = IF at = Len(s) THEN 0 ELSE s[at + 1]
      BY ONLY <1>s, at \in 1 .. Len(s)
    <3>5. k # Len(t) => t[k + 1] = s[at + 1]
      BY ONLY <3>1, <2>k, <1>3, <1>a
    <3> QED BY ONLY <3>1, <3>2, <3>3, <3>4, <3>5, <2>k
  <2>3. CASE k >= at
    <3>1. k + 1 >= at /\ k + 1 # at /\ (at > 1 => at - 1 \in 1 .. Len(s) /\ k + 1 # at - 1)
      BY ONLY <2>3, <2>k, <1>a, <1>1
    <3>2. t[k] = s[k + 1] /\ (k # Len(t) => t[k + 1] = s[(k + 1) + 1])
      BY ONLY <3>1, <2>3, <2>k, <1>3, <1>4
    <3>3. s[k + 1] # s[at] /\ s[k + 1] \notin g /\ s[k + 1] \in 1 .. Len(n)
          /\ n[s[k + 1]] = IF k + 1 = Len(s) THEN 0 ELSE s[(k + 1) + 1]
      BY ONLY <3>1, <2>k, <1>1, <1>s, at \in 1 .. Len(s)
    <3>4. at > 1 => s[k + 1] # s[at - 1]
      BY ONLY <3>1, <2>k, <1>s
    <3> QED BY ONLY <3>2, <3>3, <3>4, <2>k, \A i \in 1 .. Len(n) :
               m[i] = IF at > 1 /\ i = s[at - 1] THEN n[s[at]] ELSE n[i]
  <2> QED BY ONLY <2>1, <2>2, <2>3, <2>k, <1>a
<1>5. ASSUME NEW j \in 1 .. Len(t), NEW k \in 1 .. Len(t), t[j] = t[k] PROVE j = k
  <2> DEFINE f(i) == IF i < at THEN i ELSE i + 1
  <2>1. \A i \in 1 .. Len(t) : f(i) \in 1 .. Len(s) /\ t[i] = s[f(i)]
    <3> SUFFICES ASSUME NEW i \in 1 .. Len(t) PROVE f(i) \in 1 .. Len(s) /\ t[i] = s[f(i)]
      OBVIOUS
    <3>1. i \in 1 .. Len(s) /\ i + 1 \in 1 .. Len(s) /\ (i < at \/ i >= at)
      BY ONLY <1>1, <1>2, <1>a, i \in 1 .. Len(t)
    <3>2. CASE i < at
      BY ONLY <3>1, <3>2, <1>3, i \in 1 .. Len(t)
    <3>3. CASE ~(i < at)
      BY ONLY <3>1, <3>3, <1>3, i \in 1 .. Len(t)
    <3> QED BY <3>2, <3>3
  <2>2. f(j) = f(k)
    <3> HIDE DEF f
    <3>1. f(j) \in 1 .. Len(s) /\ f(k) \in 1 .. Len(s) /\ s[f(j)] = s[f(k)]
      BY ONLY <2>1, <1>5
    <3> QED BY ONLY <3>1, <1>s
  <2>3. at \in Nat /\ j \in Int /\ k \in Int
    BY ONLY <1>5, <1>1, <1>2, <1>a
  <2> QED BY ONLY <2>2, <2>3
<1>6. h2 = IF Len(t) = 0 THEN 0 ELSE t[1]
  <2>1. CASE at = 1
    <3>0. 1 \in 1 .. Len(s)
      BY ONLY <1>a, <1>1
    <3>1. n[h] = IF 1 = Len(s) THEN 0 ELSE s[1 + 1]
      BY ONLY <3>0, <1>s, Zenon
    <3>2. Len(t) # 0 => t[1] = s[1 + 1]
      BY ONLY <2>1, <1>1, <1>2, <1>3
    <3>3. Len(t) = 0 <=> 1 = Len(s)
      BY ONLY <1>1, <1>2
    <3> QED BY ONLY <3>1, <3>2, <3>3, <2>1
  <2>2. CASE at # 1
    <3>1. Len(t) # 0 /\ 1 \in 1 .. Len(t) /\ 1 < at
      BY ONLY <2>2, <1>1, <1>2, <1>a
    <3> QED BY ONLY <3>1, <2>2, <1>3, <1>s
  <2> QED BY <2>1, <2>2
<1> QED BY ONLY <1>2, <1>4, <1>5, <1>6, Zenon DEF Spells, t

-----------------------------------------------------------------------------
(* Every operation, and every step of list_push. *)

\* The list's elements stay, gain one or lose one to kfree, where the call says.
Call(op, at) == call' = [op |-> op, at |-> at]

Stays(s, t) == t = s /\ freed' = freed /\ call' = call
Pushes(s, t, d) == d \notin freed /\ t = Ins(s, 1, d) /\ freed' = freed /\ Call("list_push", 0)
Inserts(s, t, at, d) ==
    d \notin freed /\ t = Ins(s, at + 1, d) /\ freed' = freed /\ Call("list_insert_at", at)
PopsNone(s, t) == Len(s) = 0 /\ t = s /\ freed' = freed /\ Call("list_pop", 0)
Pops(s, t) == 1 \in 1 .. Len(s) /\ t = Rem(s, 1) /\ freed' = freed \cup {s[1]} /\ Call("list_pop", 0)
Removes(s, t, at) ==
    at + 1 \in 1 .. Len(s) /\ t = Rem(s, at + 1) /\ freed' = freed \cup {s[at + 1]} /\ Call("list_remove_at", at)

Moves(s, t) ==
    \/ Stays(s, t)
    \/ \E d \in 1 .. MaxNodes : Pushes(s, t, d)
    \/ \E at \in 1 .. Len(s), d \in 1 .. MaxNodes : Inserts(s, t, at, d)
    \/ PopsNone(s, t) \/ Pops(s, t)
    \/ \E at \in 1 .. Len(s) : Removes(s, t, at)

Goes(s) == \E t : ListRep(t, head', count', next', freed', pc') /\ Moves(s, t)

\* What a step starts from.
Laid(s) ==
    /\ next \in Seq(0 .. MaxNodes) /\ Len(next) \in Nat /\ Len(next) <= MaxNodes
    /\ freed \subseteq 1 .. Len(next) /\ Spells(s, head, next, freed)
    /\ s \in Seq(1 .. Len(next)) /\ Len(s) \in Nat /\ count \in Nat
    /\ \A k \in 1 .. Len(s) : s[k] \in 1 .. Len(next)
    /\ \A k \in 1 .. Len(next) : next[k] \in 0 .. MaxNodes

\* What the operations need to know of the list they start from.
LEMMA RepFacts ==
    ASSUME MaxNodes \in Nat, NEW s, Represents(s)
    PROVE  /\ Laid(s)
           /\ pc = "idle" => Len(s) = count /\ Len(s) <= Len(next)
           /\ pc = "node" => Len(s) = count /\ Len(s) <= Len(next) - 1
           /\ pc = "head" => Len(s) = count + 1 /\ Len(s) <= Len(next)
           /\ pc = "node" => /\ next[Len(next)] = head /\ Len(next) \notin freed
                                  /\ \A k \in 1 .. Len(s) : s[k] # Len(next)
<1>1. Spells(s, head, next, freed) /\ next \in Seq(0 .. MaxNodes) /\ s \in Seq(1 .. Len(next))
  BY ONLY Represents(s) DEF Represents, ListRep, Spells
<1>2. Len(next) \in Nat /\ Len(s) \in Nat
  BY ONLY <1>1, LenProperties
<1>3. /\ \A k \in 1 .. Len(s) : s[k] \in 1 .. Len(next)
      /\ \A k \in 1 .. Len(next) : next[k] \in 0 .. MaxNodes
  BY ONLY <1>1, ElementOfSeq, Zenon
<1> QED BY ONLY <1>1, <1>2, <1>3, Represents(s) DEF Represents, ListRep, Laid

\* A list between operations.
LEMMA RepIdle ==
    ASSUME NEW t, NEW h, NEW c \in Nat, NEW n \in Seq(0 .. MaxNodes), NEW g, Spells(t, h, n, g),
           Len(n) <= MaxNodes, g \subseteq 1 .. Len(n), Len(t) = c, c <= Len(n)
    PROVE  ListRep(t, h, c, n, g, "idle")
BY DEF ListRep

\* The new node is not yet in the list.
LEMMA PushNodeGoes ==
    ASSUME MaxNodes \in Nat, NEW s, Represents(s), PushNode
    PROVE  Goes(s)
<1>1. pc = "idle" /\ Len(next) < MaxNodes /\ next' = Append(next, head) /\ pc' = "node"
      /\ head' = head /\ count' = count /\ freed' = freed /\ call' = call
  BY ONLY PushNode DEF PushNode, Idle
<1>r. Laid(s) /\ Len(s) = count /\ Len(s) <= Len(next)
  BY ONLY <1>1, MaxNodes \in Nat, Represents(s), RepFacts
<1>2. head \in 0 .. MaxNodes
  <2>1. \A k \in 1 .. Len(s) : s[k] \in 1 .. Len(next)
    BY <1>r, ElementOfSeq DEF Laid
  <2> QED BY <2>1, <1>r DEF Spells, Laid
<1>3. /\ next' \in Seq(0 .. MaxNodes) /\ Len(next') = Len(next) + 1
      /\ next'[Len(next) + 1] = head /\ \A k \in 1 .. Len(next) : next'[k] = next[k]
  BY ONLY <1>1, <1>2, MaxNodes \in Nat, <1>r DEF Laid
<1>4. Spells(s, head, next', freed)
  BY ONLY <1>3, MaxNodes \in Nat, <1>r, SpellsKeeps DEF Laid
<1>5. \A k \in 1 .. Len(s) : s[k] # Len(next')
  <2>1. \A k \in 1 .. Len(s) : s[k] \in 1 .. Len(next)
    BY <1>r, ElementOfSeq DEF Laid
  <2> QED BY <2>1, <1>3, <1>r DEF Laid
<1>6. ListRep(s, head', count', next', freed', pc')
  BY ONLY <1>1, <1>3, <1>4, <1>5, MaxNodes \in Nat, <1>r DEF ListRep, Laid
<1> QED BY ONLY <1>1, <1>6, Zenon DEF Goes, Moves, Stays

\* The list begins with the new node.
LEMMA PushHeadGoes ==
    ASSUME MaxNodes \in Nat, NEW s, Represents(s), PushHead
    PROVE  Goes(s)
<1> DEFINE d == Len(next)
<1>1. pc = "node" /\ head' = d /\ pc' = "head"
      /\ count' = count /\ next' = next /\ freed' = freed /\ Call("list_push", 0)
  BY ONLY PushHead DEF PushHead, new, Called, Call
<1>r. Laid(s) /\ Len(s) = count /\ Len(s) <= Len(next) - 1
      /\ next[Len(next)] = head /\ Len(next) \notin freed /\ \A k \in 1 .. Len(s) : s[k] # Len(next)
  BY ONLY <1>1, MaxNodes \in Nat, Represents(s), RepFacts
<1>2. d \in 1 .. Len(next) /\ d \in 1 .. MaxNodes /\ 1 \in 1 .. Len(s) + 1
  BY ONLY <1>1, MaxNodes \in Nat, <1>r DEF Laid
<1>3. Spells(Ins(s, 1, d), d, next, freed)
  BY ONLY <1>1, <1>2, <1>r, SpellsPush, Zenon DEF Laid
<1>4. Len(Ins(s, 1, d)) = Len(s) + 1
  BY ONLY <1>r DEF Laid, Ins
<1>5. ListRep(Ins(s, 1, d), head', count', next', freed', pc')
  BY ONLY <1>1, <1>3, <1>4, MaxNodes \in Nat, <1>r DEF ListRep, Laid
<1>6. d \notin freed
  BY ONLY <1>1, MaxNodes \in Nat, <1>r DEF Laid
<1> QED BY ONLY <1>1, <1>2, <1>5, <1>6, Zenon DEF Goes, Moves, Pushes

\* The count catches up with the list.
LEMMA PushCountGoes ==
    ASSUME MaxNodes \in Nat, NEW s, Represents(s), PushCount
    PROVE  Goes(s)
<1>1. pc = "head" /\ count' = count + 1 /\ pc' = "idle"
      /\ head' = head /\ next' = next /\ freed' = freed /\ call' = call
  BY ONLY PushCount DEF PushCount
<1>r. Laid(s) /\ Len(s) = count + 1 /\ Len(s) <= Len(next)
  BY ONLY <1>1, MaxNodes \in Nat, Represents(s), RepFacts
<1>2. ListRep(s, head', count', next', freed', pc')
  BY ONLY <1>1, MaxNodes \in Nat, <1>r DEF ListRep, Laid
<1> QED BY ONLY <1>1, <1>2, Zenon DEF Goes, Moves, Stays

\* list_pop leaves an empty list alone.
LEMMA PopNoneGoes ==
    ASSUME MaxNodes \in Nat, NEW s, Represents(s), ListPop, count = 0
    PROVE  Goes(s)
<1>1. /\ pc = "idle" /\ head' = head /\ freed' = freed /\ count' = count /\ next' = next /\ pc' = pc
      /\ Call("list_pop", 0)
  BY ONLY ListPop, count = 0 DEF ListPop, Idle, Called, Call
<1>2. Len(s) = 0
  BY ONLY <1>1, MaxNodes \in Nat, Represents(s), count = 0, RepFacts
<1>3. ListRep(s, head', count', next', freed', pc')
  BY ONLY <1>1, Represents(s) DEF Represents
<1> QED BY ONLY <1>1, <1>2, <1>3, Zenon DEF Goes, Moves, PopsNone

\* list_pop takes the first element.
LEMMA PopGoes ==
    ASSUME MaxNodes \in Nat, NEW s, Represents(s), ListPop, count # 0
    PROVE  Goes(s)
<1>1. pc = "idle" /\ count # 0 /\ head' = next[head] /\ freed' = freed \cup {head}
      /\ count' = count - 1 /\ next' = next /\ pc' = pc /\ Call("list_pop", 0)
  BY ONLY ListPop, count # 0 DEF ListPop, Idle, Called, Call
<1>r. Laid(s) /\ Len(s) = count /\ Len(s) <= Len(next)
  BY ONLY <1>1, MaxNodes \in Nat, Represents(s), RepFacts
<1>2. 1 \in 1 .. Len(s) /\ head = s[1]
  BY ONLY <1>1, MaxNodes \in Nat, <1>r DEF Spells, Laid
<1>3. Spells(Rem(s, 1), next[head], next, freed \cup {head})
  <2>1. \A k \in 1 .. Len(next) : next[k] = IF 1 > 1 /\ k = s[1 - 1] THEN next[s[1]] ELSE next[k]
    OBVIOUS
  <2>2. Spells(Rem(s, 1), IF 1 = 1 THEN next[head] ELSE head, next, freed \cup {s[1]})
    BY ONLY <2>1, <1>2, <1>r, SpellsRemove, Zenon DEF Laid
  <2> QED BY ONLY <2>2, <1>2
<1>4. Len(s) - 1 \in Nat /\ Len(s) - 1 <= Len(next)
  BY ONLY <1>2, <1>r DEF Laid
<1>5. Len(Rem(s, 1)) = Len(s) - 1
  BY ONLY <1>4 DEF Rem
<1>6. s[1] \in 1 .. Len(next)
  BY ONLY <1>2, <1>r DEF Laid
<1>7. freed' \subseteq 1 .. Len(next)
  BY ONLY <1>1, <1>2, <1>6, <1>r, Zenon DEF Laid
<1>8. ListRep(Rem(s, 1), head', count', next', freed', "idle")
  BY ONLY <1>1, <1>3, <1>4, <1>5, <1>7, <1>r, RepIdle DEF Laid
<1>9. freed' = freed \cup {s[1]} /\ pc' = "idle"
  BY ONLY <1>1, <1>2
<1> QED BY ONLY <1>1, <1>2, <1>8, <1>9, Zenon DEF Goes, Moves, Pops

\* list_insert_at adds a node before an element behind the head.
LEMMA InsertGoes ==
    ASSUME MaxNodes \in Nat, NEW s, Represents(s), NEW at \in 1 .. MaxNodes, ListInsertAt(at)
    PROVE  Goes(s)
<1> DEFINE d == Len(next) + 1
<1>0. pc = "idle" /\ at \in 1 .. count - 1 /\ Len(next) < MaxNodes
      /\ count' = count + 1 /\ head' = head /\ freed' = freed /\ pc' = pc /\ Call("list_insert_at", at)
  BY ONLY ListInsertAt(at) DEF ListInsertAt, Idle, Called, Call
<1>r. Laid(s) /\ Len(s) = count /\ Len(s) <= Len(next)
  BY ONLY <1>0, MaxNodes \in Nat, Represents(s), RepFacts
<1>1. /\ at \in 1 .. Len(s) - 1 /\ at + 1 \in 1 .. Len(s) + 1 /\ d \in 1 .. MaxNodes
      /\ at - 1 \in 0 .. MaxNodes /\ at - 1 < Len(s) /\ ~(at - 1 >= count) /\ (at - 1) + 1 = at
      /\ d \in 0 .. MaxNodes /\ at \in 1 .. Len(s)
  <2>1. PICK n : n = Len(next)
    BY Zenon
  <2>2. PICK m : m = Len(s)
    BY Zenon
  <2>3. n \in Nat /\ m \in Nat /\ m = count /\ m <= n /\ n < MaxNodes
    <3>1. Len(next) \in Nat /\ Len(s) \in Nat
      BY ONLY <1>r DEF Laid
    <3> QED BY ONLY <1>0, <1>r, <2>1, <2>2, <3>1
  <2>4. /\ at \in 1 .. m - 1 /\ at + 1 \in 1 .. m + 1 /\ n + 1 \in 1 .. MaxNodes
        /\ at - 1 \in 0 .. MaxNodes /\ at - 1 < m /\ ~(at - 1 >= count) /\ (at - 1) + 1 = at
        /\ n + 1 \in 0 .. MaxNodes /\ at \in 1 .. m
    BY ONLY <1>0, <2>3, MaxNodes \in Nat
  <2> QED BY ONLY <2>1, <2>2, <2>4
<1>2. list_get_node_at(at - 1) = s[at]
  BY ONLY <1>1, MaxNodes \in Nat, Represents(s), WalkIs DEF list_get_node_at, Steps
<1>3. next' = Append([next EXCEPT ![s[at]] = d], next[s[at]])
  BY ONLY ListInsertAt(at), <1>2 DEF ListInsertAt, new
<1>4. s[at] \in 1 .. Len(next) /\ next[s[at]] \in 0 .. MaxNodes
  <2>1. s[at] \in 1 .. Len(next)
    BY ONLY <1>1, <1>r DEF Laid
  <2> QED BY ONLY <2>1, <1>r DEF Laid
<1>5. next' \in Seq(0 .. MaxNodes) /\ Len(next') = Len(next) + 1
  BY ONLY <1>1, <1>3, <1>4, MaxNodes \in Nat, <1>r DEF Laid
<1>6. Spells(Ins(s, at + 1, d), head, next', freed)
  BY ONLY <1>1, <1>3, <1>r, SpellsInsert, Zenon DEF Laid
<1>7. Len(Ins(s, at + 1, d)) = Len(s) + 1
  BY ONLY <1>r DEF Laid, Ins
<1>8. d \notin freed
  BY ONLY MaxNodes \in Nat, <1>r DEF Laid
<1>9. ListRep(Ins(s, at + 1, d), head', count', next', freed', pc')
  <2>1. /\ Len(s) + 1 \in Nat /\ Len(s) + 1 <= Len(next') /\ Len(next') <= MaxNodes
        /\ freed \subseteq 1 .. Len(next')
    <3>1. Len(s) + 1 \in Nat /\ Len(s) + 1 <= Len(next') /\ Len(next') <= MaxNodes
      BY ONLY <1>0, <1>5, <1>r, MaxNodes \in Nat DEF Laid
    <3>2. 1 .. Len(next) \subseteq 1 .. Len(next')
      BY ONLY <1>5, <1>r DEF Laid
    <3> QED BY ONLY <3>1, <3>2, <1>r DEF Laid
  <2> QED BY ONLY <2>1, <1>0, <1>5, <1>6, <1>7, <1>r, RepIdle
<1> QED BY ONLY <1>0, <1>1, <1>8, <1>9, Zenon DEF Goes, Moves, Inserts

\* list_remove_at unlinks a node behind the head.
LEMMA RemoveGoes ==
    ASSUME MaxNodes \in Nat, NEW s, Represents(s), NEW at \in 1 .. MaxNodes, ListRemoveAt(at)
    PROVE  Goes(s)
<1>0. pc = "idle" /\ at \in 1 .. count - 1
      /\ count' = count - 1 /\ head' = head /\ pc' = pc /\ Call("list_remove_at", at)
  BY ONLY ListRemoveAt(at) DEF ListRemoveAt, Idle, Called, Call
<1>r. Laid(s) /\ Len(s) = count /\ Len(s) <= Len(next)
  BY ONLY <1>0, MaxNodes \in Nat, Represents(s), RepFacts
<1>1. /\ at + 1 \in 1 .. Len(s) /\ at + 1 # 1 /\ at + 1 > 1 /\ (at + 1) - 1 = at
      /\ at - 1 \in 0 .. MaxNodes /\ at - 1 < Len(s) /\ (at - 1) + 1 = at
      /\ at \in 1 .. Len(s) /\ at # Len(s)
  BY ONLY <1>0, MaxNodes \in Nat, <1>r DEF Laid
<1>2. Walk[at - 1] = s[at]
  BY ONLY <1>1, MaxNodes \in Nat, Represents(s), WalkIs DEF Steps
<1>3. next[s[at]] = s[at + 1]
  BY ONLY <1>1, MaxNodes \in Nat, <1>r DEF Spells, Laid
<1>4. next' = [next EXCEPT ![s[at]] = next[s[at + 1]]] /\ freed' = freed \cup {s[at + 1]}
  BY ONLY ListRemoveAt(at), <1>2, <1>3 DEF ListRemoveAt
<1>5. /\ s[at] \in 1 .. Len(next) /\ s[at + 1] \in 1 .. Len(next)
      /\ next[s[at + 1]] \in 0 .. MaxNodes
  <2>1. s[at] \in 1 .. Len(next) /\ s[at + 1] \in 1 .. Len(next)
    BY ONLY <1>1, <1>r DEF Laid
  <2> QED BY ONLY <2>1, <1>r DEF Laid
<1>6. /\ next' \in Seq(0 .. MaxNodes) /\ Len(next') = Len(next)
      /\ \A k \in 1 .. Len(next) : next'[k] = IF k = s[at] THEN next[s[at + 1]] ELSE next[k]
  <2> DEFINE x == next[s[at + 1]]
             e == s[at]
  <2>1. e \in 1 .. Len(next) /\ x \in 0 .. MaxNodes /\ next' = [next EXCEPT ![e] = x]
        /\ next \in Seq(0 .. MaxNodes)
    BY ONLY <1>4, <1>5, <1>r DEF Laid
  <2> HIDE DEF x, e
  <2>2. /\ next' \in Seq(0 .. MaxNodes) /\ Len(next') = Len(next)
        /\ \A k \in 1 .. Len(next) : next'[k] = IF k = e THEN x ELSE next[k]
    BY ONLY <2>1
  <2> QED BY ONLY <2>2 DEF x, e
<1>7. Spells(Rem(s, at + 1), head, next', freed \cup {s[at + 1]})
  <2>1. \A k \in 1 .. Len(next) :
            next'[k] = IF at + 1 > 1 /\ k = s[(at + 1) - 1] THEN next[s[at + 1]] ELSE next[k]
    BY ONLY <1>1, <1>6
  <2>2. Spells(Rem(s, at + 1), IF at + 1 = 1 THEN next[head] ELSE head, next', freed \cup {s[at + 1]})
    BY ONLY <2>1, <1>1, <1>6, <1>r, SpellsRemove, Zenon DEF Laid
  <2> QED BY ONLY <2>2, <1>1
<1>8. Len(s) - 1 \in Nat /\ Len(s) - 1 <= Len(next)
  BY ONLY <1>1, <1>r DEF Laid
<1>9. Len(Rem(s, at + 1)) = Len(s) - 1
  BY ONLY <1>8 DEF Rem
<1>10. ListRep(Rem(s, at + 1), head', count', next', freed', "idle")
  <2>1. freed' \subseteq 1 .. Len(next') /\ Len(next') <= MaxNodes
    BY ONLY <1>4, <1>5, <1>6, <1>r DEF Laid
  <2> QED BY ONLY <2>1, <1>0, <1>4, <1>6, <1>7, <1>8, <1>9, <1>r, RepIdle
<1> QED BY ONLY <1>0, <1>1, <1>4, <1>10, Zenon DEF Goes, Moves, Removes

\* Every step leads from a list to a list.
LEMMA ListGoes ==
    ASSUME MaxNodes \in Nat, NEW s, Represents(s), [ListNext]_listVars
    PROVE  Goes(s)
<1>1. CASE UNCHANGED listVars
  <2>1. /\ head' = head /\ count' = count /\ next' = next /\ freed' = freed /\ pc' = pc
        /\ call' = call
    BY <1>1 DEF listVars
  <2> QED BY ONLY <2>1, Represents(s), Zenon DEF Goes, Moves, Stays, Represents
<1>2. CASE ListPop
  BY ONLY <1>2, MaxNodes \in Nat, Represents(s), PopGoes, PopNoneGoes
<1>3. CASE PushNode \/ PushHead \/ PushCount
  BY ONLY <1>3, MaxNodes \in Nat, Represents(s), PushNodeGoes, PushHeadGoes, PushCountGoes
<1>4. ASSUME NEW at \in Node, ListInsertAt(at) \/ ListRemoveAt(at) PROVE Goes(s)
  BY ONLY <1>4, MaxNodes \in Nat, Represents(s), InsertGoes, RemoveGoes DEF Node
<1> QED BY ONLY <1>1, <1>2, <1>3, <1>4, [ListNext]_listVars, Zenon DEF ListNext

\* The empty list.
LEMMA ListStart ==
    ASSUME MaxNodes \in Nat, ListInit
    PROVE  Represents(<<>>)
BY DEF ListInit, NULL, Represents, ListRep, Spells

\* What walks rely on follows from the invariant.
LEMMA ListSafe ==
    ASSUME MaxNodes \in Nat, NEW s, Represents(s)
    PROVE  WalkSound
<1> DEFINE at(k) == list_get_node_at(k)
<1>0. Laid(s)
  BY RepFacts
<1>1. Len(s) \in Nat /\ count \in Nat /\ count <= Len(s) /\ Len(s) <= MaxNodes
      /\ (pc # "head" => count = Len(s))
  <2>1. Len(s) \in Nat /\ count \in Nat
    BY ONLY <1>0 DEF Laid
  <2>2. Len(s) = IF pc = "head" THEN count + 1 ELSE count
    BY ONLY Represents(s) DEF Represents, ListRep
  <2>3. Len(s) \in 0 .. MaxNodes
    BY WalkIs
  <2> QED BY ONLY <2>1, <2>2, <2>3, MaxNodes \in Nat
<1>2. ASSUME NEW k \in 0 .. count - 1
      PROVE  at(k) = s[k + 1] /\ k + 1 \in 1 .. count /\ k + 1 \in 1 .. Len(s)
  <2>1. k \in 0 .. MaxNodes /\ k < Len(s) /\ ~(k >= count) /\ k + 1 \in 1 .. count /\ k + 1 \in 1 .. Len(s)
    BY ONLY <1>1, <1>2, MaxNodes \in Nat
  <2> QED BY ONLY <2>1, MaxNodes \in Nat, Represents(s), WalkIs DEF list_get_node_at, Steps
<1> HIDE DEF at
<1>3. \A k \in 1 .. Len(s) : s[k] \in Node \ freed
  <2>1. 1 .. Len(next) \subseteq 1 .. MaxNodes
    BY ONLY <1>0, MaxNodes \in Nat DEF Laid
  <2> QED BY ONLY <2>1, <1>0 DEF Laid, Spells, Node
<1>4. \A k \in 0 .. count - 1 : at(k) \in Node \ freed
  BY ONLY <1>2, <1>3
<1>5. ASSUME NEW j \in 0 .. count - 1, NEW k \in 0 .. count - 1, at(j) = at(k) PROVE j = k
  <2>1. j + 1 \in 1 .. Len(s) /\ k + 1 \in 1 .. Len(s) /\ s[j + 1] = s[k + 1]
    BY ONLY <1>2, <1>5
  <2>2. j + 1 = k + 1
    BY ONLY <2>1, <1>0, Zenon DEF Laid, Spells
  <2> QED BY ONLY <2>2, <1>1, <1>5
<1>6. ASSUME pc # "head"
      PROVE  {at(k) : k \in 0 .. count - 1} = {Elems[k] : k \in DOMAIN Elems}
  <2>1. Elems = s /\ DOMAIN s = 1 .. count
    BY <1>0, <1>1, <1>6, ElemsIs DEF Laid
  <2>2. \A k \in 1 .. count : k - 1 \in 0 .. count - 1 /\ (k - 1) + 1 = k
    BY ONLY <1>1
  <2> QED BY ONLY <1>2, <2>1, <2>2
<1> QED BY ONLY <1>4, <1>5, <1>6, Zenon DEF WalkSound, at

\* A handler that walks the list by list_get_at finds a different element of it, none of
\* them freed, at every position below count, also when it interrupts list_push.
THEOREM ListCorrect ==
    ASSUME MaxNodes \in Nat
    PROVE  ListOperations => []WalkSound
<1>1. ListInit => ListInv
  BY ListStart DEF ListInv
<1>2. ListInv /\ [ListNext]_listVars => ListInv'
  BY ListGoes DEF ListInv, Goes, Represents
<1>3. ListInv => WalkSound
  BY ListSafe DEF ListInv
<1> QED BY <1>1, <1>2, <1>3, PTL DEF ListOperations

\* What the links spell is the abstract list.
ListMap == \A s : Represents(s) => Elems = s

\* Every step does to the abstract list what its call promises, or leaves it alone.
LEMMA ListMaps ==
    ASSUME MaxNodes \in Nat, ListMap, ListMap', ListInv, [ListNext]_listVars
    PROVE  [Abstract!Next]_<<Elems, freed, call>>
<1>1. PICK s : Represents(s)
  BY ONLY ListInv DEF ListInv
<1>2. PICK t : ListRep(t, head', count', next', freed', pc') /\ Moves(s, t)
  BY ONLY <1>1, MaxNodes \in Nat, [ListNext]_listVars, ListGoes DEF Goes
<1>3. Elems = s /\ Elems' = t
  BY ONLY <1>1, <1>2, ListMap, ListMap' DEF ListMap, Represents
<1>4. s \in Seq(1 .. MaxNodes) /\ Len(s) \in Nat
  <2>1. Laid(s)
    BY ONLY <1>1, MaxNodes \in Nat, RepFacts
  <2>2. 1 .. Len(next) \subseteq 1 .. MaxNodes
    BY ONLY <2>1, MaxNodes \in Nat DEF Laid
  <2> QED BY ONLY <2>1, <2>2, SeqMonotonic, Zenon DEF Laid
<1>5. ASSUME NEW at \in 0 .. Len(s), NEW d \in 1 .. MaxNodes,
             d \notin freed, t = Ins(s, at + 1, d), freed' = freed
      PROVE  Abstract!Insert(at, d)
  <2>1. PICK e : e = at + 1
    BY Zenon
  <2>2. e \in 1 .. Len(s) + 1 /\ e - 1 = at
    BY ONLY <1>4, <2>1, at \in 0 .. Len(s)
  <2>3. t = SubSeq(s, 1, e - 1) \o <<d>> \o SubSeq(s, e, Len(s))
    BY ONLY <1>4, <1>5, <2>1, <2>2, InsIs, Zenon
  <2>4. t = SubSeq(s, 1, at) \o <<d>> \o SubSeq(s, at + 1, Len(s))
    BY ONLY <2>1, <2>2, <2>3, Zenon
  <2> QED BY ONLY <1>3, <1>5, <2>4, Zenon DEF Abstract!Insert
<1>6. ASSUME NEW at \in 0 .. Len(s) - 1, t = Rem(s, at + 1), freed' = freed \cup {s[at + 1]}
      PROVE  Abstract!Delete(at)
  <2>1. PICK e : e = at + 1
    BY Zenon
  <2>2. e \in 1 .. Len(s) /\ e - 1 = at /\ e + 1 = at + 2
    BY ONLY <1>4, <2>1, at \in 0 .. Len(s) - 1
  <2>3. t = SubSeq(s, 1, e - 1) \o SubSeq(s, e + 1, Len(s))
    BY ONLY <1>4, <1>6, <2>1, <2>2, RemIs, Zenon
  <2>4. t = SubSeq(s, 1, at) \o SubSeq(s, at + 2, Len(s))
    BY ONLY <2>2, <2>3, Zenon
  <2> QED BY ONLY <1>3, <1>6, <2>4, Zenon DEF Abstract!Delete
<1>7. CASE Stays(s, t)
  BY ONLY <1>3, <1>7 DEF Stays
<1>8. ASSUME NEW d \in 1 .. MaxNodes, Pushes(s, t, d) PROVE Abstract!Next
  <2>1. 0 \in 0 .. Len(s) /\ 0 + 1 = 1
    BY ONLY <1>4
  <2>2. Abstract!Insert(0, d)
    BY ONLY <1>5, <1>8, <2>1, Zenon DEF Pushes
  <2> QED BY ONLY <1>8, <2>2, Zenon DEF Abstract!Next, Abstract!Push, Pushes, Call, Node
<1>9. ASSUME NEW at \in 1 .. Len(s), NEW d \in 1 .. MaxNodes, Inserts(s, t, at, d) PROVE Abstract!Next
  <2>1. at \in 0 .. Len(s)
    BY ONLY <1>4, at \in 1 .. Len(s)
  <2>2. Abstract!Insert(at, d)
    BY ONLY <1>5, <1>9, <2>1, Zenon DEF Inserts
  <2> QED BY ONLY <1>3, <1>9, <2>2, Zenon DEF Abstract!Next, Abstract!InsertAt, Inserts, Call, Node
<1>10. CASE PopsNone(s, t)
  <2>1. s = <<>>
    BY ONLY <1>4, <1>10 DEF PopsNone
  <2> QED BY ONLY <1>3, <1>10, <2>1, Zenon DEF Abstract!Next, Abstract!Pop, PopsNone, Call
<1>11. CASE Pops(s, t)
  <2>1. 0 \in 0 .. Len(s) - 1 /\ 0 + 1 = 1
    BY ONLY <1>4, <1>11 DEF Pops
  <2>2. Abstract!Delete(0)
    BY ONLY <1>6, <1>11, <2>1, Zenon DEF Pops
  <2> QED BY ONLY <1>11, <2>2, Zenon DEF Abstract!Next, Abstract!Pop, Pops, Call
<1>12. ASSUME NEW at \in 1 .. Len(s), Removes(s, t, at) PROVE Abstract!Next
  <2>1. at \in 0 .. Len(s) - 1
    BY ONLY <1>4, <1>12, at \in 1 .. Len(s) DEF Removes
  <2>2. Abstract!Delete(at)
    BY ONLY <1>6, <1>12, <2>1, Zenon DEF Removes
  <2> QED BY ONLY <1>3, <1>12, <2>2, Zenon DEF Abstract!Next, Abstract!RemoveAt, Removes, Call
<1> QED BY ONLY <1>2, <1>7, <1>8, <1>9, <1>10, <1>11, <1>12, Zenon DEF Moves

\* The links implement the sequence that list.h promises: list_push and list_insert_at
\* add one element, list_pop and list_remove_at take one out and free it, each exactly at
\* the position of the call, and the others keep their order.
THEOREM ListRefinement ==
    ASSUME MaxNodes \in Nat
    PROVE  ListOperations => ImplementsListSpec
<1>1. ListInit => ListInv
  BY ListStart DEF ListInv
<1>2. ListInv /\ [ListNext]_listVars => ListInv'
  BY ListGoes DEF ListInv, Goes, Represents
<1>3. ListInit => Abstract!Init
  BY ListStart, ElemsIs DEF ListInit, Abstract!Init
<1>4. ListMap
  BY ElemsIs DEF ListMap
<1>5. ListMap /\ ListMap' /\ ListInv /\ [ListNext]_listVars => [Abstract!Next]_<<Elems, freed, call>>
  BY ListMaps
<1> QED BY <1>1, <1>2, <1>3, <1>4, <1>5, PTL DEF ListOperations, ImplementsListSpec, Abstract!Spec

-----------------------------------------------------------------------------
(* load_elf_binary.                                                        *)

\* The fields of a program header are unsigned.
Headers == [p_type : STRING, p_vaddr : Nat, p_offset : Nat, p_filesz : Nat, p_memsz : Nat]

\* PAGE_SIZE of include/mem/mem.h.
KernelPages == PAGE_SIZE = 4096

\* The file may hold any number of headers of any type.
ElfInput == KernelPages /\ Programs \subseteq Seq(Headers)

\* The byte of a segment at k, in the image the ELF format describes.
ByteOf(h, k) == IF k < h.p_filesz THEN h.p_offset + k ELSE ZERO

\* The k-th byte of the segment is in memory.
InPlace(h, k) ==
    /\ (h.p_vaddr + k) \div PAGE_SIZE \in DOMAIN mem
    /\ At(h.p_vaddr + k) = ByteOf(h, k)

\* What the inner loop has done for its segment: the pages below off.
Current ==
    \A k \in 0 .. ph.p_memsz - 1 :
        (ph.p_vaddr % PAGE_SIZE) + k < off => InPlace(ph, k)

\* The inductive invariant.
ElfInv ==
    /\ pheaders \in Programs
    /\ segment \in Nat /\ segment >= 1 /\ segment <= Len(pheaders) + 1
    /\ off \in Nat /\ off % PAGE_SIZE = 0
    /\ segment <= Len(pheaders) => Current
    /\ ProgramLoaded

\* What is known of a program header.
LEMMA HeaderFacts ==
    ASSUME ElfInput, pheaders \in Programs, NEW h \in 1 .. Len(pheaders)
    PROVE  /\ pheaders[h].p_vaddr \in Nat /\ pheaders[h].p_offset \in Nat
           /\ pheaders[h].p_filesz \in Nat /\ pheaders[h].p_memsz \in Nat
           /\ Len(pheaders) \in Nat
<1>1. pheaders \in Seq(Headers)
  BY DEF ElfInput
<1>2. pheaders[h] \in Headers /\ Len(pheaders) \in Nat
  BY <1>1
<1> QED BY <1>2 DEF Headers

\* Places in a page.
LEMMA Remainder ==
    ASSUME KernelPages, NEW v \in Nat
    PROVE  /\ v % PAGE_SIZE \in Nat /\ v % PAGE_SIZE < PAGE_SIZE /\ v \div PAGE_SIZE \in Nat
           /\ v % PAGE_SIZE = 0 => (v + PAGE_SIZE) % PAGE_SIZE = 0 /\ (v # 0 => v >= PAGE_SIZE)
           /\ 0 \div PAGE_SIZE = 0 /\ 0 % PAGE_SIZE = 0 /\ PAGE_SIZE \in Nat
<1>0. PAGE_SIZE = 4096
  BY DEF KernelPages
<1> QED BY <1>0

\* The frame that LoadPage maps holds the bytes of the segment that belong there.
LEMMA FrameHolds ==
    ASSUME KernelPages, ph.p_vaddr \in Nat, ph.p_offset \in Nat,
           ph.p_filesz \in Nat, ph.p_memsz \in Nat, off \in Nat, off % PAGE_SIZE = 0,
           NEW k \in 0 .. ph.p_memsz - 1,
           (ph.p_vaddr + k) \div PAGE_SIZE
               = ph.p_vaddr \div PAGE_SIZE + off \div PAGE_SIZE
    PROVE  Frame[(ph.p_vaddr + k) % PAGE_SIZE] =
               IF k < ph.p_filesz THEN ph.p_offset + k ELSE -1
<1>0. PAGE_SIZE = 4096
  BY DEF KernelPages
<1> DEFINE v == ph.p_vaddr
           o == ph.p_offset
           n == ph.p_filesz
           b == (v + k) % 4096
           r == v % 4096
           d == dest_page_offset
           f == file_read_offset
           y == byte_to_copy
<1>1. /\ b \in Nat /\ b < 4096 /\ r \in Nat /\ r < 4096 /\ r + k = off + b
      /\ off # 0 => off >= 4096
  <2>1. v = 4096 * (v \div 4096) + r /\ v + k = 4096 * ((v + k) \div 4096) + b
    BY <1>0
  <2>2. off = 4096 * (off \div 4096)
    BY <1>0
  <2>3. v \div 4096 \in Int /\ off \div 4096 \in Int /\ b \in Nat /\ b < 4096 /\ r \in Nat /\ r < 4096
    BY <1>0
  <2> HIDE DEF b, r
  <2> QED BY <1>0, <2>1, <2>2, <2>3
<1>2. /\ d = IF off = 0 THEN r ELSE 0
      /\ f = IF off = 0 THEN 0 ELSE off - r
  BY <1>0 DEF dest_page_offset, file_read_offset, page_offset
<1>3. y = IF n - f <= 0 THEN 0 ELSE IF n - f > 4096 - d THEN 4096 - d ELSE n - f
  BY <1>0 DEF byte_to_copy
<1>t. v \in Nat /\ o \in Nat /\ n \in Nat /\ k \in Nat
  <2>1. k \in Nat
    BY ONLY ph.p_memsz \in Nat, k \in 0 .. ph.p_memsz - 1
  <2> QED BY <2>1
<1>4. b \in Byte
  <2> HIDE DEF b
  <2> QED BY ONLY <1>0, <1>1 DEF Byte
<1>5. Frame[b] = IF b < d THEN -2 ELSE IF b < d + y THEN o + f + (b - d) ELSE -1
  BY <1>4 DEF Frame, STALE, ZERO
<1> HIDE DEF v, o, n, b, r, d, f, y
<1>6. k = f + (b - d) /\ b >= d /\ d \in Nat /\ f \in Nat
  BY ONLY <1>t, <1>1, <1>2, off \in Nat
<1>7. b < d + y <=> k < n
  BY ONLY <1>t, <1>1, <1>3, <1>6
<1>8. Frame[b] = IF k < n THEN o + k ELSE -1
  BY ONLY <1>t, <1>1, <1>5, <1>6, <1>7
<1> QED BY ONLY <1>0, <1>8 DEF b, v, o, n

\* Whole pages of a segment that starts r bytes into its first one.
LEMMA TotalSize ==
    ASSUME KernelPages, NEW v \in Nat, NEW z \in Nat,
           ph.p_vaddr = v, ph.p_memsz = z
    PROVE  /\ total_size = PAGE_SIZE * (((v % PAGE_SIZE) + z + PAGE_SIZE - 1) \div PAGE_SIZE)
           /\ total_size >= (v % PAGE_SIZE) + z
           /\ (v + z + PAGE_SIZE - 1) \div PAGE_SIZE = v \div PAGE_SIZE + ((v % PAGE_SIZE) + z + PAGE_SIZE - 1) \div PAGE_SIZE
<1>0. PAGE_SIZE = 4096
  BY DEF KernelPages
<1> DEFINE r == v % 4096
           s == r + z
<1>1. r \in Nat /\ r < 4096 /\ v = 4096 * (v \div 4096) + r /\ v \div 4096 \in Int
  OBVIOUS
<1>2. total_size = IF s % 4096 # 0 THEN (s \div 4096 + 1) * 4096 ELSE s
  BY <1>0 DEF total_size, page_offset
<1> HIDE DEF r
<1>3. s \in Nat
  BY <1>1
<1>4. v + z + 4095 = 4096 * (v \div 4096) + (s + 4095)
  BY <1>1
<1> HIDE DEF s
<1>5. /\ (IF s % 4096 # 0 THEN (s \div 4096 + 1) * 4096 ELSE s) = 4096 * ((s + 4095) \div 4096)
      /\ 4096 * ((s + 4095) \div 4096) >= s
  BY <1>3
<1>6. (4096 * (v \div 4096) + (s + 4095)) \div 4096 = v \div 4096 + (s + 4095) \div 4096
  BY <1>1, <1>3
<1> QED BY <1>0, <1>2, <1>4, <1>5, <1>6 DEF s, r

\* The page of a byte of a segment is one of the segment's.
LEMMA ByteInPages ==
    ASSUME KernelPages, NEW h, h.p_vaddr \in Nat, h.p_memsz \in Nat,
           NEW k \in 0 .. h.p_memsz - 1
    PROVE  (h.p_vaddr + k) \div PAGE_SIZE \in Pages(h)
<1>0. PAGE_SIZE = 4096
  BY DEF KernelPages
<1> DEFINE v == h.p_vaddr
           z == h.p_memsz
<1>1. v \in Nat /\ z \in Nat /\ k \in Nat /\ k < z
  OBVIOUS
<1>2. Pages(h) = v \div 4096 .. (v + z + 4096 - 1) \div 4096 - 1
  BY <1>0 DEF Pages
<1> HIDE DEF v, z
<1>3. (v + k) \div 4096 >= v \div 4096 /\ (v + k) \div 4096 <= (v + z + 4096 - 1) \div 4096 - 1
  BY <1>1
<1> QED BY <1>0, <1>1, <1>2, <1>3 DEF v

\* Which page a byte k of a segment at v is in, r bytes into the first page.
LEMMA PageOf ==
    ASSUME KernelPages, NEW v \in Nat, NEW k \in Nat, NEW o \in Nat, o % PAGE_SIZE = 0
    PROVE  /\ (v % PAGE_SIZE) + k < o => (v + k) \div PAGE_SIZE # v \div PAGE_SIZE + o \div PAGE_SIZE
           /\ (v % PAGE_SIZE) + k >= o /\ (v % PAGE_SIZE) + k < o + PAGE_SIZE
                 => (v + k) \div PAGE_SIZE = v \div PAGE_SIZE + o \div PAGE_SIZE
<1>0. PAGE_SIZE = 4096
  BY DEF KernelPages
<1> DEFINE r == v % 4096
           q == v \div 4096
           s == o \div 4096
<1>1. r \in Nat /\ r < 4096 /\ q \in Int /\ s \in Int /\ v = 4096 * q + r /\ o = 4096 * s
  BY <1>0
<1> HIDE DEF r, q, s
<1>2. (v + k) \div 4096 = q + (r + k) \div 4096
  BY <1>1
<1>3. r + k \in Nat
  BY <1>1
<1>4. r + k < 4096 * s => (r + k) \div 4096 < s
  BY <1>1, <1>3
<1>5. r + k >= 4096 * s /\ r + k < 4096 * s + 4096 => (r + k) \div 4096 = s
  BY <1>1, <1>3
<1>6. (r + k) \div 4096 \in Int
  BY <1>3
<1> QED BY <1>0, <1>1, <1>2, <1>4, <1>5, <1>6 DEF r, q, s

\* A turn of the inner loop.
LEMMA LoadPageInv ==
    ASSUME ElfInput, ElfInv, LoadPage
    PROVE  ElfInv'
<1> DEFINE v == ph.p_vaddr
           r == v % PAGE_SIZE
           z == ph.p_memsz
           page == v \div PAGE_SIZE + off \div PAGE_SIZE
<1>k. KernelPages
  BY DEF ElfInput
<1>1. /\ PAGE_SIZE \in Nat /\ PAGE_SIZE > 0 /\ pheaders \in Programs /\ segment \in 1 .. Len(pheaders)
      /\ off \in Nat /\ off % PAGE_SIZE = 0 /\ Len(pheaders) \in Nat
  BY DEF KernelPages, ElfInput, ElfInv, LoadPage
<1>2. v \in Nat /\ ph.p_offset \in Nat /\ ph.p_filesz \in Nat /\ z \in Nat
  BY <1>1, HeaderFacts DEF ph
<1>3. /\ ph.p_type = "PT_LOAD" /\ off < total_size
      /\ mem' = [p \in DOMAIN mem \union {page} |-> IF p = page THEN Frame ELSE mem[p]]
      /\ off' = off + PAGE_SIZE /\ pheaders' = pheaders /\ segment' = segment
  BY <1>1 DEF LoadPage
<1>4. ph' = ph /\ ph = pheaders[segment]
  BY <1>3 DEF ph
<1>5. Current /\ SegmentsInPlace /\ StaleOnlyBelowStart
  BY <1>1 DEF ElfInv, ProgramLoaded
<1>6. /\ DOMAIN mem' = DOMAIN mem \union {page} /\ mem'[page] = Frame
      /\ \A p \in DOMAIN mem : p # page => mem'[p] = mem[p]
  BY <1>3
<1>v. /\ v = ph.p_vaddr /\ z = ph.p_memsz /\ ph = ph
      /\ page = v \div PAGE_SIZE + off \div PAGE_SIZE
      /\ r = v % PAGE_SIZE /\ r \in Nat /\ r < PAGE_SIZE /\ v \div PAGE_SIZE \in Nat
  BY ONLY <1>k, <1>2, Remainder, Zenon
<1>c. \A k \in 0 .. z - 1 : r + k < off => InPlace(ph, k)
  BY <1>1, <1>5 DEF Current
<1>n. Current' <=> \A k \in 0 .. z - 1 : r + k < off' => InPlace(ph, k)'
  BY <1>1, <1>4 DEF Current
<1>s. /\ total_size = PAGE_SIZE * ((r + z + PAGE_SIZE - 1) \div PAGE_SIZE)
      /\ (v + z + PAGE_SIZE - 1) \div PAGE_SIZE = v \div PAGE_SIZE + (r + z + PAGE_SIZE - 1) \div PAGE_SIZE
  BY ONLY <1>k, <1>1, <1>2, TotalSize, Zenon
<1>p. \A k \in Nat : /\ r + k < off => (v + k) \div PAGE_SIZE # page
                     /\ r + k >= off /\ r + k < off + PAGE_SIZE => (v + k) \div PAGE_SIZE = page
  BY ONLY <1>k, <1>1, <1>2, PageOf, Zenon
<1>f. \A k \in 0 .. z - 1 : (v + k) \div PAGE_SIZE = page =>
           Frame[(v + k) % PAGE_SIZE] = IF k < ph.p_filesz THEN ph.p_offset + k ELSE -1
  BY ONLY <1>k, <1>1, <1>2, FrameHolds, Zenon
<1> HIDE DEF ph, v, r, z, page
<1>7. page \in Pages(ph)
  <2> DEFINE T == (r + z + PAGE_SIZE - 1) \div PAGE_SIZE
  <2>1. /\ total_size = PAGE_SIZE * T
        /\ (v + z + PAGE_SIZE - 1) \div PAGE_SIZE = v \div PAGE_SIZE + T
    BY ONLY <1>s
  <2>2. Pages(ph) = v \div PAGE_SIZE .. (v + z + PAGE_SIZE - 1) \div PAGE_SIZE - 1
    BY <1>1, <1>2, <1>v DEF Pages
  <2>3. T \in Int /\ v \div PAGE_SIZE \in Int
    <3>0. r \in Nat /\ z \in Nat /\ PAGE_SIZE \in Nat /\ PAGE_SIZE > 0
      BY ONLY <1>1, <1>2, <1>v, Zenon
    <3>1. r + z + PAGE_SIZE - 1 \in Nat
      BY ONLY <3>0
    <3> QED BY <1>k, <3>1, <1>v, Remainder
  <2> HIDE DEF T
  <2>4. off \div PAGE_SIZE >= 0 /\ off \div PAGE_SIZE <= T - 1 /\ off \div PAGE_SIZE \in Int
    BY ONLY <1>1, <1>3, <2>1, <2>3
  <2> QED BY ONLY <1>v, <2>1, <2>2, <2>3, <2>4
<1>8. ASSUME NEW k \in 0 .. z - 1, r + k < off + PAGE_SIZE
      PROVE  InPlace(ph, k)'
  <2>1. k \in Nat
    BY <1>2
  <2>2. CASE r + k < off
    <3>1. InPlace(ph, k)
      BY <1>c, <2>2
    <3>2. (v + k) \div PAGE_SIZE # page
      BY ONLY <1>p, <2>1, <2>2
    <3> QED BY <1>1, <1>4, <1>6, <1>v, <3>1, <3>2 DEF InPlace, At, ByteOf
  <2>3. CASE r + k >= off
    <3>1. (v + k) \div PAGE_SIZE = page
      BY ONLY <1>p, <1>8, <2>1, <2>3
    <3>2. Frame[(v + k) % PAGE_SIZE] = IF k < ph.p_filesz THEN ph.p_offset + k ELSE -1
      BY ONLY <1>f, <3>1, k \in 0 .. z - 1
    <3> QED BY <1>1, <1>4, <1>6, <1>v, <3>1, <3>2 DEF InPlace, At, ByteOf, ZERO
  <2> QED BY ONLY <1>1, <1>v, <2>1, <2>2, <2>3
<1>9. Current'
  BY ONLY <1>3, <1>8, <1>n
<1>10. SegmentsInPlace'
  <2>1. ASSUME NEW h \in 1 .. segment - 1, pheaders[h].p_type = "PT_LOAD",
               KeepsPages(h), NEW k \in 0 .. pheaders[h].p_memsz - 1
        PROVE  InPlace(pheaders[h], k)'
    <3>1. InPlace(pheaders[h], k)
      BY <1>5, <2>1 DEF SegmentsInPlace, InPlace, ByteOf
    <3>2. h \in 1 .. Len(pheaders) /\ segment \in h + 1 .. Len(pheaders)
      BY <1>1
    <3>3. (pheaders[h].p_vaddr + k) \div PAGE_SIZE \in Pages(pheaders[h])
      <4>1. pheaders[h].p_vaddr \in Nat /\ pheaders[h].p_memsz \in Nat
        BY <1>1, <3>2, HeaderFacts
      <4> QED BY ONLY <1>k, <4>1, k \in 0 .. pheaders[h].p_memsz - 1, ByteInPages, Zenon
    <3>4. Pages(pheaders[h]) \cap Pages(ph) = {}
      BY ONLY <1>3, <1>4, <2>1, <3>2 DEF KeepsPages
    <3>5. (pheaders[h].p_vaddr + k) \div PAGE_SIZE # page
      BY ONLY <1>7, <3>3, <3>4
    <3> QED BY <1>1, <1>3, <1>6, <3>1, <3>5 DEF InPlace, At, ByteOf
  <2>2. \A h : KeepsPages(h)' <=> KeepsPages(h)
    BY <1>3 DEF KeepsPages, Pages
  <2> QED BY <1>1, <1>3, <2>1, <2>2 DEF SegmentsInPlace, InPlace, ByteOf
<1>11. StaleOnlyBelowStart'
  <2> DEFINE Below(p, b) == \E h \in 1 .. Len(pheaders) :
                               /\ p = pheaders[h].p_vaddr \div PAGE_SIZE
                               /\ b < pheaders[h].p_vaddr % PAGE_SIZE
  <2>1. \A p \in DOMAIN mem, b \in Byte : mem[p][b] = -2 => Below(p, b)
    BY ONLY <1>5 DEF StaleOnlyBelowStart, STALE
  <2>2. (\A p \in DOMAIN mem', b \in Byte : mem'[p][b] = -2 => Below(p, b))
           => StaleOnlyBelowStart'
    BY ONLY <1>3, Zenon DEF StaleOnlyBelowStart, STALE, Byte
  <2>3. ASSUME NEW b \in Byte, Frame[b] = -2 PROVE Below(page, b)
    <3> DEFINE d == dest_page_offset
               f == file_read_offset
               y == byte_to_copy
    <3>0. b \in Nat /\ b < PAGE_SIZE
      BY <1>1 DEF Byte
    <3>1. Frame[b] = IF b < d THEN -2
                            ELSE IF b < d + y THEN ph.p_offset + f + (b - d) ELSE -1
      BY <1>v DEF Frame, STALE, ZERO
    <3>2. /\ d = IF off = 0 THEN r ELSE 0
          /\ f = IF off = 0 THEN 0 ELSE off - r
      BY <1>1, <1>v DEF dest_page_offset, file_read_offset, page_offset
    <3> HIDE DEF d, f, y
    <3>3. off # 0 => off >= PAGE_SIZE
      BY ONLY <1>1
    <3>5. f \in Nat /\ d \in Nat
      BY ONLY <3>2, <3>3, <1>1, <1>v
    <3>6. b < d
      BY ONLY <3>0, <3>1, <2>3, <3>5, <1>2
    <3>7. off = 0 /\ b < r
      BY ONLY <3>0, <3>2, <3>6
    <3>8. page = ph.p_vaddr \div PAGE_SIZE /\ b < ph.p_vaddr % PAGE_SIZE
      BY ONLY <1>k, <3>7, <1>2, <1>v, Remainder
    <3> QED BY ONLY <1>1, <1>4, <3>8
  <2> HIDE DEF Below
  <2>4. \A p \in DOMAIN mem', b \in Byte : mem'[p][b] = -2 => Below(p, b)
    BY ONLY <1>6, <2>1, <2>3
  <2> QED BY ONLY <2>2, <2>4
<1>12. off' \in Nat /\ off' % PAGE_SIZE = 0
  BY ONLY <1>k, <1>1, <1>3, Remainder
<1> QED BY <1>1, <1>3, <1>9, <1>10, <1>11, <1>12 DEF ElfInv, ProgramLoaded

\* The outer loop goes on: the segment it leaves is whole.
LEMMA NextHeaderInv ==
    ASSUME ElfInput, ElfInv, NextHeader
    PROVE  ElfInv'
<1> DEFINE v == ph.p_vaddr
           z == ph.p_memsz
<1>k. KernelPages
  BY DEF ElfInput
<1>1. /\ PAGE_SIZE \in Nat /\ PAGE_SIZE > 0 /\ pheaders \in Programs /\ segment \in 1 .. Len(pheaders)
      /\ Len(pheaders) \in Nat /\ segment \in Nat /\ off \in Nat
  BY DEF KernelPages, ElfInput, ElfInv, NextHeader
<1>2. v \in Nat /\ z \in Nat
  BY <1>1, HeaderFacts DEF ph
<1>3. /\ ph.p_type = "PT_LOAD" => off >= total_size
      /\ segment' = segment + 1 /\ off' = 0 /\ pheaders' = pheaders /\ mem' = mem
  BY DEF NextHeader
<1>4. Current /\ SegmentsInPlace /\ StaleOnlyBelowStart
  BY <1>1 DEF ElfInv, ProgramLoaded
<1>5. total_size >= (v % PAGE_SIZE) + z /\ v % PAGE_SIZE \in Nat
  <2>1. total_size >= (v % PAGE_SIZE) + z
    BY ONLY <1>k, <1>1, <1>2, TotalSize, Zenon
  <2> QED BY ONLY <1>k, <2>1, <1>2, Remainder, Zenon
<1>6. \A k \in 0 .. z - 1 : (v % PAGE_SIZE) + k < off => InPlace(ph, k)
  BY ONLY <1>1, <1>4 DEF Current
<1>7. total_size \in Int
  BY <1>1, <1>2 DEF total_size, page_offset
<1>8. ph.p_type = "PT_LOAD" => \A k \in 0 .. z - 1 : InPlace(ph, k)
  BY ONLY <1>1, <1>2, <1>3, <1>5, <1>6, <1>7
<1>9. SegmentsInPlace'
  <2>1. ASSUME NEW h \in 1 .. segment, pheaders[h].p_type = "PT_LOAD",
               KeepsPages(h), NEW k \in 0 .. pheaders[h].p_memsz - 1
        PROVE  InPlace(pheaders[h], k)
    <3>1. CASE h = segment
      BY ONLY <1>8, <2>1, <3>1, k \in 0 .. pheaders[h].p_memsz - 1 DEF ph
    <3>2. CASE h # segment
      <4>1. h \in 1 .. segment - 1
        BY ONLY <1>1, <3>2, h \in 1 .. segment
      <4> QED BY ONLY <4>1, <1>4, <2>1, k \in 0 .. pheaders[h].p_memsz - 1
              DEF SegmentsInPlace, InPlace, ByteOf
    <3> QED BY ONLY <3>1, <3>2
  <2>2. \A h : KeepsPages(h)' <=> KeepsPages(h)
    BY <1>3 DEF KeepsPages, Pages
  <2>3. \A h, k : InPlace(pheaders[h], k)' <=> InPlace(pheaders[h], k)
    BY <1>3 DEF InPlace, ByteOf, At
  <2>4. 1 .. segment' - 1 = 1 .. segment
    BY ONLY <1>1, <1>3
  <2>5. \A h \in 1 .. segment' - 1 : pheaders'[h].p_type = "PT_LOAD" /\ KeepsPages(h)' =>
           \A k \in 0 .. pheaders'[h].p_memsz - 1 : InPlace(pheaders[h], k)'
    BY ONLY <1>3, <2>1, <2>2, <2>3, <2>4, Zenon
  <2> QED BY ONLY <2>5 DEF SegmentsInPlace, InPlace, ByteOf
<1>10. StaleOnlyBelowStart'
  BY ONLY <1>3, <1>4 DEF StaleOnlyBelowStart, Byte
<1>11. segment' <= Len(pheaders') => Current'
  <2> SUFFICES ASSUME segment' <= Len(pheaders) PROVE Current'
    BY <1>3
  <2>1. segment' \in 1 .. Len(pheaders)
    BY <1>1, <1>3
  <2>2. pheaders[segment'].p_vaddr \in Nat
    BY <1>1, <2>1, HeaderFacts
  <2>3. ph'.p_vaddr % PAGE_SIZE \in Nat
    BY ONLY <1>k, <1>3, <2>2, Remainder, Zenon DEF ph
  <2> QED BY ONLY <1>1, <1>3, <2>3 DEF Current
<1> QED BY <1>1, <1>3, <1>9, <1>10, <1>11 DEF ElfInv, ProgramLoaded

\* Before the first header.
LEMMA ElfStart ==
    ASSUME ElfInput, ElfInit
    PROVE  ElfInv
<1>k. KernelPages
  BY DEF ElfInput
<1>1. PAGE_SIZE \in Nat /\ PAGE_SIZE > 0 /\ pheaders \in Programs /\ segment = 1 /\ off = 0 /\ mem = <<>>
  BY DEF KernelPages, ElfInput, ElfInit
<1>2. Len(pheaders) \in Nat
  BY <1>1 DEF ElfInput
<1>3. 1 <= Len(pheaders) => Current
  <2> SUFFICES ASSUME 1 <= Len(pheaders) PROVE Current
    OBVIOUS
  <2>1. ph.p_vaddr \in Nat
    BY <1>1, <1>2, HeaderFacts DEF ph
  <2> QED BY <1>1, <2>1 DEF Current
<1>4. SegmentsInPlace
  BY <1>1 DEF SegmentsInPlace
<1>5. StaleOnlyBelowStart
  <2>1. DOMAIN mem = {}
    BY <1>1
  <2> QED BY <2>1 DEF StaleOnlyBelowStart
<1> QED BY <1>1, <1>2, <1>3, <1>4, <1>5 DEF ElfInv, ProgramLoaded

\* A step of nobody.
LEMMA ElfStutter ==
    ASSUME ElfInput, ElfInv, UNCHANGED elfVars
    PROVE  ElfInv'
<1>1. pheaders' = pheaders /\ segment' = segment /\ off' = off /\ mem' = mem
  BY DEF elfVars
<1>2. Current' <=> Current
  BY ONLY <1>1 DEF Current, InPlace, ByteOf, At, ph
<1>3. SegmentsInPlace' <=> SegmentsInPlace
  BY ONLY <1>1 DEF SegmentsInPlace, At, KeepsPages, Pages
<1>4. StaleOnlyBelowStart' <=> StaleOnlyBelowStart
  BY ONLY <1>1 DEF StaleOnlyBelowStart, Byte
<1> QED BY ONLY ElfInv, <1>1, <1>2, <1>3, <1>4 DEF ElfInv, ProgramLoaded

\* load_elf_binary puts the bytes of every segment where the ELF format asks, and zeros
\* behind them up to p_memsz, for any program headers: segments may start anywhere in a
\* page and share pages.  What a frame held before shows only below a segment's start.
THEOREM ElfCorrect ==
    ASSUME ElfInput
    PROVE  ElfSpec => []ProgramLoaded
<1>1. ElfInit => ElfInv
  BY ElfStart
<1>2. ElfInv /\ [ElfNext]_elfVars => ElfInv'
  BY LoadPageInv, NextHeaderInv, ElfStutter DEF ElfNext
<1>3. ElfInv => ProgramLoaded
  BY DEF ElfInv
<1> QED BY <1>1, <1>2, <1>3, PTL DEF ElfSpec

-----------------------------------------------------------------------------
(* put_char and the cursor.                                                *)

\* There is a column, a row besides the last, and a tab moves.
ScreenInput ==
    /\ max_col \in Nat /\ max_col > 0
    /\ max_line \in Nat /\ max_line > 0
    /\ tab_space \in Nat /\ tab_space > 0

\* A column and a row, and a screen.
Cells == Int \X Int

Screens == [col : Nat, line : Nat, cursor_visible : BOOLEAN, bars : SUBSET Cells, at : Cells]

\* A screen whose only bar is at the cursor, and only while that is visible.
OneBar(s) ==
    /\ s \in Screens
    /\ s.bars \subseteq {<<s.col, s.line>>}
    /\ ~s.cursor_visible => s.bars = {}

\* t shows the text of s, and has the cursor in the same place.
SameText(s, t) == t.col = s.col /\ t.line = s.line /\ t.at = s.at

\* The cursor in another column.
LEMMA WithCol ==
    ASSUME NEW s \in Screens, NEW c \in Nat, NEW t, t = [s EXCEPT !.col = c]
    PROVE  t \in Screens /\ t.col = c /\ t.line = s.line /\ t.at = s.at /\ t.bars = s.bars
           /\ t.cursor_visible = s.cursor_visible
BY Zenon DEF Screens

\* hide_cursor removes the bar.
LEMMA Hidden ==
    ASSUME NEW s, OneBar(s), NEW h, h = hide_cursor(s)
    PROVE  OneBar(h) /\ SameText(s, h) /\ h.bars = {}
<1> DEFINE b == IF s.cursor_visible THEN s.bars \ {<<s.col, s.line>>} ELSE s.bars
<1>1. s \in Screens /\ b \in SUBSET Cells /\ b = {} /\ FALSE \in BOOLEAN
  BY DEF OneBar, Screens
<1>2. h = [s EXCEPT !.cursor_visible = FALSE, !.bars = b]
  BY <1>1 DEF hide_cursor, Pos, Screens
<1> HIDE DEF b
<1>3. h \in Screens /\ SameText(s, h) /\ h.cursor_visible = FALSE /\ h.bars = b
  BY ONLY <1>1, <1>2, Zenon DEF Screens, SameText
<1> QED BY <1>1, <1>3 DEF OneBar

\* draw_cursor draws it where the cursor is.
LEMMA Drawn ==
    ASSUME NEW s \in Screens, s.bars = {}, NEW d, d = draw_cursor(s)
    PROVE  OneBar(d) /\ SameText(s, d)
<1> DEFINE b == IF s.cursor_visible THEN s.bars ELSE s.bars \union {<<s.col, s.line>>}
<1>1. b \in SUBSET Cells /\ b \subseteq {<<s.col, s.line>>} /\ TRUE \in BOOLEAN
  BY DEF Screens, Cells
<1>2. d = [s EXCEPT !.cursor_visible = TRUE, !.bars = b]
  BY DEF draw_cursor, Pos, Screens
<1> HIDE DEF b
<1>3. d \in Screens /\ SameText(s, d) /\ d.cursor_visible = TRUE /\ d.bars = b
  BY ONLY <1>1, <1>2, s \in Screens, Zenon DEF Screens, SameText
<1> QED BY <1>1, <1>3 DEF OneBar, SameText

\* A line break.
LEMMA NewLine ==
    ASSUME NEW s, OneBar(s), NEW n, n = _newline(s)
    PROVE  OneBar(n) /\ n.col = 0 /\ n.line = s.line + 1 /\ n.at = s.at
<1> DEFINE h == hide_cursor(s)
           m == [h EXCEPT !.line = @ + 1, !.col = 0]
<1>1. h \in Screens /\ SameText(s, h) /\ h.bars = {}
  BY Hidden DEF OneBar
<1>3. n = draw_cursor(m)
  BY DEF _newline
<1> HIDE DEF h
<1>2. m \in Screens /\ m.bars = {} /\ m.col = 0 /\ m.line = s.line + 1 /\ m.at = s.at
  <2>1. 0 \in Nat /\ h.line + 1 \in Nat /\ h.line = s.line /\ h.at = s.at
    BY <1>1 DEF Screens, SameText
  <2>2. m = [h EXCEPT !.line = h.line + 1, !.col = 0]
    BY <1>1 DEF Screens
  <2> HIDE DEF m
  <2>3. m \in Screens /\ m.col = 0 /\ m.line = h.line + 1 /\ m.at = h.at /\ m.bars = h.bars
    BY ONLY <1>1, <2>1, <2>2, Zenon DEF Screens
  <2> QED BY <1>1, <2>1, <2>3
<1> HIDE DEF m
<1> QED BY <1>2, <1>3, Drawn DEF SameText

\* A glyph's place is taken, or the one before: move_cursor_right and move_cursor_left.
LEMMA CursorMoved ==
    ASSUME NEW s, OneBar(s), NEW c \in Nat, NEW n,
           n = draw_cursor([hide_cursor(s) EXCEPT !.col = c])
    PROVE  OneBar(n) /\ n.col = c /\ n.line = s.line /\ n.at = s.at
<1> DEFINE h == hide_cursor(s)
           m == [h EXCEPT !.col = c]
<1>1. h \in Screens /\ SameText(s, h) /\ h.bars = {}
  BY Hidden DEF OneBar
<1>3. n = draw_cursor(m)
  OBVIOUS
<1> HIDE DEF h
<1>2. m \in Screens /\ m.bars = {} /\ m.col = c /\ m.line = s.line /\ m.at = s.at
  BY <1>1, WithCol DEF SameText
<1> HIDE DEF m
<1> QED BY <1>2, <1>3, Drawn DEF SameText

\* move_cursor_right, short of the last column.
LEMMA ToTheRight ==
    ASSUME ScreenInput, NEW s, OneBar(s), NEW n, n = move_cursor_right(s), s.col < max_col
    PROVE  OneBar(n) /\ n.col = s.col + 1 /\ n.line = s.line /\ n.at = s.at
<1> DEFINE h == hide_cursor(s)
<1>1. h \in Screens /\ h.col = s.col /\ s.col + 1 \in Nat
  BY Hidden DEF OneBar, SameText, Screens
<1>2. move_cursor_right(s) = draw_cursor([h EXCEPT !.col = s.col + 1])
  BY <1>1 DEF move_cursor_right, Screens
<1> QED BY <1>1, <1>2, CursorMoved

\* move_cursor_left.
LEMMA ToTheLeft ==
    ASSUME NEW s, OneBar(s), NEW n, n = move_cursor_left(s)
    PROVE  /\ OneBar(n) /\ n.line = s.line /\ n.at = s.at
           /\ n.col = IF s.col > 0 THEN s.col - 1 ELSE 0
<1> DEFINE h == hide_cursor(s)
           c == IF s.col > 0 THEN s.col - 1 ELSE 0
<1>1. h \in Screens /\ h.col = s.col /\ c \in Nat
  BY Hidden DEF OneBar, SameText, Screens
<1>2. move_cursor_left(s) = draw_cursor([h EXCEPT !.col = c])
  BY <1>1 DEF move_cursor_left, Screens
<1> HIDE DEF c
<1>3. OneBar(n) /\ n.col = c /\ n.line = s.line /\ n.at = s.at
  BY <1>1, <1>2, CursorMoved
<1> QED BY <1>3 DEF c

\* The bar scrolls with the line it is on.
LEMMA ScrolledUp ==
    ASSUME NEW s, OneBar(s), s.line > 0, NEW n, n = _scroll_up(s)
    PROVE  OneBar(n) /\ n.col = s.col /\ n.line = s.line - 1 /\ n.at = s.at
<1> DEFINE b == {<<x[1], x[2] - 1>> : x \in {c \in s.bars : c[2] > 0}}
<1>1. s \in Screens /\ s.line - 1 \in Nat
  BY DEF OneBar, Screens
<1>2. b \subseteq {<<s.col, s.line - 1>>} /\ (s.bars = {} => b = {})
  BY DEF OneBar
<1>3. b \in SUBSET Cells
  BY <1>1, <1>2 DEF Screens, Cells
<1>4. n = [s EXCEPT !.bars = b, !.line = s.line - 1]
  BY <1>1 DEF _scroll_up, Screens
<1> HIDE DEF b
<1>5. n \in Screens
  BY <1>1, <1>3, <1>4, Zenon DEF Screens
<1>6. /\ n.col = s.col /\ n.line = s.line - 1 /\ n.at = s.at /\ n.bars = b
      /\ n.cursor_visible = s.cursor_visible
  BY <1>1, <1>4 DEF Screens
<1> QED BY <1>2, <1>5, <1>6 DEF OneBar

\* put_char's two tests: the glyph goes where a column and a row are.
LEMMA Fitted ==
    ASSUME ScreenInput, NEW s, OneBar(s), NEW t, t = Scrolled(Wrapped(s))
    PROVE  /\ OneBar(t) /\ t.at = s.at
           /\ t.col = IF s.col >= max_col THEN 0 ELSE s.col
           /\ LET l == IF s.col >= max_col THEN s.line + 1 ELSE s.line
              IN  t.line = IF l >= max_line THEN l - 1 ELSE l
<1> DEFINE w == Wrapped(s)
           l == IF s.col >= max_col THEN s.line + 1 ELSE s.line
<1>1. /\ OneBar(w) /\ w.at = s.at /\ w.line = l
      /\ w.col = IF s.col >= max_col THEN 0 ELSE s.col
  BY NewLine DEF Wrapped
<1>2. t = IF w.line >= max_line THEN _scroll_up(w) ELSE w
  BY DEF Scrolled
<1> HIDE DEF w
<1>3. CASE w.line >= max_line
  <2>1. w.line > 0
    BY <1>1, <1>3 DEF ScreenInput, OneBar, Screens
  <2> QED BY <1>1, <1>2, <1>3, <2>1, ScrolledUp
<1>4. CASE ~(w.line >= max_line)
  BY <1>1, <1>2, <1>4
<1> QED BY <1>3, <1>4

\* A glyph, its wrap and its scroll.
LEMMA GlyphPut ==
    ASSUME ScreenInput, NEW s, OneBar(s), NEW n, n = PutGlyph(s)
    PROVE  /\ OneBar(n)
           /\ n.at[1] < max_col /\ n.at[2] = n.line
           /\ LET l == IF s.col >= max_col THEN s.line + 1 ELSE s.line
              IN  n.line = IF l >= max_line THEN l - 1 ELSE l
<1> DEFINE t == Scrolled(Wrapped(s))
           m == [t EXCEPT !.bars = @ \ {<<t.col, t.line>>}, !.at = <<t.col, t.line>>]
<1>1. /\ OneBar(t) /\ t.col = IF s.col >= max_col THEN 0 ELSE s.col
      /\ LET l == IF s.col >= max_col THEN s.line + 1 ELSE s.line
         IN  t.line = IF l >= max_line THEN l - 1 ELSE l
  BY Fitted
<1>2. n = move_cursor_right(m)
  BY DEF PutGlyph, Pos
<1> HIDE DEF t
<1>3. OneBar(m) /\ m.col = t.col /\ m.line = t.line /\ m.at = <<t.col, t.line>>
  <2>1. t \in Screens /\ t.bars \ {<<t.col, t.line>>} = {} /\ <<t.col, t.line>> \in Cells
    BY <1>1 DEF OneBar, Screens, Cells
  <2>2. m = [t EXCEPT !.bars = {}, !.at = <<t.col, t.line>>]
    BY ONLY <2>1, Zenon
  <2>3. {} \in SUBSET Cells
    OBVIOUS
  <2> HIDE DEF m
  <2>4. m \in Screens /\ m.bars = {} /\ m.col = t.col /\ m.line = t.line /\ m.at = <<t.col, t.line>>
    BY <2>1, <2>2, <2>3, Zenon DEF Screens
  <2> QED BY <2>4 DEF OneBar
<1>4. t.col < max_col /\ s \in Screens
  BY <1>1 DEF ScreenInput, OneBar, Screens
<1> HIDE DEF m
<1>5. OneBar(n) /\ n.line = m.line /\ n.at = m.at
  BY <1>2, <1>3, <1>4, ToTheRight
<1> QED BY <1>1, <1>3, <1>4, <1>5

\* The characters that break the line, printed at a column.
Breaking(col, c) == \/ c = "newline"
                    \/ c = "glyph" /\ col >= max_col
                    \/ c = "backspace" /\ col > max_col

\* What put_char tells apart.
CharSet == {"glyph", "newline", "tab", "backspace"}

\* Where a character leads from s.
Leads(s, c, n) ==
    IF c \in {"newline", "tab"}
    THEN n.at = s.at /\ n.line = IF c = "newline" THEN s.line + 1 ELSE s.line
    ELSE /\ n.at[1] < max_col /\ n.at[2] = n.line
         /\ LET l == IF Breaking(s.col, c) THEN s.line + 1 ELSE s.line
            IN  n.line = IF l >= max_line THEN l - 1 ELSE l

\* One character of console_write.
LEMMA CharPut ==
    ASSUME ScreenInput, NEW s, OneBar(s), NEW c \in CharSet, NEW n, n = put_char(s, c)
    PROVE  OneBar(n) /\ Leads(s, c, n)
<1> DEFINE t == hide_cursor(s)
<1>1. OneBar(t) /\ t.bars = {} /\ t.col = s.col /\ t.line = s.line /\ t.at = s.at
  BY Hidden DEF SameText
<1>s. s.col \in Nat /\ s.line \in Nat /\ t \in Screens /\ t.cursor_visible \in BOOLEAN
  BY <1>1 DEF OneBar, Screens
<1>2. CASE c = "newline"
  <2>1. n = _newline(t)
    BY <1>2 DEF put_char
  <2> HIDE DEF t
  <2> QED BY <2>1, <1>1, <1>2, NewLine DEF Leads
<1>3. CASE c = "tab"
  <2> DEFINE k == (s.col - (s.col % tab_space)) + tab_space
  <2>1. n = [t EXCEPT !.col = k]
    BY <1>1, <1>3, <1>s DEF put_char, Screens
  <2>2. k \in Nat
    <3>1. s.col % tab_space \in 0 .. (tab_space - 1)
      BY <1>s DEF ScreenInput
    <3> QED BY <3>1, <1>s DEF ScreenInput
  <2> HIDE DEF t, k
  <2>3. n \in Screens /\ n.line = t.line /\ n.at = t.at /\ n.bars = t.bars
    BY <2>1, <2>2, <1>s, WithCol
  <2> QED BY <2>3, <1>1, <1>3 DEF OneBar, Leads
<1>4. CASE c = "glyph"
  <2>1. n = PutGlyph(t)
    BY <1>4 DEF put_char
  <2> HIDE DEF t
  <2> QED BY <2>1, <1>1, <1>4, GlyphPut DEF Leads, Breaking
<1>5. CASE c = "backspace"
  <2> DEFINE u == move_cursor_left(t)
             v == hide_cursor(u)
             w == PutGlyph(v)
  <2>1. n = move_cursor_left(w)
    BY <1>5 DEF put_char
  <2> HIDE DEF t
  <2>2. OneBar(u) /\ u.line = s.line /\ u.col = IF s.col > 0 THEN s.col - 1 ELSE 0
    BY <1>1, ToTheLeft
  <2> HIDE DEF u
  <2>3. OneBar(v) /\ v.line = s.line /\ v.col = u.col
    BY <2>2, Hidden DEF SameText
  <2> HIDE DEF v
  <2>4. v.col >= max_col <=> s.col > max_col
    BY <2>2, <2>3, <1>s DEF ScreenInput
  <2>5. /\ OneBar(w) /\ w.at[1] < max_col /\ w.at[2] = w.line
        /\ LET l == IF s.col > max_col THEN s.line + 1 ELSE s.line
           IN  w.line = IF l >= max_line THEN l - 1 ELSE l
    BY <2>3, <2>4, GlyphPut
  <2> HIDE DEF w
  <2>6. OneBar(n) /\ n.line = w.line /\ n.at = w.at
    BY <2>1, <2>5, ToTheLeft
  <2> QED BY <2>5, <2>6, <1>5 DEF Leads, Breaking
<1> QED BY <1>2, <1>3, <1>4, <1>5 DEF CharSet

\* The inductive invariant: with no empty lines, the cursor is above the last row, or on
\* it after a line break.
ScreenInv ==
    /\ OneBar(scr)
    /\ scr.at[1] < max_col
    /\ breaks \in [now : Nat, most : Nat] /\ breaks.now <= breaks.most
    /\ breaks.most <= 1 => scr.line <= max_line - 1 + breaks.now /\ scr.at[2] <= max_line

\* After init_fb.
LEMMA ScreenStart ==
    ASSUME ScreenInput, ScreenInit
    PROVE  ScreenInv
BY DEF ScreenInput, ScreenInit, ScreenInv, OneBar, Screens, Cells

\* A character that breaks the line may lead one row down, and the next glyph scrolls one
\* row: a text without empty lines stays on the screen.
LEMMA ScreenPut ==
    ASSUME ScreenInput, ScreenInv, NEW c \in CharSet, PutChar(c)
    PROVE  ScreenInv'
<1> DEFINE now == breaks.now + (IF Breaking(scr.col, c) THEN 1 ELSE 0)
<1>1. /\ scr' = put_char(scr, c)
      /\ breaks' = [now |-> IF c \in {"newline", "tab"} THEN now ELSE 0,
                    most |-> IF now > breaks.most THEN now ELSE breaks.most]
  BY DEF PutChar, Breaking
<1>2. OneBar(scr') /\ Leads(scr, c, scr') /\ OneBar(scr)
  BY <1>1, CharPut DEF ScreenInv
<1>3. /\ scr.line \in Nat /\ scr'.line \in Nat /\ breaks.now \in Nat /\ breaks.most \in Nat
      /\ breaks.now <= breaks.most /\ now \in Nat
      /\ scr.at[2] \in Int /\ max_line \in Nat /\ max_line > 0
  BY <1>2 DEF OneBar, Screens, Cells, ScreenInv, ScreenInput
<1> HIDE DEF now
<1>4. /\ breaks' \in [now : Nat, most : Nat] /\ breaks'.now <= breaks'.most
      /\ breaks'.now = IF c \in {"newline", "tab"} THEN now ELSE 0
      /\ breaks'.most >= now /\ breaks'.most >= breaks.most
  BY <1>1, <1>3
<1>5. CASE c \in {"newline", "tab"}
  <2>1. scr'.at = scr.at /\ scr'.line - scr.line = now - breaks.now
    BY <1>2, <1>3, <1>5 DEF Leads, now, Breaking
  <2>2. breaks'.most <= 1 => scr'.line <= max_line - 1 + breaks'.now /\ scr'.at[2] <= max_line
    BY <2>1, <1>3, <1>4, <1>5 DEF ScreenInv
  <2> QED BY <2>1, <2>2, <1>2, <1>4 DEF ScreenInv
<1>6. CASE c \notin {"newline", "tab"}
  <2>1. /\ scr'.at[1] < max_col /\ scr'.at[2] = scr'.line
        /\ LET l == scr.line + (now - breaks.now)
           IN  scr'.line = IF l >= max_line THEN l - 1 ELSE l
    <3>1. /\ scr'.at[1] < max_col /\ scr'.at[2] = scr'.line
          /\ LET l == IF Breaking(scr.col, c) THEN scr.line + 1 ELSE scr.line
             IN  scr'.line = IF l >= max_line THEN l - 1 ELSE l
      BY ONLY <1>2, <1>6 DEF Leads
    <3>2. PICK b, x : b = breaks.now /\ x = IF Breaking(scr.col, c) THEN 1 ELSE 0
      BY Zenon
    <3>3. now = b + x /\ b \in Nat /\ x \in {0, 1}
      BY <1>3, <3>2 DEF now
    <3>4. now - b = x
      BY ONLY <3>3
    <3>5. now - breaks.now = IF Breaking(scr.col, c) THEN 1 ELSE 0
      BY <3>2, <3>4, Zenon
    <3> QED BY ONLY <1>3, <3>1, <3>5
  <2>2. breaks'.most <= 1 => scr'.line <= max_line - 1 + breaks'.now /\ scr'.at[2] <= max_line
    BY <2>1, <1>3, <1>4, <1>6 DEF ScreenInv
  <2> QED BY <2>1, <2>2, <1>2, <1>4 DEF ScreenInv
<1> QED BY <1>5, <1>6

\* The timer blinks the bar.
LEMMA ScreenBlink ==
    ASSUME ScreenInput, ScreenInv, Blink
    PROVE  ScreenInv'
<1>1. OneBar(scr)
  BY DEF ScreenInv
<1>2. OneBar(scr') /\ SameText(scr, scr')
  <2>1. CASE scr.cursor_visible
    BY <1>1, <2>1, Hidden DEF Blink
  <2>2. CASE ~scr.cursor_visible
    <3>1. scr \in Screens /\ scr.bars = {}
      BY <1>1, <2>2 DEF OneBar
    <3> QED BY <2>2, <3>1, Drawn DEF Blink
  <2> QED BY <2>1, <2>2
<1> QED BY <1>2 DEF ScreenInv, SameText, Blink

\* clear_screen.
LEMMA ScreenClear ==
    ASSUME ScreenInput, ScreenInv, ClearScreen
    PROVE  ScreenInv'
<1>1. scr \in Screens /\ {} \in SUBSET Cells /\ 0 \in Nat
  BY DEF ScreenInv, OneBar
<1>2. scr' = [scr EXCEPT !.col = 0, !.line = 0, !.bars = {}]
  BY DEF ClearScreen
<1>3. scr' \in Screens /\ scr'.bars = {} /\ scr'.line = 0 /\ scr'.at = scr.at
  BY ONLY <1>1, <1>2, Zenon DEF Screens
<1>4. OneBar(scr')
  BY <1>3 DEF OneBar
<1>5. /\ breaks' = [breaks EXCEPT !.now = 0] /\ breaks \in [now : Nat, most : Nat]
  BY DEF ClearScreen, ScreenInv
<1>6. breaks' \in [now : Nat, most : Nat] /\ breaks'.now = 0 /\ breaks'.most = breaks.most
  BY <1>5
<1> QED BY <1>3, <1>4, <1>6 DEF ScreenInv, ScreenInput

\* What is claimed of the screen follows.
LEMMA ScreenSafe ==
    ASSUME ScreenInv
    PROVE  ScreenSound
BY DEF ScreenInv, OneBar, Screens, ScreenSound, NoGhostCursor,
       TextOnScreen, Pos

\* put_char, update_cursor and clear_screen never leave a cursor bar behind, draw inside
\* the columns, and inside the rows while a text has no empty line, on a screen of any
\* size and with tabs of any width.
THEOREM ScreenCorrect ==
    ASSUME ScreenInput
    PROVE  ScreenSpec => []ScreenSound
<1>1. ScreenInit => ScreenInv
  BY ScreenStart
<1>2. ScreenInv /\ [ScreenNext]_screenVars => ScreenInv'
  <2>1. ASSUME ScreenInv, UNCHANGED screenVars PROVE ScreenInv'
    BY <2>1 DEF screenVars, ScreenInv
  <2> QED BY <2>1, ScreenPut, ScreenBlink, ScreenClear DEF ScreenNext, CharSet
<1>3. ScreenInv => ScreenSound
  BY ScreenSafe
<1> QED BY <1>1, <1>2, <1>3, PTL DEF ScreenSpec

-----------------------------------------------------------------------------
(* `limine enroll-config`.                                                 *)

\* Bytes are integers, and there is something to look for.
EnrollInput ==
    /\ Files \subseteq Seq(Int)
    /\ Signature \in Seq(Int) /\ Len(Signature) > 0
    /\ HASH \in Nat

\* Where the match began that the loop is in.
Began == pos - checked_count

\* The first signature begins at at.
FirstAt(at) == Occurs(at) /\ \A b \in 0 .. (at - 1) : ~Occurs(b)

\* Before a signature is found: the bytes matched so far, and none earlier.
Looking ==
    /\ file = original
    /\ checked_count < Len(Signature)
    /\ Began \in Nat
    /\ phase = "search" \/ pos >= Len(original) - min_size + 1
    /\ \A k \in 1 .. checked_count : original[Began + k] = Signature[k]
    /\ \A b \in 0 .. (Began - 1) : ~Occurs(b)

\* After: the place is behind the first signature, and only the checksum's bytes differ.
Found ==
    /\ checksum_loc - Len(Signature) \in 0 .. Len(original)
    /\ FirstAt(checksum_loc - Len(Signature))
    /\ checksum_loc + HASH <= Len(original)
    /\ \A k \in DOMAIN file : file[k] # original[k] => k - 1 - checksum_loc \in 0 .. (HASH - 1)

\* The inductive invariant.
EnrollInv ==
    /\ original \in Seq(Int) /\ file \in Seq(Int) /\ Len(file) = Len(original)
    /\ pos \in Nat /\ checked_count \in Nat /\ checksum_loc \in Int
    /\ phase \in {"search", "write", "failed", "enrolled"}
    /\ IF checksum_loc = -1 THEN phase \in {"search", "failed"} /\ Looking
                            ELSE phase # "search" /\ Found

\* The loop starts with nothing matched.
LEMMA EnrollStart ==
    ASSUME EnrollInput, EnrollInit
    PROVE  EnrollInv
BY DEF EnrollInput, EnrollInit, EnrollInv, Looking, Began, min_size

\* A turn of the loop.  When a byte does not match, the signature does not begin where
\* the match did, and the loop goes on one byte further: no place is skipped.
LEMMA EnrollSearch ==
    ASSUME EnrollInput, EnrollInv, Search
    PROVE  EnrollInv'
<1> DEFINE Total == Len(original)
           Sig == Len(Signature)
<1>t. /\ original \in Seq(Int) /\ file \in Seq(Int) /\ Len(file) = Total
      /\ original' = original /\ file' = file
      /\ Total \in Nat /\ Sig \in Nat /\ Sig > 0 /\ HASH \in Nat
      /\ pos \in Nat /\ checked_count \in Nat
  BY DEF EnrollInv, EnrollInput, Search
<1>s. phase = "search" /\ checksum_loc = -1 /\ Looking /\ pos < Total - (Sig + HASH) + 1
  BY <1>t DEF EnrollInv, Search, min_size
<1>b. /\ file = original /\ checked_count < Sig /\ Began \in Nat /\ pos = Began + checked_count
      /\ \A k \in 1 .. checked_count : original[Began + k] = Signature[k]
      /\ \A b \in 0 .. (Began - 1) : ~Occurs(b)
  <2>1. pos \in Nat /\ checked_count \in Nat
    BY ONLY <1>t
  <2>2. pos = Began + checked_count
    BY ONLY <2>1 DEF Began
  <2> QED BY ONLY <1>s, <2>2 DEF Looking
<1>o. \A b : Occurs(b)' = Occurs(b)
  BY <1>t DEF Occurs
<1>1. CASE file[pos + 1] # Signature[checked_count + 1]
  <2>1. /\ pos' = Began + 1 /\ checked_count' = 0 /\ checksum_loc' = -1 /\ phase' = "search"
    BY <1>1, <1>s, <1>t DEF Search, Began
  <2>2. Began' = Began + 1
    BY <2>1, <1>b DEF Began
  <2>3. ~Occurs(Began)
    <3>1. checked_count + 1 \in 1 .. Sig
      BY <1>b, <1>t
    <3>2. original[Began + (checked_count + 1)] # Signature[checked_count + 1]
      BY <1>1, <1>b, <1>t
    <3> QED BY <3>1, <3>2 DEF Occurs
  <2>4. \A b \in 0 .. (Began' - 1) : ~Occurs(b)'
    <3>1. Began \in Nat /\ \A b \in 0 .. (Began - 1) : ~Occurs(b)
      BY ONLY <1>b
    <3>2. \A b \in 0 .. (Began' - 1) : b = Began \/ b \in 0 .. (Began - 1)
      BY ONLY <3>1, <2>2
    <3> QED BY ONLY <3>1, <3>2, <2>3, <1>o, Zenon
  <2>5. Looking'
    BY <2>1, <2>2, <2>4, <1>t, <1>b DEF Looking
  <2> QED BY <2>1, <2>5, <1>t, <1>b DEF EnrollInv
<1>2. CASE file[pos + 1] = Signature[checked_count + 1]
  <2>1. checked_count' = checked_count + 1
    BY <1>2 DEF Search
  <2>2. \A k \in 1 .. checked_count + 1 : original[Began + k] = Signature[k]
    <3> SUFFICES ASSUME NEW k \in 1 .. checked_count + 1 PROVE original[Began + k] = Signature[k]
      OBVIOUS
    <3>1. CASE k = checked_count + 1
      <4>1. pos = Began + checked_count /\ file = original
        BY ONLY <1>b
      <4>a. Began \in Nat /\ checked_count \in Nat
        BY ONLY <1>b, <1>t
      <4>2. Began + k = pos + 1
        BY ONLY <3>1, <4>1, <4>a
      <4> QED BY ONLY <3>1, <4>1, <4>2, <1>2
    <3>2. CASE k # checked_count + 1
      <4>1. checked_count \in Nat
        BY ONLY <1>t
      <4>2. k \in 1 .. checked_count
        BY ONLY <3>2, <4>1, k \in 1 .. checked_count + 1
      <4> QED BY ONLY <4>2, <1>b
    <3> QED BY <3>1, <3>2
  <2>3. CASE checked_count + 1 = Sig
    <3>1. pos' = pos /\ checksum_loc' = pos + 1 /\ phase' = "write"
      BY <1>2, <2>1, <2>3 DEF Search
    <3>2. checksum_loc' = Began + Sig
      <4>1. pos = Began + checked_count /\ Began \in Nat /\ checked_count \in Nat
        BY ONLY <1>b, <1>t
      <4> HIDE DEF Sig
      <4> QED BY ONLY <3>1, <2>3, <4>1
    <3>3. Began \in 0 .. Total /\ Began + Sig <= Total /\ checksum_loc' + HASH <= Total
      BY <3>1, <2>3, <1>b, <1>t, <1>s
    <3>4. Occurs(Began)
      BY <3>3, <2>2, <2>3 DEF Occurs
    <3>6. Found'
      <4>0. checksum_loc' - Len(Signature) = Began
        BY ONLY <3>2, <1>b, <1>t
      <4>1. (checksum_loc' - Len(Signature)) \in 0 .. Len(original')
        BY <4>0, <3>3, <1>t
      <4>2. Occurs(checksum_loc - Len(Signature))'
        BY ONLY <4>0, <3>4, <1>t DEF Occurs
      <4>3. \A b \in 0 .. (checksum_loc' - Len(Signature) - 1) : ~Occurs(b)'
        BY <4>0, <1>b, <1>o
      <4> QED BY <4>1, <4>2, <4>3, <3>3, <1>t, <1>b DEF Found, FirstAt
    <3> QED BY <3>1, <3>6, <2>1, <1>t DEF EnrollInv
  <2>4. CASE checked_count + 1 # Sig
    <3>1. pos' = pos + 1 /\ checksum_loc' = -1 /\ phase' = "search"
      BY <1>2, <2>1, <2>4, <1>s DEF Search
    <3>2. Began' = Began /\ checked_count' < Sig
      BY <3>1, <2>1, <2>4, <1>b, <1>t DEF Began
    <3>4. Looking'
      BY <3>1, <3>2, <2>1, <2>2, <1>t, <1>b, <1>o DEF Looking
    <3> QED BY <3>1, <3>4, <2>1, <1>t DEF EnrollInv
  <2> QED BY <2>3, <2>4
<1> QED BY <1>1, <1>2

\* The loop runs out of places.
LEMMA EnrollNotFound ==
    ASSUME EnrollInput, EnrollInv, NotFound
    PROVE  EnrollInv'
<1>1. checksum_loc = -1 /\ Looking
  BY DEF EnrollInv, NotFound
<1>2. Len(file) = Len(original) /\ Len(file) \in Nat /\ file \in Seq(Int)
  BY DEF EnrollInv
<1>3. Looking'
  BY <1>1, <1>2 DEF NotFound, Looking, Began, Occurs, min_size
<1> QED BY <1>1, <1>3 DEF EnrollInv, NotFound

\* The write back, whole or cut short, changes bytes of the checksum only.
LEMMA EnrollWrite ==
    ASSUME EnrollInput, EnrollInv, NEW value \in {7, 8}, NEW written \in 0 .. Len(file),
           WriteBack(value, written)
    PROVE  EnrollInv'
<1>1. phase = "write" /\ checksum_loc # -1 /\ Found
  BY DEF EnrollInv, WriteBack
<1>2. /\ file \in Seq(Int) /\ Len(file) = Len(original) /\ checksum_loc \in Int /\ HASH \in Nat
      /\ original' = original /\ checksum_loc' = checksum_loc
      /\ pos' = pos /\ checked_count' = checked_count
      /\ phase' \in {"enrolled", "failed"}
  BY DEF EnrollInv, EnrollInput, WriteBack
<1> DEFINE In(k) == k <= written /\ k - 1 - checksum_loc \in 0 .. (HASH - 1)
<1>3. file' = [k \in 1 .. Len(file) |-> IF In(k) THEN value ELSE file[k]]
  <2>1. DOMAIN file = 1 .. Len(file)
    BY <1>2
  <2> QED BY <2>1 DEF WriteBack
<1>4. file' \in Seq(Int) /\ Len(file') = Len(file)
  BY <1>2, <1>3
<1>5. \A k \in DOMAIN file' : file'[k] # original[k] => k - 1 - checksum_loc \in 0 .. (HASH - 1)
  <2> SUFFICES ASSUME NEW k \in 1 .. Len(file), file'[k] # original[k],
                      ~(k - 1 - checksum_loc \in 0 .. (HASH - 1))
               PROVE  FALSE
    BY <1>3
  <2>1. file'[k] = file[k]
    BY <1>3
  <2>2. k \in DOMAIN file
    BY <1>2
  <2> QED BY <2>1, <2>2, <1>1 DEF Found
<1>6. Found'
  BY <1>1, <1>2, <1>4, <1>5 DEF Found, FirstAt, Occurs
<1> QED BY <1>1, <1>2, <1>4, <1>6 DEF EnrollInv

\* A step of nobody.
LEMMA EnrollStutter ==
    ASSUME EnrollInv, UNCHANGED enrollVars
    PROVE  EnrollInv'
BY DEF EnrollInv, enrollVars, Looking, Found, FirstAt, Began, Occurs, min_size

\* What is claimed of the file follows from the invariant.
LEMMA EnrollSafe ==
    ASSUME EnrollInput, EnrollInv
    PROVE  EnrollsBehindFirstSignature
<1> DEFINE Sig == Len(Signature)
<1>t. /\ file \in Seq(Int) /\ Len(file) = Len(original) /\ Len(original) \in Nat
      /\ Sig \in Nat /\ Sig > 0 /\ HASH \in Nat /\ checksum_loc \in Int
      /\ pos \in Nat /\ checked_count \in Nat
  BY DEF EnrollInv, EnrollInput
<1>1. CASE checksum_loc = -1
  <2>1. Looking /\ phase # "enrolled"
    BY <1>1 DEF EnrollInv
  <2>2. ASSUME phase = "failed", NEW at \in 0 .. Len(original), Occurs(at)
        PROVE  at + Sig + (Sig + HASH) > Len(original) + 1
    <3>1. at >= Began /\ Began \in Nat /\ checked_count < Sig
      BY <2>1, <2>2 DEF Looking
    <3>2. pos >= Len(original) - (Sig + HASH) + 1
      BY <2>1, <2>2 DEF Looking, min_size
    <3> QED BY <3>1, <3>2, <1>t DEF Began
  <2> QED BY <2>1, <2>2, <1>1 DEF EnrollsBehindFirstSignature, min_size, Looking
<1>2. CASE checksum_loc # -1
  <2>1. Found
    BY <1>2 DEF EnrollInv
  <2> DEFINE first == checksum_loc - Sig
  <2>2. first \in 0 .. Len(original) /\ first + Sig = checksum_loc
    BY <2>1, <1>t DEF Found
  <2>3. Occurs(first) /\ \A b \in 0 .. (first - 1) : ~Occurs(b)
    BY <2>1 DEF Found, FirstAt
  <2>4. /\ checksum_loc + HASH <= Len(file)
        /\ \A k \in DOMAIN file :
               file[k] # original[k] => k - 1 - (first + Sig) \in 0 .. (HASH - 1)
    BY <2>1, <2>2, <1>t DEF Found
  <2> HIDE DEF first
  <2> QED BY <2>2, <2>3, <2>4, <1>2 DEF EnrollsBehindFirstSignature
<1> QED BY <1>1, <1>2

\* enroll_config writes the checksum behind the first signature of the executable and
\* changes no other byte, for any executable, signature and length of the checksum.
THEOREM EnrollCorrect ==
    ASSUME EnrollInput
    PROVE  EnrollSpec => []EnrollsBehindFirstSignature
<1>1. EnrollInit => EnrollInv
  BY EnrollStart
<1>2. EnrollInv /\ [EnrollNext]_enrollVars => EnrollInv'
  <2> SUFFICES ASSUME EnrollInv, [EnrollNext]_enrollVars PROVE EnrollInv'
    OBVIOUS
  <2>1. ASSUME NEW value \in {CLEARED, B2SUM}, NEW written \in 0 .. Len(file),
               WriteBack(value, written)
        PROVE  EnrollInv'
    BY <2>1, EnrollWrite DEF CLEARED, B2SUM
  <2> QED BY <2>1, EnrollSearch, EnrollNotFound, EnrollStutter DEF EnrollNext
<1>3. EnrollInv => EnrollsBehindFirstSignature
  BY EnrollSafe
<1> QED BY <1>1, <1>2, <1>3, PTL DEF EnrollSpec

=============================================================================
