-------------------------- MODULE FileSystemProofs ---------------------------
(***************************************************************************)
(* Files, for every archive, every tree and any number of processes and    *)
(* descriptors: the dentries stay a tree, a program is read whole, and a   *)
(* write changes what it was given.                                        *)
(***************************************************************************)
EXTENDS FileSystem, SequenceTheorems, WellFoundedInduction, TLAPS

-----------------------------------------------------------------------------
(* Numbers and sequences.                                                  *)

\* A set of numbers that is not empty has a least one.
LEMMA Least ==
    ASSUME NEW T, T \subseteq Nat, T # {}
    PROVE  \E n \in T : \A m \in T : n <= m
<1> DEFINE R == OpToRel(<, Nat)
<1>1. IsWellFoundedOn(R, Nat)
  BY NatLessThanWellFounded
<1> HIDE DEF R
<1>2. PICK n \in T : \A m \in T : ~(<<m, n>> \in R)
  BY ONLY <1>1, T \subseteq Nat, T # {}, WFMin
<1>3. \A m \in T : ~(m < n)
  BY ONLY <1>2, T \subseteq Nat DEF R, OpToRel
<1> QED BY ONLY <1>3, n \in T, T \subseteq Nat

\* Min picks the least.
LEMMA MinIn ==
    ASSUME NEW S, S \subseteq Nat, S # {}
    PROVE  Min(S) \in S /\ \A y \in S : Min(S) <= y
<1>1. \E x \in S : \A y \in S : x =< y
  BY Least
<1> QED BY <1>1, Zenon DEF Min

\* A sequence, of whatever.
IsSeq(s) == Len(s) \in Nat /\ s = [i \in 1 .. Len(s) |-> s[i]]

\* A function on 1 .. n is a sequence of length n.
LEMMA FunSeq ==
    ASSUME NEW n \in Nat, NEW f, f = [i \in 1 .. n |-> f[i]]
    PROVE  Len(f) = n /\ IsSeq(f)
<1> DEFINE S == {f[i] : i \in 1 .. n}
<1>1. f \in [1 .. n -> S]
  OBVIOUS
<1> HIDE DEF S
<1>2. f \in Seq(S) /\ Len(f) = n
  BY ONLY <1>1, n \in Nat
<1> QED BY <1>2 DEF IsSeq

\* a is s, of length n, and then x.
IsAppend(a, s, n, x) ==
    IsSeq(a) /\ Len(a) = n + 1 /\ a[n + 1] = x /\ \A i \in 1 .. n : a[i] = s[i]

\* Append adds one at the end.
LEMMA AppendFun ==
    ASSUME NEW s, IsSeq(s), NEW x, NEW a, a = Append(s, x), NEW n, n = Len(s)
    PROVE  IsAppend(a, s, n, x)
<1>2. n \in Nat /\ s = [i \in 1 .. n |-> s[i]]
  BY DEF IsSeq
<1>3. PICK S : S = {s[i] : i \in 1 .. n} \cup {x}
  BY Zenon
<1>4. s \in [1 .. n -> S] /\ x \in S
  BY <1>2, <1>3
<1>5. s \in Seq(S) /\ Len(s) = n
  BY ONLY <1>2, <1>4
<1>6. a \in Seq(S) /\ Len(a) = n + 1 /\ a[n + 1] = x /\ \A i \in 1 .. n : a[i] = s[i]
  BY ONLY <1>4, <1>5, a = Append(s, x)
<1>7. IsSeq(a)
  BY ONLY <1>6 DEF IsSeq
<1> QED BY <1>6, <1>7 DEF IsAppend

-----------------------------------------------------------------------------
(* The tree.                                                               *)

Hidden(ns, n) == ramfs_lookup(ns, ns[n].d_parent, ns[n].d_name) # n \/ ns[n].d_name = "."

Visible(ns, n) == n \in DOMAIN ns /\ (n = ROOT \/ ~Hidden(ns, n))

NodeOk(x) ==
    /\ x = [d_name |-> x.d_name, d_parent |-> x.d_parent, dir |-> x.dir,
            children |-> x.children, buffer |-> x.buffer, i_size |-> x.i_size]
    /\ x.d_name \in Names /\ Cut[x.d_name] = x.d_name /\ x.dir \in BOOLEAN
    /\ IsSeq(x.children) /\ Len(x.children) <= RAMFS_MAX_CHILDREN
    /\ IsSeq(x.buffer) /\ x.i_size \in Nat /\ x.i_size <= Len(x.buffer)

\* Every dentry but the root is listed once, by its parent, which is older.
Linked(ns) ==
    /\ Len(ns) > 0 => ns[ROOT].dir /\ ns[ROOT].d_parent = NULL
    /\ \A n \in DOMAIN ns \ {ROOT} : LET d == ns[n].d_parent IN
        d \in 1 .. n - 1 /\ ns[d].dir /\ n \in Range(ns[d].children)
    /\ \A d \in DOMAIN ns :
        /\ IsInjective(ns[d].children)
        /\ \A n \in Range(ns[d].children) : n \in DOMAIN ns \ {ROOT} /\ ns[n].d_parent = d

TreeOk(ns) ==
    /\ IsSeq(ns) /\ \A n \in DOMAIN ns : NodeOk(ns[n])
    /\ Linked(ns)
    /\ \A n \in DOMAIN ns \ {ROOT} : Hidden(ns, n) =>
        ns[n].children = <<>> /\ ns[n].i_size = 0 /\ (ns[n].dir => ns[n].d_name = ".")

\* The first of the children that is called c.
FirstHit(ns, d, c, i) ==
    /\ i \in DOMAIN ns[d].children /\ ns[ns[d].children[i]].d_name = c
    /\ \A j \in DOMAIN ns[d].children : ns[ns[d].children[j]].d_name = c => i <= j

\* ramfs_lookup finds the first, if there is one.
LEMMA LookupHit ==
    ASSUME NEW ns, NEW d, IsSeq(ns[d].children), NEW name, NEW r, r = ramfs_lookup(ns, d, name)
    PROVE  \/ r = NULL /\ \A i \in DOMAIN ns[d].children : ns[ns[d].children[i]].d_name # Cut[name]
           \/ \E i : FirstHit(ns, d, Cut[name], i) /\ r = ns[d].children[i]
<1>1. PICK kids : kids = ns[d].children
  BY Zenon
<1>2. DOMAIN kids \subseteq Nat
  <2>1. DOMAIN kids = 1 .. Len(kids) /\ Len(kids) \in Nat
    BY <1>1 DEF IsSeq
  <2> QED BY ONLY <2>1
<1>3. PICK hits : hits = {i \in DOMAIN kids : ns[kids[i]].d_name = Cut[name]}
  BY Zenon
<1>4. r = IF hits = {} THEN NULL ELSE kids[Min(hits)]
  BY <1>1, <1>3, Zenon DEF ramfs_lookup
<1>5. CASE hits = {}
  BY <1>1, <1>3, <1>4, <1>5
<1>6. CASE hits # {}
  <2>1. hits \subseteq Nat
    BY <1>2, <1>3, Zenon
  <2>2. Min(hits) \in hits /\ \A y \in hits : Min(hits) <= y
    BY <1>6, <2>1, MinIn, Zenon
  <2>3. FirstHit(ns, d, Cut[name], Min(hits))
    BY <1>1, <1>3, <2>2, Zenon DEF FirstHit
  <2> QED BY <1>1, <1>4, <1>6, <2>3, Zenon
<1> QED BY <1>5, <1>6

\* And nothing else.
LEMMA HitLookup ==
    ASSUME NEW ns, NEW d, IsSeq(ns[d].children), NEW name, NEW c, c = Cut[name],
           NEW i, FirstHit(ns, d, c, i), NEW r, r = ramfs_lookup(ns, d, name)
    PROVE  r = ns[d].children[i]
<1>1. r = ramfs_lookup(ns, d, name)
  OBVIOUS
<1>2. i \in DOMAIN ns[d].children /\ ns[ns[d].children[i]].d_name = c
  BY Zenon DEF FirstHit
<1>3. PICK k : FirstHit(ns, d, c, k) /\ r = ns[d].children[k]
  <2>1. \/ r = NULL /\ \A j \in DOMAIN ns[d].children : ns[ns[d].children[j]].d_name # Cut[name]
        \/ \E j : FirstHit(ns, d, Cut[name], j) /\ r = ns[d].children[j]
    BY ONLY <1>1, IsSeq(ns[d].children), LookupHit
  <2> QED BY <1>2, <2>1, Zenon
<1>4. i <= k /\ k <= i
  BY <1>2, <1>3, Zenon DEF FirstHit
<1>5. i \in Nat /\ k \in Nat
  <2>1. DOMAIN ns[d].children = 1 .. Len(ns[d].children) /\ Len(ns[d].children) \in Nat
    BY DEF IsSeq
  <2>2. k \in DOMAIN ns[d].children
    BY <1>3, Zenon DEF FirstHit
  <2> QED BY <1>2, <2>1, <2>2
<1>6. i = k
  BY ONLY <1>4, <1>5
<1> QED BY <1>1, <1>3, <1>6

\* What TreeOk says of one node.
LEMMA NodeFacts ==
    ASSUME NEW ns, TreeOk(ns), NEW d \in DOMAIN ns
    PROVE  /\ d \in Nat /\ d # NULL /\ NodeOk(ns[d]) /\ IsSeq(ns[d].children) /\ DOMAIN ns = 1 .. Len(ns) /\ Len(ns) \in Nat
           /\ \A n \in Range(ns[d].children) : n \in DOMAIN ns \ {ROOT} /\ ns[n].d_parent = d
           /\ d # ROOT => ns[d].d_parent \in DOMAIN ns /\ ns[d].d_parent < d /\ d \in Range(ns[ns[d].d_parent].children)
<1>1. DOMAIN ns = 1 .. Len(ns) /\ Len(ns) \in Nat
  BY DEF TreeOk, IsSeq
<1>2. d \in Nat /\ d # NULL
  BY ONLY <1>1, d \in DOMAIN ns DEF NULL
<1>3. NodeOk(ns[d]) /\ IsSeq(ns[d].children)
  BY Zenon DEF TreeOk, NodeOk
<1>4. \A n \in Range(ns[d].children) : n \in DOMAIN ns \ {ROOT} /\ ns[n].d_parent = d
  BY Zenon DEF TreeOk, Linked
<1>5. ASSUME d # ROOT PROVE ns[d].d_parent \in DOMAIN ns /\ ns[d].d_parent < d /\ d \in Range(ns[ns[d].d_parent].children)
  <2>1. PICK p : p = ns[d].d_parent
    BY Zenon
  <2>2. p \in 1 .. d - 1 /\ d \in Range(ns[p].children)
    BY <1>5, <2>1, Zenon DEF TreeOk, Linked
  <2>3. p \in DOMAIN ns /\ p < d
    BY ONLY <1>1, <1>2, <2>2, d \in DOMAIN ns
  <2> QED BY <2>1, <2>2, <2>3
<1> QED BY <1>1, <1>2, <1>3, <1>4, <1>5

\* What ramfs_lookup finds is found again by its own name.
LEMMA ChildVisible ==
    ASSUME NEW ns, TreeOk(ns), NEW d \in DOMAIN ns, NEW name \in Names, name # ".",
           NEW r, r = ramfs_lookup(ns, d, name), r # NULL
    PROVE  Visible(ns, r)
<1>1. IsSeq(ns[d].children) /\ \A n \in Range(ns[d].children) : n \in DOMAIN ns \ {ROOT} /\ ns[n].d_parent = d
  BY NodeFacts, Zenon
<1>2. PICK c : c = Cut[name]
  BY Zenon
<1>3. PICK i : FirstHit(ns, d, c, i) /\ r = ns[d].children[i]
  <2>1. \/ r = NULL /\ \A i \in DOMAIN ns[d].children : ns[ns[d].children[i]].d_name # Cut[name]
        \/ \E i : FirstHit(ns, d, Cut[name], i) /\ r = ns[d].children[i]
    BY ONLY <1>1, r = ramfs_lookup(ns, d, name), LookupHit
  <2> QED BY <1>2, <2>1, Zenon
<1>4. i \in DOMAIN ns[d].children /\ ns[r].d_name = c
  BY <1>3, Zenon DEF FirstHit
<1>5. r \in Range(ns[d].children)
  BY <1>3, <1>4, Zenon DEF Range
<1>6. r \in DOMAIN ns /\ ns[r].d_parent = d
  BY <1>1, <1>5, Zenon
<1>7. Cut[c] = c /\ c # "."
  BY <1>2, NameAssumption, Zenon
<1>8. ramfs_lookup(ns, d, c) = r
  <2>1. FirstHit(ns, d, c, i) /\ c = Cut[c]
    BY <1>3, <1>7, Zenon
  <2>2. PICK s : s = ramfs_lookup(ns, d, c)
    BY Zenon
  <2>3. s = ns[d].children[i]
    BY ONLY <1>1, <2>1, <2>2, HitLookup
  <2> QED BY <1>3, <2>2, <2>3
<1> QED BY <1>4, <1>6, <1>7, <1>8, Zenon DEF Visible, Hidden

\* The parent of a visible dentry is visible: a hidden one has no children.
LEMMA ParentVisible ==
    ASSUME NEW ns, TreeOk(ns), NEW n, Visible(ns, n), n # ROOT, NEW d, d = ns[n].d_parent
    PROVE  Visible(ns, d)
<1>1. n \in DOMAIN ns
  BY Zenon DEF Visible
<1>2. d \in DOMAIN ns /\ n \in Range(ns[d].children)
  BY <1>1, NodeFacts
<1>3. ASSUME ns[d].children = <<>> PROVE FALSE
  <2>1. PICK k : k = ns[d].children
    BY Zenon
  <2>2. DOMAIN k = {}
    BY <1>3, <2>1
  <2> QED BY <1>2, <2>1, <2>2, Zenon DEF Range
<1>4. d # ROOT => ~Hidden(ns, d)
  BY <1>2, <1>3, Zenon DEF TreeOk
<1> QED BY <1>2, <1>4, Zenon DEF Visible

\* One turn of vfs_lookup leads from a visible dentry to a visible one.
LEMMA WalkVisible ==
    ASSUME NEW ns, TreeOk(ns), NEW at, Visible(ns, at), NEW token \in Names, NEW r, r = WalkTo(ns, at, token)
    PROVE  r = NULL \/ Visible(ns, r)
<1>1. at \in DOMAIN ns
  BY Zenon DEF Visible
<1>2. at # NULL
  BY <1>1, NodeFacts
<1>3. CASE token = "."
  BY <1>2, <1>3, Zenon DEF WalkTo
<1>4. CASE token = ".."
  <2>1. PICK d : d = ns[at].d_parent
    BY Zenon
  <2>2. r = IF d = NULL THEN at ELSE d
    <3>1. ".." # "."
      OBVIOUS
    <3> QED BY <1>2, <1>4, <2>1, <3>1, Zenon DEF WalkTo
  <2>3. CASE at = ROOT
    <3>1. Len(ns) > 0
      <4>1. at \in 1 .. Len(ns) /\ Len(ns) \in Nat
        BY <1>1, NodeFacts
      <4> QED BY ONLY <4>1
    <3>2. d = NULL
      BY <2>1, <2>3, <3>1, Zenon DEF TreeOk, Linked
    <3> QED BY <2>2, <3>2, Zenon
  <2>4. CASE at # ROOT
    <3>1. Visible(ns, d)
      BY ONLY <2>1, <2>4, TreeOk(ns), Visible(ns, at), ParentVisible
    <3> QED BY <2>2, <3>1, Zenon
  <2> QED BY <2>3, <2>4
<1>5. CASE token # "." /\ token # ".."
  <2>1. r = IF ns[at].dir THEN ramfs_lookup(ns, at, token) ELSE NULL
    BY <1>2, <1>5, Zenon DEF WalkTo
  <2>2. CASE r = NULL
    BY <2>2
  <2>3. CASE r # NULL
    <3>1. r = ramfs_lookup(ns, at, token)
      BY <2>1, <2>3, Zenon
    <3> QED BY ONLY <1>1, <1>5, <2>3, <3>1, TreeOk(ns), token \in Names, ChildVisible
  <2> QED BY <2>2, <2>3
<1> QED BY <1>3, <1>4, <1>5, Zenon

\* The dentries vfs_lookup passes, up to the k-th token.
WalkSteps(d, ns, path, k) == d = [i \in 0 .. k |-> IF i = 0 THEN ROOT ELSE WalkTo(ns, d[i - 1], path[i])]

\* The walk along a path is defined.
LEMMA WalkStepsExist ==
    ASSUME NEW ns, NEW path, NEW n \in Nat
    PROVE  \E d : WalkSteps(d, ns, path, n)
<1> DEFINE Bad == {k \in 0 .. n : ~\E d : WalkSteps(d, ns, path, k)}
<1>1. SUFFICES ASSUME Bad # {} PROVE FALSE
  <2>1. n \notin Bad
    BY <1>1
  <2> QED BY <2>1
<1>2. Bad \subseteq Nat
  OBVIOUS
<1>3. PICK k \in Bad : \A j \in Bad : k <= j
  BY <1>1, <1>2, Least, Zenon
<1>4. CASE k = 0
  <2>1. WalkSteps([i \in 0 .. 0 |-> ROOT], ns, path, 0)
    BY DEF WalkSteps
  <2> QED BY <1>4, <2>1
<1>5. CASE k # 0
  <2>1. k \in Nat /\ k - 1 \in 0 .. n /\ ~(k <= k - 1) /\ k \in 0 .. k /\ 0 # k
    <3>1. k \in 0 .. n
      BY <1>3
    <3> QED BY ONLY <1>5, <3>1, n \in Nat
  <2>2. PICK d : WalkSteps(d, ns, path, k - 1)
    <3>1. k - 1 \notin Bad
      <4> HIDE DEF Bad
      <4> QED BY <1>3, <2>1, Zenon
    <3> QED BY <2>1, <3>1
  <2>3. PICK e : e = [i \in 0 .. k |-> IF i = k THEN WalkTo(ns, d[k - 1], path[k]) ELSE d[i]]
    BY Zenon
  <2>4. ASSUME NEW i \in 0 .. k PROVE e[i] = IF i = 0 THEN ROOT ELSE WalkTo(ns, e[i - 1], path[i])
    <3>1. CASE i = k
      <4>1. e[k - 1] = d[k - 1]
        <5>1. k - 1 \in 0 .. k /\ k - 1 # k
          BY ONLY <2>1
        <5> QED BY <2>3, <5>1
      <4>2. e[k] = WalkTo(ns, d[k - 1], path[k])
        BY <2>1, <2>3
      <4> QED BY <2>1, <3>1, <4>1, <4>2
    <3>2. CASE i # k
      <4>1. i \in 0 .. k - 1 /\ (i # 0 => i - 1 \in 0 .. k - 1 /\ i - 1 \in 0 .. k /\ i - 1 # k)
        BY ONLY <2>1, <3>2, i \in 0 .. k
      <4>2. e[i] = d[i] /\ (i # 0 => e[i - 1] = d[i - 1])
        BY <2>3, <3>2, <4>1
      <4>3. d[i] = IF i = 0 THEN ROOT ELSE WalkTo(ns, d[i - 1], path[i])
        BY <2>2, <4>1 DEF WalkSteps
      <4> QED BY <4>2, <4>3
    <3> QED BY <3>1, <3>2
  <2>5. WalkSteps(e, ns, path, k)
    <3>1. e = [i \in 0 .. k |-> e[i]]
      BY <2>3
    <3> QED BY <2>4, <3>1, Zenon DEF WalkSteps
  <2> QED BY <1>3, <2>5
<1> QED BY <1>4, <1>5

\* vfs_lookup leads nowhere or to a visible dentry.
LEMMA LookupVisible ==
    ASSUME NEW ns, TreeOk(ns), NEW path, path \in Seq(Names), NEW r, r = vfs_lookup(ns, path)
    PROVE  r = NULL \/ Visible(ns, r)
<1>1. PICK n : n = Len(path)
  BY Zenon
<1>2. n \in Nat /\ \A i \in 1 .. n : path[i] \in Names
  BY ONLY <1>1, path \in Seq(Names)
<1>3. CASE ns = <<>>
  BY <1>3, Zenon DEF vfs_lookup
<1>4. CASE ns # <<>>
  <2>1. PICK d : WalkSteps(d, ns, path, n) /\ r = d[n]
    <3>1. \E d : WalkSteps(d, ns, path, n)
      BY ONLY <1>2, WalkStepsExist
    <3> QED BY <1>1, <1>4, <3>1, Zenon DEF vfs_lookup, WalkSteps
  <2>2. \A i \in 0 .. n : d[i] = IF i = 0 THEN ROOT ELSE WalkTo(ns, d[i - 1], path[i])
    BY <2>1 DEF WalkSteps
  <2> DEFINE Bad == {k \in 0 .. n : ~(d[k] = NULL \/ Visible(ns, d[k]))}
  <2>3. SUFFICES ASSUME Bad # {} PROVE FALSE
    <3>1. n \notin Bad /\ n \in 0 .. n
      BY <1>2, <2>3
    <3> QED BY <2>1, <3>1
  <2>4. Bad \subseteq Nat
    BY <1>2
  <2>5. PICK k \in Bad : \A j \in Bad : k <= j
    BY <2>3, <2>4, Least, Zenon
  <2>6. k \in 0 .. n /\ ~(d[k] = NULL \/ Visible(ns, d[k]))
    BY <2>5
  <2>7. CASE k = 0
    <3>1. d[0] = ROOT
      BY <2>2, <2>6, <2>7
    <3>2. ROOT \in DOMAIN ns
      <4>1. DOMAIN ns = 1 .. Len(ns) /\ Len(ns) \in Nat /\ ns = [i \in 1 .. Len(ns) |-> ns[i]]
        BY DEF TreeOk, IsSeq
      <4>2. CASE Len(ns) = 0
        BY <1>4, <4>1, <4>2
      <4>3. CASE Len(ns) # 0
        BY ONLY <4>1, <4>3 DEF ROOT
      <4> QED BY <4>2, <4>3
    <3> QED BY <2>6, <2>7, <3>1, <3>2, Zenon DEF Visible
  <2>8. CASE k # 0
    <3>1. k - 1 \in 0 .. n /\ ~(k <= k - 1) /\ k \in 1 .. n
      BY ONLY <1>2, <2>6, <2>8
    <3>2. PICK q, s : q = d[k - 1] /\ s = d[k]
      BY Zenon
    <3>3. q = NULL \/ Visible(ns, q)
      <4>1. k - 1 \notin Bad
        <5> HIDE DEF Bad
        <5> QED BY <2>5, <3>1, Zenon
      <4> QED BY <3>1, <3>2, <4>1
    <3>4. s = WalkTo(ns, q, path[k]) /\ path[k] \in Names
      BY <1>2, <2>2, <2>6, <2>8, <3>1, <3>2
    <3>5. CASE q = NULL
      BY <2>6, <3>2, <3>4, <3>5, Zenon DEF WalkTo
    <3>6. CASE Visible(ns, q)
      <4>1. s = NULL \/ Visible(ns, s)
        BY ONLY <3>4, <3>6, TreeOk(ns), WalkVisible
      <4> QED BY <2>6, <3>2, <4>1
    <3> QED BY <3>3, <3>5, <3>6
  <2> QED BY <2>7, <2>8
<1> QED BY <1>3, <1>4

-----------------------------------------------------------------------------
(* The tree grows.                                                         *)

\* A new dentry: no children and no contents.
LEMMA NewNodeOk ==
    ASSUME NEW name \in Names, NEW d, NEW dir \in BOOLEAN, NEW x, x = NewNode(name, d, dir)
    PROVE  /\ NodeOk(x) /\ x.d_name = Cut[name] /\ x.d_parent = d /\ x.dir = dir
           /\ x.children = <<>> /\ x.i_size = 0 /\ Range(x.children) = {} /\ IsInjective(x.children)
<1>1. /\ x.d_name = Cut[name] /\ x.d_parent = d /\ x.dir = dir
      /\ x.children = <<>> /\ x.buffer = <<>> /\ x.i_size = 0
  BY DEF NewNode
<1>2. x = [d_name |-> x.d_name, d_parent |-> x.d_parent, dir |-> x.dir,
           children |-> x.children, buffer |-> x.buffer, i_size |-> x.i_size]
  BY DEF NewNode
<1>3. PICK e : e = <<>>
  BY Zenon
<1>4. Len(e) = 0 /\ DOMAIN e = {} /\ e = [i \in 1 .. Len(e) |-> e[i]]
  BY ONLY <1>3
<1>5. IsSeq(e) /\ Range(e) = {} /\ IsInjective(e)
  BY ONLY <1>4 DEF IsSeq, Range, IsInjective
<1>6. Cut[name] \in Names /\ Cut[Cut[name]] = Cut[name] /\ RAMFS_MAX_CHILDREN \in Nat
  BY NameAssumption, SizeAssumption
<1>7. 0 <= RAMFS_MAX_CHILDREN /\ 0 <= 0 /\ 0 \in Nat
  BY ONLY <1>6
<1>8. NodeOk(x)
  BY <1>1, <1>2, <1>3, <1>4, <1>5, <1>6, <1>7, Zenon DEF NodeOk
<1> QED BY <1>1, <1>3, <1>5, <1>8, Zenon

\* r is ns with one more dentry, the last child of d.
GrewBy(ns, r, d, x, k) ==
    /\ IsSeq(r) /\ Len(r) = Len(ns) + 1 /\ r[Len(ns) + 1] = x
    /\ \A n \in DOMAIN ns : /\ r[n].d_name = ns[n].d_name /\ r[n].d_parent = ns[n].d_parent
                            /\ r[n].dir = ns[n].dir /\ r[n].i_size = ns[n].i_size
                            /\ NodeOk(r[n]) /\ (n # d => r[n].children = ns[n].children)
    /\ r[d].children = k /\ k = Append(ns[d].children, Len(ns) + 1)

\* ramfs_create and ramfs_mkdir do that, if there is room.
LEMMA AddChildGrows ==
    ASSUME NEW ns, TreeOk(ns), NEW d \in DOMAIN ns, NEW name, NEW dir, NEW r, r = AddChild(ns, d, name, dir),
           NEW x, x = NewNode(name, d, dir), Len(ns[d].children) < RAMFS_MAX_CHILDREN
    PROVE  \E k : GrewBy(ns, r, d, x, k)
<1>1. IsSeq(ns) /\ NodeOk(ns[d]) /\ IsSeq(ns[d].children) /\ DOMAIN ns = 1 .. Len(ns) /\ Len(ns) \in Nat
  BY NodeFacts, Zenon DEF TreeOk
<1>2. PICK n, k : n = Len(ns) /\ k = Append(ns[d].children, n + 1)
  BY Zenon
<1>3. PICK y : y = [d_name |-> ns[d].d_name, d_parent |-> ns[d].d_parent, dir |-> ns[d].dir,
                    children |-> k, buffer |-> ns[d].buffer, i_size |-> ns[d].i_size]
  BY Zenon
<1>4. PICK m : m = [ns EXCEPT ![d] = y]
  BY Zenon
<1>5. RAMFS_MAX_CHILDREN \in Nat /\ Len(ns[d].children) \in Nat
  BY <1>1, SizeAssumption DEF IsSeq
<1>6. r = Append(m, x)
  <2>1. ~(Len(ns[d].children) >= RAMFS_MAX_CHILDREN)
    BY ONLY <1>5, Len(ns[d].children) < RAMFS_MAX_CHILDREN
  <2>2. r = Append([ns EXCEPT ![d].children = Append(@, Len(ns) + 1)], x)
    BY <2>1, Zenon DEF AddChild
  <2>3. [ns EXCEPT ![d].children = Append(@, Len(ns) + 1)] = m
    <3>1. PICK z : z = [ns[d] EXCEPT !.children = Append(@, Len(ns) + 1)]
      BY Zenon
    <3>2. z = y
      <4>1. PICK w : w = ns[d]
        BY Zenon
      <4>2. w = [d_name |-> w.d_name, d_parent |-> w.d_parent, dir |-> w.dir,
                 children |-> w.children, buffer |-> w.buffer, i_size |-> w.i_size]
        BY <1>1, <4>1, Zenon DEF NodeOk
      <4>3. z = [w EXCEPT !.children = k]
        BY <1>2, <3>1, <4>1
      <4>4. z = [d_name |-> w.d_name, d_parent |-> w.d_parent, dir |-> w.dir,
                 children |-> k, buffer |-> w.buffer, i_size |-> w.i_size]
        BY ONLY <4>2, <4>3
      <4> QED BY <1>3, <4>1, <4>4, Zenon
    <3>3. [ns EXCEPT ![d].children = Append(@, Len(ns) + 1)] = [ns EXCEPT ![d] = z]
      BY <3>1
    <3> QED BY <1>4, <3>2, <3>3
  <2> QED BY <2>2, <2>3
<1>7. IsSeq(m) /\ Len(m) = n /\ m[d] = y /\ \A i \in 1 .. n : i # d => m[i] = ns[i]
  <2>1. m = [i \in 1 .. n |-> IF i = d THEN y ELSE ns[i]]
    BY ONLY <1>1, <1>2, <1>4
  <2>2. m = [i \in 1 .. n |-> m[i]] /\ n \in Nat
    BY <1>1, <1>2, <2>1
  <2>3. Len(m) = n /\ IsSeq(m)
    BY ONLY <2>2, FunSeq
  <2> QED BY <1>1, <1>2, <2>1, <2>3
<1>8. IsSeq(r) /\ Len(r) = n + 1 /\ r[n + 1] = x /\ \A i \in 1 .. n : r[i] = m[i]
  <2>1. IsSeq(m) /\ n = Len(m)
    BY <1>7
  <2>2. IsAppend(r, m, n, x)
    BY ONLY <1>6, <2>1, AppendFun, Zenon
  <2> QED BY <2>2 DEF IsAppend
<1>9. IsSeq(k) /\ Len(k) = Len(ns[d].children) + 1
  <2>1. PICK c, l, v : c = ns[d].children /\ l = Len(c) /\ v = n + 1
    BY Zenon
  <2>2. IsSeq(c) /\ k = Append(c, v) /\ l = Len(c)
    BY <1>1, <1>2, <2>1
  <2>3. IsAppend(k, c, l, v)
    BY ONLY <2>2, AppendFun, Zenon
  <2> QED BY <2>1, <2>3 DEF IsAppend
<1>10. NodeOk(y) /\ y.d_name = ns[d].d_name /\ y.d_parent = ns[d].d_parent /\ y.dir = ns[d].dir
       /\ y.i_size = ns[d].i_size /\ y.children = k
  <2>1. /\ y.d_name = ns[d].d_name /\ y.d_parent = ns[d].d_parent /\ y.dir = ns[d].dir
        /\ y.i_size = ns[d].i_size /\ y.children = k /\ y.buffer = ns[d].buffer
    BY <1>3
  <2>2. y = [d_name |-> y.d_name, d_parent |-> y.d_parent, dir |-> y.dir,
             children |-> y.children, buffer |-> y.buffer, i_size |-> y.i_size]
    BY <1>3, <2>1, Zenon
  <2>3. Len(k) <= RAMFS_MAX_CHILDREN
    BY ONLY <1>5, <1>9, Len(ns[d].children) < RAMFS_MAX_CHILDREN
  <2>4. NodeOk(y)
    BY <1>1, <1>9, <2>1, <2>2, <2>3, Zenon DEF NodeOk
  <2> QED BY <2>1, <2>4, Zenon
<1>11. ASSUME NEW i \in DOMAIN ns
       PROVE  /\ r[i].d_name = ns[i].d_name /\ r[i].d_parent = ns[i].d_parent
              /\ r[i].dir = ns[i].dir /\ r[i].i_size = ns[i].i_size
              /\ NodeOk(r[i]) /\ (i # d => r[i].children = ns[i].children)
  <2>1. r[i] = m[i] /\ NodeOk(ns[i])
    BY <1>1, <1>2, <1>8, Zenon DEF TreeOk
  <2>2. CASE i = d
    BY <1>7, <1>10, <2>1, <2>2, Zenon
  <2>3. CASE i # d
    <3>1. r[i] = ns[i]
      BY <1>1, <1>2, <1>7, <2>1, <2>3, Zenon
    <3> QED BY <2>1, <3>1, Zenon
  <2> QED BY <2>2, <2>3
<1>12. r[d].children = k
  <2>1. r[d] = y
    BY <1>1, <1>2, <1>7, <1>8, Zenon
  <2> QED BY <1>10, <2>1
<1>13. GrewBy(ns, r, d, x, k)
  BY <1>2, <1>8, <1>11, <1>12, Zenon DEF GrewBy
<1> QED BY <1>13

\* The new entry is the last of its directory's.
LEMMA GrewFacts ==
    ASSUME NEW ns, TreeOk(ns), NEW d \in DOMAIN ns, NEW r, NEW x, NEW k, GrewBy(ns, r, d, x, k), NEW n, n = Len(ns)
    PROVE  /\ n \in Nat /\ n > 0 /\ DOMAIN ns = 1 .. n /\ DOMAIN r = 1 .. n + 1 /\ n + 1 \notin DOMAIN ns
           /\ \A i \in DOMAIN r : i = n + 1 \/ i \in DOMAIN ns
           /\ IsSeq(k) /\ Range(k) = Range(ns[d].children) \cup {n + 1} /\ IsInjective(k)
           /\ DOMAIN ns[d].children \subseteq DOMAIN k
           /\ \A i \in DOMAIN ns[d].children : k[i] = ns[d].children[i] /\ i <= Len(k)
           /\ Len(k) \in DOMAIN k /\ k[Len(k)] = n + 1
           /\ \A i \in DOMAIN k : i = Len(k) \/ i \in DOMAIN ns[d].children
<1>1. DOMAIN ns = 1 .. n /\ n \in Nat /\ IsSeq(ns[d].children)
  BY NodeFacts
<1>2. n > 0 /\ n + 1 \notin DOMAIN ns
  BY ONLY <1>1, d \in DOMAIN ns
<1>3. DOMAIN r = 1 .. n + 1
  <2>1. IsSeq(r) /\ Len(r) = n + 1
    BY DEF GrewBy
  <2> QED BY <2>1 DEF IsSeq
<1>4. \A i \in DOMAIN r : i = n + 1 \/ i \in DOMAIN ns
  BY ONLY <1>1, <1>3
<1>5. PICK c : c = ns[d].children
  BY Zenon
<1>6. IsSeq(c) /\ k = Append(c, n + 1)
  BY <1>1, <1>5, Zenon DEF GrewBy
<1>7. IsSeq(k) /\ Len(k) = Len(c) + 1 /\ k[Len(c) + 1] = n + 1 /\ \A i \in 1 .. Len(c) : k[i] = c[i]
  <2>1. PICK l, v : l = Len(c) /\ v = n + 1
    BY Zenon
  <2>2. IsSeq(c) /\ k = Append(c, v) /\ l = Len(c)
    BY <1>6, <2>1
  <2>3. IsAppend(k, c, l, v)
    BY ONLY <2>2, AppendFun, Zenon
  <2> QED BY <2>1, <2>3 DEF IsAppend
<1>8. DOMAIN c = 1 .. Len(c) /\ Len(c) \in Nat /\ DOMAIN k = 1 .. Len(c) + 1
  BY <1>6, <1>7 DEF IsSeq
<1>9. /\ \A i \in 1 .. Len(c) : i \in 1 .. Len(c) + 1 /\ i <= Len(c) + 1
      /\ \A i \in 1 .. Len(c) + 1 : i = Len(c) + 1 \/ i \in 1 .. Len(c)
      /\ Len(c) + 1 \in 1 .. Len(c) + 1
  BY ONLY <1>8
<1>10. /\ DOMAIN c \subseteq DOMAIN k /\ Len(k) \in DOMAIN k /\ k[Len(k)] = n + 1
       /\ \A i \in DOMAIN c : k[i] = c[i] /\ i <= Len(k)
       /\ \A i \in DOMAIN k : i = Len(k) \/ i \in DOMAIN c
  BY <1>7, <1>8, <1>9, Zenon
<1>11. Range(k) = Range(c) \cup {n + 1}
  <2>1. ASSUME NEW i \in DOMAIN k PROVE k[i] \in Range(c) \cup {n + 1}
    BY <1>10, Zenon DEF Range
  <2>2. ASSUME NEW i \in DOMAIN c PROVE c[i] \in Range(k)
    BY <1>10, Zenon DEF Range
  <2>3. n + 1 \in Range(k)
    BY <1>10, Zenon DEF Range
  <2> QED BY <2>1, <2>2, <2>3, Zenon DEF Range
<1>12. IsInjective(k)
  <2>1. IsInjective(c) /\ n + 1 \notin Range(c)
    <3>1. IsInjective(c) /\ \A e \in Range(c) : e \in DOMAIN ns
      BY <1>5, Zenon DEF TreeOk, Linked
    <3> QED BY <1>2, <3>1, Zenon
  <2>2. \A i \in DOMAIN c : c[i] \in Range(c)
    BY Zenon DEF Range
  <2>3. ASSUME NEW i \in DOMAIN k, NEW j \in DOMAIN k, k[i] = k[j] PROVE i = j
    <3>1. CASE i \in DOMAIN c /\ j \in DOMAIN c
      <4>1. c[i] = c[j]
        BY <1>10, <2>3, <3>1, Zenon
      <4> QED BY <2>1, <3>1, <4>1, Zenon DEF IsInjective
    <3>2. CASE i = Len(k) /\ j \in DOMAIN c
      BY <1>10, <2>1, <2>2, <2>3, <3>2, Zenon
    <3>3. CASE i \in DOMAIN c /\ j = Len(k)
      BY <1>10, <2>1, <2>2, <2>3, <3>3, Zenon
    <3> QED BY <1>10, <3>1, <3>2, <3>3, Zenon
  <2> QED BY <2>3, Zenon DEF IsInjective
<1> QED BY <1>1, <1>2, <1>3, <1>4, <1>5, <1>7, <1>10, <1>11, <1>12, Zenon

\* The first of a name stays the first.
LEMMA FirstKept ==
    ASSUME NEW ns, TreeOk(ns), NEW d \in DOMAIN ns, NEW r, NEW x, NEW k, GrewBy(ns, r, d, x, k),
           NEW p \in DOMAIN ns, NEW c, NEW i, FirstHit(ns, p, c, i)
    PROVE  FirstHit(r, p, c, i) /\ r[p].children[i] = ns[p].children[i]
<1>1. /\ i \in DOMAIN ns[p].children /\ ns[ns[p].children[i]].d_name = c
      /\ \A j \in DOMAIN ns[p].children : ns[ns[p].children[j]].d_name = c => i <= j
  BY Zenon DEF FirstHit
<1>2. \A j \in DOMAIN ns[p].children : ns[p].children[j] \in DOMAIN ns
  <2>1. \A n \in Range(ns[p].children) : n \in DOMAIN ns
    BY NodeFacts, Zenon
  <2> QED BY <2>1, Zenon DEF Range
<1>3. \A n \in DOMAIN ns : r[n].d_name = ns[n].d_name /\ (n # d => r[n].children = ns[n].children)
  BY Zenon DEF GrewBy
<1>4. CASE p # d
  <2>1. r[p].children = ns[p].children
    BY <1>3, <1>4, Zenon
  <2>2. PICK q : q = ns[p].children
    BY Zenon
  <2>3. \A j \in DOMAIN q : r[q[j]].d_name = ns[q[j]].d_name
    BY <1>2, <1>3, <2>2, Zenon
  <2> QED BY <1>1, <2>1, <2>2, <2>3, Zenon DEF FirstHit
<1>5. CASE p = d
  <2>1. PICK q : q = ns[d].children
    BY Zenon
  <2>2. PICK n : n = Len(ns)
    BY Zenon
  <2>3. /\ DOMAIN q \subseteq DOMAIN k /\ \A j \in DOMAIN q : k[j] = q[j] /\ j <= Len(k)
        /\ \A j \in DOMAIN k : j = Len(k) \/ j \in DOMAIN q
    BY <2>1, <2>2, GrewFacts
  <2>4. r[p].children = k
    BY <1>5, Zenon DEF GrewBy
  <2>5. \A j \in DOMAIN q : r[q[j]].d_name = ns[q[j]].d_name
    BY <1>2, <1>3, <1>5, <2>1, Zenon
  <2>6. i \in DOMAIN q /\ i \in DOMAIN k /\ k[i] = q[i] /\ r[k[i]].d_name = c
    BY <1>1, <1>5, <2>1, <2>3, <2>5, Zenon
  <2>7. ASSUME NEW j \in DOMAIN k, r[k[j]].d_name = c PROVE i <= j
    <3>1. CASE j = Len(k)
      BY <2>3, <2>6, <3>1, Zenon
    <3>2. CASE j \in DOMAIN q
      BY <1>1, <1>5, <2>1, <2>3, <2>5, <2>7, <3>2, Zenon
    <3> QED BY <2>3, <3>1, <3>2, Zenon
  <2> QED BY <1>5, <2>1, <2>4, <2>6, <2>7, Zenon DEF FirstHit
<1> QED BY <1>4, <1>5

\* So what its directory's list led to, it still leads to.
LEMMA HiddenKept ==
    ASSUME NEW ns, TreeOk(ns), NEW d \in DOMAIN ns, NEW r, NEW x, NEW k, GrewBy(ns, r, d, x, k),
           NEW n \in DOMAIN ns, n # ROOT
    PROVE  Hidden(r, n) <=> Hidden(ns, n)
<1>1. PICK p, c : p = ns[n].d_parent /\ c = ns[n].d_name
  BY Zenon
<1>2. p \in DOMAIN ns /\ n \in Range(ns[p].children) /\ IsSeq(ns[p].children) /\ NodeOk(ns[n])
  BY <1>1, NodeFacts, Zenon
<1>3. r[n].d_parent = p /\ r[n].d_name = c /\ NodeOk(r[p])
  BY <1>1, <1>2, Zenon DEF GrewBy
<1>4. c = Cut[c] /\ IsSeq(r[p].children)
  BY <1>1, <1>2, <1>3, Zenon DEF NodeOk
<1>5. PICK a, b : a = ramfs_lookup(ns, p, c) /\ b = ramfs_lookup(r, p, c)
  BY Zenon
<1>6. PICK j \in DOMAIN ns[p].children : ns[p].children[j] = n
  BY <1>2, Zenon DEF Range
<1>7. PICK i : FirstHit(ns, p, c, i) /\ a = ns[p].children[i]
  <2>1. \/ a = NULL /\ \A l \in DOMAIN ns[p].children : ns[ns[p].children[l]].d_name # Cut[c]
        \/ \E l : FirstHit(ns, p, Cut[c], l) /\ a = ns[p].children[l]
    BY ONLY <1>2, <1>5, LookupHit
  <2> QED BY <1>1, <1>4, <1>6, <2>1, Zenon
<1>8. FirstHit(r, p, c, i) /\ r[p].children[i] = ns[p].children[i]
  BY <1>2, <1>7, FirstKept
<1>9. b = r[p].children[i]
  BY ONLY <1>4, <1>5, <1>8, HitLookup
<1>10. a = b
  BY <1>7, <1>8, <1>9
<1> QED BY <1>1, <1>3, <1>5, <1>10, Zenon DEF Hidden

\* The tree stays one, if a new directory's name is new.
LEMMA GrewLinked ==
    ASSUME NEW ns, TreeOk(ns), NEW d \in DOMAIN ns, ns[d].dir, NEW r, NEW x, NEW k, GrewBy(ns, r, d, x, k),
           x.d_parent = d, Range(x.children) = {}, IsInjective(x.children)
    PROVE  Linked(r)
<1>1. PICK n : n = Len(ns)
  BY Zenon
<1>2. /\ n \in Nat /\ n > 0 /\ DOMAIN ns = 1 .. n /\ n + 1 \notin DOMAIN ns
      /\ \A i \in DOMAIN r : i = n + 1 \/ i \in DOMAIN ns
      /\ Range(k) = Range(ns[d].children) \cup {n + 1} /\ IsInjective(k)
  BY <1>1, GrewFacts
<1>3. DOMAIN r = 1 .. n + 1
  BY <1>1, GrewFacts
<1>4. ROOT \in DOMAIN ns /\ n + 1 # ROOT /\ n + 1 \in DOMAIN r /\ \A i \in DOMAIN ns : i \in DOMAIN r
  BY ONLY <1>2, <1>3 DEF ROOT
<1>5. /\ r[n + 1] = x /\ r[d].children = k
      /\ \A i \in DOMAIN ns : r[i].d_parent = ns[i].d_parent /\ r[i].dir = ns[i].dir
                              /\ (i # d => r[i].children = ns[i].children)
  BY <1>1, Zenon DEF GrewBy
<1>6. \A e \in DOMAIN ns : Range(ns[e].children) \subseteq Range(r[e].children)
  BY <1>2, <1>5, Zenon
<1>7. Len(r) > 0 => r[ROOT].dir /\ r[ROOT].d_parent = NULL
  <2>1. ns[ROOT].dir /\ ns[ROOT].d_parent = NULL
    BY <1>1, <1>2, Zenon DEF TreeOk, Linked
  <2> QED BY <1>4, <1>5, <2>1, Zenon
<1>8. ASSUME NEW i \in DOMAIN r, i # ROOT, NEW p, p = r[i].d_parent
      PROVE  p \in 1 .. i - 1 /\ r[p].dir /\ i \in Range(r[p].children)
  <2>1. CASE i \in DOMAIN ns
    <3>1. p \in 1 .. i - 1 /\ ns[p].dir /\ i \in Range(ns[p].children)
      <4>1. p = ns[i].d_parent
        BY <1>5, <1>8, <2>1, Zenon
      <4>2. \A j \in DOMAIN ns \ {ROOT} : LET e == ns[j].d_parent IN
                e \in 1 .. j - 1 /\ ns[e].dir /\ j \in Range(ns[e].children)
        BY Zenon DEF TreeOk, Linked
      <4> QED BY <1>8, <2>1, <4>1, <4>2
    <3>2. p \in DOMAIN ns
      BY ONLY <1>2, <2>1, <3>1
    <3> QED BY <1>5, <1>6, <3>1, <3>2, Zenon
  <2>2. CASE i = n + 1
    <3>1. p = d
      BY <1>5, <1>8, <2>2, Zenon
    <3>2. d \in 1 .. i - 1
      BY ONLY <1>2, <2>2, d \in DOMAIN ns
    <3>3. n + 1 \in Range(k) /\ r[d].dir
      BY <1>2, <1>5, Zenon
    <3> QED BY <1>5, <2>2, <3>1, <3>2, <3>3, Zenon
  <2> QED BY <1>2, <2>1, <2>2, Zenon
<1>9. ASSUME NEW e \in DOMAIN r
      PROVE  /\ IsInjective(r[e].children)
             /\ \A i \in Range(r[e].children) : i \in DOMAIN r \ {ROOT} /\ r[i].d_parent = e
  <2>1. CASE e \in DOMAIN ns
    <3>1. IsInjective(ns[e].children) /\ \A i \in Range(ns[e].children) : i \in DOMAIN ns \ {ROOT} /\ ns[i].d_parent = e
      BY <2>1, Zenon DEF TreeOk, Linked
    <3>2. \A i \in Range(ns[e].children) : i \in DOMAIN r \ {ROOT} /\ r[i].d_parent = e
      BY <1>4, <1>5, <3>1, Zenon
    <3>3. CASE e # d
      <4>1. r[e].children = ns[e].children
        BY <1>5, <2>1, <3>3, Zenon
      <4> QED BY <3>1, <3>2, <4>1, Zenon
    <3>4. CASE e = d
      <4>1. n + 1 \in DOMAIN r \ {ROOT} /\ r[n + 1].d_parent = d
        BY <1>4, <1>5, Zenon
      <4>2. r[e].children = k
        BY <1>5, <3>4, Zenon
      <4>3. \A i \in Range(k) : i \in DOMAIN r \ {ROOT} /\ r[i].d_parent = e
        BY <1>2, <3>2, <3>4, <4>1, Zenon
      <4> QED BY <1>2, <4>2, <4>3, Zenon
    <3> QED BY <3>3, <3>4
  <2>2. CASE e = n + 1
    BY <1>5, <2>2, Zenon
  <2> QED BY <1>2, <2>1, <2>2, Zenon
<1> QED BY <1>7, <1>8, <1>9, Zenon DEF Linked

\* ramfs_create and ramfs_mkdir keep the tree; ramfs_mkdir is called with a name that
\* is new.
LEMMA AddChildOk ==
    ASSUME NEW ns, TreeOk(ns), NEW d, Visible(ns, d), ns[d].dir, NEW name \in Names, NEW dir \in BOOLEAN,
           dir => ramfs_lookup(ns, d, name) = NULL, NEW r, r = AddChild(ns, d, name, dir)
    PROVE  TreeOk(r) /\ (\A n : Visible(ns, n) => Visible(r, n))
<1>1. d \in DOMAIN ns /\ (d = ROOT \/ ~Hidden(ns, d))
  BY Zenon DEF Visible
<1>2. IsSeq(ns[d].children) /\ Len(ns[d].children) \in Nat /\ RAMFS_MAX_CHILDREN \in Nat
  <2>1. IsSeq(ns[d].children)
    BY <1>1, NodeFacts, Zenon
  <2> QED BY <2>1, SizeAssumption DEF IsSeq
<1>3. CASE Len(ns[d].children) >= RAMFS_MAX_CHILDREN
  BY <1>3, Zenon DEF AddChild
<1>4. CASE Len(ns[d].children) < RAMFS_MAX_CHILDREN
  <2>1. PICK x : x = NewNode(name, d, dir)
    BY Zenon
  <2>2. /\ NodeOk(x) /\ x.d_name = Cut[name] /\ x.d_parent = d /\ x.dir = dir
        /\ x.children = <<>> /\ x.i_size = 0 /\ Range(x.children) = {} /\ IsInjective(x.children)
    BY ONLY <2>1, name \in Names, dir \in BOOLEAN, NewNodeOk
  <2>3. PICK k : GrewBy(ns, r, d, x, k)
    BY <1>1, <1>4, <2>1, AddChildGrows, Zenon
  <2>4. PICK n, new, j : n = Len(ns) /\ new = n + 1 /\ j = Len(k)
    BY Zenon
  <2>5. /\ new \notin DOMAIN ns /\ \A i \in DOMAIN r : i = new \/ i \in DOMAIN ns
        /\ IsSeq(k) /\ j \in DOMAIN k /\ k[j] = new
        /\ \A i \in DOMAIN ns[d].children : k[i] = ns[d].children[i]
        /\ \A i \in DOMAIN k : i = j \/ i \in DOMAIN ns[d].children
    BY <1>1, <2>3, <2>4, GrewFacts
  <2>6. /\ IsSeq(r) /\ r[new] = x /\ r[d].children = k
        /\ \A i \in DOMAIN ns : /\ r[i].d_name = ns[i].d_name /\ r[i].dir = ns[i].dir
                                /\ r[i].i_size = ns[i].i_size /\ NodeOk(r[i])
                                /\ (i # d => r[i].children = ns[i].children)
    BY <2>3, <2>4, Zenon DEF GrewBy
  <2>7. \A i \in DOMAIN r : NodeOk(r[i])
    <3>1. NodeOk(r[new])
      BY <2>2, <2>6, Zenon
    <3>2. \A i \in DOMAIN r : i = new \/ i \in DOMAIN ns
      BY <2>5, Zenon
    <3>3. \A i \in DOMAIN ns : NodeOk(r[i])
      BY <2>6, Zenon
    <3> QED BY ONLY <3>1, <3>2, <3>3
  <2>8. Linked(r)
    BY <1>1, <2>2, <2>3, GrewLinked, Zenon
  <2>9. \A i \in DOMAIN ns \ {ROOT} : Hidden(r, i) <=> Hidden(ns, i)
    BY <1>1, <2>3, HiddenKept, Zenon
  <2>10. ASSUME NEW i \in DOMAIN ns, i # ROOT, Hidden(r, i)
         PROVE  r[i].children = <<>> /\ r[i].i_size = 0 /\ (r[i].dir => r[i].d_name = ".")
    <3>1. Hidden(ns, i)
      BY <2>9, <2>10, Zenon
    <3>2. ns[i].children = <<>> /\ ns[i].i_size = 0 /\ (ns[i].dir => ns[i].d_name = ".")
      BY <2>10, <3>1, Zenon DEF TreeOk
    <3>3. i # d
      BY <1>1, <2>10, <3>1, Zenon
    <3> QED BY <2>6, <3>2, <3>3, Zenon
  <2>11. ASSUME Hidden(r, new), dir PROVE x.d_name = "."
    <3>1. PICK c : c = Cut[name]
      BY Zenon
    <3>2. Cut[c] = c
      BY <3>1, NameAssumption
    <3>3. PICK a : a = ramfs_lookup(ns, d, name)
      BY Zenon
    <3>4. \A i \in DOMAIN ns[d].children : ns[ns[d].children[i]].d_name # c
      <4>1. \/ a = NULL /\ \A l \in DOMAIN ns[d].children : ns[ns[d].children[l]].d_name # Cut[name]
            \/ \E l : FirstHit(ns, d, Cut[name], l) /\ a = ns[d].children[l]
        BY ONLY <1>2, <3>3, LookupHit
      <4>2. a = NULL
        BY <2>11, <3>3
      <4>3. ASSUME NEW l, FirstHit(ns, d, Cut[name], l), a = ns[d].children[l] PROVE FALSE
        <5>1. l \in DOMAIN ns[d].children
          BY <4>3, Zenon DEF FirstHit
        <5>2. a \in Range(ns[d].children)
          BY <4>3, <5>1, Zenon DEF Range
        <5>3. a \in DOMAIN ns
          BY <1>1, <5>2, NodeFacts, Zenon
        <5> QED BY <4>2, <5>3, NodeFacts, Zenon
      <4> QED BY <3>1, <4>1, <4>3, Zenon
    <3>6. FirstHit(r, d, c, j)
      <4>1. j \in DOMAIN k /\ r[k[j]].d_name = c
        BY <2>2, <2>5, <2>6, <3>1, Zenon
      <4>2. \A l \in DOMAIN ns[d].children : ns[d].children[l] \in DOMAIN ns
        <5>1. \A e \in Range(ns[d].children) : e \in DOMAIN ns
          BY <1>1, NodeFacts, Zenon
        <5> QED BY <5>1, Zenon DEF Range
      <4>3. ASSUME NEW l \in DOMAIN k, r[k[l]].d_name = c PROVE l = j
        <5>1. CASE l \in DOMAIN ns[d].children
          <6>1. k[l] = ns[d].children[l] /\ k[l] \in DOMAIN ns
            BY <2>5, <4>2, <5>1, Zenon
          <6>2. r[k[l]].d_name = ns[k[l]].d_name
            BY <2>6, <6>1, Zenon
          <6> QED BY <3>4, <4>3, <5>1, <6>1, <6>2, Zenon
        <5> QED BY <2>5, <5>1, Zenon
      <4>4. j <= j
        <5>1. j \in Nat
          BY <2>4, <2>5 DEF IsSeq
        <5> QED BY ONLY <5>1
      <4> QED BY <2>6, <4>1, <4>3, <4>4, Zenon DEF FirstHit
    <3>7. PICK b : b = ramfs_lookup(r, d, c)
      BY Zenon
    <3>8. b = r[d].children[j]
      <4>1. IsSeq(r[d].children)
        BY <2>5, <2>6, Zenon
      <4> QED BY ONLY <3>2, <3>6, <3>7, <4>1, HitLookup
    <3>9. b = new
      BY <2>5, <2>6, <3>8, Zenon
    <3>10. r[new].d_parent = d /\ r[new].d_name = c
      BY <2>2, <2>6, <3>1, Zenon
    <3> QED BY <2>2, <2>11, <3>1, <3>7, <3>9, <3>10, Zenon DEF Hidden
  <2>12. \A i \in DOMAIN r \ {ROOT} : Hidden(r, i) =>
            r[i].children = <<>> /\ r[i].i_size = 0 /\ (r[i].dir => r[i].d_name = ".")
    <3>1. SUFFICES ASSUME NEW i \in DOMAIN r, i # ROOT, Hidden(r, i)
                   PROVE  r[i].children = <<>> /\ r[i].i_size = 0 /\ (r[i].dir => r[i].d_name = ".")
      BY Zenon
    <3>2. CASE i \in DOMAIN ns
      BY <2>10, <3>1, <3>2, Zenon
    <3>3. CASE i = new
      <4>1. r[i] = x
        BY <2>6, <3>3
      <4>2. x.dir => x.d_name = "."
        BY <2>2, <2>11, <3>1, <3>3, Zenon
      <4> QED BY <2>2, <4>1, <4>2, Zenon
    <3> QED BY <2>5, <3>2, <3>3, Zenon
  <2>13. ASSUME NEW i, Visible(ns, i) PROVE Visible(r, i)
    <3>1. i \in DOMAIN ns
      BY <2>13, Zenon DEF Visible
    <3>2. i \in DOMAIN r
      <4>1. DOMAIN ns = 1 .. n /\ DOMAIN r = 1 .. n + 1 /\ n \in Nat
        BY <1>1, <2>3, <2>4, GrewFacts
      <4> QED BY ONLY <3>1, <4>1
    <3> QED BY <2>9, <2>13, <3>1, <3>2, Zenon DEF Visible
  <2> QED BY <2>6, <2>7, <2>8, <2>12, <2>13, Zenon DEF TreeOk
<1> QED BY ONLY <1>2, <1>3, <1>4

\* A path that is not empty has a last token and what is before it.
LEMMA PathParts ==
    ASSUME NEW path, path \in Seq(Names), path # <<>>
    PROVE  Parent(path) \in Seq(Names) /\ Leaf(path) \in Names
<1>1. Len(path) \in Nat /\ Len(path) # 0
  BY EmptySeq
<1>2. Len(path) \in 1 .. Len(path)
  BY ONLY <1>1
<1>3. Leaf(path) \in Names
  BY ONLY <1>2, path \in Seq(Names) DEF Leaf
<1>4. Parent(path) \in Seq(Names)
  <2>1. \A i \in 1 .. Len(path) - 1 : i \in 1 .. Len(path)
    BY ONLY <1>1
  <2>2. 1 \in Int /\ Len(path) - 1 \in Int /\ \A i \in 1 .. Len(path) - 1 : path[i] \in Names
    BY ONLY <1>1, <2>1, path \in Seq(Names)
  <2> QED BY ONLY <2>1, <2>2, path \in Seq(Names), SubSeqProperties DEF Parent
<1> QED BY <1>3, <1>4

\* vfs_create keeps the tree.
LEMMA CreateOk ==
    ASSUME NEW ns, TreeOk(ns), NEW path, path \in Seq(Names), path # <<>>, NEW r, r = vfs_create(ns, path)
    PROVE  TreeOk(r)
<1>1. PICK front, name, d : front = Parent(path) /\ name = Leaf(path) /\ d = vfs_lookup(ns, front)
  BY Zenon
<1>2. front \in Seq(Names) /\ name \in Names
  BY <1>1, PathParts, Zenon
<1>3. d = NULL \/ Visible(ns, d)
  BY ONLY <1>1, <1>2, TreeOk(ns), LookupVisible
<1>4. r = ns \/ (d # NULL /\ ns[d].dir /\ r = AddChild(ns, d, name, FALSE))
  BY <1>1, Zenon DEF vfs_create
<1>5. CASE d # NULL /\ ns[d].dir /\ r = AddChild(ns, d, name, FALSE)
  <2>1. PICK no : no = FALSE /\ no \in BOOLEAN
    BY Zenon
  <2>2. Visible(ns, d) /\ r = AddChild(ns, d, name, no) /\ ns[d].dir /\ (no => ramfs_lookup(ns, d, name) = NULL)
    BY <1>3, <1>5, <2>1, Zenon
  <2> QED BY ONLY <1>2, <2>1, <2>2, TreeOk(ns), AddChildOk
<1> QED BY <1>4, <1>5, Zenon

\* vfs_mkdir keeps the tree.
LEMMA MkdirOk ==
    ASSUME NEW ns, TreeOk(ns), NEW path, path \in Seq(Names), path # <<>>, NEW r, r = vfs_mkdir(ns, path)
    PROVE  TreeOk(r)
<1>1. PICK front, name, d : front = Parent(path) /\ name = Leaf(path) /\ d = vfs_lookup(ns, front)
  BY Zenon
<1>2. front \in Seq(Names) /\ name \in Names
  BY <1>1, PathParts, Zenon
<1>3. d = NULL \/ Visible(ns, d)
  BY ONLY <1>1, <1>2, TreeOk(ns), LookupVisible
<1>4. r = ns \/ (d # NULL /\ ns[d].dir /\ ramfs_lookup(ns, d, name) = NULL /\ r = AddChild(ns, d, name, TRUE))
  BY <1>1, Zenon DEF vfs_mkdir
<1>5. CASE d # NULL /\ ns[d].dir /\ ramfs_lookup(ns, d, name) = NULL /\ r = AddChild(ns, d, name, TRUE)
  <2>1. PICK yes : yes = TRUE /\ yes \in BOOLEAN
    BY Zenon
  <2>2. Visible(ns, d) /\ r = AddChild(ns, d, name, yes) /\ ns[d].dir /\ (yes => ramfs_lookup(ns, d, name) = NULL)
    BY <1>3, <1>5, <2>1, Zenon
  <2> QED BY <1>2, <2>1, <2>2, AddChildOk, Zenon
<1> QED BY <1>4, <1>5, Zenon

-----------------------------------------------------------------------------
(* The contents of files.                                                  *)

\* The capacities ramfs_write tries, up to the k-th.
CapSteps(f, first, n) == f = [k \in 0 .. n |-> IF k > 0 THEN 2 * f[k - 1] ELSE first]

Doubled(f, n) == \A i \in 0 .. n : f[i] \in Nat /\ f[i] >= i + 1

\* Doubling is defined, and the k-th capacity is larger than k.
LEMMA CapStepsExist ==
    ASSUME NEW first \in Nat, first > 0, NEW n \in Nat
    PROVE  \E f : CapSteps(f, first, n) /\ Doubled(f, n)
<1> DEFINE Bad == {k \in 0 .. n : ~\E f : CapSteps(f, first, k) /\ Doubled(f, k)}
<1>1. SUFFICES ASSUME Bad # {} PROVE FALSE
  <2>1. n \notin Bad
    BY <1>1
  <2> QED BY <2>1
<1>2. Bad \subseteq Nat
  OBVIOUS
<1>3. PICK k \in Bad : \A j \in Bad : k <= j
  BY <1>1, <1>2, Least, Zenon
<1>4. CASE k = 0
  <2>1. PICK f : f = [i \in 0 .. 0 |-> first]
    BY Zenon
  <2>2. CapSteps(f, first, 0) /\ Doubled(f, 0)
    BY <2>1 DEF CapSteps, Doubled
  <2> QED BY <1>4, <2>2
<1>5. CASE k # 0
  <2>1. k \in Nat /\ k - 1 \in 0 .. n /\ ~(k <= k - 1) /\ k \in 0 .. k /\ k > 0
    <3>1. k \in 0 .. n
      BY <1>3
    <3> QED BY ONLY <1>5, <3>1, n \in Nat
  <2>2. PICK d : CapSteps(d, first, k - 1) /\ Doubled(d, k - 1)
    <3>1. k - 1 \notin Bad
      <4> HIDE DEF Bad
      <4> QED BY <1>3, <2>1, Zenon
    <3> QED BY <2>1, <3>1
  <2>3. PICK e : e = [i \in 0 .. k |-> IF i = k THEN 2 * d[k - 1] ELSE d[i]]
    BY Zenon
  <2>4. ASSUME NEW i \in 0 .. k
        PROVE  e[i] = (IF i > 0 THEN 2 * e[i - 1] ELSE first) /\ e[i] \in Nat /\ e[i] >= i + 1
    <3>1. CASE i = k
      <4>1. e[k - 1] = d[k - 1]
        <5>1. k - 1 \in 0 .. k /\ k - 1 # k
          BY ONLY <2>1
        <5> QED BY <2>3, <5>1
      <4>2. e[k] = 2 * d[k - 1]
        BY <2>1, <2>3
      <4>3. d[k - 1] \in Nat /\ d[k - 1] >= k - 1 + 1
        <5>1. k - 1 \in 0 .. k - 1
          BY ONLY <2>1
        <5> QED BY <2>2, <5>1 DEF Doubled
      <4>4. PICK v : v = d[k - 1]
        BY Zenon
      <4>5. v \in Nat /\ 2 * v >= k + 1 /\ 2 * v \in Nat
        <5>1. v \in Nat /\ v >= k - 1 + 1
          BY <4>3, <4>4
        <5> QED BY ONLY <2>1, <5>1
      <4> QED BY <2>1, <3>1, <4>1, <4>2, <4>4, <4>5
    <3>2. CASE i # k
      <4>1. i \in 0 .. k - 1 /\ (i > 0 => i - 1 \in 0 .. k - 1 /\ i - 1 \in 0 .. k /\ i - 1 # k)
        BY ONLY <2>1, <3>2, i \in 0 .. k
      <4>2. e[i] = d[i] /\ (i > 0 => e[i - 1] = d[i - 1])
        BY <2>3, <3>2, <4>1
      <4>3. d[i] = IF i > 0 THEN 2 * d[i - 1] ELSE first
        BY <2>2, <4>1 DEF CapSteps
      <4>4. d[i] \in Nat /\ d[i] >= i + 1
        BY <2>2, <4>1 DEF Doubled
      <4> QED BY <4>2, <4>3, <4>4
    <3> QED BY <3>1, <3>2
  <2>5. CapSteps(e, first, k) /\ Doubled(e, k)
    <3>1. e = [i \in 0 .. k |-> e[i]]
      BY <2>3
    <3> QED BY <2>4, <3>1, Zenon DEF CapSteps, Doubled
  <2> QED BY <1>3, <2>5
<1> QED BY <1>4, <1>5

\* The capacity is enough.
LEMMA CapacityEnough ==
    ASSUME NEW cap \in Nat, NEW target \in Nat, NEW r, r = Capacity(cap, target)
    PROVE  r \in Nat /\ r >= target
<1>1. CASE target <= cap
  BY <1>1 DEF Capacity
<1>2. CASE ~(target <= cap)
  <2>1. PICK first : first = IF cap = 0 THEN FIRST_CAPACITY ELSE 2 * cap
    BY Zenon
  <2>2. first \in Nat /\ first > 0
    BY <2>1, SizeAssumption
  <2>3. PICK f : f = CHOOSE g : CapSteps(g, first, target)
    BY Zenon
  <2>4. \E g : CapSteps(g, first, target) /\ Doubled(g, target)
    BY ONLY <2>2, target \in Nat, CapStepsExist
  <2>5. CapSteps(f, first, target)
    BY <2>3, <2>4, Zenon
  <2>6. Doubled(f, target)
    <3>1. PICK g : CapSteps(g, first, target) /\ Doubled(g, target)
      BY <2>4
    <3> DEFINE Bad == {k \in 0 .. target : f[k] # g[k]}
    <3>2. SUFFICES ASSUME Bad # {} PROVE FALSE
      <4>1. \A k \in 0 .. target : f[k] = g[k]
        BY <3>2
      <4> QED BY <3>1, <4>1 DEF Doubled
    <3>3. Bad \subseteq Nat
      OBVIOUS
    <3>4. PICK k \in Bad : \A j \in Bad : k <= j
      BY <3>2, <3>3, Least, Zenon
    <3>5. k \in 0 .. target /\ f[k] # g[k]
      BY <3>4
    <3>6. /\ f[k] = IF k > 0 THEN 2 * f[k - 1] ELSE first
          /\ g[k] = IF k > 0 THEN 2 * g[k - 1] ELSE first
      BY <2>5, <3>1, <3>5 DEF CapSteps
    <3>7. k > 0 => k - 1 \in 0 .. target /\ ~(k <= k - 1)
      BY ONLY <3>5, target \in Nat
    <3>8. k > 0 => k - 1 \notin Bad
      <4> HIDE DEF Bad
      <4> QED BY <3>4, <3>7, Zenon
    <3> QED BY <3>5, <3>6, <3>7, <3>8
  <2>7. PICK S : S = {c \in {f[k] : k \in 0 .. target} : c >= target}
    BY Zenon
  <2>8. r = Min(S)
    <3>1. \A g : CapSteps(g, first, target) <=>
            g = [k \in 0 .. target |-> IF k > 0 THEN 2 * g[k - 1] ELSE IF cap = 0 THEN FIRST_CAPACITY ELSE 2 * cap]
      BY <2>1, Zenon DEF CapSteps
    <3>2. f = CHOOSE g : g = [k \in 0 .. target |-> IF k > 0 THEN 2 * g[k - 1] ELSE IF cap = 0 THEN FIRST_CAPACITY ELSE 2 * cap]
      BY <2>1, <2>3 DEF CapSteps
    <3> QED BY <1>2, <2>7, <3>2 DEF Capacity
  <2>9. \A k \in 0 .. target : f[k] \in Nat /\ f[k] >= k + 1
    BY <2>6 DEF Doubled
  <2>10. S \subseteq Nat /\ \A c \in S : c >= target
    BY ONLY <2>7, <2>9
  <2>11. f[target] \in S
    <3>1. target \in 0 .. target
      BY ONLY target \in Nat
    <3>2. f[target] \in Nat /\ f[target] >= target + 1
      BY <2>9, <3>1
    <3>3. f[target] >= target
      BY ONLY <3>2, target \in Nat
    <3> QED BY <2>7, <3>1, <3>3, Zenon
  <2>12. Min(S) \in S
    BY <2>10, <2>11, MinIn, Zenon
  <2> QED BY <2>8, <2>10, <2>12, Zenon
<1> QED BY <1>1, <1>2

\* The buffer ramfs_write goes on with holds the file and has room for the write.
LEMMA GrownOk ==
    ASSUME NEW x, NodeOk(x), NEW end \in Nat, NEW b, b = Grown(x, end)
    PROVE  /\ IsSeq(b) /\ Len(b) >= end /\ Len(b) >= x.i_size
           /\ \A i \in 1 .. x.i_size : i \in DOMAIN b /\ b[i] = x.buffer[i]
<1>1. PICK old, size, cap : old = x.buffer /\ size = x.i_size /\ cap = Len(old)
  BY Zenon
<1>2. IsSeq(old) /\ size \in Nat /\ size <= cap /\ cap \in Nat
  BY <1>1, Zenon DEF NodeOk, IsSeq
<1>3. CASE end <= cap
  <2>1. b = old
    BY <1>1, <1>3, Zenon DEF Grown
  <2>2. DOMAIN old = 1 .. cap
    BY <1>1, <1>2 DEF IsSeq
  <2>3. \A i \in 1 .. size : i \in DOMAIN old
    BY ONLY <1>2, <2>2
  <2>4. Len(b) >= end /\ Len(b) >= size
    BY ONLY <1>1, <1>2, <1>3, <2>1, end \in Nat
  <2> QED BY <1>1, <1>2, <2>1, <2>3, <2>4, Zenon
<1>4. CASE ~(end <= cap)
  <2>1. PICK new : new = Capacity(cap, end)
    BY Zenon
  <2>2. new \in Nat /\ new >= end
    BY ONLY <1>2, <2>1, end \in Nat, CapacityEnough
  <2>3. b = [i \in 1 .. new |-> IF i <= size THEN old[i] ELSE GARBAGE]
    BY <1>1, <1>4, <2>1, Zenon DEF Grown
  <2>4. b = [i \in 1 .. new |-> b[i]]
    BY ONLY <2>3
  <2>5. Len(b) = new /\ IsSeq(b)
    BY ONLY <2>2, <2>4, FunSeq
  <2>6. new >= size /\ \A i \in 1 .. size : i \in 1 .. new /\ i <= size
    BY ONLY <1>2, <1>4, <2>2, end \in Nat
  <2>7. \A i \in 1 .. size : i \in DOMAIN b /\ b[i] = old[i]
    BY ONLY <2>3, <2>6
  <2> QED BY <1>1, <2>2, <2>5, <2>6, <2>7, Zenon
<1> QED BY <1>3, <1>4

\* What a write did to a file: from byte pos on the data, before and behind it the
\* same, and no smaller.
Wrote(x, y, pos, end, data) ==
    /\ NodeOk(y) /\ Len(y.buffer) >= end
    /\ y.d_name = x.d_name /\ y.d_parent = x.d_parent /\ y.dir = x.dir /\ y.children = x.children
    /\ y.i_size = IF end > x.i_size THEN end ELSE x.i_size
    /\ \A i \in 1 .. x.i_size : i \notin pos + 1 .. end => y.buffer[i] = x.buffer[i]
    /\ \A i \in pos + 1 .. end : y.buffer[i] = data[i - pos]

\* ramfs_write does that.
LEMMA WriteOk ==
    ASSUME NEW x, NodeOk(x), NEW pos \in Nat, NEW data, NEW len \in Nat, len = Len(data),
           NEW end, end = pos + len, NEW y, y = ramfs_write(x, pos, data)
    PROVE  Wrote(x, y, pos, end, data)
<1>1. end \in Nat
  OBVIOUS
<1>2. PICK b : b = Grown(x, end)
  BY Zenon
<1>3. /\ IsSeq(b) /\ Len(b) >= end /\ Len(b) >= x.i_size
      /\ \A i \in 1 .. x.i_size : i \in DOMAIN b /\ b[i] = x.buffer[i]
  BY ONLY <1>1, <1>2, NodeOk(x), GrownOk
<1>4. PICK c : c = [i \in DOMAIN b |-> IF i \in pos + 1 .. end THEN data[i - pos] ELSE b[i]]
  BY Zenon
<1>5. y = [x EXCEPT !.buffer = c, !.i_size = IF end > @ THEN end ELSE @]
  BY <1>2, <1>4, Zenon DEF ramfs_write
<1>6. PICK size : size = x.i_size
  BY Zenon
<1>7. size \in Nat /\ Len(b) \in Nat /\ DOMAIN b = 1 .. Len(b)
  BY <1>3, <1>6 DEF NodeOk, IsSeq
<1>8. c = [i \in 1 .. Len(b) |-> c[i]]
  BY ONLY <1>4, <1>7
<1>9. Len(c) = Len(b) /\ IsSeq(c)
  BY ONLY <1>7, <1>8, FunSeq
<1>10. PICK new : new = IF end > size THEN end ELSE size
  BY Zenon
<1>11. y = [d_name |-> x.d_name, d_parent |-> x.d_parent, dir |-> x.dir,
            children |-> x.children, buffer |-> c, i_size |-> new]
  <2>1. x = [d_name |-> x.d_name, d_parent |-> x.d_parent, dir |-> x.dir,
             children |-> x.children, buffer |-> x.buffer, i_size |-> size]
    BY <1>6, Zenon DEF NodeOk
  <2>2. y = [x EXCEPT !.buffer = c, !.i_size = new]
    BY <1>5, <1>6, <1>10, <2>1
  <2> QED BY ONLY <2>1, <2>2
<1>12. /\ y.d_name = x.d_name /\ y.d_parent = x.d_parent /\ y.dir = x.dir
       /\ y.children = x.children /\ y.buffer = c /\ y.i_size = new
  BY ONLY <1>11
<1>13. new \in Nat /\ new <= Len(c) /\ Len(c) >= end
  <2>1. Len(b) >= end /\ Len(b) >= size
    BY <1>3, <1>6, Zenon
  <2> QED BY ONLY <1>1, <1>7, <1>9, <1>10, <2>1
<1>14. NodeOk(y)
  <2>1. y = [d_name |-> y.d_name, d_parent |-> y.d_parent, dir |-> y.dir,
             children |-> y.children, buffer |-> y.buffer, i_size |-> y.i_size]
    BY <1>11, <1>12, Zenon
  <2>2. /\ x.d_name \in Names /\ Cut[x.d_name] = x.d_name /\ x.dir \in BOOLEAN
        /\ IsSeq(x.children) /\ Len(x.children) <= RAMFS_MAX_CHILDREN
    BY Zenon DEF NodeOk
  <2> QED BY <1>9, <1>12, <1>13, <2>1, <2>2, Zenon DEF NodeOk
<1>15. ASSUME NEW i \in 1 .. x.i_size, i \notin pos + 1 .. end PROVE y.buffer[i] = x.buffer[i]
  BY <1>3, <1>4, <1>12, <1>15, Zenon
<1>16. ASSUME NEW i \in pos + 1 .. end PROVE y.buffer[i] = data[i - pos]
  <2>1. i \in DOMAIN b
    <3>1. Len(b) >= end
      BY <1>3
    <3> QED BY ONLY <1>1, <1>7, <3>1, pos \in Nat, i \in pos + 1 .. end
  <2> QED BY <1>4, <1>12, <2>1, Zenon
<1>17. y.i_size = IF end > x.i_size THEN end ELSE x.i_size
  BY <1>6, <1>10, <1>12, Zenon
<1>18. Len(y.buffer) >= end
  BY <1>12, <1>13, Zenon
<1> QED BY <1>12, <1>14, <1>15, <1>16, <1>17, <1>18, Zenon DEF Wrote

\* r is ns with y for dentry n.
Replaced(ns, n, y, r) ==
    /\ TreeOk(r) /\ DOMAIN r = DOMAIN ns /\ r[n] = y
    /\ \A i \in DOMAIN ns : i # n => r[i] = ns[i]
    /\ \A i : Visible(ns, i) => Visible(r, i)

\* A file's contents change: the tree does not.
LEMMA ReplaceNode ==
    ASSUME NEW ns, TreeOk(ns), NEW n, Visible(ns, n), NEW x, x = ns[n], NEW y, NodeOk(y),
           y.d_name = x.d_name, y.d_parent = x.d_parent, y.dir = x.dir, y.children = x.children,
           NEW r, r = [ns EXCEPT ![n] = y]
    PROVE  Replaced(ns, n, y, r)
<1>1. n \in DOMAIN ns /\ (n = ROOT \/ ~Hidden(ns, n))
  BY Zenon DEF Visible
<1>2. IsSeq(ns) /\ DOMAIN ns = 1 .. Len(ns) /\ Len(ns) \in Nat
  BY <1>1, NodeFacts, Zenon DEF TreeOk
<1>3. DOMAIN r = DOMAIN ns /\ r[n] = y /\ \A i \in DOMAIN ns : i # n => r[i] = ns[i]
  BY ONLY <1>1, r = [ns EXCEPT ![n] = y]
<1>4. \A i \in DOMAIN ns : /\ r[i].d_name = ns[i].d_name /\ r[i].d_parent = ns[i].d_parent
                           /\ r[i].dir = ns[i].dir /\ r[i].children = ns[i].children
  BY <1>3, Zenon
<1>5. IsSeq(r) /\ Len(r) = Len(ns)
  <2>1. PICK l : l = Len(ns)
    BY Zenon
  <2>2. l \in Nat /\ r = [i \in 1 .. l |-> r[i]]
    BY ONLY <1>2, <2>1, r = [ns EXCEPT ![n] = y]
  <2>3. Len(r) = l /\ IsSeq(r)
    BY ONLY <2>2, FunSeq
  <2> QED BY <2>1, <2>3
<1>6. \A i \in DOMAIN r : NodeOk(r[i])
  <2>1. \A i \in DOMAIN ns : NodeOk(ns[i])
    BY Zenon DEF TreeOk
  <2> QED BY <1>3, <2>1, Zenon
<1>7. \A i \in DOMAIN ns : i # ROOT => ns[i].d_parent \in DOMAIN ns
  BY NodeFacts, Zenon
<1>8. Linked(r)
  <2>1. /\ Len(ns) > 0 => ns[ROOT].dir /\ ns[ROOT].d_parent = NULL
        /\ \A i \in DOMAIN ns \ {ROOT} : LET d == ns[i].d_parent IN
            d \in 1 .. i - 1 /\ ns[d].dir /\ i \in Range(ns[d].children)
        /\ \A d \in DOMAIN ns :
            /\ IsInjective(ns[d].children)
            /\ \A i \in Range(ns[d].children) : i \in DOMAIN ns \ {ROOT} /\ ns[i].d_parent = d
    BY Zenon DEF TreeOk, Linked
  <2>2. Len(ns) > 0 => ROOT \in DOMAIN ns
    BY ONLY <1>2 DEF ROOT
  <2>3. Len(r) > 0 => r[ROOT].dir /\ r[ROOT].d_parent = NULL
    BY <1>4, <1>5, <2>1, <2>2, Zenon
  <2>4. ASSUME NEW i \in DOMAIN r \ {ROOT}, NEW d, d = r[i].d_parent
        PROVE  d \in 1 .. i - 1 /\ r[d].dir /\ i \in Range(r[d].children)
    <3>1. d = ns[i].d_parent /\ d \in DOMAIN ns
      BY <1>3, <1>4, <1>7, <2>4, Zenon
    <3>2. d \in 1 .. i - 1 /\ ns[d].dir /\ i \in Range(ns[d].children)
      BY <1>3, <2>1, <3>1
    <3> QED BY <1>4, <3>1, <3>2, Zenon
  <2>5. ASSUME NEW d \in DOMAIN r
        PROVE  /\ IsInjective(r[d].children)
               /\ \A i \in Range(r[d].children) : i \in DOMAIN r \ {ROOT} /\ r[i].d_parent = d
    <3>1. r[d].children = ns[d].children
      BY <1>3, <1>4, Zenon
    <3>2. IsInjective(ns[d].children) /\ \A i \in Range(ns[d].children) : i \in DOMAIN ns \ {ROOT} /\ ns[i].d_parent = d
      BY <1>3, <2>1
    <3>3. \A i \in Range(ns[d].children) : i \in DOMAIN r \ {ROOT} /\ r[i].d_parent = d
      BY <1>3, <1>4, <3>2, Zenon
    <3> QED BY <3>1, <3>2, <3>3
  <2>6. \A i \in DOMAIN r \ {ROOT} : LET d == r[i].d_parent IN
            d \in 1 .. i - 1 /\ r[d].dir /\ i \in Range(r[d].children)
    BY <2>4
  <2> QED BY ONLY <2>3, <2>5, <2>6 DEF Linked
<1>9. ASSUME NEW i \in DOMAIN ns, i # ROOT PROVE Hidden(r, i) <=> Hidden(ns, i)
  <2>1. PICK p, c, kids : p = ns[i].d_parent /\ c = ns[i].d_name /\ kids = ns[p].children
    BY Zenon
  <2>2. p \in DOMAIN ns /\ r[i].d_parent = p /\ r[i].d_name = c /\ r[p].children = kids
    BY <1>4, <1>7, <1>9, <2>1, Zenon
  <2>3. \A j \in DOMAIN kids : r[kids[j]].d_name = ns[kids[j]].d_name
    <3>1. \A e \in Range(kids) : e \in DOMAIN ns
      BY <2>1, <2>2, NodeFacts, Zenon
    <3> QED BY <1>4, <3>1, Zenon DEF Range
  <2>4. {j \in DOMAIN kids : r[kids[j]].d_name = Cut[c]} = {j \in DOMAIN kids : ns[kids[j]].d_name = Cut[c]}
    BY <2>3, Zenon
  <2>5. PICK hits : hits = {j \in DOMAIN kids : ns[kids[j]].d_name = Cut[c]}
    BY Zenon
  <2>6. ramfs_lookup(ns, p, c) = IF hits = {} THEN NULL ELSE kids[Min(hits)]
    BY <2>1, <2>5, Zenon DEF ramfs_lookup
  <2>7. ramfs_lookup(r, p, c) = IF hits = {} THEN NULL ELSE kids[Min(hits)]
    <3>1. PICK seen : seen = {j \in DOMAIN kids : r[kids[j]].d_name = Cut[c]}
      BY Zenon
    <3>2. seen = hits
      BY <2>4, <2>5, <3>1, Zenon
    <3>3. ramfs_lookup(r, p, c) = IF seen = {} THEN NULL ELSE kids[Min(seen)]
      BY ONLY <2>2, <3>1 DEF ramfs_lookup
    <3> QED BY <3>2, <3>3
  <2> QED BY <2>1, <2>2, <2>6, <2>7, Zenon DEF Hidden
<1>10. ASSUME NEW i \in DOMAIN r, i # ROOT, Hidden(r, i)
       PROVE  r[i].children = <<>> /\ r[i].i_size = 0 /\ (r[i].dir => r[i].d_name = ".")
  <2>1. i \in DOMAIN ns /\ Hidden(ns, i)
    BY <1>3, <1>9, <1>10, Zenon
  <2>2. ns[i].children = <<>> /\ ns[i].i_size = 0 /\ (ns[i].dir => ns[i].d_name = ".")
    BY <1>10, <2>1, Zenon DEF TreeOk
  <2>3. r[i] = ns[i]
    BY <1>1, <1>3, <1>10, <2>1, Zenon
  <2> QED BY <2>2, <2>3, Zenon
<1>11. TreeOk(r)
  BY <1>5, <1>6, <1>8, <1>10, Zenon DEF TreeOk
<1>12. ASSUME NEW i, Visible(ns, i) PROVE Visible(r, i)
  BY <1>3, <1>9, <1>12, Zenon DEF Visible
<1> QED BY <1>3, <1>11, <1>12, Zenon DEF Replaced

-----------------------------------------------------------------------------
(* The file tables, and the inductive invariant.                           *)

\* An open file of the tree is a dentry a path leads to.
SlotOk(f, ns) ==
    /\ f = [node |-> f.node, f_pos |-> f.f_pos, f_flags |-> f.f_flags]
    /\ f.node = NULL \/ f.node = CONSOLE \/ Visible(ns, f.node)
    /\ f.f_pos \in Nat

TableOk(t, ns) ==
    /\ DOMAIN t = Procs /\ t = [p \in Procs |-> t[p]]
    /\ \A p \in Procs : DOMAIN t[p] = Fds /\ t[p] = [fd \in Fds |-> t[p][fd]]
    /\ \A p \in Procs, fd \in Fds : SlotOk(t[p][fd], ns)

FInv ==
    /\ TreeOk(nodes) /\ TableOk(file_table, nodes)
    /\ loaded \in Nat /\ (archive \in Archives \/ archive = <<>>)
    /\ mode = "load" => out = Nothing /\ \A p \in Procs, fd \in Fds : file_table[p][fd].node \in {NULL, CONSOLE}
    /\ ElfImageWhole

\* One slot changes.
LEMMA SlotUpdate ==
    ASSUME NEW ns, NEW t, TableOk(t, ns), NEW p \in Procs, NEW fd \in Fds, NEW f, SlotOk(f, ns),
           NEW u, u = [t EXCEPT ![p][fd] = f]
    PROVE  TableOk(u, ns)
<1>1. /\ DOMAIN t = Procs /\ \A q \in Procs : DOMAIN t[q] = Fds /\ t[q] = [e \in Fds |-> t[q][e]]
      /\ \A q \in Procs, e \in Fds : SlotOk(t[q][e], ns)
  BY Zenon DEF TableOk
<1>2. PICK v : v = [t[p] EXCEPT ![fd] = f]
  BY Zenon
<1>3. u = [t EXCEPT ![p] = v]
  BY <1>2, Zenon
<1>4. /\ DOMAIN u = Procs /\ u[p] = v /\ \A q \in Procs : q # p => u[q] = t[q]
      /\ u = [q \in Procs |-> u[q]]
  BY <1>1, <1>3, Zenon
<1>5. PICK w : w = t[p]
  BY Zenon
<1>6. DOMAIN w = Fds /\ v = [w EXCEPT ![fd] = f]
  BY <1>1, <1>2, <1>5, Zenon
<1>7. DOMAIN v = Fds /\ v = [e \in Fds |-> v[e]] /\ v[fd] = f /\ \A e \in Fds : e # fd => v[e] = w[e]
  BY <1>6, Zenon
<1>8. \A q \in Procs : DOMAIN u[q] = Fds /\ u[q] = [e \in Fds |-> u[q][e]]
  <2>1. SUFFICES ASSUME NEW q \in Procs PROVE DOMAIN u[q] = Fds /\ u[q] = [e \in Fds |-> u[q][e]]
    BY Zenon
  <2>2. CASE q = p
    <3>1. u[q] = v
      BY <1>4, <2>2, Zenon
    <3> QED BY ONLY <1>7, <3>1
  <2>3. CASE q # p
    <3>1. u[q] = t[q]
      BY <1>4, <2>3, Zenon
    <3> QED BY <1>1, <3>1, Zenon
  <2> QED BY <2>2, <2>3
<1>9. ASSUME NEW q \in Procs, NEW e \in Fds PROVE SlotOk(u[q][e], ns)
  BY <1>1, <1>4, <1>5, <1>7, Zenon
<1> QED BY <1>4, <1>8, <1>9, Zenon DEF TableOk

\* A file's position moves.
LEMMA PosUpdate ==
    ASSUME NEW ns, NEW t, TableOk(t, ns), NEW p \in Procs, NEW fd \in Fds, NEW n \in Nat,
           NEW u, u = [t EXCEPT ![p][fd].f_pos = @ + n]
    PROVE  TableOk(u, ns)
<1>1. PICK f : f = t[p][fd]
  BY Zenon
<1>2. SlotOk(f, ns) /\ DOMAIN t = Procs /\ DOMAIN t[p] = Fds
  BY <1>1, Zenon DEF TableOk
<1>3. f = [node |-> f.node, f_pos |-> f.f_pos, f_flags |-> f.f_flags] /\ f.f_pos \in Nat
  BY <1>2, Zenon DEF SlotOk
<1>4. PICK g : g = [f EXCEPT !.f_pos = f.f_pos + n]
  BY Zenon
<1>5. g = [node |-> f.node, f_pos |-> f.f_pos + n, f_flags |-> f.f_flags]
  BY ONLY <1>3, <1>4
<1>6. g.node = f.node /\ g.f_pos = f.f_pos + n /\ g.f_flags = f.f_flags
  BY ONLY <1>5
<1>7. f.f_pos + n \in Nat
  BY ONLY <1>3, n \in Nat
<1>8. SlotOk(g, ns)
  BY <1>2, <1>5, <1>6, <1>7, Zenon DEF SlotOk
<1>9. u = [t EXCEPT ![p][fd] = g]
  BY <1>1, <1>4
<1> QED BY ONLY <1>8, <1>9, TableOk(t, ns), p \in Procs, fd \in Fds, SlotUpdate

\* Paths go on leading where they led.
LEMMA TableKept ==
    ASSUME NEW ns, NEW t, TableOk(t, ns), NEW r, \A i : Visible(ns, i) => Visible(r, i)
    PROVE  TableOk(t, r)
BY Zenon DEF TableOk, SlotOk

\* So does a table without files.
LEMMA TableNoFiles ==
    ASSUME NEW ns, NEW t, TableOk(t, ns), NEW r, \A p \in Procs, fd \in Fds : t[p][fd].node \in {NULL, CONSOLE}
    PROVE  TableOk(t, r)
<1>1. ASSUME NEW p \in Procs, NEW fd \in Fds PROVE SlotOk(t[p][fd], r)
  <2>1. PICK f : f = t[p][fd]
    BY Zenon
  <2>2. SlotOk(f, ns) /\ (f.node = NULL \/ f.node = CONSOLE)
    BY <2>1, Zenon DEF TableOk
  <2> QED BY <2>1, <2>2, Zenon DEF SlotOk
<1> QED BY <1>1, Zenon DEF TableOk

\* r is the first size bytes of b.
FirstBytes(r, b, size) == r = [i \in 1 .. size |-> b[i]]

\* ramfs_read of a file's size gives its contents.
LEMMA WholeFile ==
    ASSUME NEW x, NodeOk(x), NEW size, size = x.i_size, size # 0, NEW c, c = ReadCount(x, 0, size),
           NEW b, b = x.buffer, NEW r, r = ramfs_read(x, c)
    PROVE  FirstBytes(r, b, size)
<1>1. IsSeq(b) /\ size \in Nat /\ size <= Len(b)
  BY Zenon DEF NodeOk
<1>2. Len(b) \in Nat
  BY <1>1 DEF IsSeq
<1>3. b # <<>> /\ ~(0 >= size) /\ ~(0 + size > size)
  BY ONLY <1>1, <1>2, size # 0
<1>4. c = size
  BY ONLY <1>3, size = x.i_size, b = x.buffer, c = ReadCount(x, 0, size) DEF ReadCount
<1>5. r = [i \in 1 .. size |-> IF i <= Len(b) THEN b[i] ELSE GARBAGE]
  BY <1>4, Zenon DEF ramfs_read
<1>6. \A i \in 1 .. size : i <= Len(b)
  BY ONLY <1>1, <1>2
<1> QED BY ONLY <1>5, <1>6 DEF FirstBytes

-----------------------------------------------------------------------------
(* The invariant holds at the start and every step keeps it.               *)

\* Before the first member there is the root, or nothing.
LEMMA InitTree ==
    ASSUME NEW ns, ns = <<>> \/ ns = <<NewNode("/", NULL, TRUE)>>
    PROVE  TreeOk(ns)
<1>1. CASE ns = <<>>
  <2>1. Len(ns) = 0 /\ DOMAIN ns = {} /\ ns = [i \in 1 .. Len(ns) |-> ns[i]]
    BY ONLY <1>1
  <2>2. IsSeq(ns) /\ ~(Len(ns) > 0)
    BY ONLY <2>1 DEF IsSeq
  <2> QED BY <2>1, <2>2, Zenon DEF TreeOk, Linked
<1>2. CASE ns = <<NewNode("/", NULL, TRUE)>>
  <2>1. PICK x, name, d, dir : name = "/" /\ d = NULL /\ dir = TRUE /\ x = NewNode(name, d, dir)
    BY Zenon
  <2>2. name \in Names /\ dir \in BOOLEAN /\ x = NewNode(name, d, dir)
    BY <2>1, NameAssumption
  <2>3. /\ NodeOk(x) /\ x.d_name = Cut[name] /\ x.d_parent = d /\ x.dir = dir
        /\ x.children = <<>> /\ x.i_size = 0 /\ Range(x.children) = {} /\ IsInjective(x.children)
    BY ONLY <2>2, NewNodeOk
  <2>4. ns = <<x>>
    BY <1>2, <2>1
  <2>5. Len(ns) = 1 /\ DOMAIN ns = {ROOT} /\ ns[ROOT] = x /\ ns = [i \in 1 .. 1 |-> ns[i]]
    BY ONLY <2>4 DEF ROOT
  <2>6. IsSeq(ns)
    BY ONLY <2>5 DEF IsSeq
  <2>7. Linked(ns)
    BY <2>1, <2>3, <2>5, Zenon DEF Linked
  <2> QED BY <2>3, <2>5, <2>6, <2>7, Zenon DEF TreeOk
<1> QED BY <1>1, <1>2, Zenon

\* A new process has the console, three times.
LEMMA NewTableOk ==
    ASSUME NEW ns, NEW t, t = [p \in Procs |-> NewTable]
    PROVE  TableOk(t, ns) /\ \A p \in Procs, fd \in Fds : t[p][fd].node \in {NULL, CONSOLE}
<1>1. PICK new : new = NewTable
  BY Zenon
<1>2. DOMAIN new = Fds /\ new = [fd \in Fds |-> new[fd]]
  BY <1>1 DEF NewTable
<1>3. ASSUME NEW fd \in Fds PROVE SlotOk(new[fd], ns) /\ new[fd].node \in {NULL, CONSOLE}
  <2>1. new[fd] = Console(O_RDONLY) \/ new[fd] = Console(O_WRONLY) \/ new[fd] = Closed
    <3>1. CASE fd = 0
      BY <1>1, <3>1 DEF NewTable
    <3>2. CASE fd \in {1, 2}
      BY <1>1, <3>2 DEF NewTable
    <3>3. CASE ~(fd = 0) /\ ~(fd \in {1, 2})
      BY <1>1, <3>3 DEF NewTable
    <3> QED BY <3>1, <3>2, <3>3
  <2>2. PICK f : f = new[fd]
    BY Zenon
  <2>3. /\ f = [node |-> f.node, f_pos |-> f.f_pos, f_flags |-> f.f_flags]
        /\ f.node = NULL \/ f.node = CONSOLE
        /\ f.f_pos \in Nat
    BY <2>1, <2>2 DEF Console, Closed
  <2> QED BY <2>2, <2>3, Zenon DEF SlotOk
<1>4. DOMAIN t = Procs /\ t = [p \in Procs |-> t[p]] /\ \A p \in Procs : t[p] = new
  BY <1>1, Zenon
<1> QED BY <1>2, <1>3, <1>4, Zenon DEF TableOk

\* vfs_init starts with the invariant.
LEMMA InitInv == Init => FInv
<1> SUFFICES ASSUME Init PROVE FInv
  OBVIOUS
<1>1. nodes = <<>> \/ nodes = <<NewNode("/", NULL, TRUE)>>
  BY Zenon DEF Init
<1>2. TreeOk(nodes)
  BY <1>1, InitTree, Zenon
<1>3. file_table = [p \in Procs |-> NewTable]
  BY DEF Init
<1>4. TableOk(file_table, nodes) /\ \A p \in Procs, fd \in Fds : file_table[p][fd].node \in {NULL, CONSOLE}
  BY <1>3, NewTableOk
<1>5. loaded \in Nat /\ (archive \in Archives \/ archive = <<>>) /\ out = Nothing
  BY DEF Init
<1>6. ElfImageWhole
  BY <1>5 DEF ElfImageWhole, Nothing
<1> QED BY <1>2, <1>4, <1>5, <1>6, Zenon DEF FInv

\* A regular member keeps the tree.
LEMMA LoadFileOk ==
    ASSUME NEW ns, TreeOk(ns), NEW m, m.path \in Seq(Names), m.path # <<>>, Len(m.data) \in Nat,
           NEW r, r = LoadFile(ns, m)
    PROVE  TreeOk(r)
<1>1. PICK path, data, len : path = m.path /\ data = m.data /\ len = Len(data)
  BY Zenon
<1>2. PICK made, n, w : made = vfs_create(ns, path) /\ n = vfs_open(made, path) /\ w = ramfs_write(made[n], 0, data)
  BY Zenon
<1>3. path \in Seq(Names) /\ path # <<>> /\ len \in Nat
  BY <1>1
<1>4. TreeOk(made)
  BY ONLY <1>2, <1>3, TreeOk(ns), CreateOk
<1>5. CASE n = NULL
  BY <1>1, <1>2, <1>4, <1>5, Zenon DEF LoadFile
<1>6. CASE n # NULL
  <2>1. PICK v : v = vfs_lookup(made, path)
    BY Zenon
  <2>2. v = n
    BY <1>2, <1>6, <2>1, Zenon DEF vfs_open
  <2>3. v = NULL \/ Visible(made, v)
    BY ONLY <1>3, <1>4, <2>1, LookupVisible
  <2>4. Visible(made, n)
    BY <1>6, <2>2, <2>3
  <2>5. n \in DOMAIN made
    BY <2>4, Zenon DEF Visible
  <2>6. PICK x : x = made[n]
    BY Zenon
  <2>7. NodeOk(x)
    BY <1>4, <2>5, <2>6, Zenon DEF TreeOk
  <2>8. Wrote(x, w, 0, len, data)
    <3>1. PICK pos : pos = 0
      BY Zenon
    <3>2. pos \in Nat /\ len = pos + len
      BY <1>3, <3>1
    <3>3. w = ramfs_write(x, pos, data) /\ len = Len(data)
      BY <1>1, <1>2, <2>6, <3>1
    <3>4. Wrote(x, w, pos, len, data)
      BY ONLY <1>3, <2>7, <3>2, <3>3, WriteOk
    <3> QED BY <3>1, <3>4
  <2>9. PICK y : y = [w EXCEPT !.i_size = len]
    BY Zenon
  <2>10. NodeOk(w) /\ Len(w.buffer) >= len /\ w.d_name = x.d_name /\ w.d_parent = x.d_parent
         /\ w.dir = x.dir /\ w.children = x.children
    BY <2>8, Zenon DEF Wrote
  <2>11. y = [d_name |-> w.d_name, d_parent |-> w.d_parent, dir |-> w.dir,
              children |-> w.children, buffer |-> w.buffer, i_size |-> len]
    <3>1. w = [d_name |-> w.d_name, d_parent |-> w.d_parent, dir |-> w.dir,
               children |-> w.children, buffer |-> w.buffer, i_size |-> w.i_size]
      BY <2>10, Zenon DEF NodeOk
    <3> QED BY ONLY <2>9, <3>1
  <2>12. /\ y.d_name = w.d_name /\ y.d_parent = w.d_parent /\ y.dir = w.dir
         /\ y.children = w.children /\ y.buffer = w.buffer /\ y.i_size = len
    BY ONLY <2>11
  <2>13. NodeOk(y)
    <3>1. len <= Len(w.buffer)
      <4>1. Len(w.buffer) \in Nat
        BY <2>10 DEF NodeOk, IsSeq
      <4> QED BY <1>3, <2>10, <4>1
    <3>2. y = [d_name |-> y.d_name, d_parent |-> y.d_parent, dir |-> y.dir,
               children |-> y.children, buffer |-> y.buffer, i_size |-> y.i_size]
      BY <2>11, <2>12, Zenon
    <3>3. /\ w.d_name \in Names /\ Cut[w.d_name] = w.d_name /\ w.dir \in BOOLEAN
          /\ IsSeq(w.children) /\ Len(w.children) <= RAMFS_MAX_CHILDREN /\ IsSeq(w.buffer)
      BY <2>10, Zenon DEF NodeOk
    <3> QED BY <1>3, <2>12, <3>1, <3>2, <3>3, Zenon DEF NodeOk
  <2>14. r = [made EXCEPT ![n] = y]
    BY <1>1, <1>2, <1>6, <2>9, Zenon DEF LoadFile
  <2>15. y.d_name = x.d_name /\ y.d_parent = x.d_parent /\ y.dir = x.dir /\ y.children = x.children
    BY <2>10, <2>12, Zenon
  <2>16. Replaced(made, n, y, r)
    BY ONLY <1>4, <2>4, <2>6, <2>13, <2>14, <2>15, ReplaceNode
  <2> QED BY <2>16, Zenon DEF Replaced
<1> QED BY <1>5, <1>6

\* One member of the archive.
LEMMA LoadMemberInv ==
    ASSUME FInv, LoadMember
    PROVE  FInv'
<1>1. /\ TreeOk(nodes) /\ TableOk(file_table, nodes) /\ loaded \in Nat /\ (archive \in Archives \/ archive = <<>>)
      /\ (mode = "load" => out = Nothing /\ \A p \in Procs, fd \in Fds : file_table[p][fd].node \in {NULL, CONSOLE})
  BY Zenon DEF FInv
<1>2. PICK m : m = archive[loaded + 1]
  BY Zenon
<1>3. /\ mode = "load" /\ loaded < Len(archive) /\ loaded' = loaded + 1
      /\ archive' = archive /\ mode' = mode /\ file_table' = file_table /\ out' = out
      /\ nodes' = vfs_mkdir(nodes, m.path) \/ nodes' = LoadFile(nodes, m) \/ nodes' = nodes
  BY <1>2 DEF LoadMember
<1>4. m.path \in Seq(Names) /\ m.path # <<>> /\ Len(m.data) \in Nat
  <2>1. archive # <<>>
    BY <1>1, <1>3
  <2>2. Len(archive) \in Nat /\ \A i \in 1 .. Len(archive) :
            archive[i].path \in Seq(Names) \ {<<>>} /\ Len(archive[i].data) \in Nat
    BY <1>1, <2>1, NameAssumption, Zenon
  <2>3. loaded + 1 \in 1 .. Len(archive)
    BY ONLY <1>1, <1>3, <2>2
  <2> QED BY <1>2, <2>2, <2>3, Zenon
<1>5. TreeOk(nodes')
  <2>1. PICK path, r : path = m.path /\ r = nodes'
    BY Zenon
  <2>2. CASE nodes' = vfs_mkdir(nodes, m.path)
    <3>1. path \in Seq(Names) /\ path # <<>> /\ r = vfs_mkdir(nodes, path)
      BY <1>4, <2>1, <2>2
    <3>2. TreeOk(r)
      BY ONLY <1>1, <3>1, MkdirOk
    <3> QED BY <2>1, <3>2
  <2>3. CASE nodes' = LoadFile(nodes, m)
    <3>1. r = LoadFile(nodes, m)
      BY <2>1, <2>3
    <3>2. TreeOk(r)
      BY ONLY <1>1, <1>4, <3>1, LoadFileOk
    <3> QED BY <2>1, <3>2
  <2> QED BY <1>1, <1>3, <2>2, <2>3, Zenon
<1>6. TableOk(file_table', nodes')
  <2>1. PICK r : r = nodes'
    BY Zenon
  <2>2. TableOk(file_table, r)
    BY <1>1, <1>3, TableNoFiles, Zenon
  <2> QED BY <1>3, <2>1, <2>2, Zenon
<1>7. out' = Nothing /\ ElfImageWhole'
  BY <1>1, <1>3 DEF ElfImageWhole, Nothing
<1>8. loaded' \in Nat
  BY <1>1, <1>3
<1> QED BY <1>1, <1>3, <1>5, <1>6, <1>7, <1>8, Zenon DEF FInv

\* What execute_elf reads is the file.
LEMMA ProgramWhole ==
    ASSUME TreeOk(nodes), NEW n \in DOMAIN nodes, nodes[n].i_size # 0, nodes' = nodes, out' = Program(n)
    PROVE  ElfImageWhole'
<1>1. PICK x, b, size : x = nodes[n] /\ b = x.buffer /\ size = x.i_size
  BY Zenon
<1>2. PICK c, r : c = ReadCount(x, 0, size) /\ r = ramfs_read(x, c)
  BY Zenon
<1>3. NodeOk(x) /\ size # 0
  BY <1>1, Zenon DEF TreeOk
<1>4. FirstBytes(r, b, size)
  BY ONLY <1>1, <1>2, <1>3, WholeFile
<1>5. out'.node = n /\ out'.data = r
  BY <1>1, <1>2 DEF Program
<1>6. Contents(out.node)' = [i \in 1 .. nodes'[out'.node].i_size |-> nodes'[out'.node].buffer[i]]
  BY DEF Contents
<1>7. nodes'[out'.node] = x
  BY <1>1, <1>5
<1>8. Contents(out.node)' = [i \in 1 .. size |-> b[i]]
  BY ONLY <1>1, <1>6, <1>7
<1> QED BY <1>4, <1>5, <1>8, Zenon DEF ElfImageWhole, FirstBytes

\* vfs_open leads nowhere or to a visible dentry.
LEMMA OpenVisible ==
    ASSUME NEW ns, TreeOk(ns), NEW path, path \in Seq(Names), NEW r, r = vfs_open(ns, path), r # NULL
    PROVE  r \in DOMAIN ns
<1>1. PICK v : v = vfs_lookup(ns, path)
  BY Zenon
<1>2. v = r
  BY <1>1, Zenon DEF vfs_open
<1>3. v = NULL \/ Visible(ns, v)
  BY ONLY <1>1, TreeOk(ns), path \in Seq(Names), LookupVisible
<1> QED BY <1>2, <1>3, Zenon DEF Visible

\* The end of the archive.
LEMMA LoadedInv ==
    ASSUME FInv, Loaded
    PROVE  FInv'
<1>1. PICK n, path : path = InitPath /\ n = vfs_open(nodes, path)
  BY Zenon
<1>2. /\ mode' # "load" /\ nodes' = nodes /\ archive' = archive /\ loaded' = loaded /\ file_table' = file_table
      /\ \/ n # NULL /\ nodes[n].i_size # 0 /\ out' = Program(n)
         \/ out' = Nothing
  BY <1>1 DEF Loaded
<1>3. TreeOk(nodes) /\ path \in Seq(Names)
  <2>1. "init.elf" \in Names
    BY NameAssumption
  <2> QED BY <1>1, <2>1 DEF FInv, InitPath
<1>4. ElfImageWhole'
  <2>1. CASE n # NULL /\ nodes[n].i_size # 0 /\ out' = Program(n)
    <3>1. n \in DOMAIN nodes
      BY ONLY <1>1, <1>3, <2>1, OpenVisible
    <3> QED BY <1>2, <1>3, <2>1, <3>1, ProgramWhole
  <2>2. CASE out' = Nothing
    BY <2>2 DEF ElfImageWhole, Nothing
  <2> QED BY <1>2, <2>1, <2>2
<1> QED BY <1>2, <1>4, Zenon DEF FInv

\* SC_EXECVE reads a program.
LEMMA ExecInv ==
    ASSUME FInv, NEW path \in Paths, ExecuteElf(path)
    PROVE  FInv'
<1>1. PICK n, tokens : tokens = path.tokens /\ n = IF path.slashes >= 1 THEN vfs_open(nodes, tokens) ELSE NULL
  BY Zenon
<1>2. /\ mode = "run" /\ n # NULL /\ nodes[n].i_size # 0 /\ out' = Program(n)
      /\ nodes' = nodes /\ archive' = archive /\ loaded' = loaded /\ mode' = mode /\ file_table' = file_table
  BY <1>1, Zenon DEF ExecuteElf
<1>3. TreeOk(nodes) /\ tokens \in Seq(Names) /\ n = vfs_open(nodes, tokens)
  BY <1>1, <1>2, NameAssumption, Zenon DEF FInv
<1>4. n \in DOMAIN nodes
  BY ONLY <1>2, <1>3, OpenVisible
<1>5. ElfImageWhole'
  BY <1>2, <1>3, <1>4, ProgramWhole
<1>6. mode' # "load"
  BY <1>2
<1> QED BY <1>2, <1>5, <1>6, Zenon DEF FInv

\* SC_OPEN fills a free slot, with a dentry a path leads to.
LEMMA OpenInv ==
    ASSUME FInv, NEW p \in Procs, NEW path \in Paths, NEW flags \in Flags, SysOpen(p, path, flags)
    PROVE  FInv'
<1>1. PICK n, tokens : tokens = path.tokens /\ n = IF path.slashes >= 2 THEN vfs_lookup(nodes, tokens) ELSE NULL
  BY Zenon
<1>2. PICK free, t : free = {fd \in Fds : file_table[p][fd].node = NULL} /\ t = file_table
  BY Zenon
<1>3. /\ mode = "run" /\ nodes' = nodes /\ archive' = archive /\ loaded' = loaded /\ mode' = mode
      /\ \/ out' = [Nothing EXCEPT !.op = "EMFILE"] /\ file_table' = file_table
         \/ /\ out' = [op |-> "ENOENT", node |-> NULL, from |-> path.slashes, data |-> path.tokens]
            /\ file_table' = file_table
         \/ /\ free # {} /\ n # NULL
            /\ out' = [Nothing EXCEPT !.op = "open", !.node = n]
            /\ file_table' = [t EXCEPT ![p][Min(free)] = [node |-> n, f_pos |-> 0, f_flags |-> flags]]
  BY <1>1, <1>2, Zenon DEF SysOpen
<1>4. TreeOk(nodes) /\ TableOk(t, nodes) /\ tokens \in Seq(Names) /\ mode' # "load"
  BY <1>1, <1>2, <1>3, NameAssumption, Zenon DEF FInv
<1>5. ElfImageWhole'
  <2>1. CASE out' = [Nothing EXCEPT !.op = "EMFILE"]
    BY ONLY <2>1 DEF Nothing, ElfImageWhole
  <2>2. CASE out' = [op |-> "ENOENT", node |-> NULL, from |-> path.slashes, data |-> path.tokens]
    BY ONLY <2>2 DEF ElfImageWhole
  <2>3. CASE out' = [Nothing EXCEPT !.op = "open", !.node = n]
    BY ONLY <2>3 DEF Nothing, ElfImageWhole
  <2> QED BY <1>3, <2>1, <2>2, <2>3, Zenon
<1>6. TableOk(file_table', nodes')
  <2>1. CASE file_table' = file_table
    BY <1>2, <1>3, <1>4, <2>1, Zenon
  <2>2. CASE free # {} /\ n # NULL /\ file_table' = [t EXCEPT ![p][Min(free)] = [node |-> n, f_pos |-> 0, f_flags |-> flags]]
    <3>1. PICK fd : fd = Min(free)
      BY Zenon
    <3>2. fd \in Fds
      <4>1. free \subseteq Fds
        BY <1>2, Zenon
      <4>2. Fds \subseteq Nat
        BY SizeAssumption DEF Fds
      <4>3. free \subseteq Nat /\ free # {}
        BY <2>2, <4>1, <4>2, Zenon
      <4> QED BY <3>1, <4>1, <4>3, MinIn, Zenon
    <3>3. PICK f : f = [node |-> n, f_pos |-> 0, f_flags |-> flags]
      BY Zenon
    <3>4. f.node = n /\ f.f_pos = 0 /\ f.f_flags = flags
      BY <3>3
    <3>5. Visible(nodes, n)
      <4>1. n = vfs_lookup(nodes, tokens)
        BY <1>1, <2>2, Zenon
      <4>2. n = NULL \/ Visible(nodes, n)
        BY ONLY <1>4, <4>1, LookupVisible
      <4> QED BY <2>2, <4>2
    <3>6. SlotOk(f, nodes)
      <4>1. 0 \in Nat
        OBVIOUS
      <4> QED BY <3>3, <3>4, <3>5, <4>1, Zenon DEF SlotOk
    <3>7. PICK u, ns : u = file_table' /\ ns = nodes
      BY Zenon
    <3>8. TableOk(t, ns) /\ SlotOk(f, ns) /\ u = [t EXCEPT ![p][fd] = f]
      BY <1>4, <2>2, <3>1, <3>3, <3>6, <3>7, Zenon
    <3>9. TableOk(u, ns)
      BY ONLY <3>2, <3>8, p \in Procs, SlotUpdate
    <3> QED BY <1>3, <3>7, <3>9, Zenon
  <2> QED BY <1>3, <2>1, <2>2, Zenon
<1> QED BY <1>3, <1>4, <1>5, <1>6, Zenon DEF FInv

\* An open file of the tree is a dentry.
LEMMA OpenFile ==
    ASSUME NEW ns, TreeOk(ns), NEW t, TableOk(t, ns), NEW p \in Procs, NEW fd \in Fds, NEW f, f = t[p][fd], f.node > NULL
    PROVE  Visible(ns, f.node) /\ f.node \in DOMAIN ns /\ NodeOk(ns[f.node]) /\ f.f_pos \in Nat
<1>1. SlotOk(f, ns)
  BY Zenon DEF TableOk
<1>2. f.node # NULL /\ f.node # CONSOLE
  BY DEF NULL, CONSOLE
<1>3. Visible(ns, f.node) /\ f.f_pos \in Nat
  BY <1>1, <1>2, Zenon DEF SlotOk
<1>4. f.node \in DOMAIN ns
  BY <1>3, Zenon DEF Visible
<1> QED BY <1>3, <1>4, Zenon DEF TreeOk

\* SC_READ moves the position.
LEMMA ReadInv ==
    ASSUME FInv, NEW p \in Procs, NEW fd \in Fds, NEW size \in ReadSizes, SysRead(p, fd, size)
    PROVE  FInv'
<1>1. PICK t, f, c : t = file_table /\ f = t[p][fd] /\ c = ReadCount(nodes[f.node], f.f_pos, size)
  BY Zenon
<1>2. /\ mode = "run" /\ f.node > NULL /\ file_table' = [t EXCEPT ![p][fd].f_pos = @ + c]
      /\ out' = [op |-> "read", node |-> f.node, from |-> f.f_pos, data |-> ramfs_read(nodes[f.node], c)]
      /\ nodes' = nodes /\ archive' = archive /\ loaded' = loaded /\ mode' = mode
  BY <1>1, Zenon DEF SysRead
<1>3. TreeOk(nodes) /\ TableOk(t, nodes) /\ mode' # "load"
  BY <1>1, <1>2, Zenon DEF FInv
<1>4. NodeOk(nodes[f.node]) /\ f.f_pos \in Nat
  BY <1>1, <1>2, <1>3, OpenFile
<1>5. PICK x, pos : x = nodes[f.node] /\ pos = f.f_pos
  BY Zenon
<1>6. x.i_size \in Nat /\ pos \in Nat /\ size \in Nat
  BY <1>4, <1>5, SizeAssumption DEF NodeOk
<1>7. c = ReadCount(x, pos, size)
  BY <1>1, <1>5
<1>8. c \in Nat
  BY ONLY <1>6, <1>7 DEF ReadCount
<1>9. PICK u, ns : u = file_table' /\ ns = nodes
  BY Zenon
<1>10. TableOk(t, ns) /\ u = [t EXCEPT ![p][fd].f_pos = @ + c]
  BY <1>2, <1>3, <1>9, Zenon
<1>11. TableOk(u, ns)
  BY ONLY <1>8, <1>10, p \in Procs, fd \in Fds, PosUpdate
<1>12. TableOk(file_table', nodes')
  BY <1>2, <1>9, <1>11, Zenon
<1>13. ElfImageWhole'
  BY ONLY <1>2 DEF ElfImageWhole
<1> QED BY <1>2, <1>3, <1>12, <1>13, Zenon DEF FInv

\* SC_READ of a closed slot, and nothing at all.
LEMMA SameInv ==
    ASSUME FInv, nodes' = nodes, archive' = archive, loaded' = loaded, file_table' = file_table, out' = out,
           mode' = mode \/ mode' # "load"
    PROVE  FInv'
<1>1. ElfImageWhole'
  BY DEF FInv, ElfImageWhole, Contents
<1> QED BY <1>1, Zenon DEF FInv

\* What a step of sys_write to a file does.
LEMMA WriteStep ==
    ASSUME FInv, NEW p \in Procs, NEW fd \in Fds, NEW data \in Writes, SysWrite(p, fd, data),
           NEW f, f = file_table[p][fd], ~nodes[f.node].dir
    PROVE  \E y, end : /\ f.node \in DOMAIN nodes /\ end = f.f_pos + Len(data)
                       /\ Wrote(nodes[f.node], y, f.f_pos, end, data) /\ Replaced(nodes, f.node, y, nodes')
<1>1. PICK ns, t, n, pos : ns = nodes /\ t = file_table /\ n = f.node /\ pos = f.f_pos
  BY Zenon
<1>2. f.node > NULL /\ nodes' = [ns EXCEPT ![n] = ramfs_write(ns[n], pos, data)]
  BY <1>1 DEF SysWrite
<1>3. TreeOk(ns) /\ TableOk(t, ns) /\ f = t[p][fd]
  BY <1>1, Zenon DEF FInv
<1>4. Visible(ns, n) /\ n \in DOMAIN ns /\ NodeOk(ns[n]) /\ pos \in Nat
  BY <1>1, <1>2, <1>3, OpenFile
<1>5. PICK x, len, end, y, r : /\ x = ns[n] /\ len = Len(data) /\ end = pos + len
                               /\ y = ramfs_write(x, pos, data) /\ r = nodes'
  BY Zenon
<1>6. len \in Nat /\ NodeOk(x)
  BY <1>4, <1>5, SizeAssumption
<1>7. Wrote(x, y, pos, end, data)
  BY ONLY <1>4, <1>5, <1>6, WriteOk
<1>8. NodeOk(y) /\ y.d_name = x.d_name /\ y.d_parent = x.d_parent /\ y.dir = x.dir /\ y.children = x.children
  BY <1>7, Zenon DEF Wrote
<1>9. x = ns[n] /\ r = [ns EXCEPT ![n] = y]
  BY <1>2, <1>5, Zenon
<1>10. Replaced(ns, n, y, r)
  BY ONLY <1>3, <1>4, <1>8, <1>9, ReplaceNode
<1> QED BY <1>1, <1>4, <1>5, <1>7, <1>10, Zenon

\* SC_WRITE changes a file, or takes a directory for one.
LEMMA WriteInv ==
    ASSUME FInv, NEW p \in Procs, NEW fd \in Fds, NEW data \in Writes, SysWrite(p, fd, data)
    PROVE  FInv'
<1>1. PICK f, t : t = file_table /\ f = t[p][fd]
  BY Zenon
<1>2. archive' = archive /\ loaded' = loaded /\ mode = "run"
  BY DEF SysWrite
<1>3. CASE nodes[f.node].dir
  <2>1. mode' = "wild" /\ nodes' = nodes /\ file_table' = file_table /\ out' = out
    BY <1>1, <1>3 DEF SysWrite
  <2>2. mode' # "load"
    BY <2>1
  <2> QED BY <1>2, <2>1, <2>2, SameInv, Zenon
<1>4. CASE ~nodes[f.node].dir
  <2>1. /\ mode' = mode /\ file_table' = [t EXCEPT ![p][fd].f_pos = @ + Len(data)]
        /\ out' = [op |-> "write", node |-> f.node, from |-> f.f_pos, data |-> data]
    BY <1>1, <1>4 DEF SysWrite
  <2>2. PICK y, r : Replaced(nodes, f.node, y, r) /\ r = nodes'
    BY <1>1, <1>4, WriteStep, Zenon
  <2>3. TreeOk(r) /\ \A i : Visible(nodes, i) => Visible(r, i)
    BY <2>2, Zenon DEF Replaced
  <2>4. TableOk(t, nodes)
    BY <1>1, Zenon DEF FInv
  <2>5. TableOk(t, r)
    BY <2>3, <2>4, TableKept, Zenon
  <2>6. PICK u, len : u = file_table' /\ len = Len(data)
    BY Zenon
  <2>7. len \in Nat /\ u = [t EXCEPT ![p][fd].f_pos = @ + len]
    BY <2>1, <2>6, SizeAssumption
  <2>8. TableOk(u, r)
    BY ONLY <2>5, <2>7, p \in Procs, fd \in Fds, PosUpdate
  <2>9. ElfImageWhole'
    BY ONLY <2>1 DEF ElfImageWhole
  <2>10. mode' # "load"
    BY <1>2, <2>1
  <2> QED BY <1>2, <2>2, <2>3, <2>6, <2>8, <2>9, <2>10, Zenon DEF FInv
<1> QED BY <1>3, <1>4

\* Every step keeps the invariant.
LEMMA FStep == FInv /\ [Next]_vars => FInv'
<1> SUFFICES ASSUME FInv, [Next]_vars PROVE FInv'
  OBVIOUS
<1>1. CASE LoadMember
  BY <1>1, LoadMemberInv
<1>2. CASE Loaded
  BY <1>2, LoadedInv
<1>3. ASSUME NEW p \in Procs, NEW path \in Paths, NEW flags \in Flags, SysOpen(p, path, flags) PROVE FInv'
  BY <1>3, OpenInv
<1>4. ASSUME NEW p \in Procs, NEW fd \in Fds, SysReadClosed(p, fd) PROVE FInv'
  <2>1. nodes' = nodes /\ archive' = archive /\ loaded' = loaded /\ file_table' = file_table /\ out' = out /\ mode' # "load"
    BY <1>4 DEF SysReadClosed
  <2> QED BY <2>1, SameInv, Zenon
<1>5. ASSUME NEW p \in Procs, NEW fd \in Fds, NEW size \in ReadSizes, SysRead(p, fd, size) PROVE FInv'
  BY <1>5, ReadInv
<1>6. ASSUME NEW p \in Procs, NEW fd \in Fds, NEW data \in Writes, SysWrite(p, fd, data) PROVE FInv'
  BY <1>6, WriteInv
<1>7. ASSUME NEW path \in Paths, ExecuteElf(path) PROVE FInv'
  BY <1>7, ExecInv
<1>8. CASE UNCHANGED vars
  <2>1. nodes' = nodes /\ archive' = archive /\ loaded' = loaded /\ file_table' = file_table /\ out' = out /\ mode' = mode
    BY <1>8 DEF vars
  <2> QED BY <2>1, SameInv, Zenon
<1> QED BY <1>1, <1>2, <1>3, <1>4, <1>5, <1>6, <1>7, <1>8, Zenon DEF Next

-----------------------------------------------------------------------------
(* The theorems.                                                           *)

\* The invariant says what TreeSound does.
LEMMA FSafe == FInv => TreeSound
<1> SUFFICES ASSUME FInv PROVE TreeSound
  OBVIOUS
<1>1. TreeOk(nodes) /\ TableOk(file_table, nodes)
  BY Zenon DEF FInv
<1>2. ASSUME NEW n \in DOMAIN nodes, n # ROOT
      PROVE  /\ {d \in DOMAIN nodes : n \in Range(nodes[d].children)} = {nodes[n].d_parent}
             /\ nodes[n].d_parent < n /\ nodes[nodes[n].d_parent].dir
  <2>1. PICK p : p = nodes[n].d_parent
    BY Zenon
  <2>2. p \in DOMAIN nodes /\ p < n /\ n \in Range(nodes[p].children)
    BY <1>1, <1>2, <2>1, NodeFacts
  <2>3. nodes[p].dir
    BY <1>1, <1>2, <2>1, Zenon DEF TreeOk, Linked
  <2>4. \A d \in DOMAIN nodes : n \in Range(nodes[d].children) => p = d
    <3>1. SUFFICES ASSUME NEW d \in DOMAIN nodes, n \in Range(nodes[d].children) PROVE p = d
      BY Zenon
    <3>2. \A k \in Range(nodes[d].children) : nodes[k].d_parent = d
      BY <1>1, <3>1, Zenon DEF TreeOk, Linked
    <3> QED BY ONLY <2>1, <3>1, <3>2, Zenon
  <2> QED BY <2>1, <2>2, <2>3, <2>4, Zenon
<1>3. ASSUME NEW n \in DOMAIN nodes
      PROVE  /\ IsInjective(nodes[n].children) /\ Len(nodes[n].children) <= RAMFS_MAX_CHILDREN
             /\ nodes[n].i_size <= Len(nodes[n].buffer)
  <2>1. IsInjective(nodes[n].children)
    BY <1>1, Zenon DEF TreeOk, Linked
  <2>2. NodeOk(nodes[n])
    BY <1>1, Zenon DEF TreeOk
  <2> QED BY <2>1, <2>2, Zenon DEF NodeOk
<1>4. HiddenIsEmpty
  <2>1. SUFFICES ASSUME NEW n \in DOMAIN nodes, n # ROOT, Hidden(nodes, n)
                 PROVE  /\ nodes[n].children = <<>> /\ nodes[n].i_size = 0
                        /\ nodes[n].dir => nodes[n].d_name = "."
                        /\ \A p \in Procs, fd \in Fds : file_table[p][fd].node # n
    BY Zenon DEF HiddenIsEmpty, Hidden
  <2>2. /\ nodes[n].children = <<>> /\ nodes[n].i_size = 0
        /\ nodes[n].dir => nodes[n].d_name = "."
    BY <1>1, <2>1, Zenon DEF TreeOk
  <2>3. n # NULL /\ n # CONSOLE
    <3>1. n \in Nat /\ n # NULL
      BY <1>1, NodeFacts
    <3> QED BY ONLY <3>1 DEF CONSOLE
  <2>4. ASSUME NEW p \in Procs, NEW fd \in Fds PROVE file_table[p][fd].node # n
    <3>1. PICK f : f = file_table[p][fd]
      BY Zenon
    <3>2. SlotOk(f, nodes)
      BY <1>1, <3>1, Zenon DEF TableOk
    <3> QED BY <2>1, <2>3, <3>1, <3>2, Zenon DEF SlotOk, Visible
  <2> QED BY <2>2, <2>4, Zenon
<1> QED BY <1>2, <1>3, <1>4, Zenon DEF TreeSound

\* For every archive, any number of processes and any calls: the dentries form a tree
\* with bounded directories, no file is larger than its buffer, and a dentry that no path
\* leads to is empty and not open.
THEOREM TreeCorrect == Spec => []TreeSound
<1>1. Init => FInv
  BY InitInv
<1>2. FInv /\ [Next]_vars => FInv'
  BY FStep
<1>3. FInv => TreeSound
  BY FSafe
<1> QED BY <1>1, <1>2, <1>3, PTL DEF Spec

\* What execute_elf reads of a program is the whole file and nothing else.
THEOREM ElfImageCorrect == Spec => []ElfImageWhole
<1>1. Init => FInv
  BY InitInv
<1>2. FInv /\ [Next]_vars => FInv'
  BY FStep
<1>3. FInv => ElfImageWhole
  BY Zenon DEF FInv
<1> QED BY <1>1, <1>2, <1>3, PTL DEF Spec

\* What WriteExact says of a step and of one dentry.
NodeExact(n) ==
    LET end == out'.from + Len(out'.data)
        write == nodes' # nodes /\ out'.node = n
        written == IF write THEN out'.from + 1 .. end ELSE {}
    IN  /\ nodes'[n].i_size = IF write /\ end > nodes[n].i_size THEN end ELSE nodes[n].i_size
        /\ \A i \in 1 .. nodes[n].i_size :
            i \notin written => nodes'[n].buffer[i] = nodes[n].buffer[i]
        /\ \A i \in written : nodes'[n].buffer[i] = out'.data[i - out'.from]

StepExact == mode = "run" => \A n \in DOMAIN nodes : NodeExact(n)

\* A dentry that is not written keeps its contents.
LEMMA NotWritten ==
    ASSUME NEW n, nodes'[n] = nodes[n], ~(nodes' # nodes /\ out'.node = n)
    PROVE  NodeExact(n)
BY Zenon DEF NodeExact

\* One that is gets the data, where they belong.
LEMMA Written ==
    ASSUME NEW n, nodes' # nodes, out'.node = n, NEW pos, pos = out'.from, NEW data, data = out'.data,
           NEW end, end = pos + Len(data), NEW x, x = nodes[n], NEW y, y = nodes'[n], Wrote(x, y, pos, end, data)
    PROVE  NodeExact(n)
<1>1. /\ y.i_size = IF end > x.i_size THEN end ELSE x.i_size
      /\ \A i \in 1 .. x.i_size : i \notin pos + 1 .. end => y.buffer[i] = x.buffer[i]
      /\ \A i \in pos + 1 .. end : y.buffer[i] = data[i - pos]
  BY Zenon DEF Wrote
<1> QED BY <1>1, Zenon DEF NodeExact

\* Every step is exact.
LEMMA FExact == FInv /\ [Next]_vars => [StepExact]_vars
<1> SUFFICES ASSUME FInv, Next, mode = "run", NEW n \in DOMAIN nodes PROVE NodeExact(n)
  BY Zenon DEF StepExact
<1>1. CASE nodes' = nodes
  BY <1>1, NotWritten, Zenon
<1>2. CASE nodes' # nodes
  <2>1. PICK p \in Procs, fd \in Fds, data \in Writes : SysWrite(p, fd, data)
    <3>1. ~LoadMember
      BY DEF LoadMember
    <3>2. ~Loaded
      BY <1>2 DEF Loaded
    <3>3. \A p \in Procs, path \in Paths, flags \in Flags : ~SysOpen(p, path, flags)
      BY <1>2, Zenon DEF SysOpen
    <3>4. \A p \in Procs, fd \in Fds : ~SysReadClosed(p, fd)
      BY <1>2, Zenon DEF SysReadClosed
    <3>5. \A p \in Procs, fd \in Fds, size \in ReadSizes : ~SysRead(p, fd, size)
      BY <1>2, Zenon DEF SysRead
    <3>6. \A path \in Paths : ~ExecuteElf(path)
      BY <1>2, Zenon DEF ExecuteElf
    <3> QED BY <3>1, <3>2, <3>3, <3>4, <3>5, <3>6, Zenon DEF Next
  <2>2. PICK f : f = file_table[p][fd]
    BY Zenon
  <2>3. /\ ~nodes[f.node].dir
        /\ out' = [op |-> "write", node |-> f.node, from |-> f.f_pos, data |-> data]
    BY <1>2, <2>1, <2>2, Zenon DEF SysWrite
  <2>4. PICK y, end : /\ f.node \in DOMAIN nodes /\ end = f.f_pos + Len(data)
                      /\ Wrote(nodes[f.node], y, f.f_pos, end, data) /\ Replaced(nodes, f.node, y, nodes')
    BY <2>1, <2>2, <2>3, WriteStep, Zenon
  <2>5. nodes'[f.node] = y /\ \A i \in DOMAIN nodes : i # f.node => nodes'[i] = nodes[i]
    BY <2>4, Zenon DEF Replaced
  <2>6. out'.node = f.node /\ out'.from = f.f_pos /\ out'.data = data
    BY ONLY <2>3
  <2>7. CASE n = f.node
    <3>1. PICK pos, x : pos = f.f_pos /\ x = nodes[n]
      BY Zenon
    <3>2. Wrote(x, y, pos, end, data) /\ end = pos + Len(data) /\ y = nodes'[n]
      BY <2>4, <2>5, <2>7, <3>1, Zenon
    <3>3. out'.node = n /\ pos = out'.from /\ data = out'.data
      BY <2>6, <2>7, <3>1, Zenon
    <3> QED BY <1>2, <3>1, <3>2, <3>3, Written, Zenon
  <2>8. CASE n # f.node
    BY <2>5, <2>6, <2>8, NotWritten, Zenon
  <2> QED BY <2>7, <2>8
<1> QED BY <1>1, <1>2

\* Once the archive is loaded, only ramfs_write changes a file, and only where it was told to.
THEOREM WriteCorrect == Spec => WriteExact
<1>1. Init => FInv
  BY InitInv
<1>2. FInv /\ [Next]_vars => FInv'
  BY FStep
<1>3. FInv /\ [Next]_vars => [StepExact]_vars
  BY FExact
<1> QED BY <1>1, <1>2, <1>3, PTL DEF Spec, WriteExact, StepExact, NodeExact

=============================================================================
