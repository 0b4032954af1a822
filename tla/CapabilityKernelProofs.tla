------------------------ MODULE CapabilityKernelProofs ------------------------
(***************************************************************************)
(* What the plugin manager keeps for every number of callers, every set of *)
(* capabilities and every dependencies between them.                       *)
(***************************************************************************)
EXTENDS CapabilityKernel, TLAPS, SequenceTheorems, FiniteSetTheorems, WellFoundedInduction

-----------------------------------------------------------------------------
(* The install order.                                                      *)

\* Induction, for a property given as the set of numbers that have it.
LEMMA Induction ==
    ASSUME NEW S, 0 \in S, \A n \in Nat : n \in S => n + 1 \in S
    PROVE  \A n \in Nat : n \in S
<1> DEFINE T == {n \in Nat : n \notin S}
<1> SUFFICES ASSUME T # {} PROVE FALSE
  OBVIOUS
<1>1. PICK m \in T : \A y \in T : ~(<<y, m>> \in OpToRel(<, Nat))
  BY NatLessThanWellFounded, WFMin
<1>2. \A y \in T : ~(y < m)
  <2>1. OpToRel(<, Nat) = {ss \in Nat \X Nat : ss[1] < ss[2]}
    BY DEF OpToRel
  <2> SUFFICES ASSUME NEW y \in T, y < m PROVE FALSE
    OBVIOUS
  <2>2. <<y, m>> \in {ss \in Nat \X Nat : ss[1] < ss[2]}
    OBVIOUS
  <2> QED BY <1>1, <2>1, <2>2
<1>3. m \in Nat /\ m \notin S /\ m # 0
  OBVIOUS
<1>4. m - 1 \in Nat /\ m - 1 < m /\ (m - 1) + 1 = m
  BY <1>3
<1>5. m - 1 \in S
  BY <1>2, <1>4
<1> QED BY <1>3, <1>4, <1>5

LEMMA VisitsNat == Visits \in Nat
<1> DEFINE Links(c) == {c} \X DOMAIN Deps[c]
           L == {Links(c) : c \in Cap}
           links == [c \in Cap |-> Links(c)]
<1>1. \A c \in Cap : IsFiniteSet(Links(c))
  <2> SUFFICES ASSUME NEW c \in Cap PROVE IsFiniteSet(Links(c))
    OBVIOUS
  <2>1. IsFiniteSet({c})
    BY FS_Singleton
  <2>2. IsFiniteSet(DOMAIN Deps[c])
    <3>1. DOMAIN Deps[c] = 1..Len(Deps[c]) /\ Len(Deps[c]) \in Nat
      BY KernelAssumption
    <3> QED BY <3>1, FS_Interval
  <2> QED BY <2>1, <2>2, FS_Product
<1>2. IsFiniteSet(L)
  <2> HIDE DEF Links
  <2>1. links \in Surjection(Cap, L)
    BY DEF Surjection
  <2> HIDE DEF links, L
  <2> QED BY <2>1, KernelAssumption, FS_Surjection
<1>3. \A T \in L : IsFiniteSet(T)
  <2> HIDE DEF Links
  <2> QED BY <1>1
<1>4. IsFiniteSet(UNION L)
  <2> HIDE DEF L
  <2> QED BY <1>2, <1>3, FS_UNION
<1>5. Cardinality(UNION L) \in Nat /\ Cardinality(Cap) \in Nat
  <2> HIDE DEF L
  <2> QED BY <1>4, KernelAssumption, FS_CardinalityType
<1> QED BY <1>5 DEF Visits

\* What is listed to install has its dependencies in H or listed before it.
HadIn(H, d, chain, k) == d \in H \/ \E j \in 1..(k - 1) : chain[j] = d

ClosedIn(H, chain) ==
    \A k \in DOMAIN chain : \A m \in DOMAIN Deps[chain[k]] : HadIn(H, Deps[chain[k]][m], chain, k)

Walk == [chain : Seq(Cap), stack : Seq({"visit", "append"} \X Cap)]

\* What is on the stack to append has its dependencies in H, listed or above it.
Ahead(H, d, chain, stack, k) ==
    d \in H \/ d \in Range(chain) \/ \E j \in 1..(k - 1) : stack[j][2] = d

Stacked(H, chain, stack) ==
    \A k \in DOMAIN stack : stack[k][1] = "append" =>
        \A m \in DOMAIN Deps[stack[k][2]] : Ahead(H, Deps[stack[k][2]][m], chain, stack, k)

WalkOK(H, walk) == walk \in Walk /\ ClosedIn(H, walk.chain) /\ Stacked(H, walk.chain, walk.stack)

LEMMA WalkMade ==
    ASSUME NEW H, NEW chain \in Seq(Cap), NEW stack \in Seq({"visit", "append"} \X Cap),
           ClosedIn(H, chain), Stacked(H, chain, stack)
    PROVE  WalkOK(H, [chain |-> chain, stack |-> stack])
BY DEF WalkOK, Walk

LEMMA VisitKeeps ==
    ASSUME NEW H, \A d \in Cap : State(d) = "ACTIVE" => d \in H, NEW walk, WalkOK(H, walk)
    PROVE  WalkOK(H, Visit(walk))
<1> DEFINE chain == walk.chain
           stack == walk.stack
           c == Head(stack)[2]
<1>0. /\ chain \in Seq(Cap) /\ stack \in Seq({"visit", "append"} \X Cap)
      /\ Len(stack) \in Nat /\ DOMAIN stack = 1..Len(stack)
      /\ Len(chain) \in Nat /\ DOMAIN chain = 1..Len(chain)
  BY DEF WalkOK, Walk
<1>1. CASE stack = <<>>
  BY <1>1 DEF Visit
<1> SUFFICES ASSUME stack # <<>> PROVE WalkOK(H, Visit(walk))
  BY <1>1
<1>2. /\ Head(stack) = stack[1] /\ 1 \in DOMAIN stack
      /\ Head(stack)[1] \in {"visit", "append"} /\ c \in Cap
      /\ Tail(stack) \in Seq({"visit", "append"} \X Cap) /\ Len(Tail(stack)) = Len(stack) - 1
      /\ DOMAIN Tail(stack) = 1..(Len(stack) - 1)
      /\ \A i \in 1..(Len(stack) - 1) : Tail(stack)[i] = stack[i + 1]
  BY <1>0, HeadTailProperties
<1>3. Stacked(H, chain, stack) /\ ClosedIn(H, chain)
  BY DEF WalkOK
<1> HIDE DEF chain, stack
\* With the head gone, the rest is right if the head is installed or listed.
<1>4. ASSUME NEW ch, Range(chain) \subseteq Range(ch), c \in H \/ c \in Range(ch)
      PROVE  Stacked(H, ch, Tail(stack))
  <2> SUFFICES ASSUME NEW k \in DOMAIN Tail(stack), Tail(stack)[k][1] = "append",
                      NEW d, \E m \in DOMAIN Deps[Tail(stack)[k][2]] : d = Deps[Tail(stack)[k][2]][m]
               PROVE  Ahead(H, d, ch, Tail(stack), k)
    BY DEF Stacked
  <2>1. k + 1 \in DOMAIN stack /\ Tail(stack)[k] = stack[k + 1] /\ k \in Nat
    BY <1>0, <1>2
  <2>2. Ahead(H, d, chain, stack, k + 1)
    BY <1>3, <2>1 DEF Stacked
  <2>3. ASSUME NEW j \in 1..((k + 1) - 1), stack[j][2] = d
        PROVE  d = c \/ \E i \in 1..(k - 1) : Tail(stack)[i][2] = d
    <3>1. CASE j = 1
      BY <1>2, <2>3, <3>1
    <3>2. CASE j # 1
      <4>1. j - 1 \in 1..(k - 1) /\ Tail(stack)[j - 1] = stack[j]
        BY <1>0, <1>2, <2>1, <3>2
      <4> QED BY <2>3, <4>1
    <3> QED BY <3>1, <3>2
  <2> QED BY <1>4, <2>2, <2>3 DEF Ahead
<1>5. CASE Head(stack)[1] = "append"
  <2> DEFINE ch == Append(chain, c)
  <2>1. Visit(walk) = [chain |-> ch, stack |-> Tail(stack)]
    BY <1>5 DEF Visit, chain, stack
  <2>2. /\ ch \in Seq(Cap) /\ DOMAIN ch = 1..(Len(chain) + 1)
        /\ \A i \in 1..Len(chain) : ch[i] = chain[i]
        /\ ch[Len(chain) + 1] = c
    BY <1>0, <1>2, AppendProperties
  <2>3. Range(chain) \subseteq Range(ch) /\ c \in Range(ch)
    <3>1. \A i \in DOMAIN chain : i \in DOMAIN ch /\ ch[i] = chain[i]
      BY <1>0, <2>2
    <3>2. Len(chain) + 1 \in DOMAIN ch
      BY <1>0, <2>2
    <3> HIDE DEF ch
    <3> QED BY <2>2, <3>1, <3>2 DEF Range
  <2> HIDE DEF ch
  <2>4. ClosedIn(H, ch)
    <3> SUFFICES ASSUME NEW k \in DOMAIN ch, NEW m \in DOMAIN Deps[ch[k]]
                 PROVE  HadIn(H, Deps[ch[k]][m], ch, k)
      BY DEF ClosedIn
    <3>1. CASE k \in 1..Len(chain)
      <4>1. HadIn(H, Deps[chain[k]][m], chain, k)
        BY <1>0, <1>3, <2>2, <3>1 DEF ClosedIn
      <4>2. \A j \in 1..(k - 1) : ch[j] = chain[j]
        BY <1>0, <2>2, <3>1
      <4> QED BY <2>2, <3>1, <4>1, <4>2 DEF HadIn
    <3>2. CASE k = Len(chain) + 1
      <4>1. ch[k] = c /\ stack[1] = <<"append", c>>
        BY <1>0, <1>2, <1>5, <2>2, <3>2
      <4>2. Deps[c][m] \in H \/ Deps[c][m] \in Range(chain)
        <5>1. m \in DOMAIN Deps[stack[1][2]] /\ stack[1][1] = "append" /\ stack[1][2] = c
          BY <4>1
        <5>2. Ahead(H, Deps[stack[1][2]][m], chain, stack, 1)
          BY <1>2, <1>3, <5>1 DEF Stacked
        <5> QED BY <5>1, <5>2 DEF Ahead
      <4>3. Deps[c][m] \in Range(chain) => \E j \in 1..(k - 1) : ch[j] = Deps[c][m]
        BY <1>0, <2>2, <3>2 DEF Range
      <4> QED BY <4>1, <4>2, <4>3 DEF HadIn
    <3> QED BY <1>0, <2>2, <3>1, <3>2
  <2>5. Stacked(H, ch, Tail(stack))
    BY <1>4, <2>3
  <2> QED BY <1>2, <2>1, <2>2, <2>4, <2>5, WalkMade
<1>6. CASE Head(stack)[1] = "visit" /\ (c \in Range(chain) \/ State(c) = "ACTIVE")
  <2>1. Visit(walk) = [chain |-> chain, stack |-> Tail(stack)]
    BY <1>6 DEF Visit, chain, stack
  <2>2. c \in H \/ c \in Range(chain)
    <3>1. \A d \in Cap : State(d) = "ACTIVE" => d \in H
      OBVIOUS
    <3> HIDE DEF c
    <3> QED BY <1>2, <1>6, <3>1
  <2>3. Stacked(H, chain, Tail(stack))
    BY <1>4, <2>2
  <2> QED BY <1>0, <1>2, <1>3, <2>1, <2>3, WalkMade
<1>7. CASE Head(stack)[1] = "visit" /\ ~(c \in Range(chain) \/ State(c) = "ACTIVE")
  <2> DEFINE Item == {"visit", "append"} \X Cap
             deps == [k \in DOMAIN Deps[c] |-> <<"visit", Deps[c][k]>>]
             n == Len(Deps[c])
             st == deps \o <<<<"append", c>>>> \o Tail(stack)
  <2>1. Visit(walk) = [chain |-> chain, stack |-> st]
    BY <1>7 DEF Visit, chain, stack
  <2>2. n \in Nat /\ Deps[c] \in Seq(Cap) /\ DOMAIN Deps[c] = 1..n
    BY <1>2, KernelAssumption
  <2>3. deps \in Seq(Item) /\ Len(deps) = n /\ \A i \in 1..n : deps[i] = <<"visit", Deps[c][i]>>
    <3>1. deps \in [1..n -> Item]
      BY <2>2
    <3> QED BY <2>2, <3>1
  <2>4. <<<<"append", c>>>> \in Seq(Item) /\ Len(<<<<"append", c>>>>) = 1
    BY <1>2
  <2> HIDE DEF deps, n
  <2>5. /\ deps \o <<<<"append", c>>>> \in Seq(Item) /\ Len(deps \o <<<<"append", c>>>>) = n + 1
        /\ \A i \in 1..n : (deps \o <<<<"append", c>>>>)[i] = deps[i]
        /\ (deps \o <<<<"append", c>>>>)[n + 1] = <<"append", c>>
    BY <2>2, <2>3, <2>4, ConcatProperties
  <2> DEFINE top == deps \o <<<<"append", c>>>>
  <2>6. /\ st \in Seq(Item) /\ Len(st) = (n + 1) + (Len(stack) - 1) /\ DOMAIN st = 1..(n + Len(stack))
        /\ \A i \in 1..(n + 1) : st[i] = top[i]
        /\ \A i \in 1..(Len(stack) - 1) : st[i + (n + 1)] = Tail(stack)[i]
    <3> HIDE DEF Item, top
    <3>1. top \in Seq(Item) /\ Len(top) = n + 1 /\ Tail(stack) \in Seq(Item)
      BY <1>2, <2>5 DEF top, Item
    <3>2. /\ top \o Tail(stack) \in Seq(Item) /\ Len(top \o Tail(stack)) = (n + 1) + (Len(stack) - 1)
          /\ \A i \in 1..((n + 1) + (Len(stack) - 1)) : (top \o Tail(stack))[i] =
                   IF i <= n + 1 THEN top[i] ELSE Tail(stack)[i - (n + 1)]
      <4> DEFINE t == Tail(stack)
      <4>1. t \in Seq(Item) /\ top \in Seq(Item) /\ Len(t) = Len(stack) - 1 /\ Len(top) = n + 1
        BY <1>2, <3>1
      <4> HIDE DEF t
      <4>2. /\ top \o t \in Seq(Item) /\ Len(top \o t) = Len(top) + Len(t)
            /\ \A i \in 1..(Len(top) + Len(t)) : (top \o t)[i] =
                   IF i <= Len(top) THEN top[i] ELSE t[i - Len(top)]
        BY <4>1, ConcatProperties
      <4>3. /\ top \o t \in Seq(Item) /\ Len(top \o t) = (n + 1) + (Len(stack) - 1)
            /\ \A i \in 1..((n + 1) + (Len(stack) - 1)) : (top \o t)[i] =
                   IF i <= n + 1 THEN top[i] ELSE t[i - (n + 1)]
        BY <4>1, <4>2
      <4> QED BY <4>3 DEF t
    <3>3. st = top \o Tail(stack)
      BY DEF top
    <3> HIDE DEF st
    <3>4. st \in Seq(Item) /\ Len(st) = (n + 1) + (Len(stack) - 1) /\ DOMAIN st = 1..(n + Len(stack))
      BY <1>0, <2>2, <3>2, <3>3
    <3>5. \A i \in 1..(n + 1) : i \in 1..((n + 1) + (Len(stack) - 1)) /\ i <= n + 1
      BY <1>0, <1>2, <2>2
    <3>6. \A i \in 1..(Len(stack) - 1) : /\ i + (n + 1) \in 1..((n + 1) + (Len(stack) - 1))
                                         /\ ~(i + (n + 1) <= n + 1) /\ (i + (n + 1)) - (n + 1) = i
      BY <1>0, <1>2, <2>2
    <3> QED BY <3>2, <3>3, <3>4, <3>5, <3>6
  <2> HIDE DEF st, top
  <2>7. /\ \A i \in 1..n : st[i] = <<"visit", Deps[c][i]>>
        /\ st[n + 1] = <<"append", c>>
        /\ \A i \in 1..(Len(stack) - 1) : st[i + (n + 1)] = stack[i + 1]
    <3>1. /\ \A i \in 1..n : top[i] = deps[i]
          /\ top[n + 1] = <<"append", c>>
      BY <2>5 DEF top
    <3>2. \A i \in 1..n : st[i] = <<"visit", Deps[c][i]>>
      <4> TAKE i \in 1..n
      <4>1. i \in 1..(n + 1)
        BY <2>2
      <4>2. st[i] = top[i] /\ top[i] = deps[i] /\ deps[i] = <<"visit", Deps[c][i]>>
        BY <2>3, <2>6, <3>1, <4>1
      <4> QED BY <4>2
    <3>3. st[n + 1] = <<"append", c>>
      <4>1. n + 1 \in 1..(n + 1)
        BY <2>2
      <4> QED BY <2>6, <3>1, <4>1
    <3>4. \A i \in 1..(Len(stack) - 1) : st[i + (n + 1)] = stack[i + 1]
      <4> TAKE i \in 1..(Len(stack) - 1)
      <4>1. st[i + (n + 1)] = Tail(stack)[i]
        BY <2>6
      <4>2. Tail(stack)[i] = stack[i + 1]
        BY <1>2
      <4> QED BY <4>1, <4>2
    <3> QED BY <3>2, <3>3, <3>4
  <2>8. Stacked(H, chain, st)
    <3> SUFFICES ASSUME NEW k \in DOMAIN st, st[k][1] = "append", NEW d,
                        NEW m \in DOMAIN Deps[st[k][2]], d = Deps[st[k][2]][m]
                 PROVE  Ahead(H, d, chain, st, k)
      BY DEF Stacked
    <3>1. CASE k \in 1..n
      BY <2>7, <3>1
    <3>2. CASE k = n + 1
      <4>1. st[k][2] = c
        BY <2>7, <3>2
      <4>2. m \in 1..n /\ m \in 1..(k - 1) /\ d = Deps[c][m]
        BY <2>2, <3>2, <4>1
      <4>3. st[m] = <<"visit", d>>
        BY <2>7, <4>2
      <4> QED BY <4>2, <4>3 DEF Ahead
    <3>3. CASE k \in (n + 2)..(n + Len(stack))
      <4>1. /\ k - (n + 1) \in 1..(Len(stack) - 1) /\ (k - (n + 1)) + (n + 1) = k
            /\ k - n \in DOMAIN stack /\ (k - (n + 1)) + 1 = k - n
        BY <1>0, <2>2, <3>3
      <4>2. st[k] = stack[k - n]
        BY <2>7, <4>1
      <4>3. Ahead(H, d, chain, stack, k - n)
        BY <1>3, <4>1, <4>2 DEF Stacked
      <4>4. ASSUME NEW j \in 1..((k - n) - 1), stack[j][2] = d
            PROVE  \E i \in 1..(k - 1) : st[i][2] = d
        <5>1. CASE j = 1
          <6>1. d = c /\ n + 1 \in 1..(k - 1)
            BY <1>2, <2>2, <3>3, <4>4, <5>1
          <6> QED BY <2>7, <6>1
        <5>2. CASE j # 1
          <6>1. /\ j - 1 \in 1..(Len(stack) - 1) /\ (j - 1) + (n + 1) \in 1..(k - 1)
                /\ (j - 1) + 1 = j
            BY <1>0, <2>2, <3>3, <5>2
          <6>2. st[(j - 1) + (n + 1)] = stack[j]
            BY <2>7, <6>1
          <6> QED BY <4>4, <6>1, <6>2
        <5> QED BY <5>1, <5>2
      <4> QED BY <4>3, <4>4 DEF Ahead
    <3>4. k \in 1..n \/ k = n + 1 \/ k \in (n + 2)..(n + Len(stack))
      BY <1>0, <2>2, <2>6
    <3> QED BY <3>1, <3>2, <3>3, <3>4
  <2> QED BY SMTT(30), <1>0, <1>3, <2>1, <2>6, <2>8, WalkMade DEF Item
<1> QED BY <1>2, <1>5, <1>6, <1>7

\* The stack's first walk, by its equation.
Walks(f, c, n) ==
    f = [k \in 0..n |-> IF k = 0 THEN [chain |-> <<>>, stack |-> <<<<"visit", c>>>>] ELSE Visit(f[k - 1])]

LEMMA WalksExist == ASSUME NEW c PROVE \A n \in Nat : \E f : Walks(f, c, n)
<1> DEFINE S == {n \in Nat : \E f : Walks(f, c, n)}
           start == [chain |-> <<>>, stack |-> <<<<"visit", c>>>>]
<1>1. 0 \in S
  <2> DEFINE f == [k \in 0..0 |-> start]
  <2>1. Walks(f, c, 0)
    BY DEF Walks
  <2> QED BY <2>1
<1>2. ASSUME NEW n \in Nat, n \in S PROVE n + 1 \in S
  <2>1. PICK f : Walks(f, c, n)
    BY <1>2
  <2> DEFINE g == [k \in 0..(n + 1) |-> IF k = n + 1 THEN Visit(f[n]) ELSE f[k]]
  <2> HIDE DEF start
  <2>2. \A k \in 0..n : f[k] = IF k = 0 THEN start ELSE Visit(f[k - 1])
    BY <2>1 DEF Walks, start
  <2>3. \A k \in 0..(n + 1) : k # 0 => k - 1 \in 0..n /\ g[k - 1] = f[k - 1]
    OBVIOUS
  <2>4. \A k \in 0..(n + 1) : g[k] = IF k = 0 THEN start ELSE Visit(g[k - 1])
    <3> SUFFICES ASSUME NEW k \in 0..(n + 1) PROVE g[k] = IF k = 0 THEN start ELSE Visit(g[k - 1])
      OBVIOUS
    <3>1. CASE k = n + 1
      BY <2>3, <3>1
    <3>2. CASE k # n + 1
      <4>1. k \in 0..n /\ g[k] = f[k]
        BY <3>2
      <4> QED BY <2>2, <2>3, <4>1
    <3> QED BY <3>1, <3>2
  <2>5. Walks(g, c, n + 1)
    BY <2>4 DEF Walks, start
  <2> HIDE DEF g
  <2> QED BY <2>5
<1> HIDE DEF S
<1>3. \A n \in Nat : n \in S
  BY <1>1, <1>2, Induction
<1> QED BY <1>3 DEF S

LEMMA ChainClosedIn ==
    ASSUME NEW H, \A d \in Cap : State(d) = "ACTIVE" => d \in H, NEW c \in Cap
    PROVE  InstallChain(c) \in Seq(Cap) /\ ClosedIn(H, InstallChain(c))
<1> DEFINE N == Visits
           start == [chain |-> <<>>, stack |-> <<<<"visit", c>>>>]
           f == CHOOSE f : f = [n \in 0..N |-> IF n = 0 THEN start ELSE Visit(f[n - 1])]
<1>1. InstallChain(c) = f[N].chain
  BY DEF InstallChain
<1>2. N \in Nat
  BY VisitsNat
<1>3. \E g : g = [n \in 0..N |-> IF n = 0 THEN start ELSE Visit(g[n - 1])]
  BY <1>2, WalksExist DEF Walks
<1>4. f = [n \in 0..N |-> IF n = 0 THEN start ELSE Visit(f[n - 1])]
  BY <1>3
<1> HIDE DEF f, N
<1> DEFINE S == {n \in Nat : n \in 0..N => WalkOK(H, f[n])}
<1>5. 0 \in S
  <2>1. f[0] = start
    BY <1>2, <1>4
  <2>2. /\ <<>> \in Seq(Cap) /\ <<<<"visit", c>>>> \in Seq({"visit", "append"} \X Cap)
        /\ DOMAIN <<<<"visit", c>>>> = {1}
    OBVIOUS
  <2>3. start \in Walk /\ start.chain = <<>> /\ start.stack = <<<<"visit", c>>>>
    BY <2>2 DEF Walk
  <2> HIDE DEF start
  <2>4. WalkOK(H, start)
    BY <2>2, <2>3 DEF WalkOK, ClosedIn, Stacked
  <2> QED BY <2>1, <2>4
<1>6. ASSUME NEW n \in Nat, n \in S PROVE n + 1 \in S
  <2> SUFFICES ASSUME n + 1 \in 0..N PROVE WalkOK(H, f[n + 1])
    OBVIOUS
  <2>1. n \in 0..N /\ (n + 1) - 1 = n /\ n + 1 # 0
    BY <1>2
  <2>2. f[n + 1] = Visit(f[n])
    BY <1>4, <2>1
  <2>3. WalkOK(H, f[n])
    BY <1>6, <2>1
  <2> QED BY <2>2, <2>3, VisitKeeps
<1> HIDE DEF S
<1>7. N \in S
  BY <1>2, <1>5, <1>6, Induction
<1>8. WalkOK(H, f[N])
  BY <1>2, <1>7 DEF S
<1> QED BY <1>1, <1>8 DEF WalkOK, Walk

\* What is listed to install has its dependencies installed or listed before it.
Had(d, chain, k) == insts[d] # <<>> \/ \E j \in 1..(k - 1) : chain[j] = d

Closed(chain) ==
    \A k \in DOMAIN chain : \A m \in DOMAIN Deps[chain[k]] : Had(Deps[chain[k]][m], chain, k)

LEMMA ChainClosed ==
    ASSUME NEW c \in Cap
    PROVE  InstallChain(c) \in Seq(Cap) /\ Closed(InstallChain(c))
<1> DEFINE H == {d \in Cap : insts[d] # <<>>}
<1>1. \A d \in Cap : State(d) = "ACTIVE" => d \in H
  BY DEF State
<1>2. \A d \in H : insts[d] # <<>>
  OBVIOUS
<1> HIDE DEF H
<1>3. InstallChain(c) \in Seq(Cap) /\ ClosedIn(H, InstallChain(c))
  BY <1>1, ChainClosedIn
<1> QED BY <1>2, <1>3 DEF ClosedIn, HadIn, Closed, Had

-----------------------------------------------------------------------------
(* Types, and what the variables refer to.                                 *)

Ident == Cap \X Nat

Generation ==
    [state : {"INSTALLING", "ACTIVE", "FAILED", "DISPOSING", "DISPOSED"},
     scope : {"ACTIVE", "asked", "DISPOSING", "DISPOSED"}, live : BOOLEAN,
     deps : Seq(Ident), dependents : SUBSET Cap,
     task : {"none", "created", "waiting", "final", "done"}, waits : SUBSET Ident]

Work == {"unload", "rollback", "cascade"} \X Ident

CallType ==
    [op : {"none", "install", "unload"}, id : Cap \cup {None}, on : Caller \cup {None},
     chain : Seq(Cap), created : Seq(Ident), work : Seq(Work), at : Ident \cup {None},
     ok : BOOLEAN]

PCs == {"idle", "absent", "start", "coalesced", "woken", "waiting", "next", "installing",
        "failed", "unloading", "disposing", "done"}

KernelTyped ==
    /\ insts \in [Cap -> Seq(Generation)]
    /\ registered \in [Cap -> SUBSET Ident]
    /\ installer \in [Cap -> Caller \cup {None}] /\ unloader \in [Cap -> Caller \cup {None}]
    /\ pc \in [Caller -> PCs] /\ call \in [Caller -> CallType]

\* A generation refers to generations.
RefersOK(i) == DependsOn(i) \cup Inst(i).waits \subseteq Installed

\* What is disposed owns no effect; what is active has its own; nobody has begun
\* to dispose the scope of what is being installed.
EffectsOK(inst) ==
    /\ inst.state = "DISPOSED" => inst.scope = "DISPOSED"
    /\ inst.scope = "DISPOSED" => ~inst.live
    /\ inst.state = "ACTIVE" => inst.live
    /\ inst.state \in {"ACTIVE", "INSTALLING"} => inst.scope \in {"ACTIVE", "asked"}

\* A call refers to generations, and lists what it installs in order.
CallOK(p) ==
    /\ pc[p] \notin {"idle", "absent"} => call[p].id \in Cap
    /\ pc[p] = "start" /\ call[p].op = "unload" => insts[call[p].id] # <<>>
    /\ pc[p] = "installing" => call[p].created # <<>>
    /\ pc[p] = "disposing" => call[p].at \in Installed
    /\ Range(call[p].created) \subseteq Installed
    /\ \A k \in DOMAIN call[p].work : call[p].work[k][2] \in Installed
    /\ Closed(call[p].chain)

KernelInv ==
    /\ KernelTyped
    /\ \A i \in Installed : RefersOK(i) /\ EffectsOK(Inst(i))
    /\ \A c \in Cap : registered[c] \subseteq Installed
    /\ \A p \in Caller : CallOK(p)

LEMMA KernelInvImplies == KernelInv => TypeOK /\ StateTellsEffects
<1> SUFFICES ASSUME KernelInv PROVE TypeOK /\ StateTellsEffects
  OBVIOUS
<1>1. \A i \in Installed : Inst(i) \in Generation
  BY DEF KernelInv, KernelTyped, Installed, Inst
<1>2. TypeOK
  BY <1>1 DEF KernelInv, TypeOK, RefersOK, CallOK, Generation
<1>3. StateTellsEffects
  BY DEF KernelInv, EffectsOK, StateTellsEffects
<1> QED BY <1>2, <1>3

LEMMA KernelInit == Init => KernelInv
<1> SUFFICES ASSUME Init PROVE KernelInv
  OBVIOUS
<1>1. Installed = {}
  BY DEF Init, Installed
<1>2. NoCall \in CallType /\ NoCall.chain = <<>> /\ NoCall.created = <<>> /\ NoCall.work = <<>>
  BY DEF NoCall, CallType
<1>3. KernelTyped
  BY <1>2 DEF Init, KernelTyped, PCs
<1>4. \A p \in Caller : CallOK(p)
  BY <1>2 DEF Init, CallOK, Closed, Range
<1> QED BY <1>1, <1>3, <1>4 DEF KernelInv, Init

LEMMA Members ==
    ASSUME KernelTyped
    PROVE  /\ \A i \in Installed : /\ i[1] \in Cap /\ i[2] \in DOMAIN insts[i[1]] /\ i[2] \in Nat \ {0}
                                   /\ i = <<i[1], i[2]>> /\ i \in Ident /\ Inst(i) \in Generation
           /\ \A c \in Cap : \A g \in DOMAIN insts[c] : <<c, g>> \in Installed
           /\ \A c \in Cap : /\ Len(insts[c]) \in Nat /\ DOMAIN insts[c] = 1..Len(insts[c])
                             /\ Current(c) \in Ident
                             /\ insts[c] # <<>> => Current(c) \in Installed
<1>1. \A c \in Cap : insts[c] \in Seq(Generation)
  BY DEF KernelTyped
<1>2. \A c \in Cap : /\ Len(insts[c]) \in Nat /\ DOMAIN insts[c] = 1..Len(insts[c])
                     /\ insts[c] # <<>> => Len(insts[c]) \in DOMAIN insts[c]
                     /\ \A g \in DOMAIN insts[c] : insts[c][g] \in Generation
  BY <1>1
<1>3. \A c \in Cap : \A g \in DOMAIN insts[c] : <<c, g>> \in Installed
  BY DEF Installed
<1>4. \A c \in Cap : Current(c) \in Ident /\ (insts[c] # <<>> => Current(c) \in Installed)
  BY <1>2, <1>3 DEF Current, Ident
<1>5. ASSUME NEW i \in Installed
      PROVE  /\ i[1] \in Cap /\ i[2] \in DOMAIN insts[i[1]] /\ i[2] \in Nat \ {0}
             /\ i = <<i[1], i[2]>> /\ i \in Ident /\ Inst(i) \in Generation
  <2>1. PICK c \in Cap : \E g \in DOMAIN insts[c] : i = <<c, g>>
    BY DEF Installed
  <2>2. PICK g \in DOMAIN insts[c] : i = <<c, g>>
    BY <2>1
  <2>3. g \in Nat \ {0}
    BY <1>2
  <2> QED BY <1>2, <2>2, <2>3 DEF Inst, Ident
<1> QED BY <1>2, <1>3, <1>4, <1>5

\* The generations are never fewer.
Grows == \A c \in Cap : Len(insts[c]) <= Len(insts'[c])

LEMMA Grown ==
    ASSUME KernelTyped, KernelTyped', Grows
    PROVE  Installed \subseteq Installed' /\ \A c \in Cap : insts[c] # <<>> => insts'[c] # <<>>
<1>1. ASSUME NEW c \in Cap PROVE DOMAIN insts[c] \subseteq DOMAIN insts'[c]
  <2>1. /\ Len(insts[c]) \in Nat /\ DOMAIN insts[c] = 1..Len(insts[c])
        /\ Len(insts'[c]) \in Nat /\ DOMAIN insts'[c] = 1..Len(insts'[c])
    BY DEF KernelTyped
  <2> QED BY <2>1 DEF Grows
<1>2. Installed \subseteq Installed'
  BY <1>1 DEF Installed
<1>3. ASSUME NEW c \in Cap, insts[c] # <<>> PROVE insts'[c] # <<>>
  <2>1. insts[c] \in Seq(Generation) /\ insts'[c] \in Seq(Generation)
    BY DEF KernelTyped
  <2>2. Len(insts[c]) <= Len(insts'[c])
    BY DEF Grows
  <2> QED BY <1>3, <2>1, <2>2
<1> QED BY <1>2, <1>3

\* A call that goes on, or is woken, with what it had.
Carries(p) ==
    /\ \/ pc'[p] = pc[p]
       \/ pc[p] \notin {"idle", "absent"} /\ pc'[p] \notin {"start", "installing", "disposing"}
    /\ call'[p].id = call[p].id /\ call'[p].op = call[p].op
    /\ call'[p].chain = call[p].chain /\ call'[p].created = call[p].created
    /\ call'[p].work = call[p].work /\ call'[p].at = call[p].at

LEMMA CallCarried ==
    ASSUME KernelTyped, KernelTyped', Grows, NEW p \in Caller, CallOK(p), Carries(p)
    PROVE  CallOK(p)'
<1>1. Installed \subseteq Installed' /\ \A c \in Cap : insts[c] # <<>> => insts'[c] # <<>>
  BY Grown
<1>2. Closed(call[p].chain)'
  <2> DEFINE chain == call[p].chain
  <2>1. chain \in Seq(Cap) /\ chain' = chain
    BY DEF KernelTyped, CallType, Carries
  <2>2. \A k \in DOMAIN chain : chain[k] \in Cap
    BY <2>1
  <2>3. \A c \in Cap : \A m \in DOMAIN Deps[c] : Deps[c][m] \in Cap
    BY KernelAssumption
  <2>4. Closed(chain)
    BY DEF CallOK
  <2> HIDE DEF chain
  <2>5. \A k \in DOMAIN chain : \A m \in DOMAIN Deps[chain[k]] :
           \/ insts'[Deps[chain[k]][m]] # <<>>
           \/ \E j \in 1..(k - 1) : chain[j] = Deps[chain[k]][m]
    BY <1>1, <2>2, <2>3, <2>4 DEF Closed, Had
  <2>6. Closed(chain)'
    BY <2>1, <2>5 DEF Closed, Had
  <2> QED BY <2>6 DEF chain
<1> QED BY <1>1, <1>2 DEF CallOK, Carries

LEMMA CallsCarried ==
    ASSUME KernelInv, KernelTyped', Grows, NEW p \in Caller,
           \A q \in Caller \ {p} : pc'[q] = pc[q] /\ call'[q] = call[q],
           CallOK(p)' \/ Carries(p)
    PROVE  \A q \in Caller : CallOK(q)'
<1>1. \A q \in Caller \ {p} : Carries(q)
  BY SMTT(30) DEF Carries
<1> QED BY <1>1, CallCarried DEF KernelInv

-----------------------------------------------------------------------------
(* Steps that leave the generations alone.                                 *)

\* The types of a call are kept by every update of its fields.
LEMMA CallFields ==
    ASSUME NEW c \in CallType
    PROVE  /\ \A q \in Caller \cup {None} : [c EXCEPT !.on = q] \in CallType
           /\ \A s \in Seq(Cap) : [c EXCEPT !.chain = s] \in CallType
           /\ \A q \in Caller \cup {None}, s \in Seq(Cap) :
                 [c EXCEPT !.on = q, !.chain = s] \in CallType
           /\ \A s \in Seq(Ident), t \in Seq(Cap) : [c EXCEPT !.created = s, !.chain = t] \in CallType
           /\ \A s \in Seq(Work) : [c EXCEPT !.work = s] \in CallType
           /\ \A s \in Seq(Work), i \in Ident \cup {None} :
                 [c EXCEPT !.work = s, !.at = i] \in CallType /\ [c EXCEPT !.at = i, !.work = s] \in CallType
           /\ \A b \in BOOLEAN, s \in Seq(Work) : [c EXCEPT !.ok = b, !.work = s] \in CallType
           /\ \A b \in BOOLEAN, q \in Caller \cup {None} : [c EXCEPT !.ok = b, !.on = q] \in CallType
BY DEF CallType

\* Only callers have moved, and p has made a call or goes on.
LEMMA CallerStep ==
    ASSUME KernelInv, UNCHANGED <<insts, registered>>,
           installer' \in [Cap -> Caller \cup {None}], unloader' \in [Cap -> Caller \cup {None}],
           NEW p \in Caller, NEW l \in PCs, NEW c \in CallType,
           pc' = [pc EXCEPT ![p] = l], call' = [call EXCEPT ![p] = c],
           KernelTyped' /\ Installed' = Installed => CallOK(p)' \/ Carries(p)
    PROVE  KernelInv'
<1>1. KernelTyped'
  BY DEF KernelInv, KernelTyped
<1>2. Grows
  <2>1. \A d \in Cap : Len(insts[d]) \in Nat
    BY DEF KernelInv, KernelTyped
  <2> QED BY <2>1 DEF Grows
<1>3. \A q \in Caller \ {p} : pc'[q] = pc[q] /\ call'[q] = call[q]
  BY DEF KernelInv, KernelTyped
<1>4. Installed' = Installed /\ \A i \in Installed : Inst(i)' = Inst(i)
  BY DEF Installed, Inst
<1>5. \A q \in Caller : CallOK(q)'
  BY <1>1, <1>2, <1>3, <1>4, CallsCarried
<1>6. \A i \in Installed' : RefersOK(i)' /\ EffectsOK(Inst(i))'
  BY <1>4 DEF KernelInv, RefersOK, DependsOn, EffectsOK
<1> QED BY <1>1, <1>4, <1>5, <1>6 DEF KernelInv
\* A call that has listed, created and collected nothing.
LEMMA EmptyCallOK ==
    ASSUME NEW p \in Caller, NEW new, call'[p] = new,
           new.chain = <<>>, new.created = <<>>, new.work = <<>>,
           pc'[p] \notin {"idle", "absent"} => new.id \in Cap,
           pc'[p] \notin {"installing", "disposing"},
           pc'[p] = "start" /\ new.op = "unload" => insts'[new.id] # <<>>
    PROVE  CallOK(p)'
BY DEF CallOK, Closed, Range

LEMMA MadeCall ==
    ASSUME KernelInv, NEW p \in Caller, NEW op \in {"install", "unload"}, NEW c \in Cap, pc[p] = "idle",
           UNCHANGED <<insts, registered>>,
           \/ \E b \in BOOLEAN : Refuse(p, op, c, b)
           \/ \E q \in Caller : Coalesce(p, op, c, q)
           \/ /\ Create(p, op, c) /\ (op = "unload" => insts[c] # <<>>)
              /\ installer' \in {installer, [installer EXCEPT ![c] = p]}
              /\ unloader' \in {unloader, [unloader EXCEPT ![c] = p]}
    PROVE  KernelInv'
<1>0. /\ pc \in [Caller -> PCs] /\ call \in [Caller -> CallType]
      /\ installer \in [Cap -> Caller \cup {None}] /\ unloader \in [Cap -> Caller \cup {None}]
  BY DEF KernelInv, KernelTyped
<1>1. /\ installer' \in [Cap -> Caller \cup {None}] /\ unloader' \in [Cap -> Caller \cup {None}]
  BY ZenonT(40), <1>0 DEF Refuse, Coalesce
<1>2. \E l \in {"idle", "coalesced", "start"}, new \in CallType :
        /\ pc' = [pc EXCEPT ![p] = l] /\ call' = [call EXCEPT ![p] = new]
        /\ new.id = c /\ new.op = op /\ new.chain = <<>> /\ new.created = <<>> /\ new.work = <<>>
        /\ l = "start" /\ op = "unload" => insts[c] # <<>>
  <2>1. ASSUME NEW b \in BOOLEAN, Refuse(p, op, c, b) PROVE <1>2!:
    <3> DEFINE new == [NoCall EXCEPT !.op = op, !.id = c, !.ok = b]
    <3>1. /\ new \in CallType /\ new.id = c /\ new.op = op
          /\ new.chain = <<>> /\ new.created = <<>> /\ new.work = <<>>
      BY <<>> \in Seq(Cap), <<>> \in Seq(Ident), <<>> \in Seq(Work) DEF NoCall, CallType
    <3>2. pc' = [pc EXCEPT ![p] = "idle"] /\ call' = [call EXCEPT ![p] = new]
      BY <1>0, <2>1 DEF Refuse
    <3> HIDE DEF new
    <3> QED BY <3>1, <3>2
  <2>2. ASSUME NEW q \in Caller, Coalesce(p, op, c, q) PROVE <1>2!:
    <3> DEFINE new == [NoCall EXCEPT !.op = op, !.id = c, !.on = q]
    <3>1. /\ new \in CallType /\ new.id = c /\ new.op = op
          /\ new.chain = <<>> /\ new.created = <<>> /\ new.work = <<>>
      BY <<>> \in Seq(Cap), <<>> \in Seq(Ident), <<>> \in Seq(Work) DEF NoCall, CallType
    <3>2. pc' = [pc EXCEPT ![p] = "coalesced"] /\ call' = [call EXCEPT ![p] = new]
      BY <2>2 DEF Coalesce, Goto
    <3> HIDE DEF new
    <3> QED BY <3>1, <3>2
  <2>3. ASSUME Create(p, op, c), op = "unload" => insts[c] # <<>> PROVE <1>2!:
    <3> DEFINE new == [NoCall EXCEPT !.op = op, !.id = c]
    <3>1. /\ new \in CallType /\ new.id = c /\ new.op = op
          /\ new.chain = <<>> /\ new.created = <<>> /\ new.work = <<>>
      BY <<>> \in Seq(Cap), <<>> \in Seq(Ident), <<>> \in Seq(Work) DEF NoCall, CallType
    <3>2. pc' = [pc EXCEPT ![p] = "start"] /\ call' = [call EXCEPT ![p] = new]
      BY <2>3 DEF Create, Goto
    <3> HIDE DEF new
    <3> QED BY <2>3, <3>1, <3>2
  <2> QED BY <2>1, <2>2, <2>3
<1>3. PICK l \in {"idle", "coalesced", "start"}, new \in CallType :
        /\ pc' = [pc EXCEPT ![p] = l] /\ call' = [call EXCEPT ![p] = new]
        /\ new.id = c /\ new.op = op /\ new.chain = <<>> /\ new.created = <<>> /\ new.work = <<>>
        /\ l = "start" /\ op = "unload" => insts[c] # <<>>
  BY <1>2
<1>4. l \in PCs
  BY DEF PCs
<1>5. CallOK(p)'
  <2>1. pc'[p] = l /\ call'[p] = new
    BY <1>0, <1>3
  <2> QED BY <1>3, <2>1, EmptyCallOK
<1> QED BY <1>1, <1>3, <1>4, <1>5, CallerStep

LEMMA CallMade ==
    ASSUME KernelInv, NEW p \in Caller, NEW c \in Cap, InstallCall(p, c) \/ UnloadCall(p, c)
    PROVE  KernelInv'
<1>0. \A q : Running(q) /\ q \in Caller \cup {None} => q \in Caller
  BY DEF Running
<1>1. installer[c] \in Caller \cup {None} /\ unloader[c] \in Caller \cup {None}
  BY DEF KernelInv, KernelTyped
<1>2. CASE InstallCall(p, c)
  <2>1. /\ pc[p] = "idle" /\ UNCHANGED <<insts, registered>>
        /\ \/ \E b \in BOOLEAN : Refuse(p, "install", c, b)
           \/ \E q \in Caller : Coalesce(p, "install", c, q)
           \/ /\ Create(p, "install", c)
              /\ installer' = [installer EXCEPT ![c] = p] /\ unloader' = unloader
    BY <1>0, <1>1, <1>2 DEF InstallCall, Refuse, Coalesce
  <2> QED BY <2>1, MadeCall
<1>3. CASE UnloadCall(p, c)
  <2>1. State(c) # "REGISTERED" => insts[c] # <<>>
    BY DEF State
  <2>2. /\ pc[p] = "idle" /\ UNCHANGED <<insts, registered>>
        /\ \/ \E b \in BOOLEAN : Refuse(p, "unload", c, b)
           \/ \E q \in Caller : Coalesce(p, "unload", c, q)
           \/ /\ Create(p, "unload", c) /\ insts[c] # <<>>
              /\ unloader' = [unloader EXCEPT ![c] = p] /\ installer' = installer
    BY <1>0, <1>1, <1>3, <2>1 DEF UnloadCall, Refuse, Coalesce
  <2> QED BY <2>2, MadeCall
<1> QED BY <1>2, <1>3

LEMMA TaskEnded ==
    ASSUME KernelInv, NEW p \in Caller, NEW ok \in BOOLEAN, TaskEnds(p, ok),
           pc[p] \in {"next", "unloading"},
           UNCHANGED <<insts, registered, installer, unloader>>
    PROVE  KernelInv'
<1>0. pc \in [Caller -> PCs] /\ call \in [Caller -> CallType]
  BY DEF KernelInv, KernelTyped
<1>1. ASSUME NEW q \in Caller
      PROVE  call'[q] \in CallType /\ pc'[q] \in PCs /\ Carries(q)
  <2>1. call'[q] \in {[call[q] EXCEPT !.ok = ok, !.on = None], [call[q] EXCEPT !.on = None], call[q]}
    BY DEF TaskEnds
  <2>2. call[q] \in CallType
    BY <1>0
  <2>3. /\ call'[q] \in CallType /\ call'[q].id = call[q].id /\ call'[q].op = call[q].op
        /\ call'[q].chain = call[q].chain /\ call'[q].created = call[q].created
        /\ call'[q].work = call[q].work /\ call'[q].at = call[q].at
    BY <2>1, <2>2 DEF CallType
  <2>4. /\ pc'[q] \in PCs
        /\ \/ pc'[q] = pc[q]
           \/ pc[q] \notin {"idle", "absent"} /\ pc'[q] \notin {"start", "installing", "disposing"}
    BY <1>0 DEF TaskEnds, PCs
  <2> QED BY <2>3, <2>4 DEF Carries
<1>2. KernelTyped'
  <2>1. pc' \in [Caller -> PCs] /\ call' \in [Caller -> CallType]
    BY <1>1 DEF TaskEnds
  <2> QED BY <2>1 DEF KernelInv, KernelTyped
<1>3. Grows
  <2>1. \A d \in Cap : Len(insts[d]) \in Nat
    BY DEF KernelInv, KernelTyped
  <2> QED BY <2>1 DEF Grows
<1>4. Installed' = Installed /\ \A i \in Installed : Inst(i)' = Inst(i)
  BY DEF Installed, Inst
<1>5. \A q \in Caller : CallOK(q)'
  BY <1>1, <1>2, <1>3, CallCarried DEF KernelInv
<1>6. \A i \in Installed' : RefersOK(i)' /\ EffectsOK(Inst(i))'
  BY <1>4 DEF KernelInv, RefersOK, DependsOn, EffectsOK
<1> QED BY <1>2, <1>4, <1>5, <1>6 DEF KernelInv

LEMMA CallReturned ==
    ASSUME KernelInv, NEW p \in Caller, Returns(p) PROVE KernelInv'
<1>0. pc \in [Caller -> PCs] /\ call \in [Caller -> CallType] /\ call[p] \in CallType
      /\ installer \in [Cap -> Caller \cup {None}] /\ unloader \in [Cap -> Caller \cup {None}]
  BY DEF KernelInv, KernelTyped
<1> DEFINE new == [NoCall EXCEPT !.op = call[p].op, !.id = call[p].id, !.ok = call[p].ok]
<1>1. new \in CallType /\ new.chain = <<>> /\ new.created = <<>> /\ new.work = <<>>
  BY <1>0, <<>> \in Seq(Cap), <<>> \in Seq(Ident), <<>> \in Seq(Work) DEF NoCall, CallType
<1>2. /\ pc' = [pc EXCEPT ![p] = "idle"] /\ call' = [call EXCEPT ![p] = new]
      /\ UNCHANGED <<insts, registered>>
  BY DEF Returns, Goto
<1>3. /\ installer' \in [Cap -> Caller \cup {None}] /\ unloader' \in [Cap -> Caller \cup {None}]
  BY <1>0 DEF Returns
<1> HIDE DEF new
<1>4. CallOK(p)'
  <2>1. pc'[p] = "idle" /\ call'[p] = new
    BY <1>0, <1>2
  <2> QED BY <1>1, <2>1, EmptyCallOK
<1>5. "idle" \in PCs
  BY DEF PCs
<1> QED BY <1>1, <1>2, <1>3, <1>4, <1>5, CallerStep

LEMMA TailHad ==
    ASSUME NEW chain \in Seq(Cap), chain # <<>>, Closed(chain),
           NEW k \in DOMAIN Tail(chain), NEW m \in DOMAIN Deps[Tail(chain)[k]]
    PROVE  LET d == Deps[Tail(chain)[k]][m] IN d = Head(chain) \/ Had(d, Tail(chain), k)
<1>1. /\ Len(chain) \in Nat /\ DOMAIN chain = 1..Len(chain) /\ Head(chain) = chain[1]
      /\ Tail(chain) \in Seq(Cap) /\ DOMAIN Tail(chain) = 1..(Len(chain) - 1)
      /\ \A i \in 1..(Len(chain) - 1) : Tail(chain)[i] = chain[i + 1]
  BY HeadTailProperties
<1> DEFINE d == Deps[Tail(chain)[k]][m]
<1>2. k + 1 \in DOMAIN chain /\ Tail(chain)[k] = chain[k + 1] /\ k \in Nat
  BY <1>1
<1>3. Had(d, chain, k + 1)
  BY <1>2 DEF Closed
<1> HIDE DEF d
<1>4. ASSUME NEW j \in 1..((k + 1) - 1), chain[j] = d
      PROVE  d = Head(chain) \/ \E i \in 1..(k - 1) : Tail(chain)[i] = d
  <2>1. CASE j = 1
    BY <1>1, <1>4, <2>1
  <2>2. CASE j # 1
    <3>1. j - 1 \in 1..(k - 1) /\ Tail(chain)[j - 1] = chain[j]
      BY <1>1, <1>2, <2>2
    <3> QED BY <1>4, <3>1
  <2> QED BY <2>1, <2>2
<1>5. d = Head(chain) \/ Had(d, Tail(chain), k)
  BY <1>3, <1>4 DEF Had
<1> QED BY <1>5 DEF d

LEMMA ClosedTail ==
    ASSUME NEW chain \in Seq(Cap), chain # <<>>, Closed(chain), insts[Head(chain)] # <<>>
    PROVE  Closed(Tail(chain))
<1> SUFFICES ASSUME NEW k \in DOMAIN Tail(chain), NEW m \in DOMAIN Deps[Tail(chain)[k]]
             PROVE  Had(Deps[Tail(chain)[k]][m], Tail(chain), k)
  BY DEF Closed
<1>1. LET d == Deps[Tail(chain)[k]][m] IN d = Head(chain) \/ Had(d, Tail(chain), k)
  BY TailHad
<1> QED BY <1>1 DEF Had

\* The call p goes on at l with other locals.
LEMMA CallOn ==
    ASSUME KernelInv, UNCHANGED <<insts, registered, installer, unloader>>,
           NEW p \in Caller, pc[p] \notin {"idle", "absent"},
           NEW l \in PCs \ {"start", "installing", "disposing"}, NEW new \in CallType,
           pc' = [pc EXCEPT ![p] = l], call' = [call EXCEPT ![p] = new],
           new.id = call[p].id,
           new.created = call[p].created,
           \A k \in DOMAIN new.work : new.work[k][2] \in Installed,
           Closed(new.chain)
    PROVE  KernelInv'
<1>1. /\ installer' \in [Cap -> Caller \cup {None}] /\ unloader' \in [Cap -> Caller \cup {None}]
      /\ pc \in [Caller -> PCs] /\ call \in [Caller -> CallType]
  BY DEF KernelInv, KernelTyped
<1>2. CallOK(p)'
  <2>1. pc'[p] = l /\ call'[p] = new
    BY <1>1
  <2>2. Installed' = Installed
    BY DEF Installed
  <2>3. Closed(new.chain)'
    BY DEF Closed, Had
  <2>4. Closed(call[p].chain)'
    BY SMTT(30), <2>1, <2>3 DEF Closed, Had
  <2> QED BY <2>1, <2>2, <2>4 DEF KernelInv, CallOK
<1> QED BY <1>1, <1>2, CallerStep
LEMMA ListedToInstall ==
    ASSUME KernelInv, NEW p \in Caller, InstallStart(p) \/ InstallNext(p) PROVE KernelInv'
<1>0. /\ pc \in [Caller -> PCs] /\ call \in [Caller -> CallType] /\ call[p] \in CallType
      /\ CallOK(p) /\ installer \in [Cap -> Caller \cup {None}]
  BY DEF KernelInv, KernelTyped
<1>1. CASE InstallStart(p)
  <2> DEFINE new == [call[p] EXCEPT !.chain = InstallChain(call[p].id)]
  <2>1. call[p].id \in Cap
    BY <1>0, <1>1 DEF InstallStart, CallOK
  <2>2. InstallChain(call[p].id) \in Seq(Cap) /\ Closed(InstallChain(call[p].id))
    BY <2>1, ChainClosed
  <2>3. /\ new \in CallType /\ new.id = call[p].id /\ new.created = call[p].created
        /\ new.work = call[p].work /\ new.chain = InstallChain(call[p].id)
    BY <1>0, <2>2 DEF CallType
  <2>4. /\ pc' = [pc EXCEPT ![p] = "next"] /\ call' = [call EXCEPT ![p] = new]
        /\ UNCHANGED <<insts, registered, installer, unloader>> /\ pc[p] = "start"
    BY <1>0, <1>1 DEF InstallStart, Goto
  <2> HIDE DEF new
  <2>5. "next" \in PCs \ {"start", "installing", "disposing"}
    BY DEF PCs
  <2> QED BY <1>0, <2>2, <2>3, <2>4, <2>5, CallOn DEF CallOK
<1>2. CASE InstallNext(p)
  <2> DEFINE chain == call[p].chain
             c == Head(chain)
  <2>1. /\ pc[p] = "next" /\ chain \in Seq(Cap) /\ chain # <<>> /\ Closed(chain)
        /\ Tail(chain) \in Seq(Cap) /\ c \in Cap
    BY <1>0, <1>2, HeadTailProperties DEF InstallNext, CallType, CallOK
  <2>2. State(c) \in {"ACTIVE", "INSTALLING"} => insts[c] # <<>>
    BY SMTT(30) DEF State
  <2>3. /\ UNCHANGED <<insts, registered, installer, unloader>>
        /\ \/ UNCHANGED pc /\ call' = [call EXCEPT ![p].chain = Tail(@)] /\ insts[c] # <<>>
           \/ pc' = [pc EXCEPT ![p] = "failed"] /\ UNCHANGED call
           \/ /\ pc' = [pc EXCEPT ![p] = "waiting"] /\ insts[c] # <<>> /\ installer[c] # None
              /\ call' = [call EXCEPT ![p].on = installer[c], ![p].chain = Tail(@)]
    BY <1>2, <2>2 DEF InstallNext, Skip, Goto, Running
  <2>4. insts[c] # <<>> => Closed(Tail(chain))
    BY <2>1, ClosedTail
  <2>5. {"next", "failed", "waiting"} \subseteq PCs \ {"start", "installing", "disposing"}
    BY DEF PCs
  <2>6. CASE UNCHANGED pc /\ call' = [call EXCEPT ![p].chain = Tail(@)] /\ insts[c] # <<>>
    <3> DEFINE new == [call[p] EXCEPT !.chain = Tail(chain)]
    <3>1. /\ new \in CallType /\ new.id = call[p].id /\ new.created = call[p].created
          /\ new.work = call[p].work /\ new.chain = Tail(chain)
      BY <1>0, <2>1 DEF CallType
    <3>2. pc' = [pc EXCEPT ![p] = "next"] /\ call' = [call EXCEPT ![p] = new]
      BY <1>0, <2>1, <2>6
    <3> HIDE DEF new, chain
    <3> QED BY <1>0, <2>1, <2>3, <2>4, <2>5, <2>6, <3>1, <3>2, CallOn DEF CallOK
  <2>7. CASE pc' = [pc EXCEPT ![p] = "failed"] /\ UNCHANGED call
    <3>1. call' = [call EXCEPT ![p] = call[p]]
      BY <1>0, <2>7
    <3> QED BY <1>0, <2>1, <2>3, <2>5, <2>7, <3>1, CallOn DEF CallOK
  <2>8. CASE /\ pc' = [pc EXCEPT ![p] = "waiting"] /\ insts[c] # <<>> /\ installer[c] # None
             /\ call' = [call EXCEPT ![p].on = installer[c], ![p].chain = Tail(@)]
    <3> DEFINE new == [call[p] EXCEPT !.on = installer[c], !.chain = Tail(chain)]
    <3>0. installer[c] \in Caller \cup {None}
      BY <1>0, <2>1
    <3>1. /\ new \in CallType /\ new.id = call[p].id /\ new.created = call[p].created
          /\ new.work = call[p].work /\ new.chain = Tail(chain)
      <4> DEFINE t == Tail(chain)
                 q == installer[c]
      <4>0. new = [call[p] EXCEPT !.on = q, !.chain = t]
        OBVIOUS
      <4>1. t \in Seq(Cap) /\ q \in Caller \cup {None}
        BY <2>1, <3>0
      <4> HIDE DEF t, q, new
      <4>2. /\ new \in CallType /\ new.id = call[p].id /\ new.created = call[p].created
            /\ new.work = call[p].work /\ new.chain = t
        BY <1>0, <4>0, <4>1 DEF CallType
      <4>3. t = Tail(chain)
        BY DEF t
      <4> HIDE DEF chain
      <4> QED BY <4>2, <4>3
    <3>2. call' = [call EXCEPT ![p] = new]
      BY <1>0, <2>8
    <3> HIDE DEF new, chain
    <3>3. pc' = [pc EXCEPT ![p] = "waiting"] /\ Closed(new.chain)
      BY <2>4, <2>8, <3>1
    <3>4. \A k \in DOMAIN new.work : new.work[k][2] \in Installed
      BY <1>0, <3>1 DEF CallOK
    <3>5. pc[p] \notin {"idle", "absent"} /\ "waiting" \in PCs \ {"start", "installing", "disposing"}
      BY <2>1, <2>5
    <3> HIDE DEF c
    <3> QED BY <2>3, <3>1, <3>2, <3>3, <3>4, <3>5, CallOn
  <2> QED BY <2>3, <2>6, <2>7, <2>8
<1> QED BY <1>1, <1>2

\* What a call collects to unload.
LEMMA WorkCollected ==
    ASSUME KernelInv, NEW p \in Caller, Rollback(p) \/ UnloadStart(p) \/ Disposed(p) PROVE KernelInv'
<1>0. /\ pc \in [Caller -> PCs] /\ call \in [Caller -> CallType] /\ call[p] \in CallType /\ CallOK(p)
  BY DEF KernelInv, KernelTyped
<1>1. Installed \subseteq Ident
  BY Members DEF KernelInv
<1>2. "unloading" \in PCs \ {"start", "installing", "disposing"}
  BY DEF PCs
<1>3. CASE Rollback(p)
  <2> DEFINE created == call[p].created
             work == [k \in DOMAIN created |-> <<"rollback", Reverse(created)[k]>>]
             new == [call[p] EXCEPT !.ok = FALSE, !.work = work]
  <2>1. created \in Seq(Ident) /\ Len(created) \in Nat /\ DOMAIN created = 1..Len(created)
    BY <1>0 DEF CallType
  <2>2. \A k \in DOMAIN created : Reverse(created)[k] \in Installed
    <3> SUFFICES ASSUME NEW k \in DOMAIN created PROVE Reverse(created)[k] \in Installed
      OBVIOUS
    <3>1. (Len(created) - k) + 1 \in DOMAIN created
      BY SMTT(30), <2>1
    <3>2. Reverse(created)[k] = created[(Len(created) - k) + 1]
      BY <2>1 DEF Reverse
    <3> QED BY <1>0, <3>1, <3>2 DEF CallOK, Range
  <2>3. work \in [1..Len(created) -> Work]
    BY <1>1, <2>1, <2>2 DEF Work
  <2>4. work \in Seq(Work) /\ \A k \in DOMAIN work : work[k][2] \in Installed
    BY <2>1, <2>2, <2>3
  <2>5. call' = [call EXCEPT ![p] = new]
    BY <1>0, <1>3 DEF Rollback
  <2> HIDE DEF work
  <2>6. /\ new \in CallType /\ new.id = call[p].id /\ new.created = call[p].created
        /\ new.work = work /\ new.chain = call[p].chain
    BY <1>0, <2>4 DEF CallType
  <2> HIDE DEF new
  <2>7. pc' = [pc EXCEPT ![p] = "unloading"] /\ UNCHANGED <<insts, registered, installer, unloader>>
        /\ pc[p] = "failed"
    BY <1>3 DEF Rollback, Goto
  <2> QED BY <1>0, <1>2, <2>4, <2>5, <2>6, <2>7, CallOn DEF CallOK
<1>4. CASE UnloadStart(p)
  <2> DEFINE work == <<<<"unload", Current(call[p].id)>>>>
             new == [call[p] EXCEPT !.work = work]
  <2>1. call[p].id \in Cap /\ insts[call[p].id] # <<>>
    BY <1>0, <1>4 DEF UnloadStart, CallOK
  <2>2. Current(call[p].id) \in Installed
    BY <2>1, Members DEF KernelInv
  <2>3. work \in Seq(Work) /\ \A k \in DOMAIN work : work[k][2] \in Installed
    BY <1>1, <2>2 DEF Work
  <2>4. call' = [call EXCEPT ![p] = new]
    BY <1>0, <1>4 DEF UnloadStart
  <2> HIDE DEF work
  <2>5. /\ new \in CallType /\ new.id = call[p].id /\ new.created = call[p].created
        /\ new.work = work /\ new.chain = call[p].chain
    BY <1>0, <2>3 DEF CallType
  <2> HIDE DEF new
  <2>6. pc' = [pc EXCEPT ![p] = "unloading"] /\ UNCHANGED <<insts, registered, installer, unloader>>
        /\ pc[p] = "start"
    BY <1>4 DEF UnloadStart, Goto
  <2> QED BY <1>0, <1>2, <2>3, <2>4, <2>5, <2>6, CallOn DEF CallOK
<1>5. CASE Disposed(p)
  <2> DEFINE deps == Inst(call[p].at).deps
             cascade == [k \in DOMAIN deps |-> <<"cascade", deps[k]>>]
             old == call[p].work
             new == [call[p] EXCEPT !.at = None, !.work = cascade \o old]
  <2>1. call[p].at \in Installed
    BY <1>0, <1>5 DEF Disposed, CallOK
  <2>2. /\ deps \in Seq(Ident) /\ Len(deps) \in Nat /\ DOMAIN deps = 1..Len(deps)
        /\ \A k \in DOMAIN deps : deps[k] \in Installed
    <3>1. Inst(call[p].at) \in Generation /\ RefersOK(call[p].at)
      BY <2>1, Members DEF KernelInv
    <3>2. Range(deps) \subseteq Installed
      BY <3>1 DEF RefersOK, DependsOn
    <3> QED BY <3>1, <3>2 DEF Generation, Range
  <2>3. cascade \in [1..Len(deps) -> Work]
    BY <1>1, <2>2 DEF Work
  <2>4. cascade \in Seq(Work) /\ \A k \in DOMAIN cascade : cascade[k][2] \in Installed
    BY <2>2, <2>3
  <2>5. old \in Seq(Work) /\ \A k \in DOMAIN old : old[k][2] \in Installed
    BY <1>0 DEF CallType, CallOK
  <2>6. call' = [call EXCEPT ![p] = new]
    BY <1>0, <1>5 DEF Disposed
  <2> HIDE DEF cascade, old
  <2>7. /\ cascade \o old \in Seq(Work)
        /\ \A k \in DOMAIN (cascade \o old) : (cascade \o old)[k][2] \in Installed
    <3>1. /\ cascade \o old \in Seq(Work) /\ Len(cascade \o old) = Len(cascade) + Len(old)
          /\ \A i \in 1..(Len(cascade) + Len(old)) : (cascade \o old)[i] =
                 IF i <= Len(cascade) THEN cascade[i] ELSE old[i - Len(cascade)]
      BY <2>4, <2>5, ConcatProperties
    <3>2. /\ Len(cascade) \in Nat /\ Len(old) \in Nat /\ DOMAIN cascade = 1..Len(cascade)
          /\ DOMAIN old = 1..Len(old) /\ DOMAIN (cascade \o old) = 1..(Len(cascade) + Len(old))
      BY <2>4, <2>5, <3>1
    <3>3. \A i \in 1..(Len(cascade) + Len(old)) :
            IF i <= Len(cascade) THEN i \in DOMAIN cascade ELSE i - Len(cascade) \in DOMAIN old
      BY <3>2
    <3> QED BY <2>4, <2>5, <3>1, <3>2, <3>3
  <2> DEFINE work == cascade \o old
  <2> HIDE DEF work
  <2>8. work \in Seq(Work) /\ (\A k \in DOMAIN work : work[k][2] \in Installed)
    BY <2>7 DEF work
  <2>9. /\ new \in CallType /\ new.id = call[p].id /\ new.created = call[p].created
        /\ new.work = work /\ new.chain = call[p].chain
    <3>1. new = [call[p] EXCEPT !.at = None, !.work = work]
      BY DEF work
    <3> HIDE DEF new
    <3> QED BY <1>0, <2>8, <3>1 DEF CallType
  <2> HIDE DEF new
  <2>10. pc' = [pc EXCEPT ![p] = "unloading"] /\ UNCHANGED <<insts, registered, installer, unloader>>
         /\ pc[p] = "disposing"
    BY <1>5 DEF Disposed, Goto
  <2> QED BY <1>0, <1>2, <2>6, <2>8, <2>9, <2>10, CallOn DEF CallOK
<1> QED BY <1>3, <1>4, <1>5

-----------------------------------------------------------------------------
(* Steps that change one generation.                                       *)

LEMMA OneChanges ==
    ASSUME KernelTyped, NEW i \in Installed, NEW g \in Generation,
           insts' = [insts EXCEPT ![i[1]][i[2]] = g]
    PROVE  /\ insts' \in [Cap -> Seq(Generation)] /\ Grows /\ Installed' = Installed
           /\ \A j \in Installed : Inst(j)' = IF j = i THEN g ELSE Inst(j)
           /\ \A c \in Cap : insts[c] = <<>> <=> insts'[c] = <<>>
           /\ \A c \in Cap : Current(c)' = Current(c)
<1> DEFINE c == i[1]
           s == [insts[c] EXCEPT ![i[2]] = g]
<1>1. c \in Cap /\ i[2] \in DOMAIN insts[c] /\ i = <<c, i[2]>>
  BY Members
<1>2. insts \in [Cap -> Seq(Generation)] /\ insts[c] \in Seq(Generation)
  BY <1>1 DEF KernelTyped
<1>3. i[2] \in 1..Len(insts[c])
  BY <1>1, <1>2
<1>4. s \in Seq(Generation) /\ Len(s) = Len(insts[c])
      /\ \A j \in 1..Len(insts[c]) : s[j] = IF j = i[2] THEN g ELSE insts[c][j]
  BY <1>2, <1>3, ExceptSeq
<1>5. insts' = [d \in Cap |-> IF d = c THEN s ELSE insts[d]]
  BY <1>1, <1>2
<1> HIDE DEF s, c
<1>6. insts' \in [Cap -> Seq(Generation)] /\ \A d \in Cap : insts'[d] = IF d = c THEN s ELSE insts[d]
  BY <1>2, <1>4, <1>5
<1>7. \A d \in Cap : /\ Len(insts'[d]) = Len(insts[d]) /\ Len(insts[d]) \in Nat
                     /\ DOMAIN insts'[d] = DOMAIN insts[d]
                     /\ DOMAIN insts[d] = 1..Len(insts[d])
                     /\ insts[d] = <<>> <=> insts'[d] = <<>>
  <2> SUFFICES ASSUME NEW d \in Cap
               PROVE  /\ Len(insts'[d]) = Len(insts[d]) /\ Len(insts[d]) \in Nat
                      /\ DOMAIN insts'[d] = DOMAIN insts[d]
                      /\ DOMAIN insts[d] = 1..Len(insts[d])
                      /\ insts[d] = <<>> <=> insts'[d] = <<>>
    OBVIOUS
  <2>1. insts[d] \in Seq(Generation) /\ insts'[d] \in Seq(Generation)
    BY <1>2, <1>6
  <2>2. Len(insts'[d]) = Len(insts[d])
    BY <1>4, <1>6
  <2> QED BY <2>1, <2>2
<1>8. Grows
  BY <1>7 DEF Grows
<1>9. Installed' = Installed
  BY <1>7 DEF Installed
<1>10. \A j \in Installed : Inst(j)' = IF j = i THEN g ELSE Inst(j)
  <2> SUFFICES ASSUME NEW j \in Installed PROVE Inst(j)' = IF j = i THEN g ELSE Inst(j)
    OBVIOUS
  <2>1. j[1] \in Cap /\ j[2] \in DOMAIN insts[j[1]] /\ j = <<j[1], j[2]>>
    BY Members
  <2>2. CASE j[1] = c
    <3>1. Inst(j)' = s[j[2]] /\ j[2] \in 1..Len(insts[c])
      BY <1>1, <1>6, <1>7, <2>1, <2>2 DEF Inst
    <3>2. j = i <=> j[2] = i[2]
      BY <1>1, <2>1, <2>2
    <3> QED BY <1>4, <2>2, <3>1, <3>2 DEF Inst
  <2>3. CASE j[1] # c
    <3>1. j # i
      BY <2>3 DEF c
    <3> QED BY <1>6, <2>1, <2>3, <3>1 DEF Inst
  <2> QED BY <2>2, <2>3
<1> QED BY <1>6, <1>7, <1>8, <1>9, <1>10 DEF Current

\* One generation changes its state, scope, effects or task.
LEMMA GenerationStep ==
    ASSUME KernelInv, NEW i \in Installed, NEW g \in Generation,
           insts' = [insts EXCEPT ![i[1]][i[2]] = g],
           g.deps = Inst(i).deps, g.waits = Inst(i).waits, EffectsOK(g),
           UNCHANGED <<registered, installer, unloader>>,
           pc' \in [Caller -> PCs], call' \in [Caller -> CallType],
           KernelTyped' /\ Installed' = Installed => \A q \in Caller : CallOK(q)' \/ Carries(q)
    PROVE  KernelInv'
<1>0. KernelTyped
  BY DEF KernelInv
<1>1. /\ insts' \in [Cap -> Seq(Generation)] /\ Grows /\ Installed' = Installed
      /\ \A j \in Installed : Inst(j)' = IF j = i THEN g ELSE Inst(j)
  BY <1>0, OneChanges
<1>2. KernelTyped'
  BY <1>0, <1>1 DEF KernelTyped
<1>3. \A q \in Caller : CallOK(q)'
  BY <1>0, <1>1, <1>2, CallCarried DEF KernelInv
<1>4. ASSUME NEW j \in Installed PROVE RefersOK(j)' /\ EffectsOK(Inst(j))'
  <2>1. Inst(j)'.deps = Inst(j).deps /\ Inst(j)'.waits = Inst(j).waits
    BY <1>1
  <2>2. RefersOK(j) /\ EffectsOK(Inst(j))
    BY DEF KernelInv
  <2>3. RefersOK(j)'
    BY <1>1, <2>1, <2>2 DEF RefersOK, DependsOn
  <2>4. Inst(j)' = g \/ Inst(j)' = Inst(j)
    BY <1>1
  <2>5. EffectsOK(Inst(j))'
    BY <2>2, <2>4 DEF EffectsOK
  <2> QED BY <2>3, <2>5
<1> QED BY <1>1, <1>2, <1>3, <1>4 DEF KernelInv
LEMMA MineInstalled ==
    ASSUME KernelInv, NEW p \in Caller, pc[p] = "installing"
    PROVE  Mine(p) \in Installed
<1> DEFINE created == call[p].created
<1>1. created \in Seq(Ident) /\ created # <<>> /\ Range(created) \subseteq Installed
  BY DEF KernelInv, KernelTyped, CallType, CallOK
<1> HIDE DEF created
<1>2. Len(created) \in DOMAIN created
  BY <1>1
<1>3. created[Len(created)] \in Installed
  BY <1>1, <1>2 DEF Range
<1> QED BY <1>3 DEF Mine, Last, created

\* What can become of a generation.
LEMMA Became ==
    ASSUME NEW r \in Generation, EffectsOK(r)
    PROVE  \* Acquire, InstallReturns, InstallRaises
           /\ r.scope \in {"ACTIVE", "asked"} => LET g == [r EXCEPT !.live = TRUE] IN
                 g \in Generation /\ EffectsOK(g) /\ g.deps = r.deps /\ g.waits = r.waits
           /\ r.live \/ r.scope \in {"DISPOSING", "DISPOSED"} =>
                 (r.state = "INSTALLING" => LET g == [r EXCEPT !.state = "ACTIVE"] IN
                    g \in Generation /\ EffectsOK(g) /\ g.deps = r.deps /\ g.waits = r.waits)
           /\ LET g == [r EXCEPT !.state = "FAILED", !.live = FALSE] IN
                 g \in Generation /\ EffectsOK(g) /\ g.deps = r.deps /\ g.waits = r.waits
           \* UnloadNext
           /\ LET g == IF r.task = "none" THEN [Begun(r) EXCEPT !.task = "created"] ELSE r IN
                 g \in Generation /\ EffectsOK(g) /\ g.deps = r.deps /\ g.waits = r.waits
           \* Finalize, ScopeBegins, ScopeEnds, DisposeEnds
           /\ LET g == [r EXCEPT !.task = "final",
                                 !.scope = IF r.scope = "ACTIVE" THEN "asked" ELSE r.scope] IN
                 g \in Generation /\ EffectsOK(g) /\ g.deps = r.deps /\ g.waits = r.waits
           /\ r.scope = "asked" => LET g == [Begun(r) EXCEPT !.scope = "DISPOSING"] IN
                 g \in Generation /\ EffectsOK(g) /\ g.deps = r.deps /\ g.waits = r.waits
           /\ r.scope = "DISPOSING" =>
                 LET g == [r EXCEPT !.live = FALSE, !.scope = "DISPOSED",
                                    !.state = IF r.state = "DISPOSING" THEN "DISPOSED" ELSE r.state] IN
                 g \in Generation /\ EffectsOK(g) /\ g.deps = r.deps /\ g.waits = r.waits
           /\ r.scope = "DISPOSED" =>
                 LET g == [r EXCEPT !.task = "done",
                                    !.state = IF r.state = "DISPOSING" THEN "DISPOSED" ELSE r.state] IN
                 g \in Generation /\ EffectsOK(g) /\ g.deps = r.deps /\ g.waits = r.waits
<1>1. r.scope \in {"ACTIVE", "asked"} => LET g == [r EXCEPT !.live = TRUE] IN
         g \in Generation /\ EffectsOK(g) /\ g.deps = r.deps /\ g.waits = r.waits
  BY DEF Generation, EffectsOK
<1>2. r.live \/ r.scope \in {"DISPOSING", "DISPOSED"} =>
         (r.state = "INSTALLING" => LET g == [r EXCEPT !.state = "ACTIVE"] IN
            g \in Generation /\ EffectsOK(g) /\ g.deps = r.deps /\ g.waits = r.waits)
  BY DEF Generation, EffectsOK
<1>3. LET g == [r EXCEPT !.state = "FAILED", !.live = FALSE] IN
         g \in Generation /\ EffectsOK(g) /\ g.deps = r.deps /\ g.waits = r.waits
  BY DEF Generation, EffectsOK
<1>4. LET g == Begun(r) IN
         /\ g \in Generation /\ g.deps = r.deps /\ g.waits = r.waits /\ g.scope = r.scope
         /\ g.live = r.live
         /\ g.state = IF r.state \in {"ACTIVE", "INSTALLING", "FAILED"} THEN "DISPOSING" ELSE r.state
  BY DEF Generation, Begun
<1>5. LET g == [Begun(r) EXCEPT !.task = "created"] IN
         g \in Generation /\ EffectsOK(g) /\ g.deps = r.deps /\ g.waits = r.waits
  <2> DEFINE b == Begun(r)
  <2> HIDE DEF b
  <2>1. LET g == [b EXCEPT !.task = "created"] IN
           g \in Generation /\ EffectsOK(g) /\ g.deps = r.deps /\ g.waits = r.waits
    BY <1>4 DEF b, Generation, EffectsOK
  <2> QED BY <2>1 DEF b
<1>6. LET g == [r EXCEPT !.task = "final", !.scope = IF r.scope = "ACTIVE" THEN "asked" ELSE r.scope] IN
         g \in Generation /\ EffectsOK(g) /\ g.deps = r.deps /\ g.waits = r.waits
  BY DEF Generation, EffectsOK
<1>7. r.scope = "asked" => LET g == [Begun(r) EXCEPT !.scope = "DISPOSING"] IN
         g \in Generation /\ EffectsOK(g) /\ g.deps = r.deps /\ g.waits = r.waits
  <2> DEFINE b == Begun(r)
  <2>0. r.scope = "asked" => b.state \notin {"ACTIVE", "INSTALLING", "DISPOSED"}
    BY <1>4 DEF EffectsOK
  <2>1. /\ b \in Generation /\ b.deps = r.deps /\ b.waits = r.waits
    BY <1>4
  <2> HIDE DEF b
  <2>2. r.scope = "asked" => LET g == [b EXCEPT !.scope = "DISPOSING"] IN
           g \in Generation /\ EffectsOK(g) /\ g.deps = r.deps /\ g.waits = r.waits
    BY <2>0, <2>1 DEF Generation, EffectsOK
  <2> QED BY <2>2 DEF b
<1>8. r.scope = "DISPOSING" =>
         LET g == [r EXCEPT !.live = FALSE, !.scope = "DISPOSED",
                            !.state = IF r.state = "DISPOSING" THEN "DISPOSED" ELSE r.state] IN
         g \in Generation /\ EffectsOK(g) /\ g.deps = r.deps /\ g.waits = r.waits
  BY DEF Generation, EffectsOK
<1>9. r.scope = "DISPOSED" =>
         LET g == [r EXCEPT !.task = "done",
                            !.state = IF r.state = "DISPOSING" THEN "DISPOSED" ELSE r.state] IN
         g \in Generation /\ EffectsOK(g) /\ g.deps = r.deps /\ g.waits = r.waits
  BY DEF Generation, EffectsOK
<1> QED BY <1>1, <1>2, <1>3, <1>5, <1>6, <1>7, <1>8, <1>9

\* The step makes r of generation i.
Makes(i, g) ==
    /\ insts' = [insts EXCEPT ![i[1]][i[2]] = g]
    /\ g \in Generation /\ EffectsOK(g) /\ g.deps = Inst(i).deps /\ g.waits = Inst(i).waits

LEMMA GenerationMade ==
    ASSUME KernelInv, NEW i \in Installed,
           \/ Finalize(i) \/ ScopeBegins(i) \/ ScopeEnds(i) \/ DisposeEnds(i)
    PROVE  \E g : Makes(i, g)
<1> DEFINE r == Inst(i)
<1>1. r \in Generation /\ EffectsOK(r) /\ insts[i[1]][i[2]] = r
  BY Members DEF KernelInv, Inst
<1>2. CASE Finalize(i)
  <2> DEFINE g == [r EXCEPT !.task = "final", !.scope = IF r.scope = "ACTIVE" THEN "asked" ELSE r.scope]
  <2>1. insts' = [insts EXCEPT ![i[1]][i[2]] = g]
    BY <1>1, <1>2 DEF Finalize
  <2>2. g \in Generation /\ EffectsOK(g) /\ g.deps = r.deps /\ g.waits = r.waits
    BY Zenon, <1>1, Became
  <2> HIDE DEF g
  <2> QED BY Zenon, <2>1, <2>2 DEF Makes
<1>3. CASE ScopeBegins(i)
  <2> DEFINE g == [Begun(r) EXCEPT !.scope = "DISPOSING"]
  <2>1. insts' = [insts EXCEPT ![i[1]][i[2]] = g]
    BY <1>1, <1>3 DEF ScopeBegins
  <2>2. g \in Generation /\ EffectsOK(g) /\ g.deps = r.deps /\ g.waits = r.waits
    BY Zenon, <1>1, <1>3, Became DEF ScopeBegins
  <2> HIDE DEF g
  <2> QED BY Zenon, <2>1, <2>2 DEF Makes
<1>4. CASE ScopeEnds(i)
  <2> DEFINE g == [r EXCEPT !.live = FALSE, !.scope = "DISPOSED",
                            !.state = IF r.state = "DISPOSING" THEN "DISPOSED" ELSE r.state]
  <2>1. insts' = [insts EXCEPT ![i[1]][i[2]] = g]
    BY <1>1, <1>4 DEF ScopeEnds
  <2>2. g \in Generation /\ EffectsOK(g) /\ g.deps = r.deps /\ g.waits = r.waits
    BY Zenon, <1>1, <1>4, Became DEF ScopeEnds
  <2> HIDE DEF g
  <2> QED BY <2>1, <2>2 DEF Makes
<1>5. CASE DisposeEnds(i)
  <2> DEFINE g == [r EXCEPT !.task = "done",
                            !.state = IF r.state = "DISPOSING" THEN "DISPOSED" ELSE r.state]
  <2>1. insts' = [insts EXCEPT ![i[1]][i[2]] = g]
    BY <1>1, <1>5 DEF DisposeEnds
  <2>2. g \in Generation /\ EffectsOK(g) /\ g.deps = r.deps /\ g.waits = r.waits
    BY Zenon, <1>1, <1>5, Became DEF DisposeEnds
  <2> HIDE DEF g
  <2> QED BY <2>1, <2>2 DEF Makes
<1> QED BY <1>2, <1>3, <1>4, <1>5

LEMMA TornDown ==
    ASSUME KernelInv, NEW i \in Installed,
           \/ Finalize(i) \/ ScopeBegins(i) \/ ScopeEnds(i) \/ DisposeEnds(i)
    PROVE  KernelInv'
<1>1. PICK g : Makes(i, g)
  BY GenerationMade
<1>2. UNCHANGED <<registered, installer, unloader, pc, call>>
  BY DEF Finalize, ScopeBegins, ScopeEnds, DisposeEnds
<1>3. pc' \in [Caller -> PCs] /\ call' \in [Caller -> CallType]
  BY <1>2 DEF KernelInv, KernelTyped
<1>4. \A q \in Caller : Carries(q)
  BY <1>2 DEF Carries
<1> QED BY <1>1, <1>2, <1>3, <1>4, GenerationStep DEF Makes

LEMMA InstallGoesOn ==
    ASSUME KernelInv, NEW p \in Caller, Acquire(p) \/ InstallReturns(p) \/ InstallRaises(p)
    PROVE  KernelInv'
<1> DEFINE i == Mine(p)
           r == Inst(i)
<1>0. /\ pc \in [Caller -> PCs] /\ call \in [Caller -> CallType]
  BY DEF KernelInv, KernelTyped
<1>1. /\ i \in Installed /\ pc[p] = "installing"
      /\ UNCHANGED <<registered, installer, unloader, call>>
  BY MineInstalled DEF Acquire, InstallReturns, InstallRaises
<1>2. r \in Generation /\ EffectsOK(r)
  BY <1>1, Members DEF KernelInv
<1>3. /\ pc' \in [Caller -> PCs] /\ \A q \in Caller : pc'[q] # pc[q] => q = p /\ pc'[q] \in {"next", "failed"}
  BY <1>0 DEF Acquire, InstallReturns, InstallRaises, Goto, PCs
<1>4. \A q \in Caller : Carries(q)
  BY <1>1, <1>3 DEF Carries
<1>5. UNCHANGED insts \/ \E g : Makes(i, g)
  <2>1. CASE Acquire(p)
    <3> DEFINE g == [r EXCEPT !.live = TRUE]
    <3>1. insts' = [insts EXCEPT ![i[1]][i[2]] = g]
      BY Zenon, <2>1 DEF Acquire, Set
    <3>2. g \in Generation /\ EffectsOK(g) /\ g.deps = r.deps /\ g.waits = r.waits
      BY Zenon, <1>2, <2>1, Became DEF Acquire
    <3> HIDE DEF g
    <3> QED BY <3>1, <3>2 DEF Makes
  <2>2. CASE InstallReturns(p) /\ r.state = "INSTALLING"
    <3> DEFINE g == [r EXCEPT !.state = "ACTIVE"]
    <3>1. insts' = [insts EXCEPT ![i[1]][i[2]] = g]
      BY <2>2 DEF InstallReturns, Set
    <3>2. g \in Generation /\ EffectsOK(g) /\ g.deps = r.deps /\ g.waits = r.waits
      BY Zenon, <1>2, <2>2, Became DEF InstallReturns
    <3> HIDE DEF g
    <3> QED BY <3>1, <3>2 DEF Makes
  <2>3. CASE InstallReturns(p) /\ r.state # "INSTALLING"
    BY <2>3 DEF InstallReturns
  <2>4. CASE InstallRaises(p)
    <3> DEFINE g == [r EXCEPT !.state = "FAILED", !.live = FALSE]
    <3>1. insts' = [insts EXCEPT ![i[1]][i[2]] = g]
      BY <2>4 DEF InstallRaises
    <3>2. g \in Generation /\ EffectsOK(g) /\ g.deps = r.deps /\ g.waits = r.waits
      BY Zenon, <1>2, Became
    <3> HIDE DEF g
    <3> QED BY <3>1, <3>2 DEF Makes
  <2> QED BY <2>1, <2>2, <2>3, <2>4
<1>6. call' \in [Caller -> CallType]
  BY <1>0, <1>1
<1>7. CASE \E g : Makes(i, g)
  <2>1. PICK g : Makes(i, g)
    BY <1>7
  <2> HIDE DEF i
  <2> QED BY <1>1, <1>3, <1>4, <1>6, <2>1, GenerationStep DEF Makes
<1>8. CASE UNCHANGED insts
  <2>1. pc' = [pc EXCEPT ![p] = pc'[p]] /\ call' = [call EXCEPT ![p] = call[p]]
    <3>1. pc' = [q \in Caller |-> IF q = p THEN pc'[p] ELSE pc[q]]
      BY <1>3
    <3> QED BY <1>0, <1>1, <3>1
  <2>2. pc'[p] \in PCs /\ call[p] \in CallType
    BY <1>0, <1>3
  <2>3. installer' \in [Cap -> Caller \cup {None}] /\ unloader' \in [Cap -> Caller \cup {None}]
    BY <1>1 DEF KernelInv, KernelTyped
  <2> QED BY <1>1, <1>4, <1>8, <2>1, <2>2, <2>3, CallerStep
<1> QED BY <1>5, <1>7, <1>8

LEMMA Unloaded ==
    ASSUME KernelInv, NEW p \in Caller, UnloadNext(p) PROVE KernelInv'
<1> DEFINE work == call[p].work
           i == Head(work)[2]
           r == Inst(i)
<1>0. /\ pc \in [Caller -> PCs] /\ call \in [Caller -> CallType] /\ call[p] \in CallType /\ CallOK(p)
  BY DEF KernelInv, KernelTyped
<1>1. /\ work \in Seq(Work) /\ work # <<>> /\ pc[p] = "unloading"
      /\ UNCHANGED <<registered, installer, unloader>>
  BY Zenon, <1>0 DEF UnloadNext, CallType
<1>2. /\ Tail(work) \in Seq(Work) /\ i \in Installed /\ i \in Ident
      /\ \A k \in DOMAIN Tail(work) : Tail(work)[k][2] \in Installed
  <2>1. \A k \in DOMAIN work : work[k][2] \in Installed
    BY <1>0 DEF CallOK
  <2> HIDE DEF work
  <2>2. /\ Tail(work) \in Seq(Work) /\ Head(work) = work[1] /\ 1 \in DOMAIN work
        /\ \A k \in DOMAIN Tail(work) : k + 1 \in DOMAIN work /\ Tail(work)[k] = work[k + 1]
    BY <1>1, HeadTailProperties
  <2>3. i \in Installed
    BY <2>1, <2>2
  <2> QED BY <2>1, <2>2, <2>3, Members DEF KernelInv
<1>3. CASE Applies(Head(work)[1], i)
  <2> DEFINE g == IF r.task = "none" THEN [Begun(r) EXCEPT !.task = "created"] ELSE r
             new == [call[p] EXCEPT !.work = Tail(work), !.at = i]
  <2>1. r \in Generation /\ EffectsOK(r) /\ insts[i[1]][i[2]] = r
    BY <1>2, Members DEF KernelInv, Inst
  <2>2. insts' = [insts EXCEPT ![i[1]][i[2]] = g]
    BY Zenon, <1>3, <2>1 DEF UnloadNext
  <2>3. g \in Generation /\ EffectsOK(g) /\ g.deps = r.deps /\ g.waits = r.waits
    BY Zenon, <2>1, Became
  <2>4. /\ new \in CallType /\ new.id = call[p].id /\ new.created = call[p].created
        /\ new.work = Tail(work) /\ new.at = i /\ new.chain = call[p].chain /\ new.op = call[p].op
    <3> DEFINE t == Tail(work)
               j == i
    <3>1. t \in Seq(Work) /\ j \in Ident /\ new = [call[p] EXCEPT !.work = t, !.at = j]
      BY <1>2
    <3> HIDE DEF t, j, new
    <3>2. /\ new \in CallType /\ new.id = call[p].id /\ new.created = call[p].created
          /\ new.work = t /\ new.at = j /\ new.chain = call[p].chain /\ new.op = call[p].op
      BY Zenon, <1>0, <3>1 DEF CallType
    <3> QED BY <3>2 DEF t, j
  <2>5. call' = [call EXCEPT ![p] = new] /\ pc' = [pc EXCEPT ![p] = "disposing"]
    BY Zenon, <1>0, <1>3 DEF UnloadNext, Goto
  <2> HIDE DEF g, new, i, r, work
  <2>6. /\ call' \in [Caller -> CallType] /\ pc' \in [Caller -> PCs]
        /\ call'[p] = new /\ pc'[p] = "disposing"
        /\ \A q \in Caller \ {p} : pc'[q] = pc[q] /\ call'[q] = call[q]
    BY <1>0, <2>4, <2>5 DEF PCs
  <2>7. ASSUME KernelTyped', Installed' = Installed PROVE CallOK(p)'
    <3>1. /\ Grows /\ \A c \in Cap : insts[c] = <<>> <=> insts'[c] = <<>>
      BY <1>2, <2>2, <2>3, OneChanges DEF KernelInv
    <3>2. Closed(call[p].chain)'
      <4> DEFINE chain == call[p].chain
      <4>1. chain \in Seq(Cap) /\ Closed(chain) /\ chain' = chain
        BY <1>0, <2>4, <2>6 DEF CallType, CallOK
      <4>2. \A k \in DOMAIN chain : chain[k] \in Cap
        BY <4>1
      <4>3. \A c \in Cap : \A m \in DOMAIN Deps[c] : Deps[c][m] \in Cap
        BY KernelAssumption
      <4> HIDE DEF chain
      <4>4. Closed(chain)'
        BY <3>1, <4>1, <4>2, <4>3 DEF Closed, Had
      <4> QED BY <4>4 DEF chain
    <3>3. call[p].id \in Cap
      BY <1>0, <1>1 DEF CallOK
    <3> QED BY <1>0, <1>2, <2>4, <2>6, <2>7, <3>2, <3>3 DEF CallOK
  <2>8. \A q \in Caller \ {p} : Carries(q)
    BY <2>6 DEF Carries
  <2>9. g.deps = Inst(i).deps /\ g.waits = Inst(i).waits
    BY <2>3 DEF r
  <2>10. KernelTyped' /\ Installed' = Installed => \A q \in Caller : CallOK(q)' \/ Carries(q)
    BY <2>7, <2>8
  <2> QED BY <1>1, <1>2, <2>2, <2>3, <2>6, <2>9, <2>10, GenerationStep
<1>4. CASE ~Applies(Head(work)[1], i)
  <2> DEFINE new == [call[p] EXCEPT !.work = Tail(work)]
  <2>1. /\ new \in CallType /\ new.id = call[p].id /\ new.created = call[p].created
        /\ new.work = Tail(work) /\ new.chain = call[p].chain
    <3> DEFINE t == Tail(work)
    <3>1. t \in Seq(Work) /\ new = [call[p] EXCEPT !.work = t]
      BY <1>2
    <3> HIDE DEF t, new
    <3>2. /\ new \in CallType /\ new.id = call[p].id /\ new.created = call[p].created
          /\ new.work = t /\ new.chain = call[p].chain
      BY <1>0, <3>1 DEF CallType
    <3> QED BY <3>2 DEF t
  <2>2. /\ call' = [call EXCEPT ![p] = new] /\ pc' = [pc EXCEPT ![p] = "unloading"]
        /\ UNCHANGED insts
    BY <1>0, <1>1, <1>4 DEF UnloadNext
  <2>3. "unloading" \in PCs \ {"start", "installing", "disposing"}
    BY DEF PCs
  <2> HIDE DEF new, work
  <2> QED BY <1>0, <1>1, <1>2, <2>1, <2>2, <2>3, CallOn DEF CallOK
<1> QED BY <1>3, <1>4

-----------------------------------------------------------------------------
(* Steps that change several generations.                                  *)

LEMMA MadeByRelease ==
    ASSUME NEW r \in Generation, EffectsOK(r),
           NEW t \in {"done", "waiting"}, NEW w \in SUBSET Ident
    PROVE  LET g == [r EXCEPT !.task = t, !.waits = w] IN
           g \in Generation /\ EffectsOK(g) /\ g.deps = r.deps /\ g.waits = w
BY DEF Generation, EffectsOK

LEMMA AskedByRelease ==
    ASSUME NEW r \in Generation, EffectsOK(r),
           NEW D \in SUBSET Cap, NEW s \in {"ACTIVE", "asked", "DISPOSING", "DISPOSED"},
           s = r.scope \/ (r.scope = "ACTIVE" /\ s = "asked")
    PROVE  LET g == [r EXCEPT !.dependents = D, !.scope = s] IN
           g \in Generation /\ EffectsOK(g) /\ g.deps = r.deps /\ g.waits = r.waits
BY DEF Generation, EffectsOK

\* What becomes of generation j when i is released and asked are its dependents.
AfterRelease(i, asked, gone, j, inst) ==
    IF j = i
    THEN [inst EXCEPT !.task = IF gone THEN "done" ELSE "waiting", !.waits = asked]
    ELSE [inst EXCEPT
      !.dependents = IF j \in Range(Inst(i).deps) THEN @ \ {i[1]} ELSE @,
      !.scope = IF j \in asked /\ @ = "ACTIVE" THEN "asked" ELSE @]

LEMMA ReleasedOne ==
    ASSUME NEW i, NEW asked \in SUBSET Ident, NEW gone \in BOOLEAN, NEW j,
           NEW r \in Generation, EffectsOK(r)
    PROVE  LET g == AfterRelease(i, asked, gone, j, r) IN
           g \in Generation /\ EffectsOK(g) /\ g.deps = r.deps /\ g.waits \in {r.waits, asked}
<1>1. CASE j = i
  <2> DEFINE t == IF gone THEN "done" ELSE "waiting"
  <2>1. AfterRelease(i, asked, gone, j, r) = [r EXCEPT !.task = t, !.waits = asked]
    BY <1>1 DEF AfterRelease
  <2>2. t \in {"done", "waiting"}
    OBVIOUS
  <2> HIDE DEF t
  <2>3. LET g == [r EXCEPT !.task = t, !.waits = asked] IN
        g \in Generation /\ EffectsOK(g) /\ g.deps = r.deps /\ g.waits = asked
    BY ZenonT(40), <2>2, MadeByRelease
  <2> QED BY <2>1, <2>3
<1>2. CASE j # i
  <2> DEFINE D == IF j \in Range(Inst(i).deps) THEN r.dependents \ {i[1]} ELSE r.dependents
             s == IF j \in asked /\ r.scope = "ACTIVE" THEN "asked" ELSE r.scope
  <2>1. AfterRelease(i, asked, gone, j, r) = [r EXCEPT !.dependents = D, !.scope = s]
    BY <1>2 DEF AfterRelease
  <2>2. D \in SUBSET Cap /\ s \in {"ACTIVE", "asked", "DISPOSING", "DISPOSED"}
        /\ (s = r.scope \/ (r.scope = "ACTIVE" /\ s = "asked"))
    BY DEF Generation
  <2> HIDE DEF D, s
  <2>3. LET g == [r EXCEPT !.dependents = D, !.scope = s] IN
        g \in Generation /\ EffectsOK(g) /\ g.deps = r.deps /\ g.waits = r.waits
    BY Zenon, <2>2, AskedByRelease
  <2> QED BY <2>1, <2>3
<1> QED BY <1>1, <1>2

LEMMA Released ==
    ASSUME KernelInv, NEW i \in Installed, Release(i) PROVE KernelInv'
<1> DEFINE gone == i[1] \in released
           asked == IF gone THEN {} ELSE registered[i[1]]
           New(d, g) == AfterRelease(i, asked, gone, <<d, g>>, insts[d][g])
<1>0. KernelTyped
  BY DEF KernelInv
<1>1. i[1] \in Cap /\ asked \subseteq Installed /\ asked \in SUBSET Ident /\ gone \in BOOLEAN
  BY <1>0, Members DEF KernelInv
<1>2. insts' = [d \in Cap |-> [g \in DOMAIN insts[d] |-> New(d, g)]]
  BY DEF Release, AfterRelease
<1>3. /\ \A d \in Cap : registered'[d] \subseteq registered[d]
      /\ registered' \in [Cap -> SUBSET Ident]
      /\ UNCHANGED <<installer, unloader, pc, call>>
  <2> DEFINE E(d) == IF d = i[1] /\ ~gone THEN {}
                     ELSE IF \E k \in DOMAIN Inst(i).deps : Inst(i).deps[k][1] = d
                          THEN registered[d] \ {i} ELSE registered[d]
  <2>1. registered' = [d \in Cap |-> E(d)] /\ UNCHANGED <<installer, unloader, pc, call>>
    BY DEF Release
  <2>2. \A d \in Cap : E(d) \subseteq registered[d]
    OBVIOUS
  <2>3. registered \in [Cap -> SUBSET Ident]
    BY <1>0 DEF KernelTyped
  <2> HIDE DEF E
  <2>4. \A d \in Cap : E(d) \in SUBSET Ident
    BY <2>2, <2>3
  <2> QED BY <2>1, <2>2, <2>4
<1> HIDE DEF asked, gone
<1>4. ASSUME NEW d \in Cap, NEW g \in DOMAIN insts[d]
      PROVE  /\ New(d, g) \in Generation /\ EffectsOK(New(d, g))
             /\ New(d, g).deps = insts[d][g].deps /\ New(d, g).waits \in {insts[d][g].waits, asked}
  <2> DEFINE r == insts[d][g]
             j == <<d, g>>
  <2>1. r \in Generation /\ EffectsOK(r)
    <3>1. j \in Installed /\ Inst(j) = r
      BY <1>0, Members DEF Inst
    <3> QED BY <1>0, <3>1, Members DEF KernelInv
  <2> HIDE DEF r, j
  <2>2. LET n == AfterRelease(i, asked, gone, j, r) IN
        n \in Generation /\ EffectsOK(n) /\ n.deps = r.deps /\ n.waits \in {r.waits, asked}
    BY <1>1, <2>1, ReleasedOne
  <2> QED BY <2>2 DEF r, j
<1> HIDE DEF New
<1>5. \A d \in Cap : /\ insts'[d] = [g \in 1..Len(insts[d]) |-> New(d, g)]
                     /\ Len(insts[d]) \in Nat /\ DOMAIN insts[d] = 1..Len(insts[d])
                     /\ insts'[d] \in Seq(Generation) /\ Len(insts'[d]) = Len(insts[d])
  <2> SUFFICES ASSUME NEW d \in Cap
               PROVE  /\ insts'[d] = [g \in 1..Len(insts[d]) |-> New(d, g)]
                      /\ Len(insts[d]) \in Nat /\ DOMAIN insts[d] = 1..Len(insts[d])
                      /\ insts'[d] \in Seq(Generation) /\ Len(insts'[d]) = Len(insts[d])
    OBVIOUS
  <2>1. Len(insts[d]) \in Nat /\ DOMAIN insts[d] = 1..Len(insts[d])
    BY <1>0 DEF KernelTyped
  <2>2. insts'[d] = [g \in 1..Len(insts[d]) |-> New(d, g)]
    BY <1>2, <2>1
  <2>3. insts'[d] \in [1..Len(insts[d]) -> Generation]
    BY <1>4, <2>1, <2>2
  <2>4. insts'[d] \in Seq(Generation) /\ Len(insts'[d]) = Len(insts[d])
    BY <2>1, <2>3
  <2> QED BY <2>1, <2>2, <2>4
<1>6. KernelTyped' /\ Grows
  <2> DEFINE Row(d) == [g \in DOMAIN insts[d] |-> New(d, g)]
  <2>1. insts' = [d \in Cap |-> Row(d)]
    BY <1>2
  <2> HIDE DEF Row
  <2>2. insts' \in [Cap -> Seq(Generation)]
    <3>1. \A d \in Cap : Row(d) \in Seq(Generation)
      BY <1>5, <2>1
    <3> QED BY <2>1, <3>1
  <2>3. Grows
    <3>1. \A d \in Cap : Len(insts[d]) \in Nat /\ Len(insts'[d]) = Len(insts[d])
      BY <1>5
    <3> QED BY <3>1 DEF Grows
  <2> QED BY <1>0, <1>3, <2>2, <2>3 DEF KernelTyped
<1>7. Installed' = Installed
  <2>1. \A d \in Cap : DOMAIN insts'[d] = DOMAIN insts[d]
    BY <1>5
  <2> QED BY <2>1 DEF Installed
<1>8. ASSUME NEW j \in Installed PROVE RefersOK(j)' /\ EffectsOK(Inst(j))'
  <2>1. j[1] \in Cap /\ j[2] \in DOMAIN insts[j[1]]
    BY <1>0, Members
  <2>2. Inst(j)' = New(j[1], j[2])
    BY ZenonT(40), <1>5, <2>1 DEF Inst
  <2>3. /\ EffectsOK(New(j[1], j[2]))
        /\ New(j[1], j[2]).deps = Inst(j).deps /\ New(j[1], j[2]).waits \in {Inst(j).waits, asked}
    BY <1>4, <2>1 DEF Inst
  <2>4. RefersOK(j)
    BY DEF KernelInv
  <2>5. EffectsOK(Inst(j))'
    BY <2>2, <2>3 DEF EffectsOK
  <2>6. RefersOK(j)'
    BY <1>1, <1>7, <2>2, <2>3, <2>4 DEF RefersOK, DependsOn
  <2> QED BY <2>5, <2>6
<1>9. \A q \in Caller : CallOK(q)'
  <2>1. \A q \in Caller : Carries(q)
    BY <1>3 DEF Carries
  <2> QED BY <1>0, <1>6, <2>1, CallCarried DEF KernelInv
<1>10. \A d \in Cap : registered'[d] \subseteq Installed'
  BY <1>3, <1>7 DEF KernelInv
<1> QED BY <1>6, <1>7, <1>8, <1>9, <1>10 DEF KernelInv

\* A generation that only gains a dependent.
LEMMA Joined ==
    ASSUME NEW r \in Generation, NEW c \in Cap
    PROVE  LET g == [r EXCEPT !.dependents = r.dependents \cup {c}] IN
           /\ g \in Generation /\ g.deps = r.deps /\ g.waits = r.waits
           /\ g.state = r.state /\ g.scope = r.scope /\ g.live = r.live
           /\ g.task = r.task /\ g.dependents = r.dependents \cup {c}
BY DEF Generation

LEMMA LastJoined ==
    ASSUME NEW s \in Seq(Generation), s # <<>>, NEW c \in Cap
    PROVE  LET t == [s EXCEPT ![Len(s)].dependents = @ \cup {c}] IN
           /\ t \in Seq(Generation) /\ Len(t) = Len(s)
           /\ \A k \in DOMAIN s : /\ t[k].deps = s[k].deps /\ t[k].waits = s[k].waits
                                  /\ t[k].state = s[k].state /\ t[k].scope = s[k].scope
                                  /\ t[k].live = s[k].live
                                  /\ t[k].task = s[k].task
                                  /\ s[k].dependents \subseteq t[k].dependents
           /\ c \in t[Len(s)].dependents
<1> DEFINE n == Len(s)
           r == s[n]
           g == [r EXCEPT !.dependents = r.dependents \cup {c}]
           t == [s EXCEPT ![Len(s)].dependents = @ \cup {c}]
<1>1. n \in Nat /\ n \in 1..n /\ DOMAIN s = 1..n /\ r \in Generation
  OBVIOUS
<1>2. /\ g \in Generation /\ g.deps = r.deps /\ g.waits = r.waits
      /\ g.state = r.state /\ g.scope = r.scope /\ g.live = r.live
      /\ g.task = r.task /\ g.dependents = r.dependents \cup {c}
  BY <1>1, Joined
<1>3. t = [s EXCEPT ![n] = g]
  OBVIOUS
<1> HIDE DEF t, g
<1>4. t \in Seq(Generation) /\ Len(t) = n /\ \A k \in 1..n : t[k] = IF k = n THEN g ELSE s[k]
  BY SMTT(30), <1>1, <1>2, <1>3, ExceptSeq
<1>5. \A k \in DOMAIN s : /\ t[k].deps = s[k].deps /\ t[k].waits = s[k].waits
                          /\ t[k].state = s[k].state /\ t[k].scope = s[k].scope
                          /\ t[k].live = s[k].live
                          /\ t[k].task = s[k].task
                          /\ s[k].dependents \subseteq t[k].dependents
  BY <1>1, <1>2, <1>4
<1>6. c \in t[n].dependents
  BY Zenon, <1>1, <1>2, <1>4
<1> QED BY <1>4, <1>5, <1>6 DEF t

\* The generation InstallOne makes, of the capability it stands at.
LEMMA NewGeneration ==
    ASSUME KernelInv, NEW p \in Caller, call[p].chain # <<>>
    PROVE  LET c == Head(call[p].chain)
               deps == [k \in DOMAIN Deps[c] |-> Current(Deps[c][k])]
           IN  /\ c \in Cap /\ Fresh(deps) \in Generation /\ EffectsOK(Fresh(deps))
               /\ Fresh(deps).deps = deps /\ Fresh(deps).waits = {}
               /\ \A k \in DOMAIN Deps[c] : /\ deps[k] \in Installed /\ Deps[c][k] \in Cap
                                            /\ deps[k][1] = Deps[c][k]
                                            /\ insts[deps[k][1]] # <<>>
               /\ Range(deps) \subseteq Installed
<1> DEFINE chain == call[p].chain
           c == Head(chain)
           deps == [k \in DOMAIN Deps[c] |-> Current(Deps[c][k])]
<1>0. KernelTyped
  BY DEF KernelInv
<1>1. /\ chain \in Seq(Cap) /\ chain # <<>> /\ Closed(chain) /\ c \in Cap
      /\ 1 \in DOMAIN chain /\ c = chain[1]
  BY HeadTailProperties DEF KernelInv, KernelTyped, CallType, CallOK
<1>2. Deps[c] \in Seq(Cap) /\ Len(Deps[c]) \in Nat /\ DOMAIN Deps[c] = 1..Len(Deps[c])
  BY <1>1, KernelAssumption
<1>3. \A k \in DOMAIN Deps[c] : Deps[c][k] \in Cap /\ insts[Deps[c][k]] # <<>>
  <2> SUFFICES ASSUME NEW k \in DOMAIN Deps[c]
               PROVE  Deps[c][k] \in Cap /\ insts[Deps[c][k]] # <<>>
    OBVIOUS
  <2>1. Deps[c][k] \in Cap
    BY <1>2
  <2> HIDE DEF chain, c
  <2>2. Had(Deps[c][k], chain, 1)
    BY <1>1 DEF Closed
  <2> QED BY <2>1, <2>2 DEF Had
<1>4. \A k \in DOMAIN Deps[c] : /\ deps[k] \in Installed /\ deps[k] \in Ident
                                /\ deps[k][1] = Deps[c][k]
  <2> HIDE DEF chain, c
  <2>1. \A k \in DOMAIN Deps[c] : deps[k] = Current(Deps[c][k])
    OBVIOUS
  <2>2. \A k \in DOMAIN Deps[c] : Current(Deps[c][k]) \in Installed /\ Current(Deps[c][k]) \in Ident
    BY <1>0, <1>3, Members
  <2>3. \A d : Current(d)[1] = d
    BY DEF Current
  <2> QED BY <2>1, <2>2, <2>3
<1>5. deps \in [1..Len(Deps[c]) -> Ident] /\ DOMAIN deps = DOMAIN Deps[c]
  BY Zenon, <1>2, <1>4
<1> HIDE DEF chain, c, deps
<1>6. deps \in Seq(Ident)
  BY <1>2, <1>5
<1>7. /\ Fresh(deps) \in Generation /\ EffectsOK(Fresh(deps))
      /\ Fresh(deps).deps = deps /\ Fresh(deps).waits = {}
  BY <1>6 DEF Fresh, Generation, EffectsOK
<1>8. Range(deps) \subseteq Installed
  BY <1>4, <1>5 DEF Range
<1>9. \A k \in DOMAIN Deps[c] : insts[deps[k][1]] # <<>>
  BY <1>3, <1>4
<1> QED BY Zenon, <1>1, <1>3, <1>4, <1>7, <1>8, <1>9 DEF chain, c, deps
LEMMA GenerationAdded ==
    ASSUME KernelInv, NEW p \in Caller, InstallOne(p) PROVE KernelInv'
<1> DEFINE chain == call[p].chain
           c == Head(chain)
           me == <<c, Len(insts[c]) + 1>>
           deps == [k \in DOMAIN Deps[c] |-> Current(Deps[c][k])]
           refused == {k \in DOMAIN deps : deps[k][1] \in released}
           joined == {k \in DOMAIN deps : \A r \in refused : k < r}
           new == Fresh(deps)
           Row(d) == IF d = c THEN Append(insts[c], new)
                     ELSE IF \E k \in joined : deps[k][1] = d
                          THEN [insts[d] EXCEPT ![Len(insts[d])].dependents = @ \cup {c}]
                     ELSE insts[d]
           Edges(d) == registered[d] \cup {me : k \in {j \in joined : deps[j][1] = d}}
           own == [call[p] EXCEPT !.created = Append(call[p].created, me), !.chain = Tail(chain)]
           l == IF refused = {} THEN "installing" ELSE "failed"
<1>0. /\ KernelTyped /\ pc \in [Caller -> PCs] /\ call \in [Caller -> CallType]
      /\ call[p] \in CallType /\ CallOK(p)
  BY DEF KernelInv, KernelTyped
<1>1. /\ pc[p] = "next" /\ chain # <<>> /\ chain \in Seq(Cap) /\ Closed(chain)
      /\ Tail(chain) \in Seq(Cap)
  BY Zenon, <1>0, HeadTailProperties DEF InstallOne, CallType, CallOK
<1>2. /\ insts' = [d \in Cap |-> Row(d)] /\ registered' = [d \in Cap |-> Edges(d)]
      /\ pc' = [pc EXCEPT ![p] = l] /\ UNCHANGED <<installer, unloader>>
  BY Zenon DEF InstallOne, Goto
<1>3. call' = [call EXCEPT ![p] = own]
  BY Zenon, <1>0 DEF InstallOne
<1>4. /\ c \in Cap /\ new \in Generation /\ EffectsOK(new)
      /\ new.deps = deps /\ new.waits = {} /\ Range(deps) \subseteq Installed
      /\ \A k \in joined : deps[k][1] \in Cap /\ insts[deps[k][1]] # <<>>
  <2>1. joined \subseteq DOMAIN Deps[c]
    OBVIOUS
  <2> QED BY ZenonT(40), <1>1, <2>1, NewGeneration
<1>5. \A k \in joined : deps[k][1] \in Cap /\ insts[deps[k][1]] # <<>>
  BY Zenon, <1>4
<1> HIDE DEF joined, refused, deps, new
\* What becomes of the generations there are.
<1>6. ASSUME NEW d \in Cap
      PROVE  /\ Row(d) \in Seq(Generation)
             /\ Len(Row(d)) = IF d = c THEN Len(insts[d]) + 1 ELSE Len(insts[d])
             /\ Len(insts[d]) \in Nat /\ DOMAIN insts[d] = 1..Len(insts[d])
             /\ \A k \in DOMAIN insts[d] :
                   LET s == Row(d)[k] IN
                   /\ s.deps = insts[d][k].deps /\ s.waits = insts[d][k].waits
                   /\ s.state = insts[d][k].state /\ s.scope = insts[d][k].scope
                   /\ s.live = insts[d][k].live
             /\ d = c => Row(d)[Len(insts[d]) + 1] = new
  <2>1. insts[d] \in Seq(Generation) /\ Len(insts[d]) \in Nat /\ DOMAIN insts[d] = 1..Len(insts[d])
    BY <1>0 DEF KernelTyped
  <2>2. CASE d = c
    <3>1. Row(d) = Append(insts[d], new)
      BY <2>2
    <3>2. /\ Append(insts[d], new) \in Seq(Generation) /\ Len(Append(insts[d], new)) = Len(insts[d]) + 1
          /\ Append(insts[d], new)[Len(insts[d]) + 1] = new
          /\ \A k \in 1..Len(insts[d]) : Append(insts[d], new)[k] = insts[d][k]
      BY <1>4, <2>1, AppendProperties
    <3> HIDE DEF Row, c
    <3> QED BY <2>1, <2>2, <3>1, <3>2
  <2>3. CASE d # c /\ \E k \in joined : deps[k][1] = d
    <3>1. Row(d) = [insts[d] EXCEPT ![Len(insts[d])].dependents = @ \cup {c}]
      BY <2>3
    <3>2. insts[d] # <<>>
      BY <1>5, <2>3
    <3> HIDE DEF Row, c
    <3>3. LET t == [insts[d] EXCEPT ![Len(insts[d])].dependents = @ \cup {c}] IN
           /\ t \in Seq(Generation) /\ Len(t) = Len(insts[d])
           /\ \A k \in DOMAIN insts[d] :
                 /\ t[k].deps = insts[d][k].deps /\ t[k].waits = insts[d][k].waits
                 /\ t[k].state = insts[d][k].state /\ t[k].scope = insts[d][k].scope
                 /\ t[k].live = insts[d][k].live
      BY <1>4, <2>1, <3>2, LastJoined
    <3>4. /\ Row(d) \in Seq(Generation) /\ Len(Row(d)) = Len(insts[d])
          /\ \A k \in DOMAIN insts[d] :
                 /\ Row(d)[k].deps = insts[d][k].deps /\ Row(d)[k].waits = insts[d][k].waits
                 /\ Row(d)[k].state = insts[d][k].state /\ Row(d)[k].scope = insts[d][k].scope
                 /\ Row(d)[k].live = insts[d][k].live
      BY <3>1, <3>3
    <3> QED BY <2>1, <2>3, <3>4
  <2>4. CASE d # c /\ ~\E k \in joined : deps[k][1] = d
    <3>1. Row(d) = insts[d]
      BY <2>4
    <3> HIDE DEF Row, c
    <3> QED BY <2>1, <2>4, <3>1
  <2> QED BY <2>2, <2>3, <2>4
<1>7. me \in Ident /\ \A d \in Cap : Edges(d) \subseteq registered[d] \cup {me}
  BY <1>4, <1>6 DEF Ident
<1> HIDE DEF Row, Edges
<1>8. /\ own \in CallType /\ own.id = call[p].id /\ own.created = Append(call[p].created, me)
      /\ own.work = call[p].work /\ own.chain = Tail(chain)
  <2> DEFINE a == Append(call[p].created, me)
             t == Tail(chain)
  <2>1. own = [call[p] EXCEPT !.created = a, !.chain = t]
    OBVIOUS
  <2>2. a \in Seq(Ident)
    <3>1. call[p].created \in Seq(Ident)
      BY <1>0 DEF CallType
    <3> HIDE DEF me
    <3> QED BY <1>7, <3>1
  <2>3. t \in Seq(Cap)
    BY <1>1
  <2> HIDE DEF a, t, own
  <2>4. /\ own \in CallType /\ own.id = call[p].id /\ own.created = a
        /\ own.work = call[p].work /\ own.chain = t
    BY <1>0, <2>1, <2>2, <2>3 DEF CallType
  <2>5. a = Append(call[p].created, me) /\ t = Tail(chain)
    BY DEF a, t
  <2> HIDE DEF me, chain
  <2> QED BY <2>4, <2>5
<1> HIDE DEF own
<1>9. KernelTyped' /\ Grows
  <2>1. insts' \in [Cap -> Seq(Generation)]
    BY <1>2, <1>6
  <2>2. registered' \in [Cap -> SUBSET Ident]
    <3>1. \A d \in Cap : Edges(d) \in SUBSET Ident
      BY <1>0, <1>7 DEF KernelTyped
    <3> QED BY <1>2, <3>1
  <2>3. call' \in [Caller -> CallType] /\ pc' \in [Caller -> PCs]
    BY <1>0, <1>2, <1>3, <1>8 DEF PCs
  <2>4. Grows
    <3>1. \A d \in Cap : Len(insts'[d]) \in {Len(insts[d]), Len(insts[d]) + 1} /\ Len(insts[d]) \in Nat
      BY <1>2, <1>6
    <3> QED BY <3>1 DEF Grows
  <2> QED BY <1>0, <1>2, <2>1, <2>2, <2>3, <2>4 DEF KernelTyped
<1>10. Installed \subseteq Installed' /\ \A d \in Cap : insts[d] # <<>> => insts'[d] # <<>>
  BY <1>0, <1>9, Grown
<1>11. \A d \in Cap : insts'[d] = Row(d) /\ registered'[d] = Edges(d)
  BY <1>2
<1>12. /\ \A d \in Cap : DOMAIN insts'[d] = IF d = c THEN 1..(Len(insts[d]) + 1) ELSE DOMAIN insts[d]
       /\ me \in Installed' /\ insts'[c] # <<>>
  <2>1. \A d \in Cap : DOMAIN insts'[d] = 1..Len(Row(d))
    BY <1>6, <1>11
  <2>2. \A d \in Cap : DOMAIN insts'[d] = IF d = c THEN 1..(Len(insts[d]) + 1) ELSE DOMAIN insts[d]
    BY <1>6, <2>1
  <2>3. Len(insts[c]) + 1 \in DOMAIN insts'[c]
    BY <1>4, <1>6, <2>2
  <2>4. me \in Installed'
    BY <1>4, <2>3 DEF Installed
  <2>5. insts'[c] # <<>>
    BY <2>3
  <2> QED BY <2>2, <2>4, <2>5
<1>13. \A j \in Installed' : j \in Installed \/ j = me
  <2> SUFFICES ASSUME NEW d \in Cap, NEW g \in DOMAIN insts'[d], <<d, g>> # me
               PROVE  <<d, g>> \in Installed
    BY DEF Installed
  <2>1. g \in DOMAIN insts[d]
    BY <1>6, <1>12
  <2> QED BY <2>1 DEF Installed
<1>14. ASSUME NEW j \in Installed' PROVE RefersOK(j)' /\ EffectsOK(Inst(j))'
  <2>1. CASE j \in Installed
    <3>1. j[1] \in Cap /\ j[2] \in DOMAIN insts[j[1]]
      BY <1>0, <2>1, Members
    <3>2. Inst(j)' = Row(j[1])[j[2]]
      BY <1>11, <3>1 DEF Inst
    <3>3. /\ Inst(j)'.deps = Inst(j).deps /\ Inst(j)'.waits = Inst(j).waits
          /\ Inst(j)'.state = Inst(j).state /\ Inst(j)'.scope = Inst(j).scope
          /\ Inst(j)'.live = Inst(j).live
      BY <1>6, <3>1, <3>2 DEF Inst
    <3>4. RefersOK(j) /\ EffectsOK(Inst(j))
      BY <2>1 DEF KernelInv
    <3> QED BY <1>10, <3>3, <3>4 DEF RefersOK, DependsOn, EffectsOK
  <2>2. CASE j = me
    <3>1. j[1] = c /\ j[2] = Len(insts[c]) + 1
      BY <2>2
    <3>2. Inst(j)' = new
      BY <1>4, <1>6, <1>11, <3>1 DEF Inst
    <3> QED BY <1>4, <1>10, <3>2 DEF RefersOK, DependsOn, EffectsOK
  <2> QED BY <1>13, <2>1, <2>2
<1>15. \A d \in Cap : registered'[d] \subseteq Installed'
  BY <1>7, <1>10, <1>11, <1>12 DEF KernelInv
<1>16. CallOK(p)'
  <2>1. call'[p] = own /\ pc'[p] = l /\ l \in {"installing", "failed"}
    BY <1>0, <1>2, <1>3
  <2>2. Range(own.created) \subseteq Installed' /\ own.created # <<>>
    <3> DEFINE s == call[p].created
    <3>1. s \in Seq(Ident) /\ Range(s) \subseteq Installed
      BY <1>0 DEF CallType, CallOK
    <3> HIDE DEF s, me
    <3>2. /\ Append(s, me) \in Seq(Ident) /\ Len(Append(s, me)) = Len(s) + 1
          /\ Append(s, me)[Len(s) + 1] = me
          /\ \A k \in 1..Len(s) : Append(s, me)[k] = s[k]
      BY <1>7, <3>1, AppendProperties
    <3>3. /\ Len(s) \in Nat /\ DOMAIN s = 1..Len(s)
          /\ DOMAIN Append(s, me) = 1..(Len(s) + 1) /\ Append(s, me) # <<>>
      BY <3>1, <3>2
    <3>4. \A k \in DOMAIN Append(s, me) : Append(s, me)[k] \in Installed'
      BY <1>10, <1>12, <3>1, <3>2, <3>3 DEF Range
    <3>5. Range(Append(s, me)) \subseteq Installed'
      BY <3>4 DEF Range
    <3> QED BY <1>8, <3>3, <3>5 DEF s
  <2>3. Closed(call[p].chain)'
    <3> DEFINE t == Tail(chain)
    <3>1. call'[p].chain = t
      BY <1>8, <2>1
    <3>2. /\ \A k \in DOMAIN t : t[k] \in Cap
          /\ \A d \in Cap : \A m \in DOMAIN Deps[d] : Deps[d][m] \in Cap
      <4>1. t \in Seq(Cap)
        BY <1>1
      <4> HIDE DEF t
      <4> QED BY <4>1, KernelAssumption
    <3>3. ASSUME NEW k \in DOMAIN t, NEW m \in DOMAIN Deps[t[k]]
          PROVE  LET d == Deps[t[k]][m] IN insts'[d] # <<>> \/ \E j \in 1..(k - 1) : t[j] = d
      <4>1. LET d == Deps[t[k]][m] IN d = Head(chain) \/ Had(d, t, k)
        <5> HIDE DEF chain
        <5> QED BY <1>1, TailHad
      <4>2. Deps[t[k]][m] \in Cap
        BY <3>2
      <4> HIDE DEF t
      <4> QED BY <1>10, <1>12, <4>1, <4>2 DEF Had, c
    <3> HIDE DEF t
    <3> QED BY <3>1, <3>3 DEF Closed, Had
  <2>4. call[p].id \in Cap
    BY <1>0, <1>1 DEF CallOK
  <2>5. \A k \in DOMAIN own.work : own.work[k][2] \in Installed'
    BY <1>0, <1>8, <1>10 DEF CallOK
  <2> HIDE DEF l
  <2>6. own.id \in Cap
    BY <1>8, <2>4
  <2> QED BY <2>1, <2>2, <2>3, <2>5, <2>6 DEF CallOK
<1>17. \A q \in Caller : CallOK(q)'
  <2>1. \A q \in Caller \ {p} : pc'[q] = pc[q] /\ call'[q] = call[q]
    BY <1>0, <1>2, <1>3
  <2> QED BY <1>9, <1>16, <2>1, CallsCarried
<1> QED BY <1>9, <1>14, <1>15, <1>17 DEF KernelInv

-----------------------------------------------------------------------------
(* Every step.                                                             *)

LEMMA KernelStep ==
    ASSUME KernelInv, [Next]_vars PROVE KernelInv'
<1>1. ASSUME NEW p \in Caller, NEW c \in Cap, InstallCall(p, c) \/ UnloadCall(p, c)
      PROVE  KernelInv'
  BY <1>1, CallMade
<1>2. ASSUME NEW p \in Caller, Steps(p) PROVE KernelInv'
  <2>1. CASE Returns(p)
    BY <2>1, CallReturned
  <2>2. CASE InstallStart(p) \/ InstallNext(p)
    BY <2>2, ListedToInstall
  <2>3. CASE InstallOne(p)
    BY <2>3, GenerationAdded
  <2>4. CASE Acquire(p) \/ InstallReturns(p) \/ InstallRaises(p)
    BY <2>4, InstallGoesOn
  <2>5. CASE InstallEnds(p)
    <3>1. /\ TaskEnds(p, TRUE) /\ pc[p] \in {"next", "unloading"}
          /\ UNCHANGED <<insts, registered, installer, unloader>>
      BY <2>5 DEF InstallEnds
    <3> QED BY <3>1, TaskEnded
  <2>6. CASE Rollback(p) \/ UnloadStart(p) \/ Disposed(p)
    BY <2>6, WorkCollected
  <2>7. CASE UnloadNext(p)
    BY <2>7, Unloaded
  <2>8. CASE UnloadEnds(p)
    <3>1. /\ TaskEnds(p, call[p].ok) /\ pc[p] \in {"next", "unloading"}
          /\ UNCHANGED <<insts, registered, installer, unloader>>
      BY <2>8 DEF UnloadEnds
    <3>2. call[p].ok \in BOOLEAN
      BY DEF KernelInv, KernelTyped, CallType
    <3> QED BY <3>1, <3>2, TaskEnded
  <2> QED BY <1>2, <2>1, <2>2, <2>3, <2>4, <2>5, <2>6, <2>7, <2>8 DEF Steps
<1>3. ASSUME NEW i \in Installed, Teardown(i) PROVE KernelInv'
  <2>1. CASE Release(i)
    BY <2>1, Released
  <2>2. CASE Finalize(i) \/ ScopeBegins(i) \/ ScopeEnds(i) \/ DisposeEnds(i)
    BY <2>2, TornDown
  <2> QED BY <1>3, <2>1, <2>2 DEF Teardown
<1>4. CASE UNCHANGED vars
  <2>1. /\ Installed' = Installed /\ KernelTyped'
        /\ \A i \in Installed : Inst(i)' = Inst(i)
    BY <1>4 DEF vars, Installed, Inst, KernelInv, KernelTyped
  <2>2. \A i \in Installed' : RefersOK(i)' /\ EffectsOK(Inst(i))'
    BY <2>1 DEF KernelInv, RefersOK, DependsOn, EffectsOK
  <2>3. Grows
    <3>1. \A d \in Cap : Len(insts[d]) \in Nat
      BY DEF KernelInv, KernelTyped
    <3> QED BY <1>4, <3>1 DEF Grows, vars
  <2>4. \A p \in Caller : Carries(p)
    BY <1>4 DEF Carries, vars
  <2>5. \A p \in Caller : CallOK(p)'
    BY <2>1, <2>3, <2>4, CallCarried DEF KernelInv
  <2> QED BY <1>4, <2>1, <2>2, <2>5 DEF KernelInv, vars
<1> QED BY <1>1, <1>2, <1>3, <1>4 DEF Next

LEMMA KernelInvariant == Spec => []KernelInv
<1>1. Init => KernelInv
  BY KernelInit
<1>2. KernelInv /\ [Next]_vars => KernelInv'
  BY KernelStep
<1> QED BY <1>1, <1>2, PTL DEF Spec

\* Whatever calls overlap and whatever depends on what, every generation, task
\* and call has its form, and refers only to generations that were installed.
THEOREM KernelTypes == Spec => []TypeOK
<1>1. KernelInv => TypeOK
  BY KernelInvImplies
<1> QED BY <1>1, KernelInvariant, PTL

\* Whatever calls overlap, for every number of callers and capabilities: a
\* capability that shows DISPOSED owns no live effect and its scope is disposed,
\* one that shows ACTIVE has its effects and a scope nobody has begun to dispose.
THEOREM StateIsTrue == Spec => []StateTellsEffects
<1>1. KernelInv => StateTellsEffects
  BY KernelInvImplies
<1> QED BY <1>1, KernelInvariant, PTL

-----------------------------------------------------------------------------
(* One caller.                                                             *)

\* Its providers are ACTIVE, know of it, and hold its registration.
Supported(i) ==
    \A d \in DependsOn(i) : /\ Inst(d).state = "ACTIVE" /\ i[1] \in Inst(d).dependents
                            /\ i \in registered[d[1]]

\* What is ACTIVE, or is to become it when its factory returns.
Up(p, i) == Inst(i).state = "ACTIVE" \/ (pc[p] = "installing" /\ i = Mine(p))

\* A generation while p is the only caller.
LoneGeneration(p, i) ==
    LET inst == Inst(i) IN
    /\ inst.state \in {"ACTIVE", "INSTALLING"} => i = Current(i[1])
    /\ inst.task # "none" \/ inst.scope # "ACTIVE" => inst.state \in {"DISPOSING", "DISPOSED"}
    /\ inst.task \in {"created", "waiting", "final"} => pc[p] = "disposing" /\ i = call[p].at
    /\ inst.state \in {"INSTALLING", "FAILED"} =>
          /\ call[p].created # <<>> /\ i = Mine(p) /\ inst.dependents = {}
          /\ \/ pc[p] \in {"installing", "failed"}
             \/ /\ pc[p] = "unloading" /\ call[p].work # <<>>
                /\ Head(call[p].work) = <<"rollback", i>>
    /\ Up(p, i) => Supported(i)

\* What is registered depends on it and is not disposed of.
LoneEdge(c, i) ==
    /\ \E d \in DependsOn(i) : d[1] = c
    /\ Inst(i).state \in {"ACTIVE", "INSTALLING", "FAILED"} \/ Inst(i).task = "created"

\* The capabilities a dependency can be bound to.
ActiveCaps == {d \in Cap : State(d) = "ACTIVE"}

\* What p has created is ACTIVE, but for the last; what it still lists has its
\* dependencies ACTIVE or listed before.
LoneInstall(p) ==
    /\ pc[p] = "start" => call[p].created = <<>>
    /\ pc[p] = "installing" => Inst(Mine(p)).state = "INSTALLING"
    /\ pc[p] \in {"next", "installing", "failed"} =>
          \A k \in DOMAIN call[p].created :
             /\ call[p].created[k] = Current(call[p].created[k][1])
             /\ \/ Inst(call[p].created[k]).state = "ACTIVE"
                \/ k = Len(call[p].created) /\ pc[p] # "next"
    /\ pc[p] = "failed" => call[p].created # <<>>
    /\ pc[p] = "next" => ClosedIn(ActiveCaps, call[p].chain)
    /\ pc[p] = "installing" =>
          ClosedIn(ActiveCaps \cup {Mine(p)[1]}, call[p].chain)

\* Nothing depends on what p unloads.
LoneUnload(p) ==
    /\ pc[p] = "start" /\ call[p].op = "unload" /\ State(call[p].id) = "ACTIVE" =>
          Inst(Current(call[p].id)).dependents = {}
    /\ pc[p] = "disposing" => call[p].at = Current(call[p].at[1])
    /\ pc[p] \in {"unloading", "disposing"} =>
          \A k \in DOMAIN call[p].work :
             LET i == call[p].work[k][2] IN
             /\ call[p].work[k][1] # "cascade" => i = Current(i[1])
             /\ call[p].work[k][1] = "unload" /\ Inst(i).state = "ACTIVE" =>
                   Inst(i).dependents = {}

Lone(p) ==
    /\ \A i \in Installed : LoneGeneration(p, i)
    /\ \A c \in Cap : \A i \in registered[c] : LoneEdge(c, i)
    /\ LoneInstall(p)
    /\ LoneUnload(p)

LoneInv == \A p \in Caller : Present = {p} => Lone(p)

\* While p is the only caller nobody else moves.
LEMMA PresentKept ==
    ASSUME KernelInv, [Next]_vars PROVE Present' = Present
<1>0. pc \in [Caller -> PCs]
  BY DEF KernelInv, KernelTyped
<1>1. ASSUME NEW p \in Caller, NEW label, label # "absent", pc[p] # "absent", Goto(p, label)
      PROVE  Present' = Present
  BY <1>0, <1>1 DEF Goto, Present
<1>2. ASSUME UNCHANGED pc PROVE Present' = Present
  BY <1>2 DEF Present
<1>3. ASSUME NEW p \in Caller, NEW ok, TaskEnds(p, ok), pc[p] # "absent" PROVE Present' = Present
  <2>1. \A q \in Caller : pc'[q] = "absent" <=> pc[q] = "absent"
    BY <1>0, <1>3 DEF TaskEnds
  <2> QED BY <2>1 DEF Present
<1>4. ASSUME NEW p \in Caller, NEW c \in Cap, InstallCall(p, c) \/ UnloadCall(p, c)
      PROVE  Present' = Present
  BY <1>1, <1>2, <1>4 DEF InstallCall, UnloadCall, Refuse, Coalesce, Create
<1>5. ASSUME NEW p \in Caller, Steps(p) PROVE Present' = Present
  <2>1. CASE Returns(p) \/ InstallStart(p) \/ Rollback(p) \/ UnloadStart(p) \/ Disposed(p)
    BY <1>1, <2>1 DEF Returns, InstallStart, Rollback, UnloadStart, Disposed
  <2>2. CASE InstallNext(p)
    BY <1>1, <1>2, <2>2 DEF InstallNext, Skip
  <2>3. CASE InstallOne(p)
    <3>1. pc[p] = "next" /\ (Goto(p, "installing") \/ Goto(p, "failed"))
      BY Zenon, <2>3 DEF InstallOne
    <3> QED BY <1>1, <3>1
  <2>4. CASE Acquire(p) \/ InstallReturns(p) \/ InstallRaises(p)
    BY Zenon, <1>1, <1>2, <2>4 DEF Acquire, InstallReturns, InstallRaises
  <2>5. CASE InstallEnds(p) \/ UnloadEnds(p)
    BY Zenon, <1>3, <2>5 DEF InstallEnds, UnloadEnds
  <2>6. CASE UnloadNext(p)
    BY Zenon, <1>1, <1>2, <2>6 DEF UnloadNext
  <2> QED BY SMTT(30), <1>5, <2>1, <2>2, <2>3, <2>4, <2>5, <2>6 DEF Steps
<1>6. ASSUME NEW i \in Installed, Teardown(i) PROVE Present' = Present
  BY <1>2, <1>6 DEF Teardown, Release, Finalize, ScopeBegins, ScopeEnds, DisposeEnds
<1> QED BY <1>2, <1>4, <1>5, <1>6 DEF Next, vars

\* The state of a capability is that of its last generation.
LEMMA StateOf ==
    ASSUME KernelTyped, NEW c \in Cap
    PROVE  /\ State(c) # "REGISTERED" => Current(c) \in Installed /\ State(c) = Inst(Current(c)).state
           /\ Current(c) \in Installed => State(c) = Inst(Current(c)).state
           /\ Current(c)[1] = c
<1>1. Current(c) \in Installed => insts[c] # <<>>
  <2> SUFFICES ASSUME Current(c) \in Installed PROVE insts[c] # <<>>
    OBVIOUS
  <2>1. Current(c)[2] \in DOMAIN insts[c] /\ Current(c)[1] = c
    BY Members DEF Current
  <2> QED BY <2>1
<1> QED BY <1>1, Members DEF State, Current

\* No generation is being installed or disposed of where a call has no business
\* with one.
LEMMA Quiet ==
    ASSUME NEW p \in Caller, Lone(p), NEW i \in Installed
    PROVE  /\ pc[p] \notin {"installing", "failed", "unloading"} =>
                 Inst(i).state \notin {"INSTALLING", "FAILED"}
           /\ pc[p] # "disposing" => Inst(i).task \notin {"created", "waiting", "final"}
BY DEF Lone, LoneGeneration

\* Only the caller moves.
LEMMA LoneMoves ==
    ASSUME KernelInv, NEW p \in Caller, Lone(p), UNCHANGED <<insts, registered>>,
           pc'[p] = "installing" => pc[p] = "installing" /\ call'[p].created = call[p].created,
           \A i \in Installed : Inst(i).task \in {"created", "waiting", "final"} =>
               pc'[p] = "disposing" /\ i = call'[p].at,
           \A i \in Installed : Inst(i).state \in {"INSTALLING", "FAILED"} =>
               /\ call'[p].created # <<>> /\ i = Last(call'[p].created)
               /\ \/ pc'[p] \in {"installing", "failed"}
                  \/ /\ pc'[p] = "unloading" /\ call'[p].work # <<>>
                     /\ Head(call'[p].work) = <<"rollback", i>>,
           LoneInstall(p)', LoneUnload(p)'
    PROVE  Lone(p)'
<1>1. /\ Installed' = Installed /\ \A i : Inst(i)' = Inst(i) /\ \A c : Current(c)' = Current(c)
  BY DEF Installed, Inst, Current
<1>2. ASSUME NEW i \in Installed PROVE LoneGeneration(p, i)'
  <2>1. LoneGeneration(p, i)
    BY DEF Lone
  <2>2. Up(p, i)' => Up(p, i)
    BY <1>1 DEF Up, Mine
  <2>3. Supported(i)' <=> Supported(i)
    BY <1>1 DEF Supported, DependsOn
  <2> QED BY <1>1, <2>1, <2>2, <2>3 DEF LoneGeneration, Mine
<1>3. \A c \in Cap : \A i \in registered'[c] : LoneEdge(c, i)'
  BY <1>1 DEF Lone, LoneEdge, DependsOn
<1> QED BY <1>1, <1>2, <1>3 DEF Lone

\* A call that lists, creates and collects nothing.
LEMMA LoneEmpty ==
    ASSUME KernelInv, NEW p \in Caller, Lone(p), UNCHANGED <<insts, registered>>,
           \A i \in Installed : /\ Inst(i).state \notin {"INSTALLING", "FAILED"}
                                /\ Inst(i).task \notin {"created", "waiting", "final"},
           pc'[p] \in {"idle", "coalesced", "start", "done"},
           pc'[p] = "start" => call'[p].created = <<>>,
           pc'[p] = "start" /\ call'[p].op = "unload" /\ State(call'[p].id) = "ACTIVE" =>
              Inst(Current(call'[p].id)).dependents = {}
    PROVE  Lone(p)'
<1>1. LoneInstall(p)'
  <2>1. /\ pc'[p] \notin {"next", "installing", "failed"}
        /\ pc'[p] = "start" => call'[p].created = <<>>
    BY Zenon
  <2> QED BY Zenon, <2>1 DEF LoneInstall
<1>2. LoneUnload(p)'
  BY DEF LoneUnload, State, Inst, Current
<1> QED BY <1>1, <1>2, LoneMoves

LEMMA LoneCalls ==
    ASSUME KernelInv, NEW p \in Caller, Lone(p), NEW c \in Cap,
           InstallCall(p, c) \/ UnloadCall(p, c)
    PROVE  Lone(p)'
<1>0. pc \in [Caller -> PCs] /\ call \in [Caller -> CallType]
  BY DEF KernelInv, KernelTyped
<1>1. pc[p] = "idle" /\ UNCHANGED <<insts, registered>>
  BY DEF InstallCall, UnloadCall, Refuse, Coalesce, Create
<1>2. \A i \in Installed : /\ Inst(i).state \notin {"INSTALLING", "FAILED"}
                           /\ Inst(i).task \notin {"created", "waiting", "final"}
  BY <1>1, Quiet
<1>3. ASSUME NEW op, NEW ok, Refuse(p, op, c, ok) PROVE pc'[p] = "idle"
  BY <1>1, <1>3 DEF Refuse
<1>4. ASSUME NEW op, NEW q, Coalesce(p, op, c, q) PROVE pc'[p] = "coalesced"
  BY <1>0, <1>4 DEF Coalesce, Goto
<1>5. ASSUME NEW op, Create(p, op, c)
      PROVE  pc'[p] = "start" /\ call'[p].created = <<>> /\ call'[p].op = op /\ call'[p].id = c
  BY <1>0, <1>5 DEF Create, Goto, NoCall
<1>6. CASE InstallCall(p, c)
  <2>1. \/ pc'[p] \in {"idle", "coalesced"}
        \/ pc'[p] = "start" /\ call'[p].created = <<>> /\ call'[p].op = "install"
    BY <1>3, <1>4, <1>5, <1>6 DEF InstallCall
  <2> QED BY <1>1, <1>2, <2>1, LoneEmpty
<1>7. CASE UnloadCall(p, c)
  <2>1. \/ pc'[p] \in {"idle", "coalesced"}
        \/ /\ pc'[p] = "start" /\ call'[p].created = <<>> /\ call'[p].id = c
           /\ State(c) = "ACTIVE" => Inst(Current(c)).dependents = {}
    BY <1>3, <1>4, <1>5, <1>7 DEF UnloadCall
  <2> QED BY <1>1, <1>2, <2>1, LoneEmpty
<1> QED BY <1>6, <1>7

LEMMA LoneReturns ==
    ASSUME KernelInv, NEW p \in Caller, Lone(p), Returns(p) \/ InstallEnds(p) \/ UnloadEnds(p)
    PROVE  Lone(p)'
<1>0. pc \in [Caller -> PCs] /\ call \in [Caller -> CallType]
  BY DEF KernelInv, KernelTyped
<1>1. /\ UNCHANGED <<insts, registered>> /\ pc'[p] \in {"idle", "done"}
      /\ \/ pc[p] \in {"done", "woken", "next"}
         \/ pc[p] = "unloading" /\ call[p].work = <<>>
  BY <1>0 DEF Returns, InstallEnds, UnloadEnds, TaskEnds, Goto
<1>2. \A i \in Installed : /\ Inst(i).state \notin {"INSTALLING", "FAILED"}
                           /\ Inst(i).task \notin {"created", "waiting", "final"}
  BY <1>1 DEF Lone, LoneGeneration
<1> QED BY <1>1, <1>2, LoneEmpty

LEMMA ClosedInTail ==
    ASSUME NEW H, NEW chain \in Seq(Cap), chain # <<>>, ClosedIn(H, chain),
           NEW J, H \subseteq J, Head(chain) \in J
    PROVE  ClosedIn(J, Tail(chain))
<1>1. /\ Len(chain) \in Nat /\ DOMAIN chain = 1..Len(chain) /\ Head(chain) = chain[1]
      /\ Tail(chain) \in Seq(Cap) /\ DOMAIN Tail(chain) = 1..(Len(chain) - 1)
      /\ \A i \in 1..(Len(chain) - 1) : Tail(chain)[i] = chain[i + 1]
  BY HeadTailProperties
<1> SUFFICES ASSUME NEW k \in DOMAIN Tail(chain), NEW m \in DOMAIN Deps[Tail(chain)[k]]
             PROVE  HadIn(J, Deps[Tail(chain)[k]][m], Tail(chain), k)
  BY DEF ClosedIn
<1> DEFINE d == Deps[Tail(chain)[k]][m]
<1>2. k + 1 \in DOMAIN chain /\ Tail(chain)[k] = chain[k + 1] /\ k \in Nat
  BY <1>1
<1>3. HadIn(H, d, chain, k + 1)
  BY <1>2 DEF ClosedIn
<1> HIDE DEF d
<1>4. ASSUME NEW j \in 1..((k + 1) - 1), chain[j] = d
      PROVE  d = Head(chain) \/ \E i \in 1..(k - 1) : Tail(chain)[i] = d
  <2>1. CASE j = 1
    BY <1>1, <1>4, <2>1
  <2>2. CASE j # 1
    <3>1. j - 1 \in 1..(k - 1) /\ Tail(chain)[j - 1] = chain[j]
      BY <1>1, <1>2, <2>2
    <3> QED BY <1>4, <3>1
  <2> QED BY <2>1, <2>2
<1>5. HadIn(J, d, Tail(chain), k)
  BY <1>3, <1>4 DEF HadIn
<1> QED BY <1>5 DEF d

\* A walk that begins lists what its dependencies are ACTIVE or listed for.
LEMMA LoneStart ==
    ASSUME KernelInv, NEW p \in Caller, Lone(p), InstallStart(p)
    PROVE  Lone(p)'
<1>0. pc \in [Caller -> PCs] /\ call \in [Caller -> CallType] /\ call[p] \in CallType /\ CallOK(p)
  BY DEF KernelInv, KernelTyped
<1> DEFINE H == ActiveCaps
           chain == InstallChain(call[p].id)
<1>1. /\ UNCHANGED <<insts, registered>> /\ pc[p] = "start" /\ pc'[p] = "next"
      /\ call[p].id \in Cap
  BY <1>0 DEF InstallStart, Goto, CallOK
<1>2. call'[p].chain = chain /\ call'[p].created = call[p].created
  <2> HIDE DEF chain
  <2>1. call' = [call EXCEPT ![p].chain = chain]
    BY DEF InstallStart, chain
  <2> QED BY <1>0, <2>1 DEF CallType
<1>3. call'[p].created = <<>>
  BY <1>1, <1>2 DEF Lone, LoneInstall
<1>4. ClosedIn(H, chain)
  <2>1. \A d \in Cap : State(d) = "ACTIVE" => d \in H
    BY DEF ActiveCaps
  <2> HIDE DEF H
  <2> QED BY <1>1, <2>1, ChainClosedIn
<1>5. H' = H
  BY <1>1 DEF ActiveCaps, State, Inst, Current
<1>6. ClosedIn(H, call'[p].chain) <=> ClosedIn(H, call[p].chain)'
  BY <1>5 DEF ClosedIn, HadIn
<1>7. LoneInstall(p)'
  BY <1>1, <1>2, <1>3, <1>4, <1>6 DEF LoneInstall
<1>8. LoneUnload(p)'
  BY <1>1 DEF LoneUnload
<1>9. \A i \in Installed : /\ Inst(i).state \notin {"INSTALLING", "FAILED"}
                           /\ Inst(i).task \notin {"created", "waiting", "final"}
  BY <1>1, Quiet
<1> QED BY <1>1, <1>7, <1>8, <1>9, LoneMoves

\* What heads the list is ACTIVE where it is passed over.
LEMMA LoneNext ==
    ASSUME KernelInv, NEW p \in Caller, Lone(p), InstallNext(p)
    PROVE  Lone(p)'
<1>0. /\ pc \in [Caller -> PCs] /\ call \in [Caller -> CallType] /\ call[p] \in CallType
      /\ CallOK(p) /\ KernelTyped
  BY DEF KernelInv, KernelTyped
<1> DEFINE H == ActiveCaps
           chain == call[p].chain
           c == Head(chain)
<1>1. pc[p] = "next" /\ chain # <<>> /\ chain \in Seq(Cap) /\ c \in Cap
  BY <1>0, HeadTailProperties DEF InstallNext, CallType
<1>2. \A i \in Installed : /\ Inst(i).state \notin {"INSTALLING", "FAILED"}
                           /\ Inst(i).task \notin {"created", "waiting", "final"}
  BY <1>1, Quiet
<1>3. State(c) # "INSTALLING"
  <2> HIDE DEF c
  <2> QED BY <1>0, <1>1, <1>2, StateOf
<1>4. State(c) = "ACTIVE" /\ Skip(p)
  BY <1>3 DEF InstallNext
<1>5. UNCHANGED <<insts, registered, pc>> /\ pc'[p] = "next"
  BY <1>1, <1>4 DEF Skip
<1>6. call'[p].chain = Tail(chain) /\ call'[p].created = call[p].created
  BY <1>0, <1>4 DEF Skip, CallType
<1>7. ClosedIn(H, Tail(chain))
  <2>1. ClosedIn(H, chain)
    BY <1>1 DEF Lone, LoneInstall
  <2>2. Head(chain) \in H
    BY <1>1, <1>4 DEF ActiveCaps
  <2> HIDE DEF H, chain
  <2> QED BY <1>1, <2>1, <2>2, ClosedInTail
<1>8. H' = H
  BY <1>5 DEF ActiveCaps, State, Inst, Current
<1>9. ClosedIn(H, call[p].chain)'
  <2> DEFINE t == Tail(chain)
  <2>1. call'[p].chain = t /\ ClosedIn(H, t)
    BY <1>6, <1>7
  <2> HIDE DEF t, chain, H
  <2> QED BY <1>8, <2>1 DEF ClosedIn, HadIn
<1>10. \A k \in DOMAIN call[p].created :
          /\ call[p].created[k] = Current(call[p].created[k][1])
          /\ Inst(call[p].created[k]).state = "ACTIVE"
  BY <1>1 DEF Lone, LoneInstall
<1>11. LoneInstall(p)'
  BY <1>5, <1>6, <1>9, <1>10 DEF LoneInstall, Inst, Current
<1>12. LoneUnload(p)'
  BY <1>5 DEF LoneUnload
<1> QED BY <1>2, <1>5, <1>11, <1>12, LoneMoves

\* The rollback begins with the generation that failed.
LEMMA LoneRollback ==
    ASSUME KernelInv, NEW p \in Caller, Lone(p), Rollback(p)
    PROVE  Lone(p)'
<1>0. /\ pc \in [Caller -> PCs] /\ call \in [Caller -> CallType] /\ call[p] \in CallType
  BY DEF KernelInv, KernelTyped
<1> DEFINE created == call[p].created
           work == [k \in DOMAIN created |-> <<"rollback", Reverse(created)[k]>>]
           n == Len(created)
<1>1. /\ pc[p] = "failed" /\ pc'[p] = "unloading" /\ UNCHANGED <<insts, registered>>
      /\ created # <<>> /\ created \in Seq(Ident) /\ n \in Nat \ {0} /\ DOMAIN created = 1..n
  <2>1. pc[p] = "failed" /\ pc'[p] = "unloading" /\ UNCHANGED <<insts, registered>>
    BY <1>0 DEF Rollback, Goto
  <2>2. created # <<>> /\ created \in Seq(Ident)
    BY <1>0, <2>1 DEF Lone, LoneInstall, CallType
  <2> HIDE DEF created
  <2>3. n \in Nat \ {0} /\ DOMAIN created = 1..n
    BY <2>2
  <2> QED BY <2>1, <2>2, <2>3
<1>2. call'[p].work = work /\ call'[p].created = created
  <2> HIDE DEF work
  <2>1. call' = [call EXCEPT ![p].ok = FALSE, ![p].work = work]
    BY DEF Rollback, work
  <2> QED BY <1>0, <2>1 DEF CallType
<1>3. \A k \in 1..n : work[k] = <<"rollback", created[(n - k) + 1]>> /\ (n - k) + 1 \in 1..n
  <2>1. Reverse(created) = [k \in 1..n |-> created[(n - k) + 1]]
    BY Zenon DEF Reverse
  <2>2. \A k \in 1..n : work[k] = <<"rollback", Reverse(created)[k]>>
    BY Zenon, <1>1
  <2> HIDE DEF created, work, n
  <2>3. \A k \in 1..n : (n - k) + 1 \in 1..n
    BY <1>1
  <2> QED BY <2>1, <2>2, <2>3
<1>4. \A k \in 1..n : created[k] = Current(created[k][1])
  BY <1>1 DEF Lone, LoneInstall
<1>5. /\ DOMAIN work = 1..n /\ work # <<>> /\ Head(work) = <<"rollback", Last(created)>>
  <2>1. 1 \in 1..n /\ (n - 1) + 1 = n
    BY <1>1
  <2>2. DOMAIN work = 1..n
    BY <1>1
  <2>3. Head(work) = work[1] /\ work # <<>>
    <3>0. \A m \in 1..n : created[m] \in Ident
      BY <1>1
    <3>1. \A k \in 1..n : work[k] \in Work
      <4> HIDE DEF created, n, work
      <4> QED BY <1>3, <3>0 DEF Work
    <3>2. work \in [1..n -> Work]
      BY <1>1, <3>1
    <3> HIDE DEF work
    <3>3. work \in Seq(Work) /\ Len(work) = n
      BY <1>1, <3>2
    <3> QED BY <1>1, <3>3
  <2> QED BY <1>3, <2>1, <2>2, <2>3 DEF Last
<1> HIDE DEF work
<1>6. LoneUnload(p)'
  <2>1. \A k \in DOMAIN work : /\ work[k][1] = "rollback"
                               /\ work[k][2] = Current(work[k][2][1])
    <3> SUFFICES ASSUME NEW k \in 1..n
                 PROVE  work[k][1] = "rollback" /\ work[k][2] = Current(work[k][2][1])
      BY <1>5
    <3>1. PICK m \in 1..n : work[k] = <<"rollback", created[m]>>
      BY <1>3
    <3>2. created[m] = Current(created[m][1])
      BY <1>4
    <3> QED BY <3>1, <3>2
  <2> QED BY <1>1, <1>2, <2>1 DEF LoneUnload, Inst, Current
<1>7. LoneInstall(p)'
  BY <1>1 DEF LoneInstall
<1>8. \A i \in Installed : Inst(i).state \in {"INSTALLING", "FAILED"} => i = Last(created)
  BY <1>1 DEF Lone, LoneGeneration, Mine
<1> HIDE DEF created
<1>9. \A i \in Installed : Inst(i).task \notin {"created", "waiting", "final"}
  BY <1>1, Quiet
<1> QED BY <1>1, <1>2, <1>5, <1>6, <1>7, <1>8, <1>9, LoneMoves

LEMMA LoneUnloadStarts ==
    ASSUME KernelInv, NEW p \in Caller, Lone(p), UnloadStart(p)
    PROVE  Lone(p)'
<1>0. /\ pc \in [Caller -> PCs] /\ call \in [Caller -> CallType] /\ call[p] \in CallType
      /\ CallOK(p) /\ KernelTyped
  BY DEF KernelInv, KernelTyped
<1> DEFINE c == call[p].id
           work == <<<<"unload", Current(c)>>>>
<1>1. /\ pc[p] = "start" /\ call[p].op = "unload" /\ pc'[p] = "unloading"
      /\ UNCHANGED <<insts, registered>> /\ c \in Cap /\ insts[c] # <<>>
  BY <1>0 DEF UnloadStart, Goto, CallOK
<1>2. call'[p].work = work
  <2> HIDE DEF work
  <2>1. call' = [call EXCEPT ![p].work = work]
    BY DEF UnloadStart, work
  <2> QED BY <1>0, <2>1 DEF CallType
<1>3. /\ Current(c) = Current(Current(c)[1])
      /\ Inst(Current(c)).state = "ACTIVE" => Inst(Current(c)).dependents = {}
  <2>1. Current(c)[1] = c
    BY DEF Current
  <2>2. State(c) = Inst(Current(c)).state
    BY <1>1 DEF State
  <2> QED BY <1>1, <2>1, <2>2 DEF Lone, LoneUnload
<1>4. \A k \in DOMAIN work : k = 1 /\ work[k] = <<"unload", Current(c)>>
  OBVIOUS
<1> HIDE DEF work, c
<1>5. LoneUnload(p)'
  <2>1. \A k \in DOMAIN work : LET i == work[k][2] IN
            i = Current(i[1]) /\ (Inst(i).state = "ACTIVE" => Inst(i).dependents = {})
    BY <1>3, <1>4
  <2> QED BY <1>1, <1>2, <2>1 DEF LoneUnload, Inst, Current
<1>6. LoneInstall(p)'
  BY <1>1 DEF LoneInstall
<1>7. \A i \in Installed : /\ Inst(i).state \notin {"INSTALLING", "FAILED"}
                           /\ Inst(i).task \notin {"created", "waiting", "final"}
  BY <1>1, Quiet
<1> QED BY <1>1, <1>5, <1>6, <1>7, LoneMoves

LEMMA LoneDisposed ==
    ASSUME KernelInv, NEW p \in Caller, Lone(p), Disposed(p)
    PROVE  Lone(p)'
<1>0. /\ pc \in [Caller -> PCs] /\ call \in [Caller -> CallType] /\ call[p] \in CallType
      /\ CallOK(p) /\ KernelTyped
  BY DEF KernelInv, KernelTyped
<1> DEFINE deps == Inst(call[p].at).deps
           cascade == [k \in DOMAIN deps |-> <<"cascade", deps[k]>>]
           old == call[p].work
<1>1. /\ pc[p] = "disposing" /\ Inst(call[p].at).task = "done" /\ pc'[p] = "unloading"
      /\ UNCHANGED <<insts, registered>> /\ call[p].at \in Installed
  BY <1>0 DEF Disposed, Goto, CallOK
<1>2. call'[p].work = cascade \o old
  <2> HIDE DEF cascade
  <2>1. call' = [call EXCEPT ![p].at = None, ![p].work = cascade \o @]
    BY DEF Disposed, cascade
  <2> QED BY <1>0, <2>1 DEF CallType
<1>3. deps \in Seq(Ident) /\ old \in Seq(Work)
  BY <1>0, <1>1, Members DEF Generation, CallType
<1>4. /\ Len(deps) \in Nat /\ DOMAIN deps = 1..Len(deps)
      /\ Len(cascade) = Len(deps) /\ cascade \in Seq(Work)
      /\ \A k \in 1..Len(deps) : cascade[k][1] = "cascade"
  <2>1. Len(deps) \in Nat /\ DOMAIN deps = 1..Len(deps)
    BY <1>3
  <2>2. \A k \in 1..Len(deps) : deps[k] \in Ident
    BY <1>3
  <2> HIDE DEF deps
  <2>3. cascade \in [1..Len(deps) -> Work]
    BY <2>1, <2>2 DEF Work
  <2> QED BY <2>1, <2>3
<1> HIDE DEF cascade, old, deps
<1>5. \A k \in DOMAIN (cascade \o old) :
         \/ (cascade \o old)[k][1] = "cascade"
         \/ \E j \in DOMAIN old : (cascade \o old)[k] = old[j]
  <2>1. /\ Len(old) \in Nat /\ DOMAIN old = 1..Len(old)
        /\ DOMAIN (cascade \o old) = 1..(Len(cascade) + Len(old))
        /\ \A i \in 1..(Len(cascade) + Len(old)) : (cascade \o old)[i] =
               IF i <= Len(cascade) THEN cascade[i] ELSE old[i - Len(cascade)]
    <3>1. /\ cascade \o old \in Seq(Work) /\ Len(cascade \o old) = Len(cascade) + Len(old)
          /\ \A i \in 1..(Len(cascade) + Len(old)) : (cascade \o old)[i] =
                 IF i <= Len(cascade) THEN cascade[i] ELSE old[i - Len(cascade)]
      BY <1>3, <1>4, ConcatProperties
    <3> QED BY <1>3, <3>1
  <2> SUFFICES ASSUME NEW k \in 1..(Len(cascade) + Len(old))
               PROVE  \/ (cascade \o old)[k][1] = "cascade"
                      \/ \E j \in DOMAIN old : (cascade \o old)[k] = old[j]
    BY <2>1
  <2>2. CASE k <= Len(cascade)
    BY <1>4, <2>1, <2>2
  <2>3. CASE ~(k <= Len(cascade))
    <3>1. k - Len(cascade) \in DOMAIN old
      BY <1>4, <2>1, <2>3
    <3> QED BY <2>1, <2>3, <3>1
  <2> QED BY <2>2, <2>3
<1> DEFINE work == cascade \o old
<1> HIDE DEF work
<1>6. LoneUnload(p)'
  <2>1. \A j \in DOMAIN old : LET i == old[j][2] IN
           /\ old[j][1] # "cascade" => i = Current(i[1])
           /\ old[j][1] = "unload" /\ Inst(i).state = "ACTIVE" => Inst(i).dependents = {}
    BY <1>1 DEF Lone, LoneUnload, old
  <2>2. \A k \in DOMAIN work : LET i == work[k][2] IN
           /\ work[k][1] # "cascade" => i = Current(i[1])
           /\ work[k][1] = "unload" /\ Inst(i).state = "ACTIVE" => Inst(i).dependents = {}
    BY <1>5, <2>1 DEF work
  <2>3. call'[p].work = work
    BY <1>2 DEF work
  <2> QED BY <1>1, <2>2, <2>3 DEF LoneUnload, Inst, Current
<1>7. LoneInstall(p)'
  BY <1>1 DEF LoneInstall
<1>8. \A i \in Installed : Inst(i).state \notin {"INSTALLING", "FAILED"}
  BY <1>1 DEF Lone, LoneGeneration
<1>9. \A i \in Installed : Inst(i).task \notin {"created", "waiting", "final"}
  BY <1>1 DEF Lone, LoneGeneration
<1> QED BY <1>1, <1>6, <1>7, <1>8, <1>9, LoneMoves

-----------------------------------------------------------------------------
(* One caller: the steps of one generation.                                *)

\* The generations p refers to, and its last one.
LEMMA LoneRefers ==
    ASSUME KernelInv, NEW p \in Caller
    PROVE  /\ \A k \in DOMAIN call[p].created : call[p].created[k] \in Installed
           /\ \A k \in DOMAIN call[p].work : call[p].work[k][2] \in Installed
           /\ pc[p] = "installing" => Mine(p) \in Installed /\ Len(call[p].created) \in DOMAIN call[p].created
           /\ pc[p] = "disposing" => call[p].at \in Installed
           /\ \A i \in Installed : DependsOn(i) \subseteq Installed
<1>1. CallOK(p) /\ call[p] \in CallType
  BY DEF KernelInv, KernelTyped
<1>2. \A k \in DOMAIN call[p].created : call[p].created[k] \in Installed
  BY <1>1 DEF CallOK, Range
<1>3. pc[p] = "installing" => Len(call[p].created) \in DOMAIN call[p].created
  <2> DEFINE s == call[p].created
  <2>1. s \in Seq(Ident) /\ (pc[p] = "installing" => s # <<>>)
    BY <1>1 DEF CallOK, CallType
  <2> HIDE DEF s
  <2>2. s # <<>> => Len(s) \in DOMAIN s
    BY <2>1
  <2> QED BY <2>1, <2>2 DEF s
<1>4. \A i \in Installed : DependsOn(i) \subseteq Installed
  BY DEF KernelInv, RefersOK
<1> QED BY <1>1, <1>2, <1>3, <1>4, MineInstalled DEF CallOK

\* What is ACTIVE stays, and nothing else becomes so.
LEMMA SameActive ==
    ASSUME KernelTyped, KernelTyped', \A c \in Cap : Current(c)' = Current(c),
           Installed' = Installed,
           \A i \in Installed : Inst(i)'.state = "ACTIVE" <=> Inst(i).state = "ACTIVE"
    PROVE  ActiveCaps' = ActiveCaps
<1>1. \A c \in Cap : State(c) = "ACTIVE" <=>
          Current(c) \in Installed /\ Inst(Current(c)).state = "ACTIVE"
  BY StateOf
<1>2. \A c \in Cap : State(c)' = "ACTIVE" <=>
          Current(c)' \in Installed' /\ Inst(Current(c))'.state = "ACTIVE"
  <2> SUFFICES ASSUME NEW c \in Cap
               PROVE  State(c)' = "ACTIVE" <=>
                          Current(c)' \in Installed' /\ Inst(Current(c))'.state = "ACTIVE"
    OBVIOUS
  <2>1. /\ insts'[c] # <<>> => Current(c)' \in Installed'
        /\ Len(insts'[c]) \in Nat /\ DOMAIN insts'[c] = 1..Len(insts'[c])
    <3>1. /\ Len(insts'[c]) \in Nat /\ DOMAIN insts'[c] = 1..Len(insts'[c])
          /\ insts'[c] # <<>> => Len(insts'[c]) \in DOMAIN insts'[c]
      BY DEF KernelTyped
    <3> QED BY <3>1 DEF Installed, Current
  <2>2. Current(c)' \in Installed' => insts'[c] # <<>>
    <3>1. Current(c)' \in Installed' => Len(insts'[c]) \in DOMAIN insts'[c]
      BY DEF Installed, Current
    <3> QED BY <3>1
  <2> QED BY <2>1, <2>2 DEF State
<1> QED BY <1>1, <1>2 DEF ActiveCaps

\* A generation that is disposed of goes on with it, or keeps its state.
LEMMA LoneStays ==
    ASSUME KernelInv, KernelInv', NEW p \in Caller, Lone(p),
           NEW i \in Installed, NEW g \in Generation,
           insts' = [insts EXCEPT ![i[1]][i[2]] = g],
           g.deps = Inst(i).deps, g.dependents = Inst(i).dependents,
           \/ g.state = Inst(i).state /\ g.task = Inst(i).task /\ g.scope = Inst(i).scope
           \/ /\ Inst(i).state \in {"DISPOSING", "DISPOSED"} /\ g.state \in {"DISPOSING", "DISPOSED"}
              /\ g.task \in {"created", "waiting", "final"} =>
                    Inst(i).task \in {"created", "waiting", "final"}
              /\ g.task = "created" <=> Inst(i).task = "created",
           UNCHANGED <<registered, pc, call>>
    PROVE  Lone(p)'
<1>1. /\ Installed' = Installed
      /\ \A j \in Installed : Inst(j)' = IF j = i THEN g ELSE Inst(j)
      /\ \A c \in Cap : Current(c)' = Current(c)
  BY OneChanges DEF KernelInv
<1>2. \A j \in Installed : /\ Inst(j)'.deps = Inst(j).deps
                           /\ Inst(j)'.dependents = Inst(j).dependents
                           /\ \/ Inst(j)'.state = Inst(j).state
                              \/ /\ Inst(j).state \in {"DISPOSING", "DISPOSED"}
                                 /\ Inst(j)'.state \in {"DISPOSING", "DISPOSED"}
  BY <1>1
<1>3. Mine(p)' = Mine(p)
  BY DEF Mine
<1>4. \A j \in Installed : j[1] \in Cap /\ \A d \in DependsOn(j) : d \in Installed
  BY LoneRefers, Members DEF KernelInv
<1>5. ASSUME NEW j \in Installed PROVE LoneGeneration(p, j)'
  <2>1. LoneGeneration(p, j)
    BY DEF Lone
  <2>2. Up(p, j)' => Up(p, j)
    BY <1>2, <1>3 DEF Up
  <2>3. Supported(j) => Supported(j)'
    BY <1>2, <1>4 DEF Supported, DependsOn
  <2>4. Inst(j)'.task # "none" \/ Inst(j)'.scope # "ACTIVE" =>
            Inst(j)'.state \in {"DISPOSING", "DISPOSED"}
    BY <1>1, <2>1 DEF LoneGeneration
  <2>5. Inst(j)'.task \in {"created", "waiting", "final"} =>
            Inst(j).task \in {"created", "waiting", "final"}
    BY <1>1
  <2> QED BY <1>1, <1>2, <1>3, <1>4, <2>1, <2>2, <2>3, <2>4, <2>5 DEF LoneGeneration
<1>6. ASSUME NEW c \in Cap, NEW j \in registered'[c] PROVE LoneEdge(c, j)'
  <2>1. j \in Installed /\ LoneEdge(c, j)
    BY DEF KernelInv, Lone
  <2>2. Inst(j)'.task = "created" <=> Inst(j).task = "created"
    BY <1>1, <2>1
  <2> QED BY <1>2, <2>1, <2>2 DEF LoneEdge, DependsOn
<1>7. ActiveCaps' = ActiveCaps
  BY <1>1, <1>2, SameActive DEF KernelInv
<1>8. LoneInstall(p)'
  <2>1. \A k \in DOMAIN call[p].created : call[p].created[k] \in Installed
    BY LoneRefers
  <2>2. \A k \in DOMAIN call[p].created : call[p].created[k][1] \in Cap
    BY <1>4, <2>1
  <2>3. pc[p] = "installing" => Inst(Mine(p))'.state = "INSTALLING"
    BY <1>2, <1>3, LoneRefers DEF Lone, LoneInstall
  <2>4. \A H, chain : ClosedIn(H, chain)' <=> ClosedIn(H, chain)
    BY DEF ClosedIn, HadIn
  <2> QED BY <1>1, <1>2, <1>3, <1>7, <2>1, <2>2, <2>3 DEF Lone, LoneInstall, ClosedIn, HadIn
<1>9. LoneUnload(p)'
  <2>1. \A k \in DOMAIN call[p].work : call[p].work[k][2] \in Installed
    BY LoneRefers
  <2>2. \A k \in DOMAIN call[p].work : call[p].work[k][2][1] \in Cap
    BY <1>4, <2>1
  <2>3. pc[p] = "disposing" => call[p].at \in Installed /\ call[p].at[1] \in Cap
    BY <1>4, LoneRefers
  <2>4. pc[p] = "start" => call[p].id \in Cap
    BY DEF KernelInv, CallOK
  <2>5. ASSUME NEW c \in Cap, State(c)' = "ACTIVE"
        PROVE  /\ State(c) = "ACTIVE"
               /\ Inst(Current(c))'.dependents = Inst(Current(c)).dependents
    <3>1. c \in ActiveCaps
      BY <1>7, <2>5 DEF ActiveCaps
    <3>2. State(c) = "ACTIVE" /\ Current(c) \in Installed
      BY <3>1, StateOf DEF ActiveCaps, KernelInv
    <3> QED BY <1>1, <1>2, <3>2
  <2>6. pc[p] = "start" /\ call[p].op = "unload" /\ State(call[p].id)' = "ACTIVE" =>
            Inst(Current(call[p].id))'.dependents = {}
    BY <2>4, <2>5 DEF Lone, LoneUnload
  <2>7. pc[p] = "disposing" => call[p].at = Current(call[p].at[1])'
    BY <1>1, <2>3 DEF Lone, LoneUnload
  <2>8. pc[p] \in {"unloading", "disposing"} =>
          \A k \in DOMAIN call[p].work :
             LET j == call[p].work[k][2] IN
             /\ call[p].work[k][1] # "cascade" => j = Current(j[1])'
             /\ call[p].work[k][1] = "unload" /\ Inst(j)'.state = "ACTIVE" => Inst(j)'.dependents = {}
    <3> SUFFICES ASSUME pc[p] \in {"unloading", "disposing"}, NEW k \in DOMAIN call[p].work,
                        NEW j, j = call[p].work[k][2]
                 PROVE  /\ call[p].work[k][1] # "cascade" => j = Current(j[1])'
                        /\ call[p].work[k][1] = "unload" /\ Inst(j)'.state = "ACTIVE" =>
                              Inst(j)'.dependents = {}
      BY Zenon
    <3>1. /\ call[p].work[k][1] # "cascade" => j = Current(j[1])
          /\ call[p].work[k][1] = "unload" /\ Inst(j).state = "ACTIVE" => Inst(j).dependents = {}
      BY Zenon DEF Lone, LoneUnload
    <3>2. j \in Installed /\ j[1] \in Cap
      BY Zenon, <2>1, <2>2
    <3> QED BY <1>1, <1>2, <3>1, <3>2
  <2> QED BY <1>1, <2>4, <2>6, <2>7, <2>8 DEF LoneUnload
<1> QED BY <1>1, <1>5, <1>6, <1>8, <1>9 DEF Lone

LEMMA ClosedInMore ==
    ASSUME NEW H, NEW J, H \subseteq J, NEW chain, ClosedIn(H, chain)
    PROVE  ClosedIn(J, chain)
BY DEF ClosedIn, HadIn

\* Scopes are disposed of, and with them what owns them.
LEMMA LoneTornDown ==
    ASSUME KernelInv, KernelInv', NEW p \in Caller, Lone(p), NEW i \in Installed,
           \/ Finalize(i) \/ ScopeBegins(i) \/ ScopeEnds(i) \/ DisposeEnds(i)
    PROVE  Lone(p)'
<1> DEFINE r == Inst(i)
<1>1. r \in Generation /\ insts[i[1]][i[2]] = r
  BY Members DEF KernelInv, Inst
<1>2. r.task # "none" \/ r.scope # "ACTIVE" => r.state \in {"DISPOSING", "DISPOSED"}
  BY DEF Lone, LoneGeneration
<1>3. UNCHANGED <<registered, pc, call>>
  BY DEF Finalize, ScopeBegins, ScopeEnds, DisposeEnds
<1>4. \E g \in Generation :
         /\ insts' = [insts EXCEPT ![i[1]][i[2]] = g]
         /\ g.deps = Inst(i).deps /\ g.dependents = Inst(i).dependents
         /\ r.state \in {"DISPOSING", "DISPOSED"} /\ g.state \in {"DISPOSING", "DISPOSED"}
         /\ g.task \in {"created", "waiting", "final"} => r.task \in {"created", "waiting", "final"}
         /\ g.task = "created" <=> r.task = "created"
  <2>1. CASE Finalize(i)
    <3> DEFINE s == IF r.scope = "ACTIVE" THEN "asked" ELSE r.scope
               g == [r EXCEPT !.task = "final", !.scope = s]
    <3>1. insts' = [insts EXCEPT ![i[1]][i[2]] = g] /\ r.task = "waiting"
      BY <1>1, <2>1 DEF Finalize
    <3>2. s \in {"ACTIVE", "asked", "DISPOSING", "DISPOSED"}
      BY <1>1 DEF Generation
    <3> HIDE DEF r, s
    <3>3. /\ g \in Generation /\ g.deps = r.deps /\ g.dependents = r.dependents
          /\ g.state = r.state /\ g.task = "final"
      BY ZenonT(40), <1>1, <3>2 DEF Generation
    <3> HIDE DEF g
    <3> QED BY <1>2, <3>1, <3>3 DEF r
  <2>2. CASE ScopeBegins(i)
    <3> DEFINE g == [Begun(r) EXCEPT !.scope = "DISPOSING"]
    <3>1. insts' = [insts EXCEPT ![i[1]][i[2]] = g] /\ r.scope = "asked"
      BY <1>1, <2>2 DEF ScopeBegins
    <3> HIDE DEF r
    <3>2. Begun(r) = r
      BY <1>1, <1>2, <3>1 DEF Begun, Generation
    <3>3. /\ g \in Generation /\ g.deps = r.deps /\ g.dependents = r.dependents
          /\ g.state = r.state /\ g.task = r.task
      BY <1>1, <3>2 DEF Generation
    <3> HIDE DEF g
    <3> QED BY <1>2, <3>1, <3>3 DEF r
  <2>3. CASE ScopeEnds(i)
    <3> DEFINE s == IF r.state = "DISPOSING" THEN "DISPOSED" ELSE r.state
               g == [r EXCEPT !.live = FALSE, !.scope = "DISPOSED", !.state = s]
    <3>1. insts' = [insts EXCEPT ![i[1]][i[2]] = g] /\ r.scope = "DISPOSING"
      BY <1>1, <2>3 DEF ScopeEnds
    <3>2. r.state \in {"DISPOSING", "DISPOSED"} /\ s = "DISPOSED"
      BY <1>2, <3>1
    <3> HIDE DEF r, s
    <3>3. /\ g \in Generation /\ g.deps = r.deps /\ g.dependents = r.dependents
          /\ g.state = s /\ g.task = r.task
      BY <1>1, <3>2 DEF Generation
    <3> HIDE DEF g
    <3> QED BY <3>1, <3>2, <3>3 DEF r
  <2>4. CASE DisposeEnds(i)
    <3> DEFINE s == IF r.state = "DISPOSING" THEN "DISPOSED" ELSE r.state
               g == [r EXCEPT !.task = "done", !.state = s]
    <3>1. insts' = [insts EXCEPT ![i[1]][i[2]] = g] /\ r.task = "final"
      BY <1>1, <2>4 DEF DisposeEnds
    <3>2. r.state \in {"DISPOSING", "DISPOSED"} /\ s = "DISPOSED"
      BY <1>2, <3>1
    <3> HIDE DEF r, s
    <3>3. /\ g \in Generation /\ g.deps = r.deps /\ g.dependents = r.dependents
          /\ g.state = s /\ g.task = "done"
      BY <1>1, <3>2 DEF Generation
    <3> HIDE DEF g
    <3> QED BY <3>1, <3>2, <3>3 DEF r
  <2> QED BY <2>1, <2>2, <2>3, <2>4
<1>5. PICK g \in Generation :
         /\ insts' = [insts EXCEPT ![i[1]][i[2]] = g]
         /\ g.deps = Inst(i).deps /\ g.dependents = Inst(i).dependents
         /\ r.state \in {"DISPOSING", "DISPOSED"} /\ g.state \in {"DISPOSING", "DISPOSED"}
         /\ g.task \in {"created", "waiting", "final"} => r.task \in {"created", "waiting", "final"}
         /\ g.task = "created" <=> r.task = "created"
  BY <1>4
<1> QED BY <1>3, <1>5, LoneStays

\* The factory makes its effects.
LEMMA LoneAcquires ==
    ASSUME KernelInv, KernelInv', NEW p \in Caller, Lone(p), Acquire(p)
    PROVE  Lone(p)'
<1> DEFINE i == Mine(p)
           r == Inst(i)
           g == [r EXCEPT !.live = TRUE]
<1>1. i \in Installed /\ UNCHANGED <<registered, pc, call>>
  BY MineInstalled DEF Acquire
<1>2. insts' = [insts EXCEPT ![i[1]][i[2]] = g]
  BY DEF Acquire, Set
<1>3. r \in Generation
  BY <1>1, Members DEF KernelInv
<1> HIDE DEF r
<1>4. /\ g \in Generation /\ g.deps = r.deps /\ g.dependents = r.dependents
      /\ g.state = r.state /\ g.task = r.task /\ g.scope = r.scope
  BY <1>3 DEF Generation
<1> HIDE DEF g, i
<1> QED BY <1>1, <1>2, <1>4, LoneStays DEF r

\* The factory returns or raises.
LEMMA LoneMineEnds ==
    ASSUME KernelInv, KernelInv', NEW p \in Caller, Lone(p), pc[p] = "installing",
           NEW g \in Generation,
           insts' = [insts EXCEPT ![Mine(p)[1]][Mine(p)[2]] = g],
           g.deps = Inst(Mine(p)).deps, g.dependents = Inst(Mine(p)).dependents,
           g.task = Inst(Mine(p)).task, g.scope = Inst(Mine(p)).scope,
           \/ g.state = "ACTIVE" /\ pc'[p] = "next"
           \/ g.state = "FAILED" /\ pc'[p] = "failed",
           UNCHANGED <<registered, call>>
    PROVE  Lone(p)'
<1> DEFINE i == Mine(p)
<1>0. /\ i \in Installed /\ i[1] \in Cap /\ Inst(i).state = "INSTALLING" /\ i = Current(i[1])
      /\ call[p].created # <<>> /\ Inst(i).dependents = {}
  <2>1. i \in Installed /\ Inst(i).state = "INSTALLING"
    BY MineInstalled DEF Lone, LoneInstall
  <2> HIDE DEF i
  <2> QED BY <2>1, Members DEF Lone, LoneGeneration, KernelInv
<1>1. /\ Installed' = Installed
      /\ \A j \in Installed : Inst(j)' = IF j = i THEN g ELSE Inst(j)
      /\ \A c \in Cap : Current(c)' = Current(c)
  <2> HIDE DEF i
  <2>1. insts' = [insts EXCEPT ![i[1]][i[2]] = g]
    BY DEF i
  <2> QED BY <1>0, <2>1, OneChanges DEF KernelInv
<1>2. \A j \in Installed : /\ Inst(j)'.deps = Inst(j).deps
                           /\ Inst(j)'.dependents = Inst(j).dependents
                           /\ Inst(j)'.task = Inst(j).task /\ Inst(j)'.scope = Inst(j).scope
  BY <1>1
<1>3. Mine(p)' = i
  BY DEF Mine
<1> HIDE DEF i
<1>4. \A j \in Installed : j[1] \in Cap /\ \A d \in DependsOn(j) : d \in Installed
  BY LoneRefers, Members DEF KernelInv
<1>5. ASSUME NEW j \in Installed PROVE LoneGeneration(p, j)'
  <2>1. LoneGeneration(p, j)
    BY DEF Lone
  <2>2. Up(p, j)' => Up(p, j)
    BY <1>1 DEF Up, i
  <2>3. Supported(j) => Supported(j)'
    <3>1. \A d \in Installed : Inst(d).state = "ACTIVE" => Inst(d)'.state = "ACTIVE"
      BY <1>0, <1>1
    <3> QED BY <1>2, <1>4, <3>1 DEF Supported, DependsOn
  <2>4. Inst(j)'.task \notin {"created", "waiting", "final"}
    BY <1>2, Quiet
  <2>5. CASE j = i
    <3>1. Inst(j)'.task = "none" /\ Inst(j)'.scope = "ACTIVE"
      BY <1>0, <1>2, <2>1, <2>5 DEF LoneGeneration
    <3>2. Inst(j)'.state \in {"ACTIVE", "FAILED"} /\ (Inst(j)'.state = "FAILED" => pc'[p] = "failed")
      BY <1>1, <2>5
    <3>3. j = Current(j[1])' /\ Inst(j)'.dependents = {}
      BY <1>0, <1>1, <1>2, <2>5
    <3> QED BY <1>0, <1>3, <2>1, <2>2, <2>3, <2>5, <3>1, <3>2, <3>3 DEF LoneGeneration
  <2>6. CASE j # i
    <3>1. Inst(j)' = Inst(j)
      BY <1>1, <2>6
    <3>2. Inst(j).state \notin {"INSTALLING", "FAILED"}
      BY <2>1, <2>6 DEF LoneGeneration, i
    <3> QED BY <1>1, <1>4, <2>1, <2>2, <2>3, <2>4, <3>1, <3>2 DEF LoneGeneration
  <2> QED BY <2>5, <2>6
<1>6. ASSUME NEW c \in Cap, NEW j \in registered'[c] PROVE LoneEdge(c, j)'
  <2>1. j \in Installed /\ LoneEdge(c, j)
    BY DEF KernelInv, Lone
  <2>2. Inst(j)'.state = Inst(j).state \/ Inst(j)'.state \in {"ACTIVE", "FAILED"}
    BY <1>1, <2>1
  <2> QED BY <1>2, <2>1, <2>2 DEF LoneEdge, DependsOn
<1>7. \A k \in DOMAIN call[p].created :
         LET j == call[p].created[k] IN
         /\ j \in Installed /\ j[1] \in Cap /\ j = Current(j[1])
         /\ Inst(j).state = "ACTIVE" \/ (k = Len(call[p].created) /\ j = i)
  <2> SUFFICES ASSUME NEW k \in DOMAIN call[p].created, NEW j, j = call[p].created[k]
               PROVE  /\ j \in Installed /\ j[1] \in Cap /\ j = Current(j[1])
                      /\ Inst(j).state = "ACTIVE" \/ (k = Len(call[p].created) /\ j = i)
    OBVIOUS
  <2>1. j \in Installed
    BY LoneRefers
  <2>2. j = Current(j[1]) /\ (Inst(j).state = "ACTIVE" \/ k = Len(call[p].created))
    BY DEF Lone, LoneInstall
  <2> QED BY <1>4, <2>1, <2>2 DEF i, Mine, Last
<1>8. CASE g.state = "ACTIVE"
  <2>1. pc'[p] = "next"
    BY <1>8
  <2>2. ActiveCaps \cup {i[1]} \subseteq ActiveCaps'
    <3> SUFFICES ASSUME NEW c \in Cap, c \in ActiveCaps \/ c = i[1] PROVE State(c)' = "ACTIVE"
      BY <1>0 DEF ActiveCaps
    <3>1. Current(c) \in Installed /\ (Inst(Current(c)).state = "ACTIVE" \/ Current(c) = i)
      BY <1>0, StateOf DEF ActiveCaps, KernelInv
    <3>2. Inst(Current(c))'.state = "ACTIVE"
      BY <1>1, <1>8, <3>1
    <3>3. insts'[c] # <<>>
      <4>1. insts[c] # <<>>
        BY <3>1, Members DEF Current, KernelInv
      <4>2. insts[c] = <<>> <=> insts'[c] = <<>>
        <5>1. insts' = [insts EXCEPT ![i[1]][i[2]] = g]
          BY DEF i
        <5> QED BY <1>0, <5>1, OneChanges DEF KernelInv
      <4> QED BY <4>1, <4>2
    <3> QED BY <1>1, <3>2, <3>3 DEF State
  <2>3. ClosedIn(ActiveCaps', call[p].chain)
    <3>1. ClosedIn(ActiveCaps \cup {i[1]}, call[p].chain)
      BY DEF Lone, LoneInstall, i
    <3> QED BY <2>2, <3>1, ClosedInMore
  <2>4. ClosedIn(ActiveCaps, call[p].chain)'
    BY <2>3 DEF ClosedIn, HadIn
  <2>5. \A k \in DOMAIN call[p].created :
           LET j == call[p].created[k] IN j = Current(j[1])' /\ Inst(j)'.state = "ACTIVE"
    BY <1>1, <1>7, <1>8
  <2>6. LoneInstall(p)'
    BY <2>1, <2>4, <2>5 DEF LoneInstall
  <2>7. LoneUnload(p)'
    BY <2>1 DEF LoneUnload
  <2> QED BY <1>1, <1>5, <1>6, <2>6, <2>7 DEF Lone
<1>9. CASE g.state = "FAILED"
  <2>1. pc'[p] = "failed"
    BY <1>9
  <2>2. \A k \in DOMAIN call[p].created :
           LET j == call[p].created[k] IN
           /\ j = Current(j[1])'
           /\ Inst(j)'.state = "ACTIVE" \/ k = Len(call[p].created)
    BY <1>0, <1>1, <1>7
  <2>3. LoneInstall(p)'
    BY <1>0, <2>1, <2>2 DEF LoneInstall
  <2>4. LoneUnload(p)'
    BY <2>1 DEF LoneUnload
  <2> QED BY <1>1, <1>5, <1>6, <2>3, <2>4 DEF Lone
<1> QED BY <1>8, <1>9

LEMMA LoneInstalls ==
    ASSUME KernelInv, KernelInv', NEW p \in Caller, Lone(p), InstallReturns(p) \/ InstallRaises(p)
    PROVE  Lone(p)'
<1> DEFINE i == Mine(p)
           r == Inst(i)
<1>0. pc \in [Caller -> PCs]
  BY DEF KernelInv, KernelTyped
<1>1. /\ i \in Installed /\ pc[p] = "installing" /\ UNCHANGED <<registered, call>>
      /\ r.state = "INSTALLING"
  BY MineInstalled DEF InstallReturns, InstallRaises, Lone, LoneInstall
<1>2. r \in Generation
  BY <1>1, Members DEF KernelInv
<1>3. CASE InstallReturns(p)
  <2> DEFINE g == [r EXCEPT !.state = "ACTIVE"]
  <2>1. insts' = [insts EXCEPT ![i[1]][i[2]] = g] /\ pc'[p] = "next"
    BY <1>0, <1>1, <1>3 DEF InstallReturns, Set, Goto
  <2> HIDE DEF i, r
  <2>2. /\ g \in Generation /\ g.deps = r.deps /\ g.dependents = r.dependents
        /\ g.state = "ACTIVE" /\ g.task = r.task /\ g.scope = r.scope
    BY <1>2 DEF Generation
  <2> HIDE DEF g
  <2> QED BY <1>1, <2>1, <2>2, LoneMineEnds DEF i, r
<1>4. CASE InstallRaises(p)
  <2> DEFINE g == [r EXCEPT !.state = "FAILED", !.live = FALSE]
  <2>1. insts' = [insts EXCEPT ![i[1]][i[2]] = g] /\ pc'[p] = "failed"
    BY <1>0, <1>1, <1>4 DEF InstallRaises, Goto
  <2> HIDE DEF i, r
  <2>2. /\ g \in Generation /\ g.deps = r.deps /\ g.dependents = r.dependents
        /\ g.state = "FAILED" /\ g.task = r.task /\ g.scope = r.scope
    BY <1>2 DEF Generation
  <2> HIDE DEF g
  <2> QED BY <1>1, <2>1, <2>2, LoneMineEnds DEF i, r
<1> QED BY <1>3, <1>4

\* What p goes on to collect, of what it had collected.
LEMMA LoneTail ==
    ASSUME KernelInv, NEW p \in Caller, Lone(p), pc[p] = "unloading", call[p].work # <<>>
    PROVE  LET work == call[p].work IN
           /\ 1 \in DOMAIN work /\ Head(work) = work[1] /\ work[1] \in Work
           /\ work[1][2] \in Installed
           /\ \A k \in DOMAIN Tail(work) :
                 /\ k + 1 \in DOMAIN work /\ Tail(work)[k] = work[k + 1]
                 /\ Tail(work)[k][2] \in Installed
           /\ \A k \in DOMAIN work : LET i == work[k][2] IN
                 /\ work[k][1] # "cascade" => i = Current(i[1])
                 /\ work[k][1] = "unload" /\ Inst(i).state = "ACTIVE" => Inst(i).dependents = {}
<1> DEFINE work == call[p].work
<1>1. work \in Seq(Work) /\ work # <<>>
  BY DEF KernelInv, KernelTyped, CallType
<1>2. \A k \in DOMAIN work : work[k][2] \in Installed
  BY DEF KernelInv, CallOK
<1>3. \A k \in DOMAIN work : LET i == work[k][2] IN
         /\ work[k][1] # "cascade" => i = Current(i[1])
         /\ work[k][1] = "unload" /\ Inst(i).state = "ACTIVE" => Inst(i).dependents = {}
  BY DEF Lone, LoneUnload
<1> HIDE DEF work
<1>4. /\ 1 \in DOMAIN work /\ Head(work) = work[1] /\ work[1] \in Work
      /\ \A k \in DOMAIN Tail(work) : k + 1 \in DOMAIN work /\ Tail(work)[k] = work[k + 1]
  BY <1>1, HeadTailProperties
<1>5. \A k \in DOMAIN Tail(work) : Tail(work)[k][2] \in Installed
  <2> SUFFICES ASSUME NEW k \in DOMAIN Tail(work) PROVE Tail(work)[k][2] \in Installed
    OBVIOUS
  <2>1. k + 1 \in DOMAIN work /\ Tail(work)[k] = work[k + 1]
    BY <1>4
  <2> QED BY <1>2, <2>1
<1> QED BY <1>2, <1>3, <1>4, <1>5 DEF work

\* What p begins to dispose of is the last generation and has no dependents.
LEMMA LoneCollects ==
    ASSUME KernelInv, NEW p \in Caller, Lone(p), pc[p] = "unloading", call[p].work # <<>>,
           NEW i, i = Head(call[p].work)[2], Applies(Head(call[p].work)[1], i)
    PROVE  /\ i \in Installed /\ i = Current(i[1]) /\ Inst(i).dependents = {}
           /\ Inst(i).state \in {"ACTIVE", "INSTALLING", "FAILED"} /\ Inst(i).task = "none"
           /\ \A j \in Installed : Inst(j).state \in {"INSTALLING", "FAILED"} => j = i
<1> DEFINE kind == Head(call[p].work)[1]
           item == call[p].work[1]
<1>1. /\ i \in Installed /\ Head(call[p].work) = item /\ item[1] = kind /\ item[2] = i
      /\ kind \in {"unload", "rollback", "cascade"}
      /\ kind # "cascade" => i = Current(i[1])
      /\ kind = "unload" /\ Inst(i).state = "ACTIVE" => Inst(i).dependents = {}
  BY LoneTail DEF Work
<1>2. LoneGeneration(p, i) /\ Inst(i) \in Generation
  BY <1>1, Members DEF Lone, KernelInv
<1> HIDE DEF kind
<1>3. Inst(i).state \in {"ACTIVE", "INSTALLING", "FAILED"}
  BY <1>2 DEF Applies, Generation
<1>4. Inst(i).task = "none"
  BY <1>2, <1>3 DEF LoneGeneration
<1>5. /\ kind = "rollback" => Inst(i).dependents = {}
      /\ kind = "cascade" => Inst(i).state = "ACTIVE" /\ Inst(i).dependents = {}
  BY DEF Applies, kind
<1>6. i = Current(i[1])
  BY <1>1, <1>2, <1>3, <1>5 DEF LoneGeneration
<1>7. Inst(i).dependents = {}
  BY <1>1, <1>2, <1>3, <1>5 DEF LoneGeneration
<1>8. \A j \in Installed : Inst(j).state \in {"INSTALLING", "FAILED"} => j = i
  BY <1>1 DEF Lone, LoneGeneration
<1> QED BY <1>1, <1>3, <1>4, <1>6, <1>7, <1>8

LEMMA LoneDisposes ==
    ASSUME KernelInv, KernelInv', NEW p \in Caller, Lone(p), UnloadNext(p),
           Applies(Head(call[p].work)[1], Head(call[p].work)[2])
    PROVE  Lone(p)'
<1> SUFFICES ASSUME NEW work, work = call[p].work, NEW i, i = Head(work)[2]
             PROVE  Lone(p)'
  OBVIOUS
<1> DEFINE g == [Inst(i) EXCEPT !.state = "DISPOSING", !.task = "created"]
<1>0. /\ pc \in [Caller -> PCs] /\ call \in [Caller -> CallType] /\ call[p] \in CallType
  BY DEF KernelInv, KernelTyped
<1>1. pc[p] = "unloading" /\ work # <<>> /\ UNCHANGED registered
  BY Zenon DEF UnloadNext
<1>2. /\ i \in Installed /\ i = Current(i[1]) /\ Inst(i).dependents = {}
      /\ Inst(i).state \in {"ACTIVE", "INSTALLING", "FAILED"} /\ Inst(i).task = "none"
      /\ \A j \in Installed : Inst(j).state \in {"INSTALLING", "FAILED"} => j = i
  BY <1>1, LoneCollects
<1>3. Inst(i) \in Generation /\ insts[i[1]][i[2]] = Inst(i)
  BY Zenon, <1>2, Members DEF KernelInv, Inst
<1>4. insts' = [insts EXCEPT ![i[1]][i[2]] = g]
  <2>1. [Begun(Inst(i)) EXCEPT !.task = "created"] = g
    <3> DEFINE r == Inst(i)
    <3>1. r \in Generation /\ r.state \in {"ACTIVE", "INSTALLING", "FAILED"}
      BY <1>2, <1>3
    <3> HIDE DEF r
    <3>2. [Begun(r) EXCEPT !.task = "created"] = [r EXCEPT !.state = "DISPOSING", !.task = "created"]
      BY <3>1 DEF Begun, Generation
    <3> QED BY <3>2 DEF r
  <2>2. insts' = [insts EXCEPT ![i[1]][i[2]] = [Begun(Inst(i)) EXCEPT !.task = "created"]]
    BY ZenonT(40), <1>2, <1>3 DEF UnloadNext
  <2> QED BY Zenon, <2>1, <2>2
<1>5. /\ g \in Generation /\ g.deps = Inst(i).deps /\ g.dependents = {}
      /\ g.state = "DISPOSING" /\ g.task = "created"
  <2> DEFINE r == Inst(i)
  <2>1. r \in Generation /\ r.dependents = {} /\ g = [r EXCEPT !.state = "DISPOSING", !.task = "created"]
    BY <1>2, <1>3
  <2> HIDE DEF r, g
  <2>2. /\ g \in Generation /\ g.deps = r.deps /\ g.dependents = {}
        /\ g.state = "DISPOSING" /\ g.task = "created"
    BY Zenon, <2>1 DEF Generation
  <2> QED BY <2>2 DEF r
<1>6. /\ pc'[p] = "disposing" /\ call'[p].work = Tail(work) /\ call'[p].at = i
  <2> DEFINE t == Tail(work)
  <2>1. pc'[p] = "disposing" /\ call' = [call EXCEPT ![p].work = t, ![p].at = i]
    BY Zenon, <1>0 DEF UnloadNext, Goto
  <2> HIDE DEF t
  <2>2. call'[p].work = t /\ call'[p].at = i
    BY <1>0, <2>1 DEF CallType
  <2> QED BY <2>1, <2>2 DEF t
<1>7. /\ 1 \in DOMAIN work
      /\ \A k \in DOMAIN Tail(work) :
            /\ k + 1 \in DOMAIN work /\ Tail(work)[k] = work[k + 1] /\ Tail(work)[k][2] \in Installed
      /\ \A k \in DOMAIN work : LET j == work[k][2] IN
            /\ work[k][1] # "cascade" => j = Current(j[1])
            /\ work[k][1] = "unload" /\ Inst(j).state = "ACTIVE" => Inst(j).dependents = {}
  BY Zenon, <1>1, LoneTail
<1> HIDE DEF g
<1>8. /\ Installed' = Installed
      /\ \A j \in Installed : Inst(j)' = IF j = i THEN g ELSE Inst(j)
      /\ \A c \in Cap : Current(c)' = Current(c)
  BY Zenon, <1>2, <1>4, <1>5, OneChanges DEF KernelInv
<1>9. \A j \in Installed : j[1] \in Cap /\ \A d \in DependsOn(j) : d \in Installed
  BY LoneRefers, Members DEF KernelInv
<1>10. \A j \in Installed : Inst(j)'.deps = Inst(j).deps /\ Inst(j)'.dependents = Inst(j).dependents
  BY <1>2, <1>5, <1>8
<1>11. ASSUME NEW j \in Installed PROVE LoneGeneration(p, j)'
  <2>1. LoneGeneration(p, j)
    BY DEF Lone
  <2>2. CASE j = i
    <3>1. Inst(j)'.state = "DISPOSING"
      BY <1>5, <1>8, <2>2
    <3>2. ~Up(p, j)'
      BY <1>6, <3>1 DEF Up
    <3> QED BY <1>6, <2>2, <3>1, <3>2 DEF LoneGeneration
  <2>3. CASE j # i
    <3>1. Inst(j)' = Inst(j) /\ Inst(j).state \notin {"INSTALLING", "FAILED"}
      BY <1>2, <1>8, <2>3
    <3>2. Inst(j).task \notin {"created", "waiting", "final"}
      BY <1>1, Quiet
    <3>3. Up(p, j)' => Inst(j).state = "ACTIVE"
      BY <1>6, <3>1 DEF Up
    <3>4. Inst(j).state = "ACTIVE" => Supported(j)'
      <4>1. Inst(j).state = "ACTIVE" => Supported(j)
        BY <2>1 DEF LoneGeneration, Up
      <4>2. ASSUME NEW d \in DependsOn(j), j[1] \in Inst(d).dependents PROVE Inst(d)' = Inst(d)
        BY <1>2, <1>8, <1>9, <4>2
      <4> QED BY <1>1, <1>10, <4>1, <4>2 DEF Supported, DependsOn
    <3> QED BY <1>8, <1>9, <2>1, <3>1, <3>2, <3>3, <3>4 DEF LoneGeneration
  <2> QED BY <2>2, <2>3
<1>12. ASSUME NEW c \in Cap, NEW j \in registered'[c] PROVE LoneEdge(c, j)'
  <2>1. j \in Installed /\ LoneEdge(c, j)
    BY <1>1 DEF KernelInv, Lone
  <2>2. Inst(j)'.task = "created" \/ Inst(j)' = Inst(j)
    BY <1>5, <1>8, <2>1
  <2> QED BY <1>10, <2>1, <2>2 DEF LoneEdge, DependsOn
<1>13. LoneInstall(p)'
  BY <1>6 DEF LoneInstall
<1>14. LoneUnload(p)'
  <2>1. i = Current(i[1])'
    BY <1>2, <1>8, <1>9
  <2>2. \A k \in DOMAIN Tail(work) : \A j : j = Tail(work)[k][2] =>
            /\ Tail(work)[k][1] # "cascade" => j = Current(j[1])'
            /\ Tail(work)[k][1] = "unload" /\ Inst(j)'.state = "ACTIVE" => Inst(j)'.dependents = {}
    <3> SUFFICES ASSUME NEW k \in DOMAIN Tail(work), NEW j, j = Tail(work)[k][2]
                 PROVE  /\ Tail(work)[k][1] # "cascade" => j = Current(j[1])'
                        /\ Tail(work)[k][1] = "unload" /\ Inst(j)'.state = "ACTIVE" => Inst(j)'.dependents = {}
      OBVIOUS
    <3>1. /\ j \in Installed /\ j[1] \in Cap
          /\ Tail(work)[k][1] # "cascade" => j = Current(j[1])
          /\ Tail(work)[k][1] = "unload" /\ Inst(j).state = "ACTIVE" => Inst(j).dependents = {}
      <4>1. PICK m \in DOMAIN work : Tail(work)[k] = work[m]
        BY Zenon, <1>7
      <4>2. j = work[m][2] /\ work[m][1] = Tail(work)[k][1] /\ j \in Installed
        BY Zenon, <1>7, <4>1
      <4>3. /\ work[m][1] # "cascade" => j = Current(j[1])
            /\ work[m][1] = "unload" /\ Inst(j).state = "ACTIVE" => Inst(j).dependents = {}
        BY Zenon, <1>7, <4>2
      <4> QED BY Zenon, <1>9, <4>2, <4>3
    <3>2. Inst(j)'.state = "ACTIVE" => Inst(j).state = "ACTIVE"
      BY <1>5, <1>8, <3>1
    <3> QED BY <1>8, <1>10, <3>1, <3>2
  <2> DEFINE t == Tail(work)
  <2>3. /\ pc'[p] = "disposing" /\ call'[p].work = t /\ call'[p].at = i
        /\ \A k \in DOMAIN t : \A j : j = t[k][2] =>
              /\ t[k][1] # "cascade" => j = Current(j[1])'
              /\ t[k][1] = "unload" /\ Inst(j)'.state = "ACTIVE" => Inst(j)'.dependents = {}
    BY <1>6, <2>2
  <2> HIDE DEF t
  <2>4. \A k \in DOMAIN call'[p].work : \A j : j = call'[p].work[k][2] =>
              /\ call'[p].work[k][1] # "cascade" => j = Current(j[1])'
              /\ call'[p].work[k][1] = "unload" /\ Inst(j)'.state = "ACTIVE" => Inst(j)'.dependents = {}
    BY <2>3
  <2> QED BY <2>1, <2>3, <2>4 DEF LoneUnload
<1> QED BY <1>1, <1>8, <1>11, <1>12, <1>13, <1>14 DEF Lone

LEMMA LonePasses ==
    ASSUME KernelInv, NEW p \in Caller, Lone(p), UnloadNext(p),
           ~Applies(Head(call[p].work)[1], Head(call[p].work)[2])
    PROVE  Lone(p)'
<1> DEFINE work == call[p].work
<1>0. /\ call \in [Caller -> CallType] /\ call[p] \in CallType
  BY DEF KernelInv, KernelTyped
<1>1. /\ pc[p] = "unloading" /\ work # <<>> /\ UNCHANGED <<insts, registered, pc>>
  BY Zenon DEF UnloadNext
<1>2. call'[p].work = Tail(work) /\ call'[p].created = call[p].created
  <2>1. call' = [call EXCEPT ![p].work = Tail(@)]
    BY Zenon DEF UnloadNext
  <2> QED BY <1>0, <2>1 DEF CallType
<1>3. \A j \in Installed : Inst(j).state \notin {"INSTALLING", "FAILED"}
  <2> SUFFICES ASSUME NEW j \in Installed, Inst(j).state \in {"INSTALLING", "FAILED"} PROVE FALSE
    OBVIOUS
  <2>1. Head(work) = <<"rollback", j>> /\ Inst(j).dependents = {}
    BY <1>1 DEF Lone, LoneGeneration
  <2>2. Applies("rollback", j)
    BY <2>1 DEF Applies
  <2> QED BY <2>1, <2>2
<1>4. \A j \in Installed : Inst(j).task \notin {"created", "waiting", "final"}
  BY <1>1, Quiet
<1>5. LoneInstall(p)'
  BY SMTT(30), <1>1 DEF LoneInstall
<1>6. LoneUnload(p)'
  <2> HIDE DEF work
  <2>1. \A k \in DOMAIN Tail(work) : LET j == Tail(work)[k][2] IN
            /\ Tail(work)[k][1] # "cascade" => j = Current(j[1])
            /\ Tail(work)[k][1] = "unload" /\ Inst(j).state = "ACTIVE" => Inst(j).dependents = {}
    <3>1. /\ \A k \in DOMAIN Tail(work) : k + 1 \in DOMAIN work /\ Tail(work)[k] = work[k + 1]
          /\ \A k \in DOMAIN work : LET j == work[k][2] IN
                /\ work[k][1] # "cascade" => j = Current(j[1])
                /\ work[k][1] = "unload" /\ Inst(j).state = "ACTIVE" => Inst(j).dependents = {}
      BY <1>1, LoneTail DEF work
    <3> QED BY <3>1
  <2> QED BY <1>1, <1>2, <2>1 DEF LoneUnload, Inst, Current
<1> QED BY <1>1, <1>3, <1>4, <1>5, <1>6, LoneMoves

\* What a release does.
LEMMA ReleaseMakes ==
    ASSUME KernelInv, NEW i \in Installed, Release(i)
    PROVE  /\ Installed' = Installed /\ UNCHANGED <<pc, call>>
           /\ \A c \in Cap : Current(c)' = Current(c)
           /\ \A j \in Installed :
                 /\ Inst(j)'.deps = Inst(j).deps /\ Inst(j)'.state = Inst(j).state
                 /\ Inst(j)'.dependents \subseteq Inst(j).dependents
                 /\ Inst(j).dependents \ {i[1]} \subseteq Inst(j)'.dependents
                 /\ Inst(j)'.scope = Inst(j).scope \/ (j # i /\ j \in registered[i[1]])
                 /\ j # i => Inst(j)'.task = Inst(j).task
                 /\ j = i => Inst(j)'.task # "created"
           /\ \A c \in Cap : /\ registered'[c] \subseteq registered[c]
                             /\ i \in registered'[c] => \A d \in DependsOn(i) : d[1] # c
                             /\ c # i[1] => registered[c] \ {i} \subseteq registered'[c]
<1> DEFINE gone == i[1] \in released
           asked == IF gone THEN {} ELSE registered[i[1]]
           New(d, g) == AfterRelease(i, asked, gone, <<d, g>>, insts[d][g])
           E(d) == IF d = i[1] /\ ~gone THEN {}
                   ELSE IF \E k \in DOMAIN Inst(i).deps : Inst(i).deps[k][1] = d
                        THEN registered[d] \ {i} ELSE registered[d]
<1>0. KernelTyped
  BY DEF KernelInv
<1>1. /\ insts' = [d \in Cap |-> [g \in DOMAIN insts[d] |-> New(d, g)]]
      /\ registered' = [d \in Cap |-> E(d)] /\ UNCHANGED <<pc, call>>
  BY DEF Release, AfterRelease
<1>2. \A j \in Installed :
         /\ j[1] \in Cap /\ j[2] \in DOMAIN insts[j[1]] /\ j = <<j[1], j[2]>> /\ Inst(j) \in Generation
  BY <1>0, Members
<1>3. asked \subseteq registered[i[1]]
  OBVIOUS
<1>4. \A c \in Cap : /\ registered'[c] \subseteq registered[c]
                     /\ i \in registered'[c] => \A d \in DependsOn(i) : d[1] # c
                     /\ c # i[1] => registered[c] \ {i} \subseteq registered'[c]
  <2> SUFFICES ASSUME NEW c \in Cap
               PROVE  /\ E(c) \subseteq registered[c]
                      /\ i \in E(c) => \A d \in DependsOn(i) : d[1] # c
                      /\ c # i[1] => registered[c] \ {i} \subseteq E(c)
    BY <1>1
  <2> HIDE DEF gone
  <2> QED BY DEF DependsOn, Range
<1> HIDE DEF asked, gone, E
<1>5. \A j \in Installed : Inst(j)' = AfterRelease(i, asked, gone, j, Inst(j))
  <2> SUFFICES ASSUME NEW j \in Installed PROVE Inst(j)' = AfterRelease(i, asked, gone, j, Inst(j))
    OBVIOUS
  <2>1. insts'[j[1]][j[2]] = New(j[1], j[2])
    BY <1>1, <1>2
  <2>2. <<j[1], j[2]>> = j /\ insts[j[1]][j[2]] = Inst(j)
    BY <1>2 DEF Inst
  <2> QED BY <2>1, <2>2 DEF Inst
<1>6. /\ Installed' = Installed /\ \A c \in Cap : Current(c)' = Current(c)
  <2> HIDE DEF New
  <2>1. \A c \in Cap : insts'[c] = [g \in DOMAIN insts[c] |-> New(c, g)]
    BY <1>1
  <2>2. \A c \in Cap : DOMAIN insts'[c] = DOMAIN insts[c]
    BY <2>1
  <2>3. \A c \in Cap : Len(insts[c]) \in Nat /\ DOMAIN insts[c] = 1..Len(insts[c])
    BY <1>0, Members
  <2>4. \A c \in Cap : Len(insts'[c]) = Len(insts[c])
    <3> SUFFICES ASSUME NEW c \in Cap PROVE Len(insts'[c]) = Len(insts[c])
      OBVIOUS
    <3> DEFINE n == Len(insts[c])
    <3>1. n \in Nat /\ insts'[c] = [g \in 1..n |-> New(c, g)]
      BY <2>1, <2>3
    <3> HIDE DEF n
    <3>2. Len(insts'[c]) = n
      BY <3>1
    <3> QED BY <3>2 DEF n
  <2> QED BY <2>2, <2>4 DEF Installed, Current
<1>7. ASSUME NEW j \in Installed
      PROVE  /\ Inst(j)'.deps = Inst(j).deps /\ Inst(j)'.state = Inst(j).state
             /\ Inst(j)'.dependents \subseteq Inst(j).dependents
             /\ Inst(j).dependents \ {i[1]} \subseteq Inst(j)'.dependents
             /\ Inst(j)'.scope = Inst(j).scope \/ (j # i /\ j \in registered[i[1]])
             /\ j # i => Inst(j)'.task = Inst(j).task
             /\ j = i => Inst(j)'.task # "created"
  <2> DEFINE r == Inst(j)
  <2>1. r \in Generation /\ Inst(j)' = AfterRelease(i, asked, gone, j, r)
    BY <1>2, <1>5
  <2> HIDE DEF r
  <2>2. CASE j = i
    <3> DEFINE t == IF gone THEN "done" ELSE "waiting"
    <3>1. Inst(j)' = [r EXCEPT !.task = t, !.waits = asked] /\ t \in {"done", "waiting"}
      BY <2>1, <2>2 DEF AfterRelease
    <3> HIDE DEF t
    <3>2. /\ Inst(j)'.deps = r.deps /\ Inst(j)'.state = r.state /\ Inst(j)'.scope = r.scope
          /\ Inst(j)'.dependents = r.dependents /\ Inst(j)'.task = t
      BY <2>1, <3>1 DEF Generation
    <3> QED BY <2>2, <3>1, <3>2 DEF r
  <2>3. CASE j # i
    <3> DEFINE D == IF j \in Range(Inst(i).deps) THEN r.dependents \ {i[1]} ELSE r.dependents
               s == IF j \in asked /\ r.scope = "ACTIVE" THEN "asked" ELSE r.scope
    <3>1. Inst(j)' = [r EXCEPT !.dependents = D, !.scope = s]
      BY <2>1, <2>3 DEF AfterRelease
    <3>2. /\ D \subseteq r.dependents /\ r.dependents \ {i[1]} \subseteq D
          /\ s = r.scope \/ j \in registered[i[1]]
      BY <1>3
    <3> HIDE DEF D, s
    <3>3. /\ Inst(j)'.deps = r.deps /\ Inst(j)'.state = r.state /\ Inst(j)'.scope = s
          /\ Inst(j)'.dependents = D /\ Inst(j)'.task = r.task
      BY <2>1, <3>1 DEF Generation
    <3> QED BY <2>3, <3>2, <3>3 DEF r
  <2> QED BY <2>2, <2>3
<1> QED BY <1>1, <1>4, <1>6, <1>7

\* What p disposes of is released: nothing depends on it any more.
LEMMA LoneReleases ==
    ASSUME KernelInv, NEW p \in Caller, Lone(p), NEW i \in Installed, Release(i)
    PROVE  Lone(p)'
<1>1. /\ Installed' = Installed /\ UNCHANGED <<pc, call>>
      /\ \A c \in Cap : Current(c)' = Current(c)
  BY ReleaseMakes
<1>2. \A j \in Installed :
         /\ Inst(j)'.deps = Inst(j).deps /\ Inst(j)'.state = Inst(j).state
         /\ Inst(j)'.dependents \subseteq Inst(j).dependents
         /\ Inst(j).dependents \ {i[1]} \subseteq Inst(j)'.dependents
         /\ Inst(j)'.scope = Inst(j).scope \/ (j # i /\ j \in registered[i[1]])
         /\ j # i => Inst(j)'.task = Inst(j).task
         /\ j = i => Inst(j)'.task # "created"
  BY ReleaseMakes
<1>3. \A c \in Cap : /\ registered'[c] \subseteq registered[c]
                     /\ i \in registered'[c] => \A d \in DependsOn(i) : d[1] # c
                     /\ c # i[1] => registered[c] \ {i} \subseteq registered'[c]
  BY ReleaseMakes
<1>4. Inst(i).task = "created" /\ i[1] \in Cap
  BY Members DEF Release, KernelInv
<1>5. /\ pc[p] = "disposing" /\ i = call[p].at /\ Inst(i).state \in {"DISPOSING", "DISPOSED"}
      /\ i = Current(i[1])
  <2>1. LoneGeneration(p, i)
    BY DEF Lone
  <2>2. pc[p] = "disposing" /\ i = call[p].at /\ Inst(i).state \in {"DISPOSING", "DISPOSED"}
    BY <1>4, <2>1 DEF LoneGeneration
  <2> QED BY <2>2 DEF Lone, LoneUnload
<1>6. \A j \in Installed : j[1] \in Cap /\ \A d \in DependsOn(j) : d \in Installed
  BY LoneRefers, Members DEF KernelInv
<1>7. \A j \in Installed : Inst(j).state \notin {"INSTALLING", "FAILED"}
  BY <1>5, Quiet
\* What is ACTIVE depends on ACTIVE generations, and i is not of them.
<1>8. ASSUME NEW j \in Installed, Inst(j).state = "ACTIVE"
      PROVE  /\ Supported(j) /\ j[1] # i[1]
             /\ \A d \in DependsOn(j) : d # i /\ d[1] # i[1]
  <2>1. \A d \in Installed : Inst(d).state = "ACTIVE" => d = Current(d[1]) /\ d # i
    BY <1>5 DEF Lone, LoneGeneration
  <2>2. Supported(j)
    BY <1>8 DEF Lone, LoneGeneration, Up
  <2>3. \A d \in Installed : Inst(d).state = "ACTIVE" => d[1] # i[1]
    BY <1>5, <2>1
  <2> QED BY <1>6, <1>8, <2>1, <2>2, <2>3 DEF Supported
<1>9. \A j \in registered[i[1]] : j = i
  <2> SUFFICES ASSUME NEW j \in registered[i[1]], j # i PROVE FALSE
    OBVIOUS
  <2>1. j \in Installed /\ LoneEdge(i[1], j) /\ LoneGeneration(p, j)
    BY <1>4 DEF KernelInv, Lone
  <2>2. Inst(j).task # "created"
    BY <1>5, <2>1 DEF LoneGeneration
  <2>3. Inst(j).state = "ACTIVE"
    BY <1>7, <2>1, <2>2 DEF LoneEdge
  <2> QED BY <1>8, <2>1, <2>3 DEF LoneEdge
<1>10. \A j \in Installed : Inst(j)'.scope = Inst(j).scope
  BY <1>2, <1>9
<1>11. ASSUME NEW j \in Installed PROVE LoneGeneration(p, j)'
  <2>1. LoneGeneration(p, j)
    BY DEF Lone
  <2>2. Up(p, j)' => Inst(j).state = "ACTIVE"
    BY <1>1, <1>2, <1>5 DEF Up
  <2>3. Inst(j).state = "ACTIVE" => Supported(j)'
    <3> SUFFICES ASSUME Inst(j).state = "ACTIVE", NEW d \in DependsOn(j)
                 PROVE  /\ Inst(d)'.state = "ACTIVE" /\ j[1] \in Inst(d)'.dependents
                        /\ j \in registered'[d[1]]
      BY <1>2 DEF Supported, DependsOn
    <3>1. /\ Inst(d).state = "ACTIVE" /\ j[1] \in Inst(d).dependents /\ j \in registered[d[1]]
          /\ d \in Installed /\ d[1] \in Cap /\ d[1] # i[1] /\ j[1] # i[1]
      BY <1>6, <1>8 DEF Supported
    <3> QED BY <1>2, <1>3, <3>1
  <2>4. Inst(j)'.state \in {"ACTIVE", "DISPOSING", "DISPOSED"} /\ Inst(j)'.state = Inst(j).state
    <3>1. Inst(j) \in Generation
      BY Members DEF KernelInv
    <3> QED BY <1>2, <1>7, <3>1 DEF Generation
  <2>5. Inst(j)'.state = "ACTIVE" => j = Current(j[1])'
    BY <1>1, <1>6, <2>1, <2>4 DEF LoneGeneration
  <2>6. Inst(j)'.task # "none" \/ Inst(j)'.scope # "ACTIVE" => Inst(j)'.state \in {"DISPOSING", "DISPOSED"}
    BY <1>2, <1>5, <1>10, <2>1 DEF LoneGeneration
  <2>7. Inst(j)'.task \in {"created", "waiting", "final"} => pc'[p] = "disposing" /\ j = call'[p].at
    BY <1>1, <1>2, <1>5, <2>1 DEF LoneGeneration
  <2> QED BY <2>2, <2>3, <2>4, <2>5, <2>6, <2>7 DEF LoneGeneration
<1>12. ASSUME NEW c \in Cap, NEW j \in registered'[c] PROVE LoneEdge(c, j)'
  <2>1. j \in Installed /\ LoneEdge(c, j)
    BY <1>3 DEF KernelInv, Lone
  <2>2. j # i
    BY <1>3, <2>1 DEF LoneEdge
  <2> QED BY <1>2, <2>1, <2>2 DEF LoneEdge, DependsOn
<1>13. LoneInstall(p)'
  BY <1>1, <1>5 DEF LoneInstall
<1>14. LoneUnload(p)'
  <2>1. call[p].at = Current(call[p].at[1])'
    BY <1>1, <1>4, <1>5
  <2>2. \A k \in DOMAIN call[p].work : \A j : j = call[p].work[k][2] =>
            /\ call[p].work[k][1] # "cascade" => j = Current(j[1])'
            /\ call[p].work[k][1] = "unload" /\ Inst(j)'.state = "ACTIVE" => Inst(j)'.dependents = {}
    <3> SUFFICES ASSUME NEW k \in DOMAIN call[p].work, NEW j, j = call[p].work[k][2]
                 PROVE  /\ call[p].work[k][1] # "cascade" => j = Current(j[1])'
                        /\ call[p].work[k][1] = "unload" /\ Inst(j)'.state = "ACTIVE" =>
                              Inst(j)'.dependents = {}
      OBVIOUS
    <3>1. /\ j \in Installed /\ j[1] \in Cap
          /\ call[p].work[k][1] # "cascade" => j = Current(j[1])
          /\ call[p].work[k][1] = "unload" /\ Inst(j).state = "ACTIVE" => Inst(j).dependents = {}
      BY <1>5, <1>6, LoneRefers DEF Lone, LoneUnload
    <3> QED BY <1>1, <1>2, <3>1
  <2> QED BY <1>1, <1>5, <2>1, <2>2 DEF LoneUnload
<1> QED BY <1>1, <1>11, <1>12, <1>13, <1>14 DEF Lone

\* The generation me that p is about to install, of c, and its dependencies.
Coming(p, c, me, deps) ==
    /\ c = Head(call[p].chain)
    /\ me = <<c, Len(insts[c]) + 1>>
    /\ deps = [k \in DOMAIN Deps[c] |-> Current(Deps[c][k])]

\* What the installation of one more generation does, when what it depends on
\* is another capability.
LEMMA InstallMakes ==
    ASSUME KernelInv, NEW p \in Caller, InstallOne(p),
           NEW c, NEW me, NEW deps, Coming(p, c, me, deps),
           \A k \in DOMAIN Deps[c] : Deps[c][k] # c
    PROVE  /\ me \notin Installed /\ Installed' = Installed \cup {me}
           /\ Inst(me)' = Fresh(deps) /\ Current(c)' = me /\ insts'[c] # <<>>
           /\ \A d \in Cap \ {c} : /\ Current(d)' = Current(d)
                                   /\ insts'[d] = <<>> <=> insts[d] = <<>>
           /\ \A j \in Installed :
                 /\ Inst(j)'.deps = Inst(j).deps /\ Inst(j)'.state = Inst(j).state
                 /\ Inst(j)'.task = Inst(j).task /\ Inst(j)'.scope = Inst(j).scope
                 /\ Inst(j).dependents \subseteq Inst(j)'.dependents
           /\ pc'[p] = "installing" => \A k \in DOMAIN deps :
                 c \in Inst(deps[k])'.dependents /\ me \in registered'[deps[k][1]]
           /\ \A d \in Cap : /\ registered[d] \subseteq registered'[d]
                             /\ registered'[d] \subseteq registered[d] \cup {me}
                             /\ me \in registered'[d] => \E k \in DOMAIN deps : deps[k][1] = d
           /\ pc'[p] \in {"installing", "failed"}
           /\ call'[p].created = Append(call[p].created, me) /\ call'[p].chain = Tail(call[p].chain)
<1> DEFINE refused == {k \in DOMAIN deps : deps[k][1] \in released}
           joined == {k \in DOMAIN deps : \A r \in refused : k < r}
           new == Fresh(deps)
           Joins(d) == \E k \in joined : deps[k][1] = d
           Row(d) == IF d = c THEN Append(insts[c], new)
                     ELSE IF Joins(d)
                          THEN [insts[d] EXCEPT ![Len(insts[d])].dependents = @ \cup {c}]
                     ELSE insts[d]
           Edges(d) == registered[d] \cup {me : k \in {j \in joined : deps[j][1] = d}}
<1>0. /\ KernelTyped /\ pc \in [Caller -> PCs] /\ call \in [Caller -> CallType]
      /\ call[p] \in CallType
  BY DEF KernelInv, KernelTyped
<1>1. /\ insts' = [d \in Cap |-> Row(d)] /\ registered' = [d \in Cap |-> Edges(d)]
      /\ pc' = [pc EXCEPT ![p] = IF refused = {} THEN "installing" ELSE "failed"]
      /\ call' = [call EXCEPT ![p].created = Append(@, me), ![p].chain = Tail(@)]
      /\ call[p].chain # <<>>
  BY ZenonT(40) DEF InstallOne, Goto, Coming
<1>2. /\ pc'[p] \in {"installing", "failed"}
      /\ pc'[p] = "installing" => joined = DOMAIN deps
  <2>1. pc'[p] = IF refused = {} THEN "installing" ELSE "failed"
    BY <1>0, <1>1
  <2>2. refused = {} => joined = DOMAIN deps
    OBVIOUS
  <2> QED BY <2>1, <2>2
<1>3. call'[p].created = Append(call[p].created, me) /\ call'[p].chain = Tail(call[p].chain)
  <2> DEFINE a == Append(call[p].created, me)
             t == Tail(call[p].chain)
  <2>1. call' = [call EXCEPT ![p].created = a, ![p].chain = t]
    BY <1>1
  <2> HIDE DEF a, t
  <2>2. call'[p].created = a /\ call'[p].chain = t
    BY <1>0, <2>1 DEF CallType
  <2> QED BY <2>2 DEF a, t
<1>4. /\ c \in Cap /\ new \in Generation
      /\ DOMAIN deps = DOMAIN Deps[c]
      /\ \A k \in DOMAIN deps : /\ deps[k] \in Installed /\ deps[k] = Current(Deps[c][k])
                                /\ deps[k][1] = Deps[c][k] /\ Deps[c][k] \in Cap
                                /\ insts[deps[k][1]] # <<>>
  BY Zenon, <1>1, NewGeneration DEF Coming
<1>5. /\ joined \subseteq DOMAIN deps
      /\ \A k \in DOMAIN deps : /\ deps[k][1] \in Cap \ {c} /\ insts[deps[k][1]] # <<>>
                                /\ deps[k] = <<deps[k][1], Len(insts[deps[k][1]])>>
  BY <1>4 DEF Current
<1> HIDE DEF joined, refused, new
<1>6. \A d \in Cap : /\ insts[d] \in Seq(Generation) /\ Len(insts[d]) \in Nat
                     /\ DOMAIN insts[d] = 1..Len(insts[d])
  BY <1>0 DEF KernelTyped
<1>7. \A d \in Cap : registered'[d] = Edges(d) /\ insts'[d] = Row(d)
  BY <1>1
<1> DEFINE n == Len(insts[c])
<1>8. /\ n \in Nat /\ DOMAIN insts[c] = 1..n
      /\ Len(insts'[c]) = n + 1 /\ DOMAIN insts'[c] = 1..(n + 1)
      /\ insts'[c][n + 1] = new
      /\ \A g \in 1..n : insts'[c][g] = insts[c][g]
  <2> DEFINE s == insts[c]
  <2>1. insts'[c] = Append(s, new)
    BY <1>4, <1>7
  <2>2. s \in Seq(Generation) /\ n = Len(s) /\ n \in Nat /\ DOMAIN s = 1..n
    BY <1>4, <1>6
  <2> HIDE DEF s, n, Row, Joins
  <2>3. /\ Append(s, new) \in Seq(Generation) /\ Len(Append(s, new)) = n + 1
        /\ Append(s, new)[n + 1] = new
        /\ \A g \in 1..n : Append(s, new)[g] = s[g]
    BY <1>4, <2>2, AppendProperties
  <2>4. DOMAIN Append(s, new) = 1..(n + 1)
    BY <2>3
  <2>5. /\ n \in Nat /\ DOMAIN s = 1..n
        /\ Len(insts'[c]) = n + 1 /\ DOMAIN insts'[c] = 1..(n + 1)
        /\ insts'[c][n + 1] = new
        /\ \A g \in 1..n : insts'[c][g] = s[g]
    BY <2>1, <2>2, <2>3, <2>4
  <2> QED BY <2>5 DEF s
<1>9. ASSUME NEW d \in Cap \ {c}
      PROVE  /\ Len(insts'[d]) = Len(insts[d]) /\ DOMAIN insts'[d] = DOMAIN insts[d]
             /\ \A g \in DOMAIN insts[d] :
                   /\ insts'[d][g].deps = insts[d][g].deps /\ insts'[d][g].state = insts[d][g].state
                   /\ insts'[d][g].task = insts[d][g].task /\ insts'[d][g].scope = insts[d][g].scope
                   /\ insts[d][g].dependents \subseteq insts'[d][g].dependents
             /\ Joins(d) => c \in insts'[d][Len(insts[d])].dependents
  <2>1. CASE Joins(d)
    <3>1. insts'[d] = [insts[d] EXCEPT ![Len(insts[d])].dependents = @ \cup {c}]
      BY <1>7, <2>1
    <3>2. insts[d] # <<>>
      BY <1>5, <2>1
    <3> HIDE DEF Joins, Row
    <3>3. LET t == [insts[d] EXCEPT ![Len(insts[d])].dependents = @ \cup {c}] IN
           /\ t \in Seq(Generation) /\ Len(t) = Len(insts[d])
           /\ \A k \in DOMAIN insts[d] :
                 /\ t[k].deps = insts[d][k].deps /\ t[k].waits = insts[d][k].waits
                 /\ t[k].state = insts[d][k].state /\ t[k].scope = insts[d][k].scope
                 /\ t[k].live = insts[d][k].live
                 /\ t[k].task = insts[d][k].task
                 /\ insts[d][k].dependents \subseteq t[k].dependents
           /\ c \in t[Len(insts[d])].dependents
      BY <1>4, <1>6, <3>2, LastJoined
    <3>4. /\ insts'[d] \in Seq(Generation) /\ Len(insts'[d]) = Len(insts[d])
          /\ \A g \in DOMAIN insts[d] :
                /\ insts'[d][g].deps = insts[d][g].deps /\ insts'[d][g].state = insts[d][g].state
                /\ insts'[d][g].task = insts[d][g].task /\ insts'[d][g].scope = insts[d][g].scope
                /\ insts[d][g].dependents \subseteq insts'[d][g].dependents
          /\ c \in insts'[d][Len(insts[d])].dependents
      BY <3>1, <3>3
    <3>5. DOMAIN insts'[d] = DOMAIN insts[d]
      BY <1>6, <3>4
    <3> QED BY <3>4, <3>5
  <2>2. CASE ~Joins(d)
    <3>1. insts'[d] = insts[d]
      BY <1>7, <2>2
    <3> HIDE DEF Joins, Row
    <3> QED BY <2>2, <3>1
  <2> QED BY <2>1, <2>2
<1>10. \A d \in Cap : /\ registered[d] \subseteq registered'[d]
                      /\ registered'[d] \subseteq registered[d] \cup {me}
                      /\ Joins(d) => me \in registered'[d]
                      /\ me \in registered'[d] => me \in registered[d] \/ Joins(d)
  <2> SUFFICES ASSUME NEW d \in Cap
               PROVE  /\ registered[d] \subseteq Edges(d) /\ Edges(d) \subseteq registered[d] \cup {me}
                      /\ Joins(d) => me \in Edges(d)
                      /\ me \in Edges(d) => me \in registered[d] \/ Joins(d)
    <3> HIDE DEF Edges, Joins, Row
    <3> QED BY <1>7
  <2> QED OBVIOUS
<1> HIDE DEF Row, Edges, Joins
<1>11. me \notin Installed /\ me[1] = c /\ me[2] = n + 1 /\ me = <<c, n + 1>>
  <2>2. me[1] = c /\ me[2] = n + 1 /\ me = <<c, n + 1>>
    BY DEF Coming
  <2> HIDE DEF n
  <2>1. ~(n + 1 \in DOMAIN insts[c])
    BY <1>8
  <2>3. me \in Installed => me[2] \in DOMAIN insts[me[1]]
    BY <1>0, Members
  <2> QED BY <2>1, <2>2, <2>3
<1> HIDE DEF n
<1>12. Installed' = Installed \cup {me}
  <2>1. \A d \in Cap : \A g : g \in DOMAIN insts'[d] <=> g \in DOMAIN insts[d] \/ <<d, g>> = me
    <3> SUFFICES ASSUME NEW d \in Cap, NEW g
                 PROVE  g \in DOMAIN insts'[d] <=> g \in DOMAIN insts[d] \/ <<d, g>> = me
      OBVIOUS
    <3>0. \A x : x \in 1..(n + 1) <=> x \in 1..n \/ x = n + 1
      BY <1>8
    <3>1. CASE d = c
      <4>1. <<d, g>> = me <=> g = n + 1
        BY <1>11, <3>1
      <4>2. DOMAIN insts'[d] = 1..(n + 1) /\ DOMAIN insts[d] = 1..n
        BY <1>8, <3>1
      <4> QED BY <3>0, <4>1, <4>2
    <3>2. CASE d # c
      BY <1>9, <1>11, <3>2
    <3> QED BY <3>1, <3>2
  <2>2. Installed' \subseteq Installed \cup {me}
    <3> SUFFICES ASSUME NEW d \in Cap, NEW g \in DOMAIN insts'[d]
                 PROVE  <<d, g>> \in Installed \cup {me}
      BY DEF Installed
    <3> QED BY <2>1 DEF Installed
  <2>3. Installed \subseteq Installed'
    <3> SUFFICES ASSUME NEW d \in Cap, NEW g \in DOMAIN insts[d] PROVE <<d, g>> \in Installed'
      BY DEF Installed
    <3> QED BY <2>1 DEF Installed
  <2>4. me \in Installed'
    <3>1. n + 1 \in DOMAIN insts'[c]
      BY <1>8
    <3>2. \A d \in Cap : \A g \in DOMAIN insts'[d] : <<d, g>> \in Installed'
      BY DEF Installed
    <3>3. <<c, n + 1>> \in Installed'
      BY <1>4, <3>1, <3>2
    <3> QED BY <1>11, <3>3
  <2> QED BY <2>2, <2>3, <2>4
<1>13. Inst(me)' = Fresh(deps) /\ Current(c)' = me /\ insts'[c] # <<>>
  <2>1. Inst(me)' = insts'[c][n + 1] /\ Current(c)' = <<c, Len(insts'[c])>>
    BY <1>11 DEF Inst, Current
  <2>2. insts'[c] # <<>>
    <3>1. n + 1 \in DOMAIN insts'[c]
      BY <1>8
    <3> QED BY <3>1
  <2>3. Current(c)' = me
    BY <1>8, <1>11, <2>1
  <2> QED BY <1>8, <2>1, <2>2, <2>3 DEF new
<1>14. \A d \in Cap \ {c} : Current(d)' = Current(d) /\ (insts'[d] = <<>> <=> insts[d] = <<>>)
  <2> SUFFICES ASSUME NEW d \in Cap \ {c}
               PROVE  Current(d)' = Current(d) /\ (insts'[d] = <<>> <=> insts[d] = <<>>)
    OBVIOUS
  <2>1. Len(insts'[d]) = Len(insts[d]) /\ DOMAIN insts'[d] = DOMAIN insts[d]
    BY <1>9
  <2>2. insts'[d] \in Seq(Generation)
    <3>1. KernelTyped'
      BY GenerationAdded DEF KernelInv
    <3> QED BY <3>1 DEF KernelTyped
  <2> QED BY <1>6, <2>1, <2>2 DEF Current
<1>15. ASSUME NEW j \in Installed
       PROVE  /\ Inst(j)'.deps = Inst(j).deps /\ Inst(j)'.state = Inst(j).state
              /\ Inst(j)'.task = Inst(j).task /\ Inst(j)'.scope = Inst(j).scope
              /\ Inst(j).dependents \subseteq Inst(j)'.dependents
  <2>1. j[1] \in Cap /\ j[2] \in DOMAIN insts[j[1]]
    BY <1>0, Members
  <2> QED BY SMTT(30), <1>8, <1>9, <2>1 DEF Inst
<1>16. ASSUME pc'[p] = "installing", NEW k \in DOMAIN deps
       PROVE  c \in Inst(deps[k])'.dependents /\ me \in registered'[deps[k][1]]
  <2> PICK d : d = deps[k][1]
    OBVIOUS
  <2>1. d \in Cap \ {c} /\ Joins(d) /\ deps[k] = <<d, Len(insts[d])>>
    BY <1>2, <1>5, <1>16 DEF Joins
  <2>2. c \in insts'[d][Len(insts[d])].dependents /\ me \in registered'[d]
    BY <1>9, <1>10, <2>1
  <2>3. PICK m : m = Len(insts[d])
    OBVIOUS
  <2>4. deps[k][1] = d /\ deps[k][2] = m
    <3>1. deps[k] = <<d, m>>
      BY <2>1, <2>3
    <3> QED BY <3>1
  <2>5. Inst(deps[k])' = insts'[d][m]
    BY <2>4 DEF Inst
  <2> QED BY <2>2, <2>3, <2>4, <2>5
<1>17. \A d \in Cap : me \in registered'[d] => \E k \in DOMAIN deps : deps[k][1] = d
  <2>1. \A d \in Cap : me \notin registered[d]
    BY <1>11 DEF KernelInv
  <2> QED BY <1>5, <1>10, <2>1 DEF Joins
<1> QED BY <1>2, <1>3, <1>10, <1>11, <1>12, <1>13, <1>14, <1>15, <1>16, <1>17

\* One more generation is being installed, for dependencies that are ACTIVE.
LEMMA LoneInstallsOne ==
    ASSUME KernelInv, KernelInv', NEW p \in Caller, Lone(p), InstallOne(p)
    PROVE  Lone(p)'
<1>a. SUFFICES ASSUME NEW c, NEW me, NEW deps, Coming(p, c, me, deps),
                      NEW chain, chain = call[p].chain, NEW created, created = call[p].created
               PROVE  Lone(p)'
  BY Zenon DEF Coming
<1>0. /\ KernelTyped /\ call \in [Caller -> CallType] /\ call[p] \in CallType
  BY DEF KernelInv, KernelTyped
<1>1. /\ pc[p] = "next" /\ chain # <<>> /\ State(c) \notin {"ACTIVE", "INSTALLING"}
      /\ chain \in Seq(Cap) /\ created \in Seq(Ident)
  BY Zenon, <1>0, <1>a DEF InstallOne, CallType, Coming
<1>2. /\ c \in Cap /\ Fresh(deps) \in Generation /\ DOMAIN deps = DOMAIN Deps[c]
      /\ \A k \in DOMAIN deps : /\ deps[k] \in Installed /\ deps[k] = Current(Deps[c][k])
                                /\ deps[k][1] = Deps[c][k] /\ Deps[c][k] \in Cap
  BY Zenon, <1>1, <1>a, NewGeneration DEF Coming
<1>3. c \notin ActiveCaps /\ \A k \in DOMAIN Deps[c] : Deps[c][k] \in ActiveCaps
  <2>1. 1 \in DOMAIN chain /\ chain[1] = c
    BY <1>1, <1>a, HeadTailProperties DEF Coming
  <2>2. ClosedIn(ActiveCaps, chain)
    BY <1>1, <1>a DEF Lone, LoneInstall
  <2>3. \A k \in DOMAIN Deps[c] : HadIn(ActiveCaps, Deps[c][k], chain, 1)
    BY <2>1, <2>2 DEF ClosedIn
  <2> QED BY <1>1, <2>3 DEF HadIn, ActiveCaps
<1>4. \A k \in DOMAIN Deps[c] : Deps[c][k] # c
  BY <1>3
<1>5. /\ me \notin Installed /\ Installed' = Installed \cup {me}
      /\ Inst(me)' = Fresh(deps) /\ Current(c)' = me /\ insts'[c] # <<>>
      /\ \A d \in Cap \ {c} : /\ Current(d)' = Current(d)
                              /\ insts'[d] = <<>> <=> insts[d] = <<>>
      /\ \A j \in Installed :
            /\ Inst(j)'.deps = Inst(j).deps /\ Inst(j)'.state = Inst(j).state
            /\ Inst(j)'.task = Inst(j).task /\ Inst(j)'.scope = Inst(j).scope
            /\ Inst(j).dependents \subseteq Inst(j)'.dependents
      /\ pc'[p] = "installing" => \A k \in DOMAIN deps :
            c \in Inst(deps[k])'.dependents /\ me \in registered'[deps[k][1]]
      /\ \A d \in Cap : /\ registered[d] \subseteq registered'[d]
                        /\ registered'[d] \subseteq registered[d] \cup {me}
                        /\ me \in registered'[d] => \E k \in DOMAIN deps : deps[k][1] = d
      /\ pc'[p] \in {"installing", "failed"}
      /\ call'[p].created = Append(created, me) /\ call'[p].chain = Tail(chain)
  BY <1>4, <1>a, InstallMakes
<1>6. /\ me[1] = c /\ me \in Ident
      /\ Inst(me)'.state = "INSTALLING" /\ Inst(me)'.scope = "ACTIVE" /\ Inst(me)'.task = "none"
      /\ Inst(me)'.dependents = {} /\ Inst(me)'.deps = deps
  <2>1. Len(insts[c]) \in Nat
    BY SMTT(30), <1>0, <1>2, Members
  <2>2. me[1] = c /\ me \in Ident
    BY <1>2, <1>a, <2>1 DEF Ident, Coming
  <2> QED BY <1>5, <2>2 DEF Fresh
<1>7. /\ Append(created, me) # <<>> /\ Last(Append(created, me)) = me
      /\ Len(Append(created, me)) = Len(created) + 1 /\ Len(created) \in Nat
      /\ DOMAIN Append(created, me) = 1..(Len(created) + 1) /\ DOMAIN created = 1..Len(created)
      /\ Append(created, me)[Len(created) + 1] = me
      /\ \A k \in 1..Len(created) : Append(created, me)[k] = created[k]
  <2>1. /\ Append(created, me) \in Seq(Ident) /\ Len(Append(created, me)) = Len(created) + 1
        /\ Append(created, me)[Len(created) + 1] = me
        /\ \A k \in 1..Len(created) : Append(created, me)[k] = created[k]
    BY <1>1, <1>6, AppendProperties
  <2>2. Len(created) \in Nat /\ DOMAIN created = 1..Len(created)
    BY <1>1
  <2>3. DOMAIN Append(created, me) = 1..(Len(created) + 1) /\ Append(created, me) # <<>>
    BY SMTT(30), <2>1, <2>2
  <2> QED BY <2>1, <2>2, <2>3 DEF Last
<1>8. Mine(p)' = me
  BY <1>5, <1>7 DEF Mine
\* What was installed is ACTIVE, or of no concern.
<1>9. ASSUME NEW j \in Installed
      PROVE  /\ j # me /\ j[1] \in Cap /\ \A d \in DependsOn(j) : d \in Installed /\ d[1] \in Cap
             /\ Inst(j).state \notin {"INSTALLING", "FAILED"}
             /\ Inst(j).task \notin {"created", "waiting", "final"}
             /\ Inst(j).state = "ACTIVE" => /\ j = Current(j[1]) /\ j[1] # c
                                            /\ j = Current(j[1])' /\ Supported(j)
  <2>1. j # me /\ j[1] \in Cap /\ \A d \in DependsOn(j) : d \in Installed /\ d[1] \in Cap
    BY <1>5, LoneRefers, Members DEF KernelInv
  <2>2. Inst(j).state \notin {"INSTALLING", "FAILED"} /\ Inst(j).task \notin {"created", "waiting", "final"}
    BY <1>1, Quiet
  <2>3. Inst(j).state = "ACTIVE" => j = Current(j[1]) /\ Supported(j)
    BY DEF Lone, LoneGeneration, Up
  <2>4. Inst(j).state = "ACTIVE" => j[1] # c
    <3>1. Current(c) \in Installed => State(c) = Inst(Current(c)).state
      BY <1>0, <1>2, StateOf
    <3> QED BY <1>1, <2>3, <3>1
  <2> QED BY <1>5, <2>1, <2>2, <2>3, <2>4
<1>10. ASSUME NEW j \in Installed PROVE LoneGeneration(p, j)'
  <2>1. LoneGeneration(p, j)
    BY DEF Lone
  <2>2. Up(p, j)' => Inst(j).state = "ACTIVE"
    BY <1>5, <1>8, <1>9 DEF Up
  <2>3. Inst(j).state = "ACTIVE" => Supported(j)'
    <3> SUFFICES ASSUME Inst(j).state = "ACTIVE", NEW d \in DependsOn(j)
                 PROVE  /\ Inst(d)'.state = "ACTIVE" /\ j[1] \in Inst(d)'.dependents
                        /\ j \in registered'[d[1]]
      BY <1>5 DEF Supported, DependsOn
    <3>1. /\ Inst(d).state = "ACTIVE" /\ j[1] \in Inst(d).dependents /\ j \in registered[d[1]]
          /\ d \in Installed /\ d[1] \in Cap
      BY <1>9 DEF Supported
    <3> QED BY <1>5, <3>1
  <2>4. /\ Inst(j)'.state = Inst(j).state /\ Inst(j)'.task = Inst(j).task
        /\ Inst(j)'.scope = Inst(j).scope
    BY <1>5
  <2> QED BY <1>9, <2>1, <2>2, <2>3, <2>4 DEF LoneGeneration
<1>11. LoneGeneration(p, me)'
  <2>1. Up(p, me)' => Supported(me)'
    <3> SUFFICES ASSUME pc'[p] = "installing", NEW k \in DOMAIN deps
                 PROVE  /\ Inst(deps[k])'.state = "ACTIVE" /\ me[1] \in Inst(deps[k])'.dependents
                        /\ me \in registered'[deps[k][1]]
      BY <1>6 DEF Up, Supported, DependsOn, Range
    <3>1. /\ Deps[c][k] \in ActiveCaps /\ deps[k] \in Installed /\ deps[k] = Current(Deps[c][k])
      BY <1>2, <1>3
    <3>2. Inst(deps[k]).state = "ACTIVE"
      BY <1>0, <3>1, StateOf DEF ActiveCaps
    <3> QED BY <1>5, <1>6, <3>1, <3>2
  <2>2. me = Current(me[1])'
    BY <1>5, <1>6
  <2>3. call'[p].created # <<>> /\ me = Mine(p)'
    BY <1>5, <1>7, <1>8
  <2> QED BY <1>5, <1>6, <2>1, <2>2, <2>3 DEF LoneGeneration
<1>12. ASSUME NEW d \in Cap, NEW j \in registered'[d] PROVE LoneEdge(d, j)'
  <2>1. CASE j = me
    <3>1. PICK k \in DOMAIN deps : deps[k][1] = d
      BY <1>5, <2>1
    <3>2. deps[k] \in DependsOn(me)'
      BY <1>6 DEF DependsOn, Range
    <3> QED BY <1>6, <2>1, <3>1, <3>2 DEF LoneEdge
  <2>2. CASE j # me
    <3>1. j \in registered[d] /\ j \in Installed /\ LoneEdge(d, j)
      BY <1>5, <2>2 DEF KernelInv, Lone
    <3> QED BY <1>5, <3>1 DEF LoneEdge, DependsOn
  <2> QED BY <2>1, <2>2
<1>13. ActiveCaps \subseteq ActiveCaps'
  <2> SUFFICES ASSUME NEW d \in Cap, State(d) = "ACTIVE" PROVE State(d)' = "ACTIVE"
    BY DEF ActiveCaps
  <2>1. Current(d) \in Installed /\ Inst(Current(d)).state = "ACTIVE"
    BY <1>0, StateOf
  <2>2. d # c /\ insts[d] # <<>>
    BY <1>1 DEF State
  <2>3. insts'[d] # <<>> /\ Current(d)' = Current(d) /\ Inst(Current(d))'.state = "ACTIVE"
    BY <1>5, <2>1, <2>2
  <2> QED BY <2>3 DEF State
<1>14. pc'[p] = "installing" => ClosedIn(ActiveCaps \cup {Mine(p)[1]}, call[p].chain)'
  <2> DEFINE J == ActiveCaps \cup {c}
             t == Tail(chain)
  <2>1. ClosedIn(ActiveCaps, chain)
    BY <1>1, <1>a DEF Lone, LoneInstall
  <2>2. ClosedIn(J, t)
    <3>1. ActiveCaps \subseteq J /\ Head(chain) \in J
      BY <1>a DEF Coming
    <3> HIDE DEF J
    <3> QED BY <1>1, <2>1, <3>1, ClosedInTail
  <2>3. ClosedIn(ActiveCaps' \cup {c}, t)
    <3>1. J \subseteq ActiveCaps' \cup {c}
      BY <1>13
    <3> HIDE DEF J
    <3> QED BY <2>2, <3>1, ClosedInMore
  <2>4. call'[p].chain = t /\ Mine(p)'[1] = c
    BY <1>5, <1>6, <1>8
  <2> HIDE DEF t
  <2> QED BY <2>3, <2>4 DEF ClosedIn, HadIn
<1>15. LoneInstall(p)'
  <2> DEFINE s == Append(created, me)
  <2>1. call'[p].created = s /\ s # <<>> /\ Inst(me)'.state = "INSTALLING"
    BY <1>5, <1>6, <1>7
  <2>2. ASSUME NEW k \in DOMAIN s, NEW j, j = s[k]
        PROVE  j = Current(j[1])' /\ (Inst(j)'.state = "ACTIVE" \/ k = Len(s))
    <3>1. CASE k \in 1..Len(created)
      <4>1. created[k] = j /\ j \in Installed
        BY <1>7, <1>a, <2>2, <3>1, LoneRefers
      <4>2. Inst(j).state = "ACTIVE"
        BY <1>1, <1>7, <1>a, <3>1, <4>1 DEF Lone, LoneInstall
      <4> QED BY <1>5, <1>9, <4>1, <4>2
    <3>2. CASE k = Len(created) + 1
      BY <1>5, <1>6, <1>7, <2>2, <3>2
    <3>3. k \in 1..Len(created) \/ k = Len(created) + 1
      BY <1>7
    <3> QED BY <3>1, <3>2, <3>3
  <2> HIDE DEF s
  <2>3. \A k \in DOMAIN call'[p].created : \A j : j = call'[p].created[k] =>
           j = Current(j[1])' /\ (Inst(j)'.state = "ACTIVE" \/ k = Len(call'[p].created))
    BY <2>1, <2>2
  <2>4. pc'[p] \in {"installing", "failed"}
    BY <1>5
  <2> QED BY <1>8, <1>14, <2>1, <2>3, <2>4 DEF LoneInstall
<1>16. LoneUnload(p)'
  BY <1>5 DEF LoneUnload
<1> QED BY <1>5, <1>10, <1>11, <1>12, <1>15, <1>16 DEF Lone

-----------------------------------------------------------------------------
(* One caller: every step.                                                 *)

LEMMA LoneStep ==
    ASSUME KernelInv, KernelInv', LoneInv, [Next]_vars
    PROVE  LoneInv'
<1> SUFFICES ASSUME NEW p \in Caller, Present' = {p} PROVE Lone(p)'
  BY DEF LoneInv
<1>1. Present = {p} /\ Lone(p)
  BY PresentKept DEF LoneInv
<1>2. \A q \in Caller : pc[q] # "absent" => q = p
  BY <1>1 DEF Present
<1>3. ASSUME NEW q \in Caller, NEW c \in Cap, InstallCall(q, c) \/ UnloadCall(q, c)
      PROVE  Lone(p)'
  <2>1. q = p
    BY Zenon, <1>2, <1>3 DEF InstallCall, UnloadCall
  <2> QED BY <1>1, <1>3, <2>1, LoneCalls
<1>4. ASSUME NEW q \in Caller, Steps(q) PROVE Lone(p)'
  <2>1. pc[q] # "absent"
    BY Zenon, <1>4 DEF Steps, Returns, InstallStart, InstallNext, InstallOne, Acquire, InstallReturns,
                InstallRaises, InstallEnds, Rollback, UnloadStart, UnloadNext, Disposed, UnloadEnds
  <2>2. Steps(p)
    BY <1>2, <1>4, <2>1
  <2>3. CASE Returns(p) \/ InstallEnds(p) \/ UnloadEnds(p)
    BY <1>1, <2>3, LoneReturns
  <2>4. CASE InstallStart(p)
    BY <1>1, <2>4, LoneStart
  <2>5. CASE InstallNext(p)
    BY <1>1, <2>5, LoneNext
  <2>6. CASE InstallOne(p)
    BY <1>1, <2>6, LoneInstallsOne
  <2>7. CASE Acquire(p)
    BY <1>1, <2>7, LoneAcquires
  <2>8. CASE InstallReturns(p) \/ InstallRaises(p)
    BY <1>1, <2>8, LoneInstalls
  <2>9. CASE Rollback(p)
    BY <1>1, <2>9, LoneRollback
  <2>10. CASE UnloadStart(p)
    BY <1>1, <2>10, LoneUnloadStarts
  <2>11. CASE UnloadNext(p)
    BY <1>1, <2>11, LoneDisposes, LonePasses
  <2>12. CASE Disposed(p)
    BY <1>1, <2>12, LoneDisposed
  <2> QED BY <2>2, <2>3, <2>4, <2>5, <2>6, <2>7, <2>8, <2>9, <2>10, <2>11, <2>12 DEF Steps
<1>5. ASSUME NEW i \in Installed, Teardown(i) PROVE Lone(p)'
  <2>1. CASE Release(i)
    BY <1>1, <2>1, LoneReleases
  <2>2. CASE Finalize(i) \/ ScopeBegins(i) \/ ScopeEnds(i) \/ DisposeEnds(i)
    BY <1>1, <2>2, LoneTornDown
  <2> QED BY <1>5, <2>1, <2>2 DEF Teardown
<1>6. CASE UNCHANGED vars
  <2>0. UNCHANGED <<insts, registered, pc, call>>
    BY <1>6 DEF vars
  <2>1. ActiveCaps' = ActiveCaps /\ Mine(p)' = Mine(p) /\ \A i : Inst(i)' = Inst(i)
        /\ \A c : Current(c)' = Current(c) /\ State(c)' = State(c)
    BY <2>0 DEF ActiveCaps, State, Inst, Current, Mine
  <2>2. LoneInstall(p)'
    BY <1>1, <2>0, <2>1 DEF Lone, LoneInstall, ClosedIn, HadIn
  <2>3. LoneUnload(p)'
    BY <1>1, <2>0, <2>1 DEF Lone, LoneUnload
  <2> QED BY <1>1, <2>0, <2>2, <2>3, LoneMoves DEF Lone, LoneGeneration, Mine
<1> QED BY <1>3, <1>4, <1>5, <1>6 DEF Next

LEMMA LoneInit == Init => LoneInv
<1> SUFFICES ASSUME Init, NEW p \in Caller, Present = {p} PROVE Lone(p)
  BY DEF LoneInv
<1>1. Installed = {} /\ \A c \in Cap : registered[c] = {}
  BY DEF Init, Installed
<1>2. pc[p] = "idle"
  BY DEF Init, Present
<1> QED BY <1>1, <1>2 DEF Lone, LoneInstall, LoneUnload

LEMMA LoneInvariant == Spec => [](KernelInv /\ LoneInv)
<1>1. Init => KernelInv /\ LoneInv
  BY KernelInit, LoneInit
<1>2. KernelInv /\ LoneInv /\ [Next]_vars => KernelInv' /\ LoneInv'
  BY KernelStep, LoneStep
<1> QED BY <1>1, <1>2, PTL DEF Spec

\* Alone there is one caller.
LEMMA TheCaller == ASSUME Alone PROVE \E p \in Caller : Present = {p}
<1>1. IsFiniteSet(Present)
  <2>1. Present \subseteq Caller /\ IsFiniteSet(Caller)
    BY KernelAssumption DEF Present
  <2> QED BY <2>1, FS_Subset
<1>2. PICK p : Present = {p}
  BY <1>1, FS_Singleton DEF Alone
<1> QED BY <1>2 DEF Present

\* While one caller uses the manager, whatever it does and whichever factories
\* fail, what is ACTIVE has ACTIVE providers that know of it.
THEOREM ProvidersStay == Spec => []ActiveHasProviders
<1>1. ASSUME KernelInv, LoneInv PROVE ActiveHasProviders
  <2> SUFFICES ASSUME Alone, NEW i \in Installed, Inst(i).state = "ACTIVE", NEW d \in DependsOn(i)
               PROVE  Inst(d).state = "ACTIVE" /\ i[1] \in Inst(d).dependents
    BY DEF ActiveHasProviders
  <2>1. PICK p \in Caller : Present = {p}
    BY TheCaller
  <2>2. LoneGeneration(p, i)
    BY <1>1, <2>1 DEF LoneInv, Lone
  <2> QED BY <2>2 DEF LoneGeneration, Up, Supported
<1> QED BY <1>1, LoneInvariant, PTL

\* After each call of a lone caller the edges are those of what is ACTIVE.
THEOREM EdgesExact == Spec => []NoStaleEdges
<1>1. ASSUME KernelInv, LoneInv PROVE NoStaleEdges
  <2> SUFFICES ASSUME Alone, Idle, NEW c \in Cap
               PROVE  registered[c] = {i \in Installed : /\ Inst(i).state = "ACTIVE"
                                                         /\ \E d \in DependsOn(i) : d[1] = c}
    BY DEF NoStaleEdges
  <2>1. PICK p \in Caller : Present = {p}
    BY TheCaller
  <2>2. Lone(p) /\ pc[p] = "idle"
    BY <1>1, <2>1 DEF LoneInv, Idle
  <2>3. ASSUME NEW i \in registered[c]
        PROVE  i \in Installed /\ Inst(i).state = "ACTIVE" /\ \E d \in DependsOn(i) : d[1] = c
    <3>1. i \in Installed /\ LoneEdge(c, i) /\ LoneGeneration(p, i)
      BY <1>1, <2>2 DEF KernelInv, Lone
    <3> QED BY <2>2, <3>1 DEF LoneEdge, LoneGeneration
  <2>4. ASSUME NEW i \in Installed, Inst(i).state = "ACTIVE", NEW d \in DependsOn(i), d[1] = c
        PROVE  i \in registered[c]
    <3>1. LoneGeneration(p, i)
      BY <2>2 DEF Lone
    <3> QED BY <2>4, <3>1 DEF LoneGeneration, Up, Supported
  <2> QED BY <2>3, <2>4
<1> QED BY <1>1, LoneInvariant, PTL
=============================================================================
