-------------------------- MODULE HandshakeProofs --------------------------
(***************************************************************************)
(* What a connection of either kind keeps true between what it was fed and *)
(* what it has sent, for every stream of the peer: lemmas about each write *)
(* method and about feed, which know nothing of the caller so that PUB and *)
(* RADIO share them, and about what feeding does to the table of each.     *)
(* They rest on lemmas about the frames and the items of a sequence, and   *)
(* on one about recursion on naturals, which stands in for the induction   *)
(* that the provers lack.                                                  *)
(***************************************************************************)
EXTENDS Sockets, PeerTraffic, TLAPS, WellFoundedInduction,
        FiniteSetTheorems, FunctionTheorems, SequenceTheorems

\* Induction, over a set of naturals instead of a predicate.
LEMMA InductiveSet ==
    ASSUME NEW S, S \subseteq Nat, 0 \in S, \A n \in S : n + 1 \in S
    PROVE  S = Nat
<1> DEFINE T == Nat \ S
<1>1. SUFFICES ASSUME T # {} PROVE FALSE
    OBVIOUS
<1>2. PICK x \in T : \A y \in T : <<y, x>> \notin OpToRel(<, Nat)
    BY <1>1, WFMin, NatLessThanWellFounded, Zenon
<1>3. \A y \in T : ~(y < x)
    BY <1>2 DEF OpToRel
<1>4. x # 0
    OBVIOUS
<1>5. x - 1 \in S
    BY <1>3, <1>4
<1> QED
    BY <1>5

\* What a recursion on naturals computes exists: the first values, for every
\* number of them, then all.
IsStart(g, n, a, F) == g[0] = a /\ \A i \in 0 .. n - 1 : g[i + 1] = F[<<g[i], i + 1>>]

\* The first n values of a recursion exist, for every n.
LEMMA StartExists ==
    ASSUME NEW T, NEW a \in T, NEW F \in [T \X Nat -> T], NEW n \in Nat
    PROVE  \E g \in [Nat -> T] : IsStart(g, n, a, F)
<1> DEFINE S == {k \in Nat : \E g \in [Nat -> T] : IsStart(g, k, a, F)}
<1>1. 0 \in S
    <2>1. IsStart([i \in Nat |-> a], 0, a, F)
        BY DEF IsStart
    <2> QED
        BY <2>1
<1>2. ASSUME NEW k \in S PROVE k + 1 \in S
    <2>1. PICK g \in [Nat -> T] : IsStart(g, k, a, F)
        OBVIOUS
    <2> DEFINE h == [g EXCEPT ![k + 1] = F[<<g[k], k + 1>>]]
    <2>2. h \in [Nat -> T] /\ \A i \in 0 .. k : h[i] = g[i]
        OBVIOUS
    <2>3. h[k + 1] = F[<<h[k], k + 1>>]
        BY <2>2
    <2>4. h[0] = a
        BY <2>1, <2>2 DEF IsStart
    <2>5. ASSUME NEW i \in 0 .. k PROVE h[i + 1] = F[<<h[i], i + 1>>]
        <3>1. CASE i = k
            BY <2>3, <3>1
        <3>2. CASE i # k
            <4>1. i \in 0 .. k - 1 /\ i \in 0 .. k /\ i + 1 \in 0 .. k
                BY <3>2
            <4> QED
                BY <4>1, <2>1, <2>2 DEF IsStart
        <3> QED
            BY <3>1, <3>2
    <2>6. (k + 1) - 1 = k
        OBVIOUS
    <2>7. IsStart(h, k + 1, a, F)
        BY <2>4, <2>5, <2>6 DEF IsStart
    <2> HIDE DEF h
    <2> QED
        BY <2>2, <2>7
<1>3. S = Nat
    <2> HIDE DEF S
    <2>1. S \subseteq Nat
        BY DEF S
    <2> QED
        BY <1>1, <1>2, <2>1, InductiveSet
<1> QED
    BY <1>3

\* Two such functions agree as far as both go.
LEMMA StartsAgree ==
    ASSUME NEW T, NEW a \in T, NEW F \in [T \X Nat -> T],
           NEW m \in Nat, NEW n \in Nat, m <= n,
           NEW g, NEW h, IsStart(g, m, a, F), IsStart(h, n, a, F)
    PROVE  \A i \in 0 .. m : g[i] = h[i]
<1> DEFINE S == {k \in Nat : k <= m => g[k] = h[k]}
<1>1. 0 \in S
    BY DEF IsStart
<1>2. ASSUME NEW k \in S PROVE k + 1 \in S
    <2>1. CASE k + 1 <= m
        <3>1. k \in 0 .. m - 1 /\ k \in 0 .. n - 1 /\ g[k] = h[k]
            BY <2>1
        <3>2. g[k + 1] = F[<<g[k], k + 1>>]
            BY <3>1 DEF IsStart
        <3>3. h[k + 1] = F[<<h[k], k + 1>>]
            BY <3>1 DEF IsStart
        <3> QED
            BY <3>1, <3>2, <3>3
    <2>2. CASE ~(k + 1 <= m)
        BY <2>2
    <2> QED
        BY <2>1, <2>2
<1>3. S = Nat
    <2> HIDE DEF S
    <2>1. S \subseteq Nat
        BY DEF S
    <2> QED
        BY <1>1, <1>2, <2>1, InductiveSet
<1> QED
    BY <1>3

\* The function f of naturals is defined by recursion with the steps of F.
IsStep(F, T) == F \in [T \X Nat -> T]
IsRecursive(f, T, a, F) ==
    /\ f \in [Nat -> T]
    /\ f[0] = a /\ \A n \in Nat : f[n + 1] = F[<<f[n], n + 1>>]

\* A recursion on naturals with steps in T defines a function into T.
LEMMA RecursionExists ==
    ASSUME NEW T, NEW a \in T, NEW F, IsStep(F, T)
    PROVE  \E f : IsRecursive(f, T, a, F)
<1> DEFINE G(n) == CHOOSE g \in [Nat -> T] : IsStart(g, n, a, F)
           f == [n \in Nat |-> G(n)[n]]
<1>1. F \in [T \X Nat -> T]
    BY DEF IsStep
<1>1a. ASSUME NEW n \in Nat PROVE G(n) \in [Nat -> T] /\ IsStart(G(n), n, a, F)
    BY <1>1, StartExists
<1> HIDE DEF G
<1>2. f \in [Nat -> T]
    BY <1>1a
<1>3. f[0] = a
    BY <1>1a DEF IsStart
<1>4. ASSUME NEW n \in Nat PROVE f[n + 1] = F[<<f[n], n + 1>>]
    <2>1. \A i \in 0 .. n : G(n)[i] = G(n + 1)[i]
        <3>1. n + 1 \in Nat /\ n <= n + 1
            OBVIOUS
        <3>2. IsStart(G(n), n, a, F) /\ IsStart(G(n + 1), n + 1, a, F)
            BY <1>1a, <3>1
        <3> QED
            BY <1>1, <3>1, <3>2, StartsAgree
    <2>2. n \in 0 .. (n + 1) - 1
        OBVIOUS
    <2>3. G(n + 1)[n + 1] = F[<<G(n + 1)[n], n + 1>>]
        BY <1>1a, <2>2 DEF IsStart
    <2> QED
        BY <2>1, <2>3
<1> HIDE DEF f
<1> QED
    BY <1>2, <1>3, <1>4 DEF IsRecursive
-----------------------------------------------------------------------------
(* ElementsAt *)

\* The function that ElementsAt defines.
UpTo(s, S) ==
    LET upTo[n \in Nat] ==
            IF n = 0 THEN <<>>
            ELSE IF n \in S THEN Append(upTo[n - 1], s[n]) ELSE upTo[n - 1]
    IN  upTo

Collects(u, s, S, T) ==
    /\ u \in [Nat -> Seq(T)]
    /\ u[0] = <<>>
    /\ \A n \in Nat : u[n + 1] = IF n + 1 \in S THEN Append(u[n], s[n + 1]) ELSE u[n]

\* ElementsAt's function has the values that its equation gives it.
LEMMA UpToFacts ==
    ASSUME NEW T, NEW s \in Seq(T), NEW S, S \subseteq DOMAIN s
    PROVE  Collects(UpTo(s, S), s, S, T)
<1> DEFINE Q == Seq(T)
           none == <<>>
           Step(x, n) == IF n \in S THEN Append(x, s[n]) ELSE x
           F == [p \in Q \X Nat |-> Step(p[1], p[2])]
           IsUpTo(g) == g = [n \in Nat |-> IF n = 0 THEN none ELSE Step(g[n - 1], n)]
           u == UpTo(s, S)
<1>1. u = CHOOSE g : IsUpTo(g)
    BY DEF UpTo
<1>2. IsStep(F, Q)
    BY DEF IsStep
<1>3. none \in Q
    OBVIOUS
<1> HIDE DEF Q, none, Step, u
<1>4. PICK f \in [Nat -> Q] : f[0] = none /\ \A n \in Nat : f[n + 1] = Step(f[n], n + 1)
    <2>1. PICK f : IsRecursive(f, Q, none, F)
        <3> HIDE DEF F
        <3> QED
            BY <1>2, <1>3, RecursionExists
    <2>2. ASSUME NEW n \in Nat PROVE f[n + 1] = Step(f[n], n + 1)
        <3>1. <<f[n], n + 1>> \in Q \X Nat
            BY <2>1 DEF IsRecursive
        <3>2. F[<<f[n], n + 1>>] = Step(f[n], n + 1)
            BY <3>1
        <3> QED
            BY <2>1, <3>2 DEF IsRecursive
    <2> QED
        BY <2>1, <2>2 DEF IsRecursive
<1>5. IsUpTo(f)
    <2>1. ASSUME NEW n \in Nat, n # 0 PROVE f[n] = Step(f[n - 1], n)
        <3>1. n - 1 \in Nat /\ (n - 1) + 1 = n
            BY <2>1
        <3> QED
            BY <1>4, <3>1
    <2> QED
        BY <1>4, <2>1
<1>6. IsUpTo(u)
    <2> HIDE DEF IsUpTo
    <2> QED
        BY <1>1, <1>5
<1>7. ASSUME NEW n \in Nat PROVE u[n + 1] = Step(u[n], n + 1)
    <2>1. n + 1 \in Nat /\ n + 1 # 0 /\ (n + 1) - 1 = n
        OBVIOUS
    <2> QED
        BY <1>6, <2>1
<1>8. u[0] = none
    BY <1>6
<1>9. \A n \in Nat : u[n] = f[n]
    <2> DEFINE N == {n \in Nat : u[n] = f[n]}
    <2>1. 0 \in N
        BY <1>4, <1>8
    <2>2. ASSUME NEW n \in N PROVE n + 1 \in N
        <3>1. n \in Nat /\ u[n] = f[n] /\ n + 1 \in Nat
            OBVIOUS
        <3>2. u[n + 1] = f[n + 1]
            BY <1>4, <1>7, <3>1, Zenon
        <3> QED
            BY <3>1, <3>2
    <2>3. N = Nat
        <3>1. N \subseteq Nat
            OBVIOUS
        <3> HIDE DEF N
        <3> QED
            BY <2>1, <2>2, <3>1, InductiveSet
    <2> QED
        BY <2>3
<1>10. u \in [Nat -> Q]
    BY <1>6, <1>9
<1> QED
    BY <1>7, <1>8, <1>10 DEF Step, u, Q, none, Collects

\* Nothing is collected from an empty sequence.
LEMMA ElementsAtNone ==
    ASSUME NEW T, NEW s \in Seq(T), NEW S, S \subseteq DOMAIN s, Len(s) = 0
    PROVE  ElementsAt(s, S) = <<>>
<1>1. Collects(UpTo(s, S), s, S, T)
    BY UpToFacts
<1>2. ElementsAt(s, S) = UpTo(s, S)[0]
    BY DEF ElementsAt, UpTo
<1> QED
    BY <1>1, <1>2 DEF Collects

\* What is collected from a sequence is a sequence of its elements.
LEMMA ElementsAtType ==
    ASSUME NEW T, NEW s \in Seq(T), NEW S, S \subseteq DOMAIN s
    PROVE  ElementsAt(s, S) \in Seq(T)
<1>1. Collects(UpTo(s, S), s, S, T)
    BY UpToFacts
<1>2. ElementsAt(s, S) = UpTo(s, S)[Len(s)] /\ Len(s) \in Nat
    BY DEF ElementsAt, UpTo
<1> QED
    BY <1>1, <1>2 DEF Collects

\* What the elements of a longer sequence are.
LEMMA ElementsAtAppend ==
    ASSUME NEW T, NEW s \in Seq(T), NEW e \in T, NEW S, S \subseteq DOMAIN s
    PROVE  /\ ElementsAt(s, S) \in Seq(T)
           /\ ElementsAt(Append(s, e), S) = ElementsAt(s, S)
           /\ ElementsAt(Append(s, e), S \cup {Len(s) + 1}) = Append(ElementsAt(s, S), e)
<1> DEFINE t == Append(s, e)
           m == Len(s)
           u == UpTo(s, S)
<1>1. /\ t \in Seq(T) /\ Len(t) = m + 1 /\ t[m + 1] = e /\ m \in Nat
      /\ \A i \in 1 .. m : t[i] = s[i]
      /\ DOMAIN s = 1 .. m /\ DOMAIN t = 1 .. m + 1
    OBVIOUS
<1>2. /\ u \in [Nat -> Seq(T)] /\ u[0] = <<>>
      /\ \A n \in Nat : u[n + 1] = IF n + 1 \in S THEN Append(u[n], s[n + 1]) ELSE u[n]
    <2>1. Collects(u, s, S, T)
        BY UpToFacts
    <2> QED
        BY <2>1 DEF Collects
<1>3. ElementsAt(s, S) = u[m] /\ \A U : ElementsAt(t, U) = UpTo(t, U)[m + 1]
    BY <1>1 DEF ElementsAt, UpTo
<1>4. ASSUME NEW U, U \subseteq DOMAIN t, U \cap 1 .. m = S
      PROVE  UpTo(t, U)[m + 1] = IF m + 1 \in U THEN Append(u[m], e) ELSE u[m]
    <2> DEFINE v == UpTo(t, U)
               N == {n \in Nat : n <= m => v[n] = u[n]}
    <2>1. /\ v[0] = <<>>
          /\ \A n \in Nat : v[n + 1] = IF n + 1 \in U THEN Append(v[n], t[n + 1]) ELSE v[n]
        <3>1. t \in Seq(T) /\ U \subseteq DOMAIN t
            BY <1>1, <1>4
        <3>2. Collects(v, t, U, T)
            <4> HIDE DEF t
            <4> QED
                BY <3>1, UpToFacts
        <3> HIDE DEF v, t
        <3> QED
            BY <3>2 DEF Collects
    <2> HIDE DEF u, v, t
    <2>2. 0 \in N
        BY <1>2, <2>1
    <2>3. ASSUME NEW n \in N PROVE n + 1 \in N
        <3>1. CASE n + 1 <= m
            <4>1. n + 1 \in 1 .. m /\ v[n] = u[n] /\ n \in Nat
                BY <3>1, <1>1
            <4>2. t[n + 1] = s[n + 1] /\ (n + 1 \in U <=> n + 1 \in S)
                BY <4>1, <1>1, <1>4
            <4>3. u[n + 1] = IF n + 1 \in S THEN Append(u[n], s[n + 1]) ELSE u[n]
                BY <1>2, <4>1
            <4>4. v[n + 1] = IF n + 1 \in U THEN Append(v[n], t[n + 1]) ELSE v[n]
                BY <2>1, <4>1
            <4>5. v[n + 1] = u[n + 1]
                BY <4>1, <4>2, <4>3, <4>4, Zenon
            <4> QED
                BY <4>1, <4>5
        <3>2. CASE ~(n + 1 <= m)
            BY <3>2
        <3> QED
            BY <3>1, <3>2
    <2>4. N = Nat
        <3>1. N \subseteq Nat
            OBVIOUS
        <3> HIDE DEF N
        <3> QED
            BY <2>2, <2>3, <3>1, InductiveSet
    <2>5. v[m] = u[m]
        BY <2>4, <1>1
    <2>6. v[m + 1] = IF m + 1 \in U THEN Append(u[m], e) ELSE u[m]
        BY <2>1, <2>5, <1>1
    <2> QED
        BY <2>6 DEF v
<1>5. ElementsAt(t, S) = u[m]
    <2>1. S \subseteq DOMAIN t /\ S \cap 1 .. m = S /\ m + 1 \notin S
        BY <1>1
    <2> HIDE DEF u, t, m
    <2> QED
        BY <1>3, <1>4, <2>1
<1>6. ElementsAt(t, S \cup {m + 1}) = Append(u[m], e)
    <2> DEFINE U == S \cup {m + 1}
    <2>1. U \subseteq DOMAIN t /\ U \cap 1 .. m = S /\ m + 1 \in U
        BY <1>1
    <2> HIDE DEF u, t, m, U
    <2>2. ElementsAt(t, U) = Append(u[m], e)
        BY <1>3, <1>4, <2>1
    <2> QED
        BY <2>2 DEF U
<1>7. u[m] \in Seq(T)
    BY <1>1, <1>2
<1> QED
    BY <1>3, <1>5, <1>6, <1>7

-----------------------------------------------------------------------------
(* Items *)

\* One more item written adds itself to the items of its kind.
LEMMA ItemsOfAppend ==
    ASSUME NEW T, NEW s \in Seq(T), NEW e \in T, NEW kinds
    PROVE  /\ ItemsOf(kinds, s) \in Seq(T)
           /\ ItemsOf(kinds, Append(s, e)) =
                  IF e.what \in kinds THEN Append(ItemsOf(kinds, s), e) ELSE ItemsOf(kinds, s)
<1> DEFINE S == {i \in DOMAIN s : s[i].what \in kinds}
           t == Append(s, e)
           S2 == {i \in DOMAIN t : t[i].what \in kinds}
<1>1. S \subseteq DOMAIN s
    OBVIOUS
<1>2. S2 = IF e.what \in kinds THEN S \cup {Len(s) + 1} ELSE S
    OBVIOUS
<1>3. ItemsOf(kinds, s) = ElementsAt(s, S) /\ ItemsOf(kinds, t) = ElementsAt(t, S2)
    BY DEF ItemsOf
<1> HIDE DEF S, S2
<1>4. /\ ElementsAt(s, S) \in Seq(T)
      /\ ElementsAt(t, S) = ElementsAt(s, S)
      /\ ElementsAt(t, S \cup {Len(s) + 1}) = Append(ElementsAt(s, S), e)
    BY <1>1, ElementsAtAppend
<1> HIDE DEF t
<1>5. ItemsOf(kinds, t) = IF e.what \in kinds THEN Append(ItemsOf(kinds, s), e) ELSE ItemsOf(kinds, s)
    BY <1>2, <1>3, <1>4
<1> QED
    BY <1>3, <1>4, <1>5 DEF t

\* The items of a kind are items of the sequence.
LEMMA ItemsOfType ==
    ASSUME NEW T, NEW s \in Seq(T), NEW kinds
    PROVE  ItemsOf(kinds, s) \in Seq(T)
<1> DEFINE S == {i \in DOMAIN s : s[i].what \in kinds}
<1>1. S \subseteq DOMAIN s
    OBVIOUS
<1>2. ItemsOf(kinds, s) = ElementsAt(s, S)
    BY DEF ItemsOf
<1> HIDE DEF S
<1> QED
    BY <1>1, <1>2, ElementsAtType

\* Before anything is written there are no items of any kind.
LEMMA ItemsOfNone == \A kinds : ItemsOf(kinds, <<>>) = <<>>
<1> SUFFICES ASSUME NEW kinds PROVE ItemsOf(kinds, <<>>) = <<>>
    OBVIOUS
<1> DEFINE s == <<>>
           S == {i \in DOMAIN s : s[i].what \in kinds}
<1>1. s \in Seq({}) /\ S \subseteq DOMAIN s /\ Len(s) = 0
    OBVIOUS
<1>2. ItemsOf(kinds, s) = ElementsAt(s, S)
    BY DEF ItemsOf
<1>3. ElementsAt(s, S) = <<>>
    <2> HIDE DEF s, S
    <2> QED
        BY <1>1, ElementsAtNone
<1> QED
    BY <1>2, <1>3

\* One more frame adds its context to the PINGs if it is one.
LEMMA PingsInAppend ==
    ASSUME NEW T, NEW s \in Seq(T), NEW e \in T
    PROVE  PingsIn(Append(s, e)) =
              IF e.kind = "PING" THEN Append(PingsIn(s), PingContext(e)) ELSE PingsIn(s)
<1> DEFINE S == {i \in DOMAIN s : s[i].kind = "PING"}
           t == Append(s, e)
           S2 == {i \in DOMAIN t : t[i].kind = "PING"}
           ps == ElementsAt(s, S)
           qs == ElementsAt(t, S2)
<1>1. S \subseteq DOMAIN s
    OBVIOUS
<1>2. S2 = IF e.kind = "PING" THEN S \cup {Len(s) + 1} ELSE S
    OBVIOUS
<1>3. /\ PingsIn(s) = [k \in DOMAIN ps |-> PingContext(ps[k])]
      /\ PingsIn(t) = [k \in DOMAIN qs |-> PingContext(qs[k])]
    BY DEF PingsIn
<1> HIDE DEF S, S2
<1>4. /\ ElementsAt(s, S) \in Seq(T)
      /\ ElementsAt(t, S) = ElementsAt(s, S)
      /\ ElementsAt(t, S \cup {Len(s) + 1}) = Append(ElementsAt(s, S), e)
    BY <1>1, ElementsAtAppend
<1> HIDE DEF t
<1>5. ps \in Seq(T) /\ qs = IF e.kind = "PING" THEN Append(ps, e) ELSE ps
    BY <1>2, <1>4
<1> HIDE DEF ps, qs
<1>6. PingsIn(t) = IF e.kind = "PING" THEN Append(PingsIn(s), PingContext(e)) ELSE PingsIn(s)
    <2>1. CASE e.kind = "PING"
        <3>1. qs = Append(ps, e)
            BY <1>5, <2>1
        <3> QED
            BY <1>3, <1>5, <2>1, <3>1
    <2>2. CASE e.kind # "PING"
        BY <1>3, <1>5, <2>2
    <2> QED
        BY <2>1, <2>2
<1> QED
    BY <1>6 DEF t

\* Without frames there are no PINGs.
LEMMA PingsInNone == PingsIn(<<>>) = <<>>
<1> DEFINE s == <<>>
           S == {i \in DOMAIN s : s[i].kind = "PING"}
<1>1. s \in Seq({}) /\ S \subseteq DOMAIN s /\ Len(s) = 0
    OBVIOUS
<1>2. PingsIn(s) = [k \in DOMAIN ElementsAt(s, S) |-> PingContext(ElementsAt(s, S)[k])]
    BY DEF PingsIn
<1>3. ElementsAt(s, S) = <<>>
    <2> HIDE DEF s, S
    <2> QED
        BY <1>1, ElementsAtNone
<1> QED
    BY <1>2, <1>3

\* One more item adds its context to the PONGs if it is one.
LEMMA PongsInAppend ==
    ASSUME NEW T, NEW s \in Seq(T), NEW e \in T
    PROVE  PongsIn(Append(s, e)) =
              IF e.what = "PONG" THEN Append(PongsIn(s), e.arg[1]) ELSE PongsIn(s)
<1> DEFINE t == Append(s, e)
           ps == ItemsOf({"PONG"}, s)
           qs == ItemsOf({"PONG"}, t)
<1>1. ps \in Seq(T) /\ qs = IF e.what \in {"PONG"} THEN Append(ps, e) ELSE ps
    BY ItemsOfAppend
<1>2. /\ PongsIn(s) = [k \in DOMAIN ps |-> ps[k].arg[1]]
      /\ PongsIn(t) = [k \in DOMAIN qs |-> qs[k].arg[1]]
    BY DEF PongsIn
<1> HIDE DEF ps, qs, t
<1>3. PongsIn(t) = IF e.what = "PONG" THEN Append(PongsIn(s), e.arg[1]) ELSE PongsIn(s)
    <2>1. CASE e.what = "PONG"
        <3>1. qs = Append(ps, e)
            BY <1>1, <2>1
        <3> QED
            BY <1>1, <1>2, <2>1, <3>1
    <2>2. CASE e.what # "PONG"
        BY <1>1, <1>2, <2>2
    <2> QED
        BY <2>1, <2>2
<1> QED
    BY <1>3 DEF t

\* Before anything is written there are no PONGs.
LEMMA PongsInNone == PongsIn(<<>>) = <<>>
    BY ItemsOfNone DEF PongsIn

HandshakeItems == {"GREETING", "WELCOME", "READY"}

\* One more item adds itself to our handshake if it belongs to it.
LEMMA HandshakeInAppend ==
    ASSUME NEW T, NEW s \in Seq(T), NEW e \in T
    PROVE  HandshakeIn(Append(s, e)) =
              IF e.what \in HandshakeItems THEN Append(HandshakeIn(s), e.what) ELSE HandshakeIn(s)
<1> DEFINE t == Append(s, e)
           ps == ItemsOf(HandshakeItems, s)
           qs == ItemsOf(HandshakeItems, t)
<1>1. ps \in Seq(T) /\ qs = IF e.what \in HandshakeItems THEN Append(ps, e) ELSE ps
    BY ItemsOfAppend
<1>2. /\ HandshakeIn(s) = [k \in DOMAIN ps |-> ps[k].what]
      /\ HandshakeIn(t) = [k \in DOMAIN qs |-> qs[k].what]
    BY DEF HandshakeIn, HandshakeItems
<1> HIDE DEF ps, qs, t
<1>3. HandshakeIn(t) = IF e.what \in HandshakeItems THEN Append(HandshakeIn(s), e.what) ELSE HandshakeIn(s)
    <2>1. CASE e.what \in HandshakeItems
        <3>1. qs = Append(ps, e)
            BY <1>1, <2>1
        <3> QED
            BY <1>1, <1>2, <2>1, <3>1
    <2>2. CASE e.what \notin HandshakeItems
        BY <1>1, <1>2, <2>2
    <2> QED
        BY <2>1, <2>2
<1> QED
    BY <1>3 DEF t

\* Before anything is written nothing of our handshake is.
LEMMA HandshakeInNone == HandshakeIn(<<>>) = <<>>
    BY ItemsOfNone DEF HandshakeIn

-----------------------------------------------------------------------------
(* Frames *)

\* Before the first frame is complete there is none.
LEMMA FramesInNone ==
    ASSUME NEW U, NEW u \in Seq(U), Len(u) < GREETING_LEN + FRAME_LEN
    PROVE  FramesIn(u) = <<>>
<1> DEFINE z == (Len(u) - GREETING_LEN) \div FRAME_LEN
<1>1. z \in Int /\ z <= 0
    BY DEF GREETING_LEN, FRAME_LEN
<1>2. FramesIn(u) = [k \in 1 .. z |-> u[GREETING_LEN + FRAME_LEN * (k - 1) + 1].of]
    BY DEF FramesIn
<1> HIDE DEF z
<1>3. 1 .. z = {}
    BY <1>1
<1> QED
    BY <1>2, <1>3

\* One unit more is half a frame more.
LEMMA FramesInHalf ==
    ASSUME NEW U, NEW u \in Seq(U), NEW x \in U, NEW k \in Nat,
           Len(u) = GREETING_LEN + FRAME_LEN * k
    PROVE  /\ FramesIn(Append(u, x)) = FramesIn(u)
           /\ Len(FramesIn(u)) = k
<1>1. (Len(u) - GREETING_LEN) \div FRAME_LEN = k
    BY DEF GREETING_LEN, FRAME_LEN
<1>2. (Len(Append(u, x)) - GREETING_LEN) \div FRAME_LEN = k
    BY DEF GREETING_LEN, FRAME_LEN
<1>3. \A i \in 1 .. k : /\ GREETING_LEN + FRAME_LEN * (i - 1) + 1 \in 1 .. Len(u)
                        /\ GREETING_LEN + FRAME_LEN * (i - 1) + 1 # Len(u) + 1
    BY DEF GREETING_LEN, FRAME_LEN
<1> QED
    BY <1>1, <1>2, <1>3 DEF FramesIn

\* The frame that the k-th pair of units completes.
LEMMA FramesInMore ==
    ASSUME NEW U, NEW u \in Seq(U), NEW x \in Seq(U), NEW k \in Nat,
           Len(u) \in {GREETING_LEN + FRAME_LEN * k, GREETING_LEN + FRAME_LEN * k + 1},
           Len(u \o x) = GREETING_LEN + FRAME_LEN * (k + 1)
    PROVE  /\ FramesIn(u \o x) = Append(FramesIn(u), (u \o x)[GREETING_LEN + FRAME_LEN * k + 1].of)
           /\ Len(FramesIn(u)) = k
<1> DEFINE v == u \o x
           At(i) == GREETING_LEN + FRAME_LEN * (i - 1) + 1
<1>1. (Len(u) - GREETING_LEN) \div FRAME_LEN = k
    BY DEF GREETING_LEN, FRAME_LEN
<1>2. (Len(v) - GREETING_LEN) \div FRAME_LEN = k + 1
    BY DEF GREETING_LEN, FRAME_LEN
<1>3. \A i \in 1 .. k : At(i) \in 1 .. Len(u)
    BY DEF GREETING_LEN, FRAME_LEN
<1>4. \A i \in 1 .. k : v[At(i)] = u[At(i)]
    BY <1>3
<1>5. At(k + 1) = GREETING_LEN + FRAME_LEN * k + 1
    BY DEF GREETING_LEN, FRAME_LEN
<1>6. /\ FramesIn(u) = [i \in 1 .. k |-> u[At(i)].of]
      /\ FramesIn(v) = [i \in 1 .. k + 1 |-> v[At(i)].of]
    BY <1>1, <1>2 DEF FramesIn
<1> HIDE DEF v, At
<1>7. FramesIn(v) = Append(FramesIn(u), v[At(k + 1)].of)
    BY <1>4, <1>6
<1>8. Len(FramesIn(u)) = k
    BY <1>6
<1> QED
    BY <1>5, <1>7, <1>8 DEF v

\* A frame after the handshake is traffic.
LEMMA TrafficMore ==
    ASSUME NEW T, NEW fs \in Seq(T), NEW f \in T, NEW h \in Nat
    PROVE  SubSeq(Append(fs, f), h + 1, Len(Append(fs, f))) =
              IF h <= Len(fs) THEN Append(SubSeq(fs, h + 1, Len(fs)), f) ELSE <<>>
    OBVIOUS

-----------------------------------------------------------------------------
(* What is known of a connection c that has consumed the units u.  The      *)
(* table is left out, so that this holds for PUB and for RADIO.            *)

ConnFields == {"state", "our_greeting_sent", "peer_greeting_received", "peer_version_minor",
               "our_ready_sent", "our_welcome_sent", "mechanism", "greeting_buf",
               "frame_decoder", "pending_pong"}

Mechanisms == {"Null", "Plain"}

\* The frames of units, and the contexts that are kept of them.
FramesOf(U) == {x.of : x \in U}
ContextsOf(U) ==
    {PingContext(x.of) : x \in {y \in U : y.what = "frame" /\ y.of.kind = "PING"}}

\* A decoder is poisoned, or it holds a part of a frame.
Poisoned == [poisoned |-> TRUE, got |-> <<>>]
Holding(g) == [poisoned |-> FALSE, got |-> g]
IsDecoder(d, U) == d = Poisoned \/ \E g \in Seq(U) : Len(g) < FRAME_LEN /\ d = Holding(g)

\* The fields have their types.
IsConn(c, U) ==
    /\ ConnFields \subseteq DOMAIN c
    /\ c.state \in States
    /\ c.our_greeting_sent \in BOOLEAN
    /\ c.our_ready_sent \in BOOLEAN
    /\ c.our_welcome_sent \in BOOLEAN
    /\ c.mechanism \in Mechanisms
    /\ c.greeting_buf \in Seq(U) /\ Len(c.greeting_buf) <= GREETING_LEN
    /\ IsDecoder(c.frame_decoder, U)
    /\ c.pending_pong \in Seq(ContextsOf(U)) /\ Len(c.pending_pong) <= 1

\* A greeting that is refused, now or when it is complete.
BadGreeting(mechanism, buf) ==
    \/ Len(buf) >= GREETING_PARTIAL_LEN /\ ~ParsePartialGreeting(buf)
    \/ Len(buf) >= GREETING_LEN /\ ~ParseGreeting(mechanism, buf)

\* Before the greetings are exchanged nothing else is.
Greets(c, u, rej) ==
    c.state = "Greeting" =>
        /\ ~c.our_ready_sent /\ ~c.our_welcome_sent
        /\ c.pending_pong = <<>> /\ c.frame_decoder = NewDecoder
        /\ Len(u) <= Len(c.greeting_buf)
        /\ ~rej => u = c.greeting_buf
        /\ rej => BadGreeting(c.mechanism, c.greeting_buf)

\* Afterwards the peer's is a valid one.
Greeted(c, u) ==
    c.state # "Greeting" =>
        /\ c.our_greeting_sent
        /\ Len(u) >= GREETING_LEN
        /\ ParseGreeting(c.mechanism, SubSeq(u, 1, GREETING_LEN))

\* The decoder holds what is left of u after its last complete frame.
InStep(c, u) ==
    c.state \notin {"Greeting", "Failed"} /\ c.frame_decoder # Poisoned =>
        /\ Len(u) = GREETING_LEN + FRAME_LEN * Len(FramesIn(u)) + Len(c.frame_decoder.got)
        /\ c.frame_decoder.got # <<>> => c.frame_decoder.got[1] = u[Len(u)]

HelloIn(u) ==
    /\ FramesIn(u) # <<>>
    /\ FramesIn(u)[1].kind = "HELLO" /\ FramesIn(u)[1].arg \in Accepted

\* What has been received, state by state, and what has been sent for it.
Received(c, u, types) ==
    /\ c.state = "Ready" => c.mechanism = "Null"
    /\ c.state \in {"PlainHello", "PlainReady"} => c.mechanism = "Plain"
    /\ c.state = "PlainHello" => ~c.our_welcome_sent /\ Len(FramesIn(u)) = 0
    /\ c.state = "PlainReady" => HelloIn(u) /\ Len(FramesIn(u)) = 1
    /\ c.our_welcome_sent => c.mechanism = "Plain" /\ HelloIn(u)
    /\ c.our_ready_sent /\ c.mechanism = "Plain" => c.our_welcome_sent
    /\ c.state # "Established" =>
          c.pending_pong = <<>> /\ Len(FramesIn(u)) < HandshakeFrames(c.mechanism)
    /\ c.state = "Established" =>
          LET at == HandshakeFrames(c.mechanism)
          IN  /\ c.our_ready_sent
              /\ Len(FramesIn(u)) >= at
              /\ FramesIn(u)[at].kind = "READY" /\ FramesIn(u)[at].arg \in types
              /\ c.mechanism = "Plain" => HelloIn(u)

\* A peer that was refused finds the connection failed or its decoder poisoned.
Rejects(c, rej) ==
    rej /\ c.state \notin {"Greeting", "Failed"} =>
        c.frame_decoder = Poisoned /\ c.state # "Established"

FedInv(c, u, rej, types) ==
    /\ Greets(c, u, rej) /\ Greeted(c, u) /\ InStep(c, u)
    /\ Received(c, u, types) /\ Rejects(c, rej)

\* The items of the handshake that c has handed out.
Said(c) ==
    IF ~c.our_greeting_sent THEN <<>>
    ELSE IF c.our_welcome_sent
    THEN IF c.our_ready_sent THEN <<"GREETING", "WELCOME", "READY">> ELSE <<"GREETING", "WELCOME">>
    ELSE IF c.our_ready_sent THEN <<"GREETING", "READY">> ELSE <<"GREETING">>

SentInv(c, s) ==
    /\ HandshakeIn(s) = Said(c)
    /\ ItemsOf({"WELCOME"}, s) # <<>> => c.our_welcome_sent
    /\ ItemsOf({"MESSAGE", "PONG"}, s) # <<>> => c.state = "Established"

\* The PINGs that are to be answered, and the PONGs.
PingsDue(c, u) ==
    IF c.peer_version_minor >= 1 THEN PingsIn(TrafficIn(c.mechanism, u)) ELSE <<>>

PongInv(c, u, s) == IsSubsequence(PongsIn(s) \o c.pending_pong, PingsDue(c, u))

-----------------------------------------------------------------------------
(* The output methods keep it. *)

\* What has been written once r is returned for an item.
SentWith(s, r, what, arg) ==
    IF r.res = "Ok" /\ r.n = 1 THEN Append(s, [what |-> what, arg |-> arg]) ELSE s

\* write_greeting keeps what was fed in step with the connection.
LEMMA WriteGreetingInv ==
    ASSUME NEW U, NEW c, IsConn(c, U), NEW u, NEW rej, NEW types, FedInv(c, u, rej, types),
           NEW fits \in BOOLEAN, NEW r, r = WriteGreeting(c, fits)
    PROVE  IsConn(r.conn, U) /\ FedInv(r.conn, u, rej, types)
  <1> USE DEF WriteGreeting, Ok, Err
  <1>1. IsConn(r.conn, U)
    BY DEF IsConn, ConnFields
  <1>2. FedInv(r.conn, u, rej, types)
    BY DEF FedInv, IsConn, ConnFields, Greets, Greeted, InStep, Received, Rejects
  <1> QED
    BY <1>1, <1>2

\* write_ready keeps what was fed in step with the connection.
LEMMA WriteReadyInv ==
    ASSUME NEW U, NEW c, IsConn(c, U), NEW u, NEW rej, NEW types, FedInv(c, u, rej, types),
           NEW fits \in BOOLEAN, NEW r, r = WriteReady(c, fits)
    PROVE  IsConn(r.conn, U) /\ FedInv(r.conn, u, rej, types)
  <1> USE DEF WriteReady, MayWriteReady, Ok, Err
  <1>1. IsConn(r.conn, U)
    BY DEF IsConn, ConnFields
  <1>2. FedInv(r.conn, u, rej, types)
    BY DEF FedInv, IsConn, ConnFields, Mechanisms, Greets, Greeted, InStep, Received, Rejects
  <1> QED
    BY <1>1, <1>2

\* write_welcome keeps what was fed in step with the connection.
LEMMA WriteWelcomeInv ==
    ASSUME NEW U, NEW c, IsConn(c, U), NEW u, NEW rej, NEW types, FedInv(c, u, rej, types),
           NEW fits \in BOOLEAN, NEW r, r = WriteWelcome(c, fits)
    PROVE  IsConn(r.conn, U) /\ FedInv(r.conn, u, rej, types)
  <1> USE DEF WriteWelcome, Ok, Err
  <1>1. IsConn(r.conn, U)
    BY DEF IsConn, ConnFields
  <1>2. FedInv(r.conn, u, rej, types)
    BY DEF FedInv, IsConn, ConnFields, Greets, Greeted, InStep, Received, Rejects
  <1> QED
    BY <1>1, <1>2

\* write_pong keeps what was fed in step with the connection.
LEMMA WritePongInv ==
    ASSUME NEW U, NEW c, IsConn(c, U), NEW u, NEW rej, NEW types, FedInv(c, u, rej, types),
           NEW fits \in BOOLEAN, NEW r, r = WritePong(c, fits)
    PROVE  IsConn(r.conn, U) /\ FedInv(r.conn, u, rej, types)
  <1> USE DEF WritePong, Ok, Err
  <1>1. IsConn(r.conn, U)
    BY DEF IsConn, ConnFields
  <1>2. FedInv(r.conn, u, rej, types)
    BY DEF FedInv, IsConn, ConnFields, Greets, Greeted, InStep, Received, Rejects
  <1> QED
    BY <1>1, <1>2
-----------------------------------------------------------------------------
(* What TakeFrame may do *)

\* There is no input, and nothing happens.
Idles(c, x, t) ==
    /\ x = <<>> /\ t.res = "Ok" /\ t.n = 0
    /\ t.conn = [c EXCEPT !.frame_decoder = c.frame_decoder]

\* The input is the first half of a frame.
Halves(c, x, t) ==
    /\ c.frame_decoder = Holding(<<>>)
    /\ t.res = "Ok" /\ t.n = 1 /\ Len(x) = 1
    /\ t.conn = [c EXCEPT !.frame_decoder = Holding(x)]

\* The input is refused.
Spoils(c, x, t) ==
    /\ t.res = "DecodeError"
    /\ t.conn = [c EXCEPT !.frame_decoder = Poisoned]

\* The input completes a frame, of which the decoder holds g.
Completes(c, x, t, g) ==
    /\ c.frame_decoder = Holding(g)
    /\ t.res = "Some"
    /\ t.n = FRAME_LEN - Len(g) /\ Len(x) >= t.n
    /\ t.conn = [c EXCEPT !.frame_decoder = Holding(<<>>)]
    /\ t.frame = (g \o x)[1].of /\ (g \o x)[1].what = "frame"

\* A natural below FRAME_LEN is 0 or 1.
LEMMA BelowTwo == \A n \in Nat : n < 2 => n = 0 \/ n = 1
    OBVIOUS

\* A call of the frame decoder does nothing, takes the first half of a frame,
\* finds the frame malformed, or completes a frame with g already held.
LEMMA TakeFrameCases ==
    ASSUME NEW U, NEW c, IsConn(c, U), NEW x \in Seq(U), NEW t, t = TakeFrame(c, x)
    PROVE  \/ Idles(c, x, t) \/ Halves(c, x, t) \/ Spoils(c, x, t)
           \/ \E g \in Seq(U) : Len(g) < FRAME_LEN /\ Completes(c, x, t, g)
  <1>1. CASE c.frame_decoder = Poisoned
    BY <1>1 DEF TakeFrame, DecoderFeed, Ok, Err, Idles, Spoils, Poisoned
  <1>2. ASSUME NEW g \in Seq(U), Len(g) < FRAME_LEN, c.frame_decoder = Holding(g)
        PROVE  Idles(c, x, t) \/ Halves(c, x, t) \/ Spoils(c, x, t) \/ Completes(c, x, t, g)
    <2> DEFINE d == Holding(g)
               b == g \o x
    <2>1. /\ b \in Seq(U) /\ Len(b) = Len(g) + Len(x) /\ Len(x) \in Nat
          /\ Len(g) = 0 \/ Len(g) = 1
          /\ d.got = g /\ ~d.poisoned
      <3>1. b \in Seq(U) /\ Len(b) = Len(g) + Len(x) /\ Len(x) \in Nat
        OBVIOUS
      <3>2. Len(g) = 0 \/ Len(g) = 1
        <4>1. Len(g) \in Nat /\ Len(g) < 2
          BY <1>2 DEF FRAME_LEN
        <4> QED
          BY <4>1, BelowTwo
      <3>3. d.got = g /\ ~d.poisoned
        BY DEF Holding
      <3> QED
        BY <3>1, <3>2, <3>3
    <2>2. CASE x = <<>>
      BY <1>2, <2>2 DEF TakeFrame, DecoderFeed, Ok, Err, Idles
    <2>3. CASE x # <<>> /\ Refused(b)
      BY <1>2, <2>1, <2>3 DEF TakeFrame, DecoderFeed, Ok, Err, Spoils, Poisoned
    <2>4. CASE x # <<>> /\ ~Refused(b) /\ Len(b) < FRAME_LEN
      <3>1. Len(x) # 0
        BY <2>4
      <3>2. Len(x) = 1 /\ Len(g) = 0
        <4>1. Len(b) = Len(g) + Len(x) /\ Len(x) \in Nat /\ Len(b) < 2 /\ (Len(g) = 0 \/ Len(g) = 1)
          BY <2>1, <2>4 DEF FRAME_LEN
        <4> HIDE DEF b
        <4> QED
          BY <3>1, <4>1
      <3>3. g = <<>>
        BY <3>2
      <3>4. b = x
        BY <3>3
      <3> QED
        BY <1>2, <2>1, <2>4, <3>2, <3>3, <3>4 DEF TakeFrame, DecoderFeed, Ok, Err, Halves, Holding
    <2>5. CASE x # <<>> /\ ~Refused(b) /\ ~(Len(b) < FRAME_LEN)
      <3>1. Len(x) >= FRAME_LEN - Len(g) /\ b[1].what = "frame"
        BY <2>1, <2>5 DEF FRAME_LEN, Refused
      <3>2. NewDecoder = Holding(<<>>)
        BY DEF NewDecoder, Holding
      <3> QED
        BY <1>2, <2>1, <2>5, <3>1, <3>2 DEF TakeFrame, DecoderFeed, DecodedFrame, Ok, Err, Completes
    <2> QED
      BY <2>2, <2>3, <2>4, <2>5
  <1> QED
    BY <1>1, <1>2 DEF IsConn, IsDecoder

-----------------------------------------------------------------------------
(* Input keeps it. *)

\* What has been consumed, and whether the peer has been refused, once feed
\* has returned r for x.
FedBy(u, x, r) == IF r.res = "Ok" THEN u \o SubSeq(x, 1, r.n) ELSE u
RejectedBy(c, rej, r) ==
    rej \/ (c.state # "Established" /\ r.res \notin {"Ok", "WrongState"})

\* The frames in a stream are frames of its units.
LEMMA FramesInType ==
    ASSUME NEW U, NEW u \in Seq(U)
    PROVE  FramesIn(u) \in Seq(FramesOf(U))
  <1> DEFINE n == (Len(u) - GREETING_LEN) \div FRAME_LEN
             At(k) == GREETING_LEN + FRAME_LEN * (k - 1) + 1
  <1>1. n \in Int /\ FRAME_LEN * n <= Len(u) - GREETING_LEN /\ Len(u) \in Nat
    BY DEF GREETING_LEN, FRAME_LEN
  <1>2. FramesIn(u) = [k \in 1 .. n |-> u[At(k)].of]
    BY DEF FramesIn
  <1>3. ASSUME NEW k \in 1 .. n PROVE u[At(k)].of \in FramesOf(U)
    <2>1. At(k) \in 1 .. Len(u)
      <3> HIDE DEF n
      <3> QED
        BY <1>1 DEF GREETING_LEN, FRAME_LEN
    <2> QED
      BY <2>1 DEF FramesOf
  <1>4. CASE Len(u) >= GREETING_LEN + FRAME_LEN
    <2>1. n \in Nat
      BY <1>1, <1>4 DEF GREETING_LEN, FRAME_LEN
    <2> HIDE DEF n, At
    <2> QED
      BY <1>2, <1>3, <2>1
  <1>5. CASE ~(Len(u) >= GREETING_LEN + FRAME_LEN)
    <2>1. FramesIn(u) = <<>>
      BY <1>1, <1>5, FramesInNone DEF GREETING_LEN, FRAME_LEN
    <2> QED
      BY <2>1
  <1> QED
    BY <1>4, <1>5

\* A sequence and what it is made of.
LEMMA ConcatFacts ==
    ASSUME NEW U, NEW u \in Seq(U), NEW y \in Seq(U)
    PROVE  /\ u \o y \in Seq(U)
           /\ Len(u \o y) = Len(u) + Len(y) /\ Len(u) \in Nat /\ Len(y) \in Nat
           /\ \A i \in 1 .. Len(u) : (u \o y)[i] = u[i]
           /\ \A i \in 1 .. Len(y) : (u \o y)[Len(u) + i] = y[i]
  OBVIOUS

\* The first new unit follows those that were fed before.
LEMMA ConcatFirst ==
    ASSUME NEW U, NEW u \in Seq(U), NEW y \in Seq(U), NEW n \in Nat, Len(y) = n + 1
    PROVE  (u \o y)[Len(u) + 1] = y[1] /\ y[1] \in U
  <1>1. 1 \in 1 .. Len(y)
    OBVIOUS
  <1>2. \A i \in 1 .. Len(y) : (u \o y)[Len(u) + i] = y[i] /\ y[i] \in U
    OBVIOUS
  <1> QED
    BY <1>1, <1>2

\* To feed one unit is to append it.
LEMMA ConcatSingle ==
    ASSUME NEW U, NEW u \in Seq(U), NEW x \in Seq(U), Len(x) = 1
    PROVE  x[1] \in U /\ u \o x = Append(u, x[1])
  <1>1. x[1] \in U /\ x = <<x[1]>>
    OBVIOUS
  <1>2. ASSUME NEW e \in U PROVE u \o <<e>> = Append(u, e)
    OBVIOUS
  <1> QED
    BY <1>1, <1>2, Zenon

\* One that has grown by a frame, from units u that held k of them.
MoreFrames(U, u, v, f) ==
    /\ v \in Seq(U)
    /\ FramesIn(v) = Append(FramesIn(u), f) /\ f \in FramesOf(U)
    /\ Len(FramesIn(v)) = Len(FramesIn(u)) + 1
    /\ Len(v) = GREETING_LEN + FRAME_LEN * Len(FramesIn(v))
    /\ SubSeq(v, 1, GREETING_LEN) = SubSeq(u, 1, GREETING_LEN)

\* Both units of a frame fed together give one more frame.
LEMMA FrameAtOnce ==
    ASSUME NEW U, NEW u \in Seq(U), NEW y \in Seq(U), NEW k \in Nat, Len(FramesIn(u)) = k,
           Len(u) = 3 + 2 * k, Len(y) = 2
    PROVE  MoreFrames(U, u, u \o y, y[1].of)
  <1> DEFINE v == u \o y
  <1>1. /\ v \in Seq(U) /\ Len(v) = Len(u) + 2
        /\ \A i \in 1 .. Len(u) : v[i] = u[i]
        /\ v[Len(u) + 1] = y[1] /\ y[1] \in U
    <2>0. v \in Seq(U) /\ Len(v) = Len(u) + Len(y)
      BY ConcatFacts, Zenon
    <2>1. v \in Seq(U) /\ Len(v) = Len(u) + 2
      BY <2>0
    <2>2. \A i \in 1 .. Len(u) : v[i] = u[i]
      BY ConcatFacts
    <2>3. 1 \in Nat /\ Len(y) = 1 + 1
      OBVIOUS
    <2>4. v[Len(u) + 1] = y[1] /\ y[1] \in U
      BY <2>3, ConcatFirst, Zenon
    <2> QED
      BY <2>1, <2>2, <2>4
  <1>2. Len(v) = 3 + 2 * (k + 1)
    BY <1>1
  <1>3. FramesIn(v) = Append(FramesIn(u), v[3 + 2 * k + 1].of)
    BY <1>2, FramesInMore, ZenonT(60) DEF GREETING_LEN, FRAME_LEN
  <1> HIDE DEF v
  <1>4. SubSeq(v, 1, 3) = SubSeq(u, 1, 3)
    BY <1>1
  <1>5. FramesIn(v) = Append(FramesIn(u), y[1].of)
    BY <1>1, <1>3
  <1>6. FramesIn(u) \in Seq(FramesOf(U)) /\ y[1].of \in FramesOf(U)
    BY <1>1, FramesInType DEF FramesOf
  <1>7. Len(FramesIn(v)) = k + 1
    BY <1>5, <1>6
  <1> QED
    BY <1>1, <1>2, <1>4, <1>5, <1>6, <1>7 DEF v, MoreFrames, GREETING_LEN, FRAME_LEN

\* The second unit of a frame gives one more frame, that of its first unit.
LEMMA FrameFinished ==
    ASSUME NEW U, NEW u \in Seq(U), NEW y \in Seq(U), NEW k \in Nat, Len(FramesIn(u)) = k,
           Len(u) = 3 + 2 * k + 1, Len(y) = 1
    PROVE  MoreFrames(U, u, u \o y, u[Len(u)].of)
  <1> DEFINE v == u \o y
  <1>1. /\ v \in Seq(U) /\ Len(v) = Len(u) + 1
        /\ \A i \in 1 .. Len(u) : v[i] = u[i]
        /\ Len(u) \in 1 .. Len(u) /\ u[Len(u)] \in U
    <2>0. v \in Seq(U) /\ Len(v) = Len(u) + Len(y)
      BY ConcatFacts, Zenon
    <2>1. v \in Seq(U) /\ Len(v) = Len(u) + 1
      BY <2>0
    <2>2. \A i \in 1 .. Len(u) : v[i] = u[i]
      BY ConcatFacts
    <2>3. Len(u) \in 1 .. Len(u)
      OBVIOUS
    <2>4. u[Len(u)] \in U
      BY <2>3
    <2> QED
      BY <2>1, <2>2, <2>3, <2>4
  <1>2. Len(v) = 3 + 2 * (k + 1)
    BY <1>1
  <1>3. FramesIn(v) = Append(FramesIn(u), v[3 + 2 * k + 1].of)
    BY <1>2, FramesInMore DEF GREETING_LEN, FRAME_LEN
  <1> HIDE DEF v
  <1>4. SubSeq(v, 1, 3) = SubSeq(u, 1, 3)
    BY <1>1
  <1>5. FramesIn(v) = Append(FramesIn(u), u[Len(u)].of)
    BY <1>1, <1>3
  <1>6. FramesIn(u) \in Seq(FramesOf(U)) /\ u[Len(u)].of \in FramesOf(U)
    BY <1>1, FramesInType DEF FramesOf
  <1>7. Len(FramesIn(v)) = k + 1
    BY <1>5, <1>6
  <1> QED
    BY <1>1, <1>2, <1>4, <1>5, <1>6, <1>7 DEF v, MoreFrames, GREETING_LEN, FRAME_LEN

\* When the decoder completes a frame, the units fed hold this frame and no
\* other more than before.
LEMMA FrameFed ==
    ASSUME NEW U, NEW c, NEW u \in Seq(U), InStep(c, u), c.state \notin {"Greeting", "Failed"},
           NEW x \in Seq(U), NEW t, NEW g \in Seq(U), Len(g) < FRAME_LEN, Completes(c, x, t, g)
    PROVE  MoreFrames(U, u, u \o SubSeq(x, 1, t.n), t.frame)
  <1> DEFINE k == Len(FramesIn(u))
  <1>1. /\ c.frame_decoder = Holding(g) /\ t.n = 2 - Len(g) /\ Len(x) >= t.n
        /\ t.frame = (g \o x)[1].of
    BY DEF Completes, FRAME_LEN
  <1>2. c.frame_decoder # Poisoned /\ c.frame_decoder.got = g
    BY <1>1 DEF Holding, Poisoned
  <1>3. Len(u) = 3 + 2 * k + Len(g) /\ (g # <<>> => g[1] = u[Len(u)])
    BY <1>2 DEF InStep, GREETING_LEN, FRAME_LEN
  <1>4. k \in Nat
    BY FramesInType
  <1>5. Len(g) = 0 \/ Len(g) = 1
    <2>1. Len(g) \in Nat /\ Len(g) < 2
      BY DEF FRAME_LEN
    <2> QED
      BY <2>1, BelowTwo
  <1>6. CASE Len(g) = 0
    <2>1. t.n = 2 /\ Len(x) >= 2 /\ Len(x) \in Nat /\ Len(u) = 3 + 2 * k
      BY <1>1, <1>3, <1>4, <1>6
    <2>2. g \o x = x
      BY <1>6
    <2> DEFINE y == SubSeq(x, 1, 2)
    <2>3. y \in Seq(U) /\ Len(y) = 2 /\ y[1] = x[1]
      BY <2>1
    <2> HIDE DEF y, k
    <2>4. MoreFrames(U, u, u \o y, y[1].of)
      BY <1>4, <2>1, <2>3, FrameAtOnce DEF k
    <2> QED
      BY <1>1, <2>1, <2>2, <2>3, <2>4 DEF y
  <1>7. CASE Len(g) = 1
    <2>1. t.n = 1 /\ Len(x) >= 1 /\ Len(x) \in Nat /\ Len(u) = 3 + 2 * k + 1
      BY <1>1, <1>3, <1>4, <1>7
    <2>2. (g \o x)[1] = g[1] /\ g # <<>>
      BY <1>7, ConcatFacts
    <2> DEFINE y == SubSeq(x, 1, 1)
    <2>3. y \in Seq(U) /\ Len(y) = 1
      BY <2>1
    <2> HIDE DEF y, k
    <2>4. MoreFrames(U, u, u \o y, u[Len(u)].of)
      BY <1>4, <2>1, <2>3, FrameFinished DEF k
    <2> QED
      BY <1>1, <1>3, <2>1, <2>2, <2>3, <2>4 DEF y
  <1> QED
    BY <1>5, <1>6, <1>7

-----------------------------------------------------------------------------
\* A sequence up to its length is itself.
LEMMA WholeSeq ==
    ASSUME NEW U, NEW s \in Seq(U), NEW n, Len(s) = n
    PROVE  SubSeq(s, 1, n) = s
  OBVIOUS

\* A feed that succeeds consumes the units it says, and rejects nobody.
LEMMA OkFacts ==
    ASSUME NEW c, NEW u, NEW x, NEW rej \in BOOLEAN, NEW r, r.res = "Ok"
    PROVE  FedBy(u, x, r) = u \o SubSeq(x, 1, r.n) /\ RejectedBy(c, rej, r) = rej
  <1>1. FedBy(u, x, r) = u \o SubSeq(x, 1, r.n)
    BY DEF FedBy
  <1>2. RejectedBy(c, rej, r) = rej
    BY DEF RejectedBy
  <1> QED
    BY <1>1, <1>2

\* A feed that fails consumes nothing; before the connection is established
\* the peer is rejected.
LEMMA ErrFacts ==
    ASSUME NEW c, NEW u, NEW x, NEW rej \in BOOLEAN, NEW r, r.res \notin {"Ok", "WrongState"}
    PROVE  /\ FedBy(u, x, r) = u
           /\ RejectedBy(c, rej, r) = IF c.state = "Established" THEN rej ELSE TRUE
  <1>1. FedBy(u, x, r) = u
    BY DEF FedBy
  <1>2. RejectedBy(c, rej, r) = IF c.state = "Established" THEN rej ELSE TRUE
    BY DEF RejectedBy
  <1> QED
    BY <1>1, <1>2

\* feed_greeting, fed the greeting in any pieces, keeps the invariant of what
\* was fed: it parses once the greeting is whole and not before.
LEMMA FeedGreetingInv ==
    ASSUME NEW U, NEW c, IsConn(c, U), NEW u \in Seq(U), NEW rej \in BOOLEAN, NEW types,
           FedInv(c, u, rej, types), c.state = "Greeting",
           NEW x \in Seq(U), NEW r, r = FeedGreeting(c, x)
    PROVE  /\ IsConn(r.conn, U) /\ FedBy(u, x, r) \in Seq(U)
           /\ FedInv(r.conn, FedBy(u, x, r), RejectedBy(c, rej, r), types)
  <1> DEFINE old == c.greeting_buf
             n   == SmallerOf(Len(x), GREETING_LEN - Len(old))
             y   == SubSeq(x, 1, n)
             buf == old \o y
             c1  == [c EXCEPT !.greeting_buf = buf]
             next == IF c.mechanism = "Null" THEN "Ready" ELSE "PlainHello"
             c2  == [c1 EXCEPT !.peer_version_minor = buf[3].of.minor,
                               !.peer_greeting_received = TRUE,
                               !.state = IF c.our_greeting_sent THEN next ELSE @]
             m   == c.mechanism
  <1>1. old \in Seq(U) /\ Len(old) \in Nat /\ Len(old) <= 3 /\ m \in Mechanisms
    BY DEF IsConn, GREETING_LEN
  <1>2. n \in Nat /\ n <= Len(x) /\ n <= 3 - Len(old) /\ (n = Len(x) \/ n = 3 - Len(old))
    <2>1. Len(x) \in Nat
      OBVIOUS
    <2> HIDE DEF old
    <2> QED
      BY <1>1, <2>1 DEF SmallerOf, GREETING_LEN
  <1>3. y \in Seq(U) /\ Len(y) = n
    BY <1>2
  <1>4. /\ buf \in Seq(U) /\ Len(buf) = Len(old) + n /\ Len(buf) <= 3
        /\ \A i \in 1 .. Len(old) : buf[i] = old[i]
    <2> HIDE DEF old, y, n
    <2>1. /\ buf \in Seq(U) /\ Len(buf) = Len(old) + Len(y)
          /\ \A i \in 1 .. Len(old) : buf[i] = old[i]
      BY <1>1, <1>3, ConcatFacts, Zenon
    <2> HIDE DEF buf
    <2> QED
      BY <1>1, <1>2, <1>3, <2>1
  <1>5. \/ /\ Len(old) < 2 /\ Len(buf) >= 2 /\ ~ParsePartialGreeting(buf)
           /\ r = Err(c1, "GreetingError")
        \/ Len(buf) < 3 /\ r = Ok(c1, n)
           /\ (Len(buf) >= 2 /\ ~ParsePartialGreeting(buf) => Len(old) >= 2)
        \/ Len(buf) >= 3 /\ ~ParseGreeting(m, buf) /\ r = Err(c1, "GreetingError")
        \/ Len(buf) >= 3 /\ ParseGreeting(m, buf) /\ r = Ok(c2, n)
    <2>1. r = IF /\ Len(old) < GREETING_PARTIAL_LEN /\ Len(buf) >= GREETING_PARTIAL_LEN
                 /\ ~ParsePartialGreeting(buf)
              THEN Err(c1, "GreetingError")
              ELSE IF Len(buf) < GREETING_LEN THEN Ok(c1, n)
              ELSE IF ~ParseGreeting(m, buf) THEN Err(c1, "GreetingError")
              ELSE Ok(c2, n)
      BY DEF FeedGreeting
    <2>2. Len(buf) \in Nat
      BY <1>4
    <2> HIDE DEF buf, old, m, c1, c2, n
    <2> QED
      BY <1>1, <2>1, <2>2 DEF GREETING_LEN, GREETING_PARTIAL_LEN
  <1>6. /\ ~c.our_ready_sent /\ ~c.our_welcome_sent
        /\ c.pending_pong = <<>> /\ c.frame_decoder = NewDecoder
        /\ Len(u) <= Len(old)
        /\ ~rej => u = old
        /\ rej => BadGreeting(m, old)
    BY DEF FedInv, Greets
  <1>7. BadGreeting(m, old) => BadGreeting(m, buf)
    <2>1. ASSUME Len(old) >= 2, ~ParsePartialGreeting(old)
          PROVE  Len(buf) >= 2 /\ ~ParsePartialGreeting(buf)
      <3>1. Len(buf) >= 2 /\ buf[1] = old[1] /\ buf[2] = old[2]
        <4> HIDE DEF buf, old
        <4> QED
          BY <1>1, <1>2, <1>4, <2>1
      <3> HIDE DEF buf, old
      <3> QED
        BY <2>1, <3>1 DEF ParsePartialGreeting, GREETING_PARTIAL_LEN
    <2>2. ASSUME Len(old) >= 3 PROVE buf = old
      <3> HIDE DEF buf, old, n, y
      <3>1. Len(buf) = Len(old)
        BY <1>1, <1>2, <1>4, <2>2
      <3> QED
        BY <1>1, <1>4, <3>1
    <2> HIDE DEF buf, old
    <2> QED
      BY <2>1, <2>2 DEF BadGreeting, GREETING_LEN, GREETING_PARTIAL_LEN
  <1> DEFINE v == u \o y
  <1>8. v \in Seq(U) /\ Len(v) = Len(u) + n /\ Len(u) \in Nat /\ Len(v) <= Len(buf)
    <2>1. v \in Seq(U) /\ Len(v) = Len(u) + Len(y) /\ Len(u) \in Nat
      <3> HIDE DEF y
      <3> QED
        BY <1>3, ConcatFacts, Zenon
    <2> HIDE DEF v, buf, old, y, n
    <2> QED
      BY <1>1, <1>2, <1>3, <1>4, <1>6, <2>1
  <1>9. ~rej => v = buf
    BY <1>6
  <1>10. FramesIn(u) = <<>> /\ FramesIn(v) = <<>>
    <2> HIDE DEF v, buf, old, y, n
    <2>1. Len(u) < 5 /\ Len(v) < 5
      BY <1>1, <1>4, <1>6, <1>8
    <2> QED
      BY <1>8, <2>1, FramesInNone DEF GREETING_LEN, FRAME_LEN
  <1>11. /\ IsConn(c1, U) /\ c1.state = "Greeting" /\ c1.greeting_buf = buf
         /\ c1.mechanism = m /\ c1.frame_decoder = c.frame_decoder
         /\ c1.pending_pong = c.pending_pong
         /\ c1.our_ready_sent = c.our_ready_sent /\ c1.our_welcome_sent = c.our_welcome_sent
    <2> HIDE DEF buf
    <2> QED
      BY <1>4 DEF IsConn, ConnFields, GREETING_LEN
  <1>12. ASSUME NEW w, NEW q, Len(w) <= Len(buf), FramesIn(w) = <<>>,
                ~q => w = buf, q => BadGreeting(m, buf)
         PROVE  FedInv(c1, w, q, types)
    <2> HIDE DEF c1, buf, m, old
    <2> QED
      BY <1>1, <1>6, <1>11, <1>12
      DEF FedInv, Greets, Greeted, InStep, Received, Rejects, HandshakeFrames, Mechanisms
  <1>13. CASE r = Err(c1, "GreetingError") /\ BadGreeting(m, buf)
    <2>0. r.conn = c1 /\ r.res = "GreetingError"
      BY <1>13 DEF Err
    <2>1. r.conn = c1 /\ FedBy(u, x, r) = u /\ RejectedBy(c, rej, r) = TRUE
      BY <2>0, ErrFacts
    <2>2. Len(u) <= Len(buf)
      <3> HIDE DEF buf, old, n
      <3> QED
        BY <1>1, <1>2, <1>4, <1>6, <1>8
    <2> HIDE DEF c1, buf
    <2> QED
      BY <1>10, <1>11, <1>12, <1>13, <2>1, <2>2
  <1>14. CASE r = Ok(c1, n)
    <2>0. r.conn = c1 /\ r.res = "Ok" /\ r.n = n
      BY <1>14 DEF Ok
    <2>1. r.conn = c1 /\ FedBy(u, x, r) = v /\ RejectedBy(c, rej, r) = rej
      <3> HIDE DEF c1, n
      <3> QED
        BY <2>0, OkFacts
    <2> HIDE DEF c1, buf, v
    <2> QED
      BY <1>6, <1>7, <1>8, <1>9, <1>10, <1>11, <1>12, <2>1
  <1>15. CASE Len(buf) >= 3 /\ ParseGreeting(m, buf) /\ r = Ok(c2, n)
    <2>0. r.conn = c2 /\ r.res = "Ok" /\ r.n = n
      <3> HIDE DEF c2, n, buf, m
      <3> QED
        BY <1>15 DEF Ok
    <2>1. r.conn = c2 /\ FedBy(u, x, r) = v /\ RejectedBy(c, rej, r) = rej
      <3> HIDE DEF c2, n
      <3> QED
        BY <2>0, OkFacts
    <2>2. ~rej /\ v = buf /\ Len(v) = 3
      <3>1. ~BadGreeting(m, buf)
        BY <1>15 DEF BadGreeting, ParseGreeting
      <3>2. Len(buf) = 3
        <4> HIDE DEF buf, old
        <4> QED
          BY <1>1, <1>2, <1>4, <1>15
      <3> QED
        BY <1>6, <1>7, <1>9, <3>1, <3>2
    <2>3. SubSeq(v, 1, 3) = v
      <3> HIDE DEF v
      <3> QED
        BY <1>8, <2>2, WholeSeq
    <2>4. /\ IsConn(c2, U) /\ c2.greeting_buf = buf
          /\ c2.state = (IF c.our_greeting_sent THEN next ELSE "Greeting")
          /\ c2.mechanism = m /\ c2.frame_decoder = NewDecoder /\ c2.pending_pong = <<>>
          /\ ~c2.our_ready_sent /\ ~c2.our_welcome_sent
          /\ c2.our_greeting_sent = c.our_greeting_sent
      <3> HIDE DEF buf
      <3> QED
        BY <1>4, <1>6 DEF IsConn, ConnFields, GREETING_LEN, States
    <2>5. NewDecoder = Holding(<<>>) /\ NewDecoder # Poisoned /\ NewDecoder.got = <<>>
      BY DEF NewDecoder, Holding, Poisoned
    <2>6. FedInv(c2, v, rej, types)
      <3> HIDE DEF c2, v, buf, m
      <3>1. Greets(c2, v, rej)
        BY <1>8, <2>2, <2>4 DEF Greets
      <3>2. Greeted(c2, v)
        BY <1>15, <2>2, <2>3, <2>4 DEF Greeted, GREETING_LEN
      <3>3. InStep(c2, v)
        BY <1>10, <2>2, <2>4, <2>5 DEF InStep, GREETING_LEN, FRAME_LEN
      <3>4. Received(c2, v, types)
        BY <1>1, <1>10, <2>2, <2>4 DEF Received, HandshakeFrames, Mechanisms, m
      <3>5. Rejects(c2, rej)
        BY <2>2 DEF Rejects
      <3> QED
        BY <3>1, <3>2, <3>3, <3>4, <3>5 DEF FedInv
    <2> HIDE DEF c2, v
    <2> QED
      BY <1>8, <2>1, <2>4, <2>6, <2>2
  <1>16. \/ r = Err(c1, "GreetingError") /\ BadGreeting(m, buf)
         \/ r = Ok(c1, n)
         \/ Len(buf) >= 3 /\ ParseGreeting(m, buf) /\ r = Ok(c2, n)
    <2> HIDE DEF c1, c2, buf, m, n, old
    <2> QED
      BY <1>5 DEF BadGreeting, GREETING_LEN, GREETING_PARTIAL_LEN
  <1> QED
    BY <1>13, <1>14, <1>15, <1>16

\* The connection d is c with the decoder dec.
Redecoded(U, c, d, dec) ==
    /\ IsConn(d, U)
    /\ d.frame_decoder = dec
    /\ d.state = c.state
    /\ d.our_greeting_sent = c.our_greeting_sent
    /\ d.our_ready_sent = c.our_ready_sent
    /\ d.our_welcome_sent = c.our_welcome_sent
    /\ d.mechanism = c.mechanism
    /\ d.greeting_buf = c.greeting_buf
    /\ d.peer_version_minor = c.peer_version_minor
    /\ d.pending_pong = c.pending_pong

\* A connection of which only the decoder changed is a connection.
LEMMA RedecodedFacts ==
    ASSUME NEW U, NEW c, IsConn(c, U), NEW dec, IsDecoder(dec, U),
           NEW d, d = [c EXCEPT !.frame_decoder = dec]
    PROVE  Redecoded(U, c, d, dec)
  BY DEF Redecoded, IsConn, ConnFields

\* A feed for which the decoder does nothing keeps the invariant.
LEMMA IdlesInv ==
    ASSUME NEW U, NEW c, IsConn(c, U), NEW u \in Seq(U), NEW rej \in BOOLEAN, NEW types,
           FedInv(c, u, rej, types),
           NEW x \in Seq(U), NEW t, Idles(c, x, t)
    PROVE  /\ IsConn(t.conn, U) /\ FedBy(u, x, t) \in Seq(U)
           /\ FedInv(t.conn, FedBy(u, x, t), RejectedBy(c, rej, t), types)
  <1>1. Redecoded(U, c, t.conn, c.frame_decoder)
    BY RedecodedFacts DEF Idles, IsConn
  <1>2. t.res = "Ok" /\ t.n = 0
    BY DEF Idles
  <1>3. u \o SubSeq(x, 1, 0) = u
    <2>1. SubSeq(x, 1, 0) = <<>>
      OBVIOUS
    <2>2. u \o <<>> = u
      OBVIOUS
    <2> QED
      BY <2>1, <2>2, Zenon
  <1>4. FedBy(u, x, t) = u /\ RejectedBy(c, rej, t) = rej
    <2>1. FedBy(u, x, t) = u \o SubSeq(x, 1, t.n) /\ RejectedBy(c, rej, t) = rej
      BY <1>2, OkFacts, Zenon
    <2> QED
      BY <1>2, <1>3, <2>1, Zenon
  <1>5. FedInv(t.conn, u, rej, types)
    BY <1>1 DEF Redecoded, FedInv, Greets, Greeted, InStep, Received, Rejects
  <1> QED
    BY <1>1, <1>4, <1>5 DEF Redecoded

\* A feed for which the decoder fails keeps the invariant: the decoder is
\* poisoned for good, though the state is left as it was.
LEMMA SpoilsInv ==
    ASSUME NEW U, NEW c, IsConn(c, U), NEW u \in Seq(U), NEW rej \in BOOLEAN, NEW types,
           FedInv(c, u, rej, types), c.state \notin {"Greeting", "Failed"},
           NEW x \in Seq(U), NEW t, Spoils(c, x, t)
    PROVE  /\ IsConn(t.conn, U) /\ FedBy(u, x, t) \in Seq(U)
           /\ FedInv(t.conn, FedBy(u, x, t), RejectedBy(c, rej, t), types)
  <1>1. Redecoded(U, c, t.conn, Poisoned)
    BY RedecodedFacts DEF Spoils, IsConn, IsDecoder
  <1>2. t.res \notin {"Ok", "WrongState"}
    BY DEF Spoils
  <1> DEFINE q == IF c.state = "Established" THEN rej ELSE TRUE
  <1>3. FedBy(u, x, t) = u /\ RejectedBy(c, rej, t) = q
    BY <1>2, ErrFacts
  <1>4. FedInv(t.conn, u, q, types)
    BY <1>1 DEF Redecoded, FedInv, Greets, Greeted, InStep, Received, Rejects
  <1> QED
    BY <1>1, <1>3, <1>4 DEF Redecoded

\* A feed that ends within a frame keeps the invariant, and adds no frame.
LEMMA HalvesInv ==
    ASSUME NEW U, NEW c, IsConn(c, U), NEW u \in Seq(U), NEW rej \in BOOLEAN, NEW types,
           FedInv(c, u, rej, types), c.state \notin {"Greeting", "Failed"},
           NEW x \in Seq(U), NEW t, Halves(c, x, t)
    PROVE  /\ IsConn(t.conn, U) /\ FedBy(u, x, t) \in Seq(U)
           /\ FedInv(t.conn, FedBy(u, x, t), RejectedBy(c, rej, t), types)
           /\ FramesIn(FedBy(u, x, t)) = FramesIn(u)
  <1> DEFINE v == u \o x
             k == Len(FramesIn(u))
  <1>1. t.res = "Ok" /\ t.n = 1 /\ Len(x) = 1 /\ c.frame_decoder = Holding(<<>>)
    BY DEF Halves
  <1>2. Redecoded(U, c, t.conn, Holding(x))
    <2>1. IsDecoder(Holding(x), U)
      <3>1. Len(x) < FRAME_LEN
        BY <1>1 DEF FRAME_LEN
      <3> QED
        BY <3>1, Zenon DEF IsDecoder
    <2> QED
      BY <2>1, RedecodedFacts DEF Halves
  <1>3. FedBy(u, x, t) = v /\ RejectedBy(c, rej, t) = rej
    <2>1. FedBy(u, x, t) = u \o SubSeq(x, 1, t.n) /\ RejectedBy(c, rej, t) = rej
      BY <1>1, OkFacts, Zenon
    <2>2. SubSeq(x, 1, 1) = x
      BY <1>1, WholeSeq
    <2> QED
      BY <1>1, <2>1, <2>2, Zenon
  <1>4. /\ Poisoned # Holding(<<>>) /\ Poisoned # Holding(x)
        /\ Holding(x).got = x /\ Holding(<<>>).got = <<>>
    BY DEF Holding, Poisoned
  <1>5. Len(u) = GREETING_LEN + FRAME_LEN * k
    <2>1. Len(u) = 3 + 2 * k + Len(<<>>)
      BY <1>1, <1>4 DEF FedInv, InStep, GREETING_LEN, FRAME_LEN
    <2>2. k \in Nat
      BY FramesInType
    <2> HIDE DEF k
    <2> QED
      BY <2>1, <2>2 DEF GREETING_LEN, FRAME_LEN
  <1>6. k \in Nat
    BY FramesInType
  <1>7. x[1] \in U /\ v = Append(u, x[1])
    BY <1>1, ConcatSingle
  <1>8. FramesIn(v) = FramesIn(u)
    <2> HIDE DEF k, v
    <2> QED
      BY <1>5, <1>6, <1>7, FramesInHalf
  <1>9. v \in Seq(U) /\ Len(v) = Len(u) + 1 /\ v[Len(u) + 1] = x[1] /\ Len(u) \in Nat
        /\ \A i \in 1 .. Len(u) : v[i] = u[i]
    BY <1>7
  <1>10. Len(u) >= 3 /\ SubSeq(v, 1, GREETING_LEN) = SubSeq(u, 1, GREETING_LEN)
    <2>1. Len(u) >= 3
      BY DEF FedInv, Greeted, GREETING_LEN
    <2> HIDE DEF v
    <2> QED
      BY <1>9, <2>1 DEF GREETING_LEN
  <1>11. FedInv(t.conn, v, rej, types)
    <2> HIDE DEF v
    <2>1. Greets(t.conn, v, rej)
      BY <1>2 DEF Redecoded, Greets
    <2>2. Greeted(t.conn, v)
      <3>1. Len(v) >= GREETING_LEN
        BY <1>9, <1>10 DEF GREETING_LEN
      <3> QED
        BY <1>2, <1>10, <3>1 DEF Redecoded, FedInv, Greeted
    <2>3. InStep(t.conn, v)
      <3>1. Len(v) = GREETING_LEN + FRAME_LEN * Len(FramesIn(v)) + Len(x)
        BY <1>1, <1>5, <1>6, <1>8, <1>9 DEF GREETING_LEN, FRAME_LEN
      <3>2. x[1] = v[Len(v)]
        BY <1>9
      <3> QED
        BY <1>2, <1>4, <3>1, <3>2 DEF Redecoded, InStep
    <2>4. Received(t.conn, v, types)
      BY <1>2, <1>8 DEF Redecoded, FedInv, Received, HelloIn
    <2>5. Rejects(t.conn, rej)
      BY <1>1, <1>2, <1>4 DEF Redecoded, FedInv, Rejects
    <2> QED
      BY <2>1, <2>2, <2>3, <2>4, <2>5 DEF FedInv
  <1> QED
    BY <1>2, <1>3, <1>8, <1>9, <1>11 DEF Redecoded

\* A connection e that feed makes of c by handling a frame, in state st.
Handled(U, c, e, st) ==
    /\ IsConn(e, U)
    /\ e.frame_decoder = Holding(<<>>)
    /\ e.state = st
    /\ e.our_greeting_sent = c.our_greeting_sent
    /\ e.our_ready_sent = c.our_ready_sent
    /\ e.our_welcome_sent = c.our_welcome_sent
    /\ e.mechanism = c.mechanism
    /\ e.greeting_buf = c.greeting_buf
    /\ e.peer_version_minor = c.peer_version_minor

\* d is c in the state st.
Restated(c, d, st) == d = [c EXCEPT !.state = st]

\* Nothing is owed before the handshake is over.
NoEarlyPong(e) == e.state # "Established" => e.pending_pong = <<>>

\* In the handshake, the frame f takes the connection on to state st.
Advances(c, f, st, types) ==
    \/ c.state = "PlainHello" /\ st = "PlainReady" /\ f.kind = "HELLO" /\ f.arg \in Accepted
    \/ /\ c.state \in {"Ready", "PlainReady"} /\ st = "Established"
       /\ c.our_ready_sent /\ f.kind = "READY" /\ f.arg \in types
    \/ c.state = "Established" /\ st = "Established"

\* A feed that completes a frame and handles it as the state demands keeps
\* the invariant.
LEMMA HandledInv ==
    ASSUME NEW U, NEW c, IsConn(c, U), NEW u \in Seq(U), NEW rej \in BOOLEAN, NEW types,
           FedInv(c, u, rej, types), c.frame_decoder # Poisoned,
           NEW f, NEW st, Advances(c, f, st, types),
           NEW v, MoreFrames(U, u, v, f),
           NEW e, Handled(U, c, e, st), NoEarlyPong(e)
    PROVE  FedInv(e, v, rej, types)
  <1>1. c.state \in {"PlainHello", "Ready", "PlainReady", "Established"}
        /\ st \in {"PlainReady", "Established"}
    BY DEF Advances
  <1>2. ~rej
    BY <1>1 DEF FedInv, Rejects
  <1>3. Holding(<<>>).got = <<>>
    BY DEF Holding
  <1>4. Len(u) >= GREETING_LEN /\ Len(u) \in Nat /\ Len(FramesIn(u)) \in Nat
    BY <1>1, FramesInType DEF FedInv, Greeted
  <1>5. Greets(e, v, rej)
    BY <1>1 DEF Handled, Greets
  <1>6. Greeted(e, v)
    <2>1. Len(v) >= GREETING_LEN
      BY <1>4 DEF MoreFrames, GREETING_LEN, FRAME_LEN
    <2> QED
      BY <1>1, <2>1 DEF Handled, FedInv, Greeted, MoreFrames
  <1>7. InStep(e, v)
    <2>1. Len(v) = GREETING_LEN + FRAME_LEN * Len(FramesIn(v)) + Len(<<>>)
      BY <1>4 DEF MoreFrames, GREETING_LEN, FRAME_LEN
    <2> QED
      BY <1>3, <2>1 DEF Handled, InStep
  <1>8. Received(e, v, types)
    <2> DEFINE a == FramesIn(u)
               b == FramesIn(v)
    <2>1. /\ a \in Seq(FramesOf(U)) /\ f \in FramesOf(U) /\ b = Append(a, f)
          /\ Len(b) = Len(a) + 1 /\ Len(a) \in Nat
      BY FramesInType DEF MoreFrames
    <2>2. (\A i \in 1 .. Len(a) : b[i] = a[i]) /\ b[Len(a) + 1] = f
      <3> HIDE DEF a, b
      <3> QED
        BY <2>1
    <2>3. HelloIn(u) => HelloIn(v)
      <3>1. a # <<>> => 1 \in 1 .. Len(a)
        BY <2>1
      <3>2. b # <<>>
        BY <2>1
      <3> QED
        BY <2>2, <3>1, <3>2 DEF HelloIn
    <2>4. Received(c, u, types)
      BY DEF FedInv
    <2>5. CASE c.state = "PlainHello"
      <3>1. st = "PlainReady" /\ f.kind = "HELLO" /\ f.arg \in Accepted /\ Len(a) = 0
        BY <2>4, <2>5 DEF Advances, Received
      <3>2. b # <<>> /\ b[1] = f /\ Len(b) = 1
        <4> HIDE DEF a, b
        <4>1. b[1] = f /\ Len(b) = 1
          BY <2>1, <2>2, <3>1
        <4>2. Len(b) # Len(<<>>)
          BY <4>1
        <4> QED
          BY <4>1, <4>2, Zenon
      <3>3. HelloIn(v)
        BY <3>1, <3>2 DEF HelloIn
      <3> QED
        BY <2>4, <2>5, <3>1, <3>2, <3>3 DEF Received, Handled, HandshakeFrames, NoEarlyPong
    <2>6. CASE c.state = "Ready"
      <3>1. st = "Established" /\ c.our_ready_sent /\ f.kind = "READY" /\ f.arg \in types
        BY <2>6 DEF Advances
      <3>2. c.mechanism = "Null" /\ ~c.our_welcome_sent /\ Len(a) < 1
        BY <2>4, <2>6 DEF Received, HandshakeFrames
      <3>3. b[1] = f /\ Len(b) = 1
        BY <2>1, <2>2, <3>2
      <3> QED
        BY <3>1, <3>2, <3>3 DEF Received, Handled, HandshakeFrames
    <2>7. CASE c.state = "PlainReady"
      <3>1. st = "Established" /\ c.our_ready_sent /\ f.kind = "READY" /\ f.arg \in types
        BY <2>7 DEF Advances
      <3>2. c.mechanism = "Plain" /\ HelloIn(v) /\ Len(a) = 1 /\ c.our_welcome_sent
        BY <2>3, <2>4, <2>7, <3>1 DEF Received
      <3>3. b[2] = f /\ Len(b) = 2
        BY <2>1, <2>2, <3>2
      <3> QED
        BY <3>1, <3>2, <3>3 DEF Received, Handled, HandshakeFrames
    <2>8. CASE c.state = "Established"
      <3> DEFINE at == HandshakeFrames(c.mechanism)
      <3>1. at = 1 \/ at = 2
        BY DEF HandshakeFrames
      <3>2. Len(a) >= at /\ a[at].kind = "READY" /\ a[at].arg \in types
        BY <2>4, <2>8 DEF Received
      <3>3. at \in 1 .. Len(a) /\ Len(b) >= at
        <4> HIDE DEF at, a, b
        <4> QED
          BY <2>1, <3>1, <3>2
      <3>4. b[at] = a[at]
        BY <2>2, <3>3
      <3>5. st = "Established"
        BY <2>8 DEF Advances
      <3> QED
        BY <2>3, <2>4, <2>8, <3>2, <3>3, <3>4, <3>5 DEF Received, Handled
    <2> QED
      BY <1>1, <2>5, <2>6, <2>7, <2>8
  <1>9. Rejects(e, rej)
    BY <1>2 DEF Rejects
  <1> QED
    BY <1>5, <1>6, <1>7, <1>8, <1>9 DEF FedInv

\* A frame of the handshake that is not what is due ends it.
LEMMA FailedInv ==
    ASSUME NEW U, NEW c, IsConn(c, U), NEW u \in Seq(U), NEW rej \in BOOLEAN, NEW types,
           FedInv(c, u, rej, types), c.state \notin {"Greeting", "Established"},
           NEW e, Handled(U, c, e, "Failed"), e.pending_pong = c.pending_pong
    PROVE  FedInv(e, u, TRUE, types)
  BY DEF FedInv, Handled, Greets, Greeted, InStep, Received, Rejects

-----------------------------------------------------------------------------
(* What feed does, but for the table *)

\* The frame is the next one of the handshake.
TakesStep(c, t, r, types) ==
    /\ c.state # "Established"
    /\ r.res = "Ok" /\ r.n = t.n
    /\ \E st \in {"PlainReady", "Established"} :
          Advances(c, t.frame, st, types) /\ Restated(t.conn, r.conn, st)

\* It is not.
EndsHere(c, t, r) ==
    /\ c.state # "Established"
    /\ r.res \notin {"Ok", "WrongState"}
    /\ Restated(t.conn, r.conn, "Failed")

\* The handshake is over.  The frame may change the table.
Applies(U, c, t, r) ==
    /\ c.state = "Established"
    /\ r.res = "Ok" /\ r.n = t.n
    /\ Handled(U, c, r.conn, "Established")
    /\ r.conn.pending_pong =
          IF t.frame.kind = "PING" /\ c.peer_version_minor >= 1
          THEN <<PingContext(t.frame)>> ELSE c.pending_pong

FeedsTo(U, c, x, r, types) ==
    \/ r.res = "WrongState" /\ r.conn = c /\ c.state # "Established"
    \/ c.state = "Greeting" /\ r = FeedGreeting(c, x)
    \/ /\ c.state \notin {"Greeting", "Failed"}
       /\ \E t \in {TakeFrame(c, x)} :
             \/ r = t /\ (Idles(c, x, t) \/ Halves(c, x, t) \/ Spoils(c, x, t))
             \/ /\ \E g \in Seq(U) : Len(g) < FRAME_LEN /\ Completes(c, x, t, g)
                /\ TakesStep(c, t, r, types) \/ EndsHere(c, t, r) \/ Applies(U, c, t, r)

\* A frame that is applied.
FrameTaken(c, x) == c.state = "Established" /\ TakeFrame(c, x).res = "Some"

\* A handler of the handshake sets the state and nothing else.
LEMMA HandledFacts ==
    ASSUME NEW U, NEW c, NEW d, Redecoded(U, c, d, Holding(<<>>)),
           NEW st \in States, NEW e, Restated(d, e, st)
    PROVE  Handled(U, c, e, st) /\ e.pending_pong = c.pending_pong
  <1>1. Handled(U, c, e, st)
    BY DEF Restated, Redecoded, Handled, IsConn, ConnFields
  <1>2. e.pending_pong = c.pending_pong
    BY DEF Restated, Redecoded, IsConn, ConnFields
  <1> QED
    BY <1>1, <1>2

\* A decoder that completes a frame was not poisoned and is empty then.
LEMMA CompletesFacts ==
    ASSUME NEW U, NEW c, IsConn(c, U), NEW x, NEW t, NEW g, Completes(c, x, t, g)
    PROVE  c.frame_decoder # Poisoned /\ Redecoded(U, c, t.conn, Holding(<<>>))
  <1>1. c.frame_decoder = Holding(g) /\ t.conn = [c EXCEPT !.frame_decoder = Holding(<<>>)]
    BY DEF Completes
  <1>2. Holding(g) # Poisoned
    BY DEF Holding, Poisoned
  <1>3. IsDecoder(Holding(<<>>), U)
    <2>1. <<>> \in Seq(U) /\ Len(<<>>) < FRAME_LEN
      BY DEF FRAME_LEN
    <2> QED
      BY <2>1, Zenon DEF IsDecoder
  <1> QED
    BY <1>1, <1>2, <1>3, RedecodedFacts

\* feed keeps what is known of the connection.
LEMMA FeedInv ==
    ASSUME NEW U, NEW c, IsConn(c, U), NEW u \in Seq(U), NEW rej \in BOOLEAN, NEW types,
           FedInv(c, u, rej, types), NEW x \in Seq(U), NEW r, FeedsTo(U, c, x, r, types)
    PROVE  /\ IsConn(r.conn, U) /\ FedBy(u, x, r) \in Seq(U)
           /\ FedInv(r.conn, FedBy(u, x, r), RejectedBy(c, rej, r), types)
  <1>1. CASE r.res = "WrongState" /\ r.conn = c
    <2>1. FedBy(u, x, r) = u /\ RejectedBy(c, rej, r) = rej
      BY <1>1 DEF FedBy, RejectedBy
    <2> QED
      BY <1>1, <2>1
  <1>2. CASE c.state = "Greeting" /\ r = FeedGreeting(c, x)
    BY <1>2, FeedGreetingInv
  <1>3. CASE c.state \notin {"Greeting", "Failed"} /\ Idles(c, x, r)
    BY <1>3, IdlesInv
  <1>4. CASE c.state \notin {"Greeting", "Failed"} /\ Halves(c, x, r)
    BY <1>4, HalvesInv
  <1>5. CASE c.state \notin {"Greeting", "Failed"} /\ Spoils(c, x, r)
    BY <1>5, SpoilsInv
  <1>6. ASSUME NEW g \in Seq(U), NEW t, c.state \notin {"Greeting", "Failed"},
               Len(g) < FRAME_LEN, Completes(c, x, t, g),
               TakesStep(c, t, r, types) \/ EndsHere(c, t, r) \/ Applies(U, c, t, r)
        PROVE  /\ IsConn(r.conn, U) /\ FedBy(u, x, r) \in Seq(U)
               /\ FedInv(r.conn, FedBy(u, x, r), RejectedBy(c, rej, r), types)
    <2> DEFINE v == u \o SubSeq(x, 1, t.n)
    <2>1. MoreFrames(U, u, v, t.frame)
      BY <1>6, FrameFed DEF FedInv
    <2>2. c.frame_decoder # Poisoned /\ Redecoded(U, c, t.conn, Holding(<<>>))
      BY <1>6, CompletesFacts
    <2>3. CASE r.res = "Ok" /\ r.n = t.n
      <3>1. FedBy(u, x, r) = v /\ RejectedBy(c, rej, r) = rej
        BY <2>3, OkFacts
      <3>2. v \in Seq(U)
        BY <2>1 DEF MoreFrames
      <3>3. CASE TakesStep(c, t, r, types)
        <4>1. PICK st \in {"PlainReady", "Established"} :
                 Advances(c, t.frame, st, types) /\ Restated(t.conn, r.conn, st)
          BY <3>3 DEF TakesStep
        <4>2. st \in States
          BY DEF States
        <4>3. Handled(U, c, r.conn, st) /\ r.conn.pending_pong = c.pending_pong
          BY <2>2, <4>1, <4>2, HandledFacts
        <4>4. NoEarlyPong(r.conn)
          BY <3>3, <4>3 DEF TakesStep, FedInv, Received, NoEarlyPong
        <4>5. FedInv(r.conn, v, rej, types)
          <5> HIDE DEF v
          <5> QED
            BY <2>1, <2>2, <4>1, <4>3, <4>4, HandledInv
        <4> QED
          BY <3>1, <3>2, <4>3, <4>5 DEF Handled
      <3>4. CASE Applies(U, c, t, r)
        <4>1. /\ Handled(U, c, r.conn, "Established") /\ NoEarlyPong(r.conn)
              /\ Advances(c, t.frame, "Established", types)
          BY <3>4 DEF Applies, Advances, Handled, NoEarlyPong
        <4>2. FedInv(r.conn, v, rej, types)
          <5> HIDE DEF v
          <5> QED
            BY <2>1, <2>2, <4>1, HandledInv
        <4> QED
          BY <3>1, <3>2, <4>1, <4>2 DEF Handled
      <3> QED
        BY <1>6, <2>3, <3>3, <3>4 DEF EndsHere
    <2>4. CASE EndsHere(c, t, r)
      <3>1. FedBy(u, x, r) = u /\ RejectedBy(c, rej, r) = TRUE
        BY <2>4, ErrFacts DEF EndsHere
      <3>2. Handled(U, c, r.conn, "Failed") /\ r.conn.pending_pong = c.pending_pong
        BY <2>2, <2>4, HandledFacts DEF EndsHere, States
      <3>3. FedInv(r.conn, u, TRUE, types)
        BY <1>6, <2>4, <3>2, FailedInv DEF EndsHere
      <3> QED
        BY <3>1, <3>2, <3>3 DEF Handled
    <2> QED
      BY <1>6, <2>3, <2>4 DEF TakesStep, Applies
  <1> QED
    BY <1>1, <1>2, <1>3, <1>4, <1>5, <1>6 DEF FeedsTo

-----------------------------------------------------------------------------
(* What feed leaves as it is, and what it means for the PONGs *)

\* What has been said is not affected, and an established connection is not lost.
KeepsFlags(c, d) ==
    /\ d.our_greeting_sent = c.our_greeting_sent
    /\ d.our_ready_sent = c.our_ready_sent
    /\ d.our_welcome_sent = c.our_welcome_sent
    /\ d.mechanism = c.mechanism
    /\ c.state = "Established" => d.state = "Established"

\* feed leaves the mechanism and what we have sent as they are.
LEMMA FeedKeepsFlags ==
    ASSUME NEW U, NEW c, IsConn(c, U), NEW types, NEW x \in Seq(U), NEW r,
           FeedsTo(U, c, x, r, types)
    PROVE  KeepsFlags(c, r.conn)
  <1>1. CASE r.conn = c
    BY <1>1 DEF KeepsFlags
  <1>2. CASE c.state = "Greeting" /\ r = FeedGreeting(c, x)
    BY <1>2 DEF FeedGreeting, Ok, Err, KeepsFlags, IsConn, ConnFields
  <1>3. ASSUME NEW dec, r.conn = [c EXCEPT !.frame_decoder = dec] PROVE KeepsFlags(c, r.conn)
    BY <1>3 DEF KeepsFlags, IsConn, ConnFields
  <1>4. ASSUME NEW st, Handled(U, c, r.conn, st), c.state = "Established" => st = "Established"
        PROVE  KeepsFlags(c, r.conn)
    BY <1>4 DEF Handled, KeepsFlags
  <1>5. CASE Idles(c, x, r) \/ Halves(c, x, r) \/ Spoils(c, x, r)
    BY <1>3, <1>5 DEF Idles, Halves, Spoils
  <1>6. ASSUME NEW g \in Seq(U), NEW t, Completes(c, x, t, g),
               TakesStep(c, t, r, types) \/ EndsHere(c, t, r) \/ Applies(U, c, t, r)
        PROVE  KeepsFlags(c, r.conn)
    <2>1. Redecoded(U, c, t.conn, Holding(<<>>))
      BY <1>6, CompletesFacts
    <2>2. CASE TakesStep(c, t, r, types)
      <3>1. PICK st \in {"PlainReady", "Established"} : Restated(t.conn, r.conn, st)
        BY <2>2 DEF TakesStep
      <3>2. st \in States /\ c.state # "Established"
        BY <2>2 DEF TakesStep, States
      <3> QED
        BY <1>4, <2>1, <3>1, <3>2, HandledFacts
    <2>3. CASE EndsHere(c, t, r)
      <3>1. "Failed" \in States /\ c.state # "Established" /\ Restated(t.conn, r.conn, "Failed")
        BY <2>3 DEF EndsHere, States
      <3> QED
        BY <1>4, <2>1, <3>1, HandledFacts
    <2>4. CASE Applies(U, c, t, r)
      BY <1>4, <2>4 DEF Applies
    <2> QED
      BY <1>6, <2>2, <2>3, <2>4
  <1> QED
    BY <1>1, <1>2, <1>5, <1>6 DEF FeedsTo

\* feed keeps what the connection remembers to have sent true.
LEMMA FeedSentInv ==
    ASSUME NEW U, NEW c, IsConn(c, U), NEW types, NEW x \in Seq(U), NEW r,
           FeedsTo(U, c, x, r, types), NEW s, SentInv(c, s)
    PROVE  SentInv(r.conn, s)
  <1>1. KeepsFlags(c, r.conn)
    BY FeedKeepsFlags
  <1> QED
    BY <1>1 DEF KeepsFlags, SentInv, Said

\* Before the handshake is over there is no traffic; then every frame is.
LEMMA TrafficNone ==
    ASSUME NEW U, NEW u \in Seq(U), NEW m, Len(FramesIn(u)) <= HandshakeFrames(m)
    PROVE  TrafficIn(m, u) = <<>>
  <1> DEFINE fs == FramesIn(u)
             h  == HandshakeFrames(m)
  <1>1. fs \in Seq(FramesOf(U)) /\ h \in Nat /\ Len(fs) \in Nat /\ Len(fs) < h + 1
    BY FramesInType DEF HandshakeFrames
  <1>2. TrafficIn(m, u) = SubSeq(fs, h + 1, Len(fs))
    BY DEF TrafficIn
  <1> HIDE DEF fs, h
  <1> QED
    BY <1>1, <1>2

\* After the handshake, one more frame is one more frame of the traffic.
LEMMA TrafficFed ==
    ASSUME NEW U, NEW u \in Seq(U), NEW v, NEW f, MoreFrames(U, u, v, f), NEW m,
           Len(FramesIn(u)) >= HandshakeFrames(m)
    PROVE  /\ TrafficIn(m, u) \in Seq(FramesOf(U)) /\ f \in FramesOf(U)
           /\ TrafficIn(m, v) = Append(TrafficIn(m, u), f)
  <1> DEFINE fs == FramesIn(u)
             gs == FramesIn(v)
             h  == HandshakeFrames(m)
  <1>1. fs \in Seq(FramesOf(U)) /\ f \in FramesOf(U) /\ h \in Nat /\ h <= Len(fs)
    BY FramesInType DEF HandshakeFrames, MoreFrames
  <1>2. gs = Append(fs, f)
    BY DEF MoreFrames
  <1>3. TrafficIn(m, u) = SubSeq(fs, h + 1, Len(fs)) /\ TrafficIn(m, v) = SubSeq(gs, h + 1, Len(gs))
    BY DEF TrafficIn
  <1> HIDE DEF fs, gs, h
  <1>4. SubSeq(fs, h + 1, Len(fs)) \in Seq(FramesOf(U))
    BY <1>1
  <1>5. SubSeq(Append(fs, f), h + 1, Len(Append(fs, f))) = Append(SubSeq(fs, h + 1, Len(fs)), f)
    BY <1>1, TrafficMore
  <1> QED
    BY <1>1, <1>2, <1>3, <1>4, <1>5

-----------------------------------------------------------------------------
(* Subsequences *)

\* A subsequence stays one when the longer sequence grows.
LEMMA SubseqMore ==
    ASSUME NEW T, NEW s \in Seq(T), NEW t \in Seq(T), NEW x \in T, IsSubsequence(s, t)
    PROVE  IsSubsequence(s, Append(t, x))
  <1> DEFINE w == Append(t, x)
  <1>1. PICK at \in [DOMAIN s -> DOMAIN t] :
            /\ \A i, j \in DOMAIN s : i < j => at[i] < at[j]
            /\ \A i \in DOMAIN s : s[i] = t[at[i]]
    BY DEF IsSubsequence
  <1>2. DOMAIN t \subseteq DOMAIN w /\ \A i \in DOMAIN t : w[i] = t[i]
    OBVIOUS
  <1> HIDE DEF w
  <1>3. at \in [DOMAIN s -> DOMAIN w] /\ \A i \in DOMAIN s : s[i] = w[at[i]]
    BY <1>1, <1>2
  <1>4. IsSubsequence(s, w)
    BY <1>1, <1>3 DEF IsSubsequence
  <1> QED
    BY <1>4 DEF w

\* A subsequence stays one when the same element is added to both.
LEMMA SubseqBoth ==
    ASSUME NEW T, NEW s \in Seq(T), NEW t \in Seq(T), NEW x \in T, IsSubsequence(s, t)
    PROVE  IsSubsequence(Append(s, x), Append(t, x))
  <1> DEFINE v == Append(s, x)
             w == Append(t, x)
             n == Len(s)
             m == Len(t)
  <1>1. PICK at \in [DOMAIN s -> DOMAIN t] :
            /\ \A i, j \in DOMAIN s : i < j => at[i] < at[j]
            /\ \A i \in DOMAIN s : s[i] = t[at[i]]
    BY DEF IsSubsequence
  <1>2. /\ n \in Nat /\ m \in Nat /\ DOMAIN s = 1 .. n /\ DOMAIN t = 1 .. m
        /\ DOMAIN v = 1 .. n + 1 /\ DOMAIN w = 1 .. m + 1
        /\ \A i \in 1 .. n : v[i] = s[i]
        /\ \A i \in 1 .. m : w[i] = t[i]
        /\ v[n + 1] = x /\ w[m + 1] = x
    OBVIOUS
  <1> HIDE DEF v, w, n, m
  <1> DEFINE to == [i \in 1 .. n + 1 |-> IF i = n + 1 THEN m + 1 ELSE at[i]]
  <1>3. \A i \in 1 .. n : at[i] \in 1 .. m
    BY <1>1, <1>2
  <1>4. /\ to \in [1 .. n + 1 -> 1 .. m + 1]
        /\ \A i \in 1 .. n : to[i] = at[i]
        /\ to[n + 1] = m + 1
    BY <1>2, <1>3
  <1> HIDE DEF to
  <1>5. ASSUME NEW i \in 1 .. n + 1, NEW j \in 1 .. n + 1, i < j PROVE to[i] < to[j]
    <2>1. i \in 1 .. n /\ to[i] = at[i] /\ at[i] \in 1 .. m
      BY <1>2, <1>3, <1>4, <1>5
    <2>2. CASE j = n + 1
      BY <1>2, <1>4, <2>1, <2>2
    <2>3. CASE j # n + 1
      <3>1. j \in 1 .. n /\ to[j] = at[j]
        BY <1>2, <1>4, <2>3
      <3> QED
        BY <1>1, <1>2, <1>5, <2>1, <3>1
    <2> QED
      BY <2>2, <2>3
  <1>6. ASSUME NEW i \in 1 .. n + 1 PROVE v[i] = w[to[i]]
    <2>1. CASE i = n + 1
      BY <1>2, <1>4, <2>1
    <2>2. CASE i # n + 1
      <3>1. i \in 1 .. n
        BY <1>2, <2>2
      <3>2. v[i] = s[i] /\ to[i] = at[i] /\ at[i] \in 1 .. m
        BY <1>2, <1>3, <1>4, <3>1
      <3>3. s[i] = t[at[i]] /\ w[at[i]] = t[at[i]]
        BY <1>1, <1>2, <3>1, <3>2
      <3> QED
        BY <3>2, <3>3
    <2> QED
      BY <2>1, <2>2
  <1>7. IsSubsequence(v, w)
    BY <1>2, <1>4, <1>5, <1>6, ZenonT(60) DEF IsSubsequence
  <1> QED
    BY <1>7 DEF v, w

\* Without its last element a subsequence is one.
LEMMA SubseqLess ==
    ASSUME NEW T, NEW s \in Seq(T), NEW t \in Seq(T), NEW x \in T, IsSubsequence(Append(s, x), t)
    PROVE  IsSubsequence(s, t)
  <1> DEFINE v == Append(s, x)
  <1>1. PICK at \in [DOMAIN v -> DOMAIN t] :
            /\ \A i, j \in DOMAIN v : i < j => at[i] < at[j]
            /\ \A i \in DOMAIN v : v[i] = t[at[i]]
    BY DEF IsSubsequence
  <1>2. DOMAIN s \subseteq DOMAIN v /\ \A i \in DOMAIN s : v[i] = s[i]
    OBVIOUS
  <1> HIDE DEF v
  <1> DEFINE to == [i \in DOMAIN s |-> at[i]]
  <1>3. to \in [DOMAIN s -> DOMAIN t] /\ \A i \in DOMAIN s : to[i] = at[i]
    BY <1>1, <1>2
  <1> HIDE DEF to
  <1>4. \A i, j \in DOMAIN s : i < j => to[i] < to[j]
    BY <1>1, <1>2, <1>3
  <1>5. \A i \in DOMAIN s : s[i] = t[to[i]]
    BY <1>1, <1>2, <1>3
  <1> QED
    BY <1>3, <1>4, <1>5 DEF IsSubsequence

\* The empty sequence is a subsequence of every other.
LEMMA SubseqNone == \A t : IsSubsequence(<<>>, t)
  <1> SUFFICES ASSUME NEW t PROVE IsSubsequence(<<>>, t)
    OBVIOUS
  <1> DEFINE at == [i \in DOMAIN <<>> |-> 1]
  <1>1. DOMAIN <<>> = {}
    OBVIOUS
  <1>2. at \in [DOMAIN <<>> -> DOMAIN t]
    BY <1>1
  <1> QED
    BY <1>1, <1>2 DEF IsSubsequence

-----------------------------------------------------------------------------
(* PINGs and PONGs *)

\* The contexts of PONGs are those of items.
LEMMA PongsInType ==
    ASSUME NEW T, NEW s \in Seq(T)
    PROVE  PongsIn(s) \in Seq({e.arg[1] : e \in T})
  <1> DEFINE ps == ItemsOf({"PONG"}, s)
  <1>1. ps \in Seq(T)
    BY ItemsOfType
  <1>2. PongsIn(s) = [k \in DOMAIN ps |-> ps[k].arg[1]]
    BY DEF PongsIn
  <1> HIDE DEF ps
  <1> QED
    BY <1>1, <1>2

\* The contexts of PINGs are those of frames.
LEMMA PingsInType ==
    ASSUME NEW T, NEW fs \in Seq(T)
    PROVE  PingsIn(fs) \in Seq({PingContext(f) : f \in T})
  <1> DEFINE S == {i \in DOMAIN fs : fs[i].kind = "PING"}
             ps == ElementsAt(fs, S)
  <1>1. S \subseteq DOMAIN fs
    OBVIOUS
  <1>2. ps \in Seq(T)
    <2> HIDE DEF S
    <2> QED
      BY <1>1, ElementsAtType
  <1>3. PingsIn(fs) = [k \in DOMAIN ps |-> PingContext(ps[k])]
    BY DEF PingsIn
  <1> HIDE DEF ps
  <1> QED
    BY <1>2, <1>3

\* feed leaves the traffic as it is, or takes one frame more and applies it.
LEMMA FeedTraffic ==
    ASSUME NEW U, NEW c, IsConn(c, U), NEW u \in Seq(U), NEW rej \in BOOLEAN, NEW types,
           FedInv(c, u, rej, types), NEW x \in Seq(U), NEW r, FeedsTo(U, c, x, r, types),
           NEW m, m = c.mechanism
    PROVE  \/ /\ ~FrameTaken(c, x)
              /\ TrafficIn(m, FedBy(u, x, r)) = TrafficIn(m, u)
              /\ r.conn.pending_pong = c.pending_pong
              /\ \/ r.conn.peer_version_minor = c.peer_version_minor
                 \/ TrafficIn(m, u) = <<>>
           \/ /\ FrameTaken(c, x)
              /\ Applies(U, c, TakeFrame(c, x), r)
              /\ TrafficIn(m, u) \in Seq(FramesOf(U)) /\ TakeFrame(c, x).frame \in FramesOf(U)
              /\ TrafficIn(m, FedBy(u, x, r)) = Append(TrafficIn(m, u), TakeFrame(c, x).frame)
  <1> DEFINE v == FedBy(u, x, r)
             t == TakeFrame(c, x)
  <1>1. /\ IsConn(r.conn, U) /\ v \in Seq(U) /\ FedInv(r.conn, v, RejectedBy(c, rej, r), types)
        /\ r.conn.mechanism = m
    BY FeedInv, FeedKeepsFlags DEF KeepsFlags
  <1>2. ASSUME c.state # "Established" PROVE TrafficIn(m, u) = <<>> /\ ~FrameTaken(c, x)
    <2>1. Len(FramesIn(u)) < HandshakeFrames(m)
      BY <1>2 DEF FedInv, Received
    <2>2. Len(FramesIn(u)) <= HandshakeFrames(m)
      BY <2>1, FramesInType DEF HandshakeFrames
    <2> QED
      BY <1>2, <2>2, TrafficNone DEF FrameTaken
  <1>3. CASE r.res = "WrongState" /\ r.conn = c /\ c.state # "Established"
    <2>1. v = u
      BY <1>3 DEF FedBy
    <2> QED
      BY <1>2, <1>3, <2>1
  <1>4. CASE c.state = "Greeting" /\ r = FeedGreeting(c, x)
    <2>1. r.conn.state # "Established" /\ r.conn.pending_pong = c.pending_pong
      BY <1>4 DEF FeedGreeting, Ok, Err, IsConn, ConnFields
    <2>2. Len(FramesIn(v)) < HandshakeFrames(m)
      BY <1>1, <2>1 DEF FedInv, Received
    <2>3. Len(FramesIn(v)) <= HandshakeFrames(m)
      BY <1>1, <2>2, FramesInType DEF HandshakeFrames
    <2>4. TrafficIn(m, v) = <<>>
      <3> HIDE DEF v
      <3> QED
        BY <1>1, <2>3, TrafficNone
    <2> QED
      BY <1>2, <1>4, <2>1, <2>4
  <1>5. ASSUME r = t, Idles(c, x, t) \/ Halves(c, x, t) \/ Spoils(c, x, t),
               c.state \notin {"Greeting", "Failed"}
        PROVE  /\ ~FrameTaken(c, x) /\ TrafficIn(m, v) = TrafficIn(m, u)
               /\ r.conn.pending_pong = c.pending_pong
               /\ r.conn.peer_version_minor = c.peer_version_minor
    <2>1. ~FrameTaken(c, x)
      BY <1>5 DEF FrameTaken, Idles, Halves, Spoils
    <2>2. /\ r.conn.pending_pong = c.pending_pong
          /\ r.conn.peer_version_minor = c.peer_version_minor
      BY <1>5 DEF Idles, Halves, Spoils, IsConn, ConnFields
    <2>3. FramesIn(v) = FramesIn(u)
      <3>1. CASE Idles(c, x, t)
        <4>1. v = u \o SubSeq(x, 1, 0)
          BY <1>5, <3>1 DEF Idles, FedBy
        <4>2. SubSeq(x, 1, 0) = <<>> /\ u \o <<>> = u
          OBVIOUS
        <4> QED
          BY <4>1, <4>2, Zenon
      <3>2. CASE Spoils(c, x, t)
        BY <1>5, <3>2 DEF Spoils, FedBy
      <3>3. CASE Halves(c, x, t)
        BY <1>5, <3>3, HalvesInv
      <3> QED
        BY <1>5, <3>1, <3>2, <3>3
    <2>4. TrafficIn(m, v) = TrafficIn(m, u)
      BY <2>3, Zenon DEF TrafficIn
    <2> QED
      BY <2>1, <2>2, <2>4
  <1>6. ASSUME NEW g \in Seq(U), Len(g) < FRAME_LEN, Completes(c, x, t, g),
               c.state \notin {"Greeting", "Failed"}, r.res = "Ok" /\ r.n = t.n
        PROVE  MoreFrames(U, u, v, t.frame)
    <2>1. MoreFrames(U, u, u \o SubSeq(x, 1, t.n), t.frame)
      <3> HIDE DEF t
      <3> QED
        BY <1>6, FrameFed DEF FedInv
    <2>2. v = u \o SubSeq(x, 1, t.n)
      BY <1>6 DEF FedBy
    <2> QED
      BY <2>1, <2>2
  <1>7. ASSUME NEW g \in Seq(U), Len(g) < FRAME_LEN, Completes(c, x, t, g),
               c.state \notin {"Greeting", "Failed"}, TakesStep(c, t, r, types)
        PROVE  /\ ~FrameTaken(c, x) /\ TrafficIn(m, v) = TrafficIn(m, u)
               /\ r.conn.pending_pong = c.pending_pong
               /\ r.conn.peer_version_minor = c.peer_version_minor
    <2>1. MoreFrames(U, u, v, t.frame) /\ c.state # "Established"
      BY <1>6, <1>7 DEF TakesStep
    <2>2. /\ r.conn.pending_pong = c.pending_pong
          /\ r.conn.peer_version_minor = c.peer_version_minor
      <3>1. Redecoded(U, c, t.conn, Holding(<<>>))
        BY <1>7, CompletesFacts
      <3>2. PICK st : Restated(t.conn, r.conn, st)
        BY <1>7 DEF TakesStep
      <3> HIDE DEF t
      <3> QED
        BY <3>1, <3>2 DEF Redecoded, Restated, IsConn, ConnFields
    <2>3. Len(FramesIn(u)) < HandshakeFrames(m)
      BY <2>1 DEF FedInv, Received
    <2>4. Len(FramesIn(v)) <= HandshakeFrames(m)
      BY <2>1, <2>3, FramesInType DEF MoreFrames, HandshakeFrames
    <2>5. TrafficIn(m, v) = <<>>
      <3> HIDE DEF v
      <3> QED
        BY <1>1, <2>4, TrafficNone
    <2> QED
      BY <1>2, <2>1, <2>2, <2>5
  <1>8. ASSUME NEW g, Completes(c, x, t, g), EndsHere(c, t, r)
        PROVE  /\ ~FrameTaken(c, x) /\ TrafficIn(m, v) = TrafficIn(m, u)
               /\ r.conn.pending_pong = c.pending_pong
               /\ r.conn.peer_version_minor = c.peer_version_minor
    <2>1. v = u /\ c.state # "Established"
      BY <1>8 DEF EndsHere, FedBy
    <2>2. Redecoded(U, c, t.conn, Holding(<<>>))
      BY <1>8, CompletesFacts
    <2>3. Restated(t.conn, r.conn, "Failed")
      BY <1>8 DEF EndsHere
    <2>4. /\ r.conn.pending_pong = c.pending_pong
          /\ r.conn.peer_version_minor = c.peer_version_minor
      <3> HIDE DEF t
      <3> QED
        BY <2>2, <2>3 DEF Redecoded, Restated, IsConn, ConnFields
    <2> QED
      BY <1>2, <2>1, <2>4
  <1>9. ASSUME NEW g \in Seq(U), Len(g) < FRAME_LEN, Completes(c, x, t, g),
               c.state \notin {"Greeting", "Failed"}, Applies(U, c, t, r)
        PROVE  /\ FrameTaken(c, x)
               /\ TrafficIn(m, u) \in Seq(FramesOf(U)) /\ t.frame \in FramesOf(U)
               /\ TrafficIn(m, v) = Append(TrafficIn(m, u), t.frame)
    <2>1. MoreFrames(U, u, v, t.frame) /\ c.state = "Established" /\ FrameTaken(c, x)
      BY <1>6, <1>9 DEF Applies, Completes, FrameTaken
    <2>2. Len(FramesIn(u)) >= HandshakeFrames(m)
      BY <2>1 DEF FedInv, Received
    <2> HIDE DEF v, t
    <2> QED
      BY <2>1, <2>2, TrafficFed
  <1> HIDE DEF v
  <1> QED
    BY <1>3, <1>4, <1>5, <1>7, <1>8, <1>9 DEF FeedsTo, v

\* At most one PONG is pending: there is none, or one after those sent.
LEMMA PendingFacts ==
    ASSUME NEW T, NEW p \in Seq(T), NEW q \in Seq(T), Len(q) <= 1
    PROVE  (q = <<>> /\ p \o q = p) \/ \E z \in T : q = <<z>> /\ p \o q = Append(p, z)
  <1>1. CASE q = <<>>
    BY <1>1
  <1>2. CASE q # <<>>
    <2>0. Len(q) \in Nat /\ Len(q) # 0
      BY <1>2
    <2>1. Len(q) = 1
      <3>1. \A n \in Nat : n # 0 /\ n <= 1 => n = 1
        OBVIOUS
      <3> QED
        BY <2>0, <3>1, Zenon
    <2>2. q[1] \in T /\ q = <<q[1]>>
      BY <2>1
    <2>3. p \o <<q[1]>> = Append(p, q[1])
      BY <2>2
    <2> QED
      BY <2>2, <2>3, Zenon
  <1> QED
    BY <1>1, <1>2

\* Another frame leaves the PINGs that are due as they are or is one of them.
LEMMA PingsDueMore ==
    ASSUME NEW T, NEW c, NEW d, d.mechanism = c.mechanism,
           d.peer_version_minor = c.peer_version_minor, NEW f \in T,
           NEW u, TrafficIn(c.mechanism, u) \in Seq(T),
           NEW v, TrafficIn(c.mechanism, v) = Append(TrafficIn(c.mechanism, u), f)
    PROVE  PingsDue(d, v) = IF f.kind = "PING" /\ c.peer_version_minor >= 1
                            THEN Append(PingsDue(c, u), PingContext(f)) ELSE PingsDue(c, u)
  <1> DEFINE a == TrafficIn(c.mechanism, u)
  <1>1. PingsIn(Append(a, f)) = IF f.kind = "PING" THEN Append(PingsIn(a), PingContext(f)) ELSE PingsIn(a)
    <2> HIDE DEF a
    <2>1. a \in Seq(T)
      BY DEF a
    <2> QED
      BY <2>1, PingsInAppend
  <1>2. PingsDue(c, u) = IF c.peer_version_minor >= 1 THEN PingsIn(a) ELSE <<>>
    BY DEF PingsDue
  <1>3. PingsDue(d, v) = IF c.peer_version_minor >= 1 THEN PingsIn(Append(a, f)) ELSE <<>>
    BY DEF PingsDue
  <1> HIDE DEF a
  <1> QED
    BY <1>1, <1>2, <1>3

\* The contexts that are due a PONG are those of frames.
LEMMA PingsDueType ==
    ASSUME NEW T, NEW c, NEW u, TrafficIn(c.mechanism, u) \in Seq(T)
    PROVE  PingsDue(c, u) \in Seq({PingContext(f) : f \in T})
    BY PingsInType DEF PingsDue

\* feed keeps the PONGs sent, with the one pending, a subsequence of the
\* PINGs: a PING before the PONG is written replaces the one pending.
LEMMA FeedPongInv ==
    ASSUME NEW U, NEW c, IsConn(c, U), NEW u \in Seq(U), NEW rej \in BOOLEAN, NEW types,
           FedInv(c, u, rej, types), NEW x \in Seq(U), NEW r, FeedsTo(U, c, x, r, types),
           NEW T, NEW s \in Seq(T), PongInv(c, u, s)
    PROVE  PongInv(r.conn, FedBy(u, x, r), s)
  <1> DEFINE m == c.mechanism
             v == FedBy(u, x, r)
             d == r.conn
             p == PongsIn(s)
             f == TakeFrame(c, x).frame
  <1>1. d.mechanism = m
    BY FeedKeepsFlags DEF KeepsFlags
  <1>2. IsSubsequence(p \o c.pending_pong, PingsDue(c, u))
    BY DEF PongInv
  <1>3. ASSUME TrafficIn(m, v) = TrafficIn(m, u), d.pending_pong = c.pending_pong,
               d.peer_version_minor = c.peer_version_minor \/ TrafficIn(m, u) = <<>>
        PROVE  PongInv(d, v, s)
    <2>1. PingsDue(d, v) = PingsDue(c, u)
      BY <1>1, <1>3, PingsInNone, Zenon DEF PingsDue
    <2> QED
      BY <1>2, <1>3, <2>1, Zenon DEF PongInv
  <1>4. ASSUME Applies(U, c, TakeFrame(c, x), r),
               TrafficIn(m, u) \in Seq(FramesOf(U)), f \in FramesOf(U),
               TrafficIn(m, v) = Append(TrafficIn(m, u), f)
        PROVE  PongInv(d, v, s)
    <2> DEFINE Z == {e.arg[1] : e \in T} \cup {PingContext(y) : y \in FramesOf(U)} \cup ContextsOf(U)
               a == PingsDue(c, u)
               ping == f.kind = "PING" /\ c.peer_version_minor >= 1
               z == PingContext(f)
               q == c.pending_pong
    <2>1. /\ d.peer_version_minor = c.peer_version_minor
          /\ d.pending_pong = IF ping THEN <<z>> ELSE q
      BY <1>4 DEF Applies, Handled
    <2>2. PingsDue(d, v) = IF ping THEN Append(a, z) ELSE a
      <3> HIDE DEF f, v, d
      <3> QED
        BY <1>1, <1>4, <2>1, PingsDueMore
    <2>3. /\ p \in Seq({e.arg[1] : e \in T})
          /\ a \in Seq({PingContext(y) : y \in FramesOf(U)})
          /\ q \in Seq(ContextsOf(U)) /\ Len(q) <= 1
          /\ z \in {PingContext(y) : y \in FramesOf(U)}
      BY <1>4, PongsInType, PingsDueType DEF IsConn
    <2>4. p \in Seq(Z) /\ a \in Seq(Z) /\ q \in Seq(Z) /\ z \in Z
      <3>1. ASSUME NEW A, NEW B, A \subseteq B, NEW w \in Seq(A) PROVE w \in Seq(B)
        BY <3>1
      <3>2. /\ {e.arg[1] : e \in T} \subseteq Z
            /\ {PingContext(y) : y \in FramesOf(U)} \subseteq Z
            /\ ContextsOf(U) \subseteq Z
        OBVIOUS
      <3> HIDE DEF Z
      <3> QED
        BY <2>3, <3>1, <3>2
    <2> HIDE DEF Z
    <2>5. CASE ~ping
      BY <1>2, <2>1, <2>2, <2>5 DEF PongInv
    <2>6. CASE ping
      <3> HIDE DEF f, v, d, p, a, z, q
      <3>1. (q = <<>> /\ p \o q = p) \/ \E y \in Z : q = <<y>> /\ p \o q = Append(p, y)
        BY <2>3, <2>4, PendingFacts
      <3>2. IsSubsequence(p \o q, a)
        BY <1>2 DEF q, p, a
      <3>3. IsSubsequence(p, a)
        <4>1. CASE p \o q = p
          BY <3>2, <4>1
        <4>2. ASSUME NEW y \in Z, p \o q = Append(p, y)
              PROVE  IsSubsequence(p, a)
          <5>1. IsSubsequence(Append(p, y), a)
            BY <3>2, <4>2, Zenon
          <5> QED
            BY <2>4, <5>1, SubseqLess
        <4> QED
          BY <3>1, <4>1, <4>2
      <3>4. IsSubsequence(Append(p, z), Append(a, z))
        BY <2>4, <3>3, SubseqBoth
      <3>5. p \o <<z>> = Append(p, z)
        BY <2>4
      <3>6. d.pending_pong = <<z>> /\ PingsDue(d, v) = Append(a, z)
        BY <2>1, <2>2, <2>6 DEF z, d
      <3> QED
        BY <3>4, <3>5, <3>6, Zenon DEF PongInv, p
    <2> QED
      BY <2>5, <2>6
  <1> HIDE DEF d, v, f
  <1>5. \/ /\ TrafficIn(m, v) = TrafficIn(m, u) /\ d.pending_pong = c.pending_pong
           /\ d.peer_version_minor = c.peer_version_minor \/ TrafficIn(m, u) = <<>>
        \/ /\ Applies(U, c, TakeFrame(c, x), r)
           /\ TrafficIn(m, u) \in Seq(FramesOf(U)) /\ f \in FramesOf(U)
           /\ TrafficIn(m, v) = Append(TrafficIn(m, u), f)
    <2>1. \E mm \in {c.mechanism} : mm = m
      OBVIOUS
    <2> QED
      BY FeedTraffic DEF v, d, f
  <1> QED
    BY <1>3, <1>4, <1>5 DEF v, d

\* d differs from c in nothing that the answers to PINGs depend on.
SamePongs(c, d) ==
    /\ d.mechanism = c.mechanism
    /\ d.peer_version_minor = c.peer_version_minor
    /\ d.pending_pong = c.pending_pong

\* An item of another kind answers no PING.
LEMMA OtherItemPongInv ==
    ASSUME NEW T, NEW s \in Seq(T), NEW c, NEW u, PongInv(c, u, s),
           NEW r, SamePongs(c, r.conn), NEW what, NEW arg,
           [what |-> what, arg |-> arg] \in T, what # "PONG"
    PROVE  PongInv(r.conn, u, SentWith(s, r, what, arg))
  <1> DEFINE e == [what |-> what, arg |-> arg]
  <1>1. PongsIn(Append(s, e)) = PongsIn(s)
    <2>1. e.what # "PONG" /\ e \in T
      OBVIOUS
    <2> HIDE DEF e
    <2> QED
      BY <2>1, PongsInAppend
  <1>2. PongsIn(SentWith(s, r, what, arg)) = PongsIn(s)
    BY <1>1 DEF SentWith
  <1>3. PingsDue(r.conn, u) = PingsDue(c, u)
    BY DEF PingsDue, SamePongs
  <1> QED
    BY <1>2, <1>3, Zenon DEF PongInv, SamePongs

\* A PONG takes over from the context that was pending.
LEMMA WritePongPongInv ==
    ASSUME NEW U, NEW c, IsConn(c, U), NEW T, NEW s \in Seq(T), NEW u, PongInv(c, u, s),
           NEW fits \in BOOLEAN, NEW r, r = WritePong(c, fits),
           [what |-> "PONG", arg |-> c.pending_pong] \in T
    PROVE  PongInv(r.conn, u, SentWith(s, r, "PONG", c.pending_pong))
  <1> DEFINE q == c.pending_pong
             e == [what |-> "PONG", arg |-> q]
             p == PongsIn(s)
             Z == {y.arg[1] : y \in T} \cup ContextsOf(U)
  <1>1. CASE r.conn = c /\ (r.res # "Ok" \/ r.n = 0)
    <2>1. SentWith(s, r, "PONG", q) = s
      BY <1>1 DEF SentWith
    <2> QED
      BY <1>1, <2>1, Zenon
  <1>2. CASE q # <<>> /\ r = Ok([c EXCEPT !.pending_pong = <<>>], 1)
    <2>1. /\ r.conn.mechanism = c.mechanism
          /\ r.conn.peer_version_minor = c.peer_version_minor
          /\ r.conn.pending_pong = <<>>
          /\ r.res = "Ok" /\ r.n = 1
      BY <1>2 DEF Ok, IsConn, ConnFields
    <2>2. SentWith(s, r, "PONG", q) = Append(s, e)
      BY <2>1 DEF SentWith
    <2>3. PongsIn(Append(s, e)) = Append(p, q[1])
      <3>1. e.what = "PONG" /\ e \in T /\ e.arg = q
        OBVIOUS
      <3> HIDE DEF e, q
      <3> QED
        BY <3>1, PongsInAppend
    <2>4. p \in Seq(Z) /\ q \in Seq(Z) /\ Len(q) <= 1
      <3>1. p \in Seq({y.arg[1] : y \in T}) /\ q \in Seq(ContextsOf(U)) /\ Len(q) <= 1
        BY PongsInType DEF IsConn
      <3>2. ASSUME NEW A, NEW B, A \subseteq B, NEW w \in Seq(A) PROVE w \in Seq(B)
        BY <3>2
      <3>3. {y.arg[1] : y \in T} \subseteq Z /\ ContextsOf(U) \subseteq Z
        OBVIOUS
      <3> HIDE DEF Z
      <3> QED
        BY <3>1, <3>2, <3>3
    <2> HIDE DEF Z, q, p
    <2>5. PICK z \in Z : q = <<z>> /\ p \o q = Append(p, z)
      BY <1>2, <2>4, PendingFacts
    <2>6. q[1] = z /\ Append(p, z) \o <<>> = Append(p, z)
      BY <2>4, <2>5
    <2>7. PingsDue(r.conn, u) = PingsDue(c, u)
      BY <2>1 DEF PingsDue
    <2>8. PongsIn(Append(s, e)) \o r.conn.pending_pong = p \o q
      BY <2>1, <2>3, <2>5, <2>6, Zenon
    <2> QED
      BY <2>2, <2>7, <2>8, Zenon DEF PongInv, q, p
  <1> QED
    BY <1>1, <1>2 DEF WritePong, Ok, Err

-----------------------------------------------------------------------------
(* What has been said follows the methods that say it. *)

\* v is s with one item more.
Adds(T, s, v, what) ==
    /\ v \in Seq(T)
    /\ HandshakeIn(v) = IF what \in HandshakeItems THEN Append(HandshakeIn(s), what)
                        ELSE HandshakeIn(s)
    /\ what # "WELCOME" => ItemsOf({"WELCOME"}, v) = ItemsOf({"WELCOME"}, s)
    /\ what \notin {"MESSAGE", "PONG"} =>
          ItemsOf({"MESSAGE", "PONG"}, v) = ItemsOf({"MESSAGE", "PONG"}, s)

\* An item appended to what was sent is one more of its kind.
LEMMA ItemFacts ==
    ASSUME NEW T, NEW s \in Seq(T), NEW what, NEW arg, [what |-> what, arg |-> arg] \in T
    PROVE  Adds(T, s, Append(s, [what |-> what, arg |-> arg]), what)
  <1> DEFINE v == Append(s, [what |-> what, arg |-> arg])
  <1> DEFINE e == [what |-> what, arg |-> arg]
  <1>1. e \in T /\ e.what = what /\ v = Append(s, e)
    OBVIOUS
  <1> HIDE DEF e, v
  <1>2. v \in Seq(T)
    BY <1>1
  <1>3. HandshakeIn(v) = IF what \in HandshakeItems THEN Append(HandshakeIn(s), what)
                         ELSE HandshakeIn(s)
    BY <1>1, HandshakeInAppend
  <1>4. what \notin {"WELCOME"} => ItemsOf({"WELCOME"}, v) = ItemsOf({"WELCOME"}, s)
    BY <1>1, ItemsOfAppend
  <1>5. what \notin {"MESSAGE", "PONG"} =>
           ItemsOf({"MESSAGE", "PONG"}, v) = ItemsOf({"MESSAGE", "PONG"}, s)
    BY <1>1, ItemsOfAppend
  <1> QED
    BY <1>2, <1>3, <1>4, <1>5 DEF Adds, v

\* A method that succeeds says its item, one that fails changes nothing.
SaysNothing(c, r) == r.conn = c /\ ~(r.res = "Ok" /\ r.n = 1)

\* A call that writes nothing and changes no flag keeps what was sent.
LEMMA NothingSaid ==
    ASSUME NEW c, NEW s, SentInv(c, s), NEW r, SaysNothing(c, r), NEW what, NEW arg
    PROVE  SentInv(r.conn, SentWith(s, r, what, arg)) /\ SentWith(s, r, what, arg) = s
    BY DEF SaysNothing, SentWith

\* write_greeting, which says GREETING once and first, keeps what the
\* connection remembers to have sent true.
LEMMA WriteGreetingSentInv ==
    ASSUME NEW U, NEW c, IsConn(c, U), NEW u, NEW rej, NEW types, FedInv(c, u, rej, types),
           NEW fits \in BOOLEAN, NEW r, r = WriteGreeting(c, fits),
           NEW T, NEW s \in Seq(T), SentInv(c, s),
           NEW arg, [what |-> "GREETING", arg |-> arg] \in T
    PROVE  /\ SentInv(r.conn, SentWith(s, r, "GREETING", arg))
           /\ SentWith(s, r, "GREETING", arg) \in Seq(T)
           /\ SamePongs(c, r.conn)
  <1>1. CASE SaysNothing(c, r)
    BY <1>1, NothingSaid DEF SamePongs, SaysNothing
  <1>2. CASE /\ c.state = "Greeting" /\ ~c.our_greeting_sent
             /\ r = Ok([c EXCEPT !.our_greeting_sent = TRUE], 1)
    <2> DEFINE v == Append(s, [what |-> "GREETING", arg |-> arg])
               d == r.conn
    <2>1. SentWith(s, r, "GREETING", arg) = v
      BY <1>2 DEF SentWith, Ok
    <2>2. /\ v \in Seq(T)
          /\ HandshakeIn(v) = Append(HandshakeIn(s), "GREETING")
          /\ ItemsOf({"WELCOME"}, v) = ItemsOf({"WELCOME"}, s)
          /\ ItemsOf({"MESSAGE", "PONG"}, v) = ItemsOf({"MESSAGE", "PONG"}, s)
      <3>1. Adds(T, s, v, "GREETING")
        BY ItemFacts, Zenon
      <3> HIDE DEF v
      <3> QED
        BY <3>1 DEF Adds, HandshakeItems
    <2>3. /\ d.our_greeting_sent /\ ~d.our_welcome_sent /\ ~d.our_ready_sent
          /\ d.our_welcome_sent = c.our_welcome_sent /\ d.state = c.state
          /\ SamePongs(c, d)
      BY <1>2 DEF Ok, IsConn, ConnFields, FedInv, Greets, SamePongs
    <2> HIDE DEF v, d
    <2>4. Said(c) = <<>> /\ Said(d) = <<"GREETING">>
      BY <1>2, <2>3 DEF Said
    <2>5. SentInv(d, v)
      BY <2>2, <2>3, <2>4 DEF SentInv
    <2> QED
      BY <2>1, <2>2, <2>3, <2>5 DEF d
  <1> QED
    BY <1>1, <1>2 DEF WriteGreeting, Ok, Err, SaysNothing, IsConn

\* write_ready, which says READY once and in its place, keeps what the
\* connection remembers to have sent true.
LEMMA WriteReadySentInv ==
    ASSUME NEW U, NEW c, IsConn(c, U), NEW u, NEW rej, NEW types, FedInv(c, u, rej, types),
           NEW fits \in BOOLEAN, NEW r, r = WriteReady(c, fits),
           NEW T, NEW s \in Seq(T), SentInv(c, s),
           NEW arg, [what |-> "READY", arg |-> arg] \in T
    PROVE  /\ SentInv(r.conn, SentWith(s, r, "READY", arg))
           /\ SentWith(s, r, "READY", arg) \in Seq(T)
           /\ SamePongs(c, r.conn)
  <1>1. CASE SaysNothing(c, r)
    BY <1>1, NothingSaid DEF SamePongs, SaysNothing
  <1>2. CASE /\ MayWriteReady(c) /\ ~c.our_ready_sent
             /\ r = Ok([c EXCEPT !.our_ready_sent = TRUE], 1)
    <2> DEFINE v == Append(s, [what |-> "READY", arg |-> arg])
               d == r.conn
    <2>1. SentWith(s, r, "READY", arg) = v
      BY <1>2 DEF SentWith, Ok
    <2>2. /\ v \in Seq(T)
          /\ HandshakeIn(v) = Append(HandshakeIn(s), "READY")
          /\ ItemsOf({"WELCOME"}, v) = ItemsOf({"WELCOME"}, s)
          /\ ItemsOf({"MESSAGE", "PONG"}, v) = ItemsOf({"MESSAGE", "PONG"}, s)
      <3>1. Adds(T, s, v, "READY")
        BY ItemFacts, Zenon
      <3> HIDE DEF v
      <3> QED
        BY <3>1 DEF Adds, HandshakeItems
    <2>3. /\ d.our_ready_sent
          /\ d.our_greeting_sent = c.our_greeting_sent
          /\ d.our_welcome_sent = c.our_welcome_sent /\ d.state = c.state
          /\ SamePongs(c, d)
      BY <1>2 DEF Ok, IsConn, ConnFields, SamePongs
    <2>4. c.our_greeting_sent
      BY <1>2 DEF MayWriteReady, FedInv, Greeted
    <2> HIDE DEF v, d
    <2>5. Said(d) = Append(Said(c), "READY")
      <3>1. CASE c.our_welcome_sent
        BY <1>2, <2>3, <2>4, <3>1 DEF Said
      <3>2. CASE ~c.our_welcome_sent
        BY <1>2, <2>3, <2>4, <3>2 DEF Said
      <3> QED
        BY <3>1, <3>2
    <2>6. SentInv(d, v)
      BY <2>2, <2>3, <2>5 DEF SentInv
    <2> QED
      BY <2>1, <2>2, <2>3, <2>6 DEF d
  <1> QED
    BY <1>1, <1>2 DEF WriteReady, Ok, Err, SaysNothing, IsConn

\* write_welcome, which says WELCOME once and in its place, keeps what the
\* connection remembers to have sent true.
LEMMA WriteWelcomeSentInv ==
    ASSUME NEW U, NEW c, IsConn(c, U), NEW u, NEW rej, NEW types, FedInv(c, u, rej, types),
           NEW fits \in BOOLEAN, NEW r, r = WriteWelcome(c, fits),
           NEW T, NEW s \in Seq(T), SentInv(c, s),
           NEW arg, [what |-> "WELCOME", arg |-> arg] \in T
    PROVE  /\ SentInv(r.conn, SentWith(s, r, "WELCOME", arg))
           /\ SentWith(s, r, "WELCOME", arg) \in Seq(T)
           /\ SamePongs(c, r.conn)
  <1>1. CASE SaysNothing(c, r)
    BY <1>1, NothingSaid DEF SamePongs, SaysNothing
  <1>2. CASE /\ c.state = "PlainReady" /\ ~c.our_welcome_sent
             /\ r = Ok([c EXCEPT !.our_welcome_sent = TRUE], 1)
    <2> DEFINE v == Append(s, [what |-> "WELCOME", arg |-> arg])
               d == r.conn
    <2>1. SentWith(s, r, "WELCOME", arg) = v
      BY <1>2 DEF SentWith, Ok
    <2>2. /\ v \in Seq(T)
          /\ HandshakeIn(v) = Append(HandshakeIn(s), "WELCOME")
          /\ ItemsOf({"MESSAGE", "PONG"}, v) = ItemsOf({"MESSAGE", "PONG"}, s)
      <3>1. Adds(T, s, v, "WELCOME")
        BY ItemFacts, Zenon
      <3> HIDE DEF v
      <3> QED
        BY <3>1 DEF Adds, HandshakeItems
    <2>3. /\ d.our_welcome_sent
          /\ d.our_greeting_sent = c.our_greeting_sent
          /\ d.our_ready_sent = c.our_ready_sent /\ d.state = c.state
          /\ SamePongs(c, d)
      BY <1>2 DEF Ok, IsConn, ConnFields, SamePongs
    <2>4. c.our_greeting_sent /\ ~c.our_ready_sent
      BY <1>2 DEF FedInv, Greeted, Received
    <2> HIDE DEF v, d
    <2>5. Said(d) = Append(Said(c), "WELCOME")
      BY <1>2, <2>3, <2>4 DEF Said
    <2>6. HandshakeIn(v) = Said(d)
      BY <2>2, <2>5 DEF SentInv
    <2>7. SentInv(d, v)
      BY <2>2, <2>3, <2>6 DEF SentInv
    <2> QED
      BY <2>1, <2>2, <2>3, <2>7 DEF d
  <1> QED
    BY <1>1, <1>2 DEF WriteWelcome, Ok, Err, SaysNothing, IsConn

\* What is not of the handshake is said at any time if it is ERROR, and
\* otherwise when the connection is established.
LEMMA OtherSentInv ==
    ASSUME NEW c, NEW T, NEW s \in Seq(T), SentInv(c, s),
           NEW r, KeepsFlags(c, r.conn), r.conn.state = c.state,
           NEW what, what \in {"ERROR", "PONG", "MESSAGE"},
           r.res = "Ok" /\ r.n = 1 => what = "ERROR" \/ c.state = "Established",
           NEW arg, [what |-> what, arg |-> arg] \in T
    PROVE  /\ SentInv(r.conn, SentWith(s, r, what, arg))
           /\ SentWith(s, r, what, arg) \in Seq(T)
  <1> DEFINE v == Append(s, [what |-> what, arg |-> arg])
             d == r.conn
  <1>1. Said(d) = Said(c) /\ d.our_welcome_sent = c.our_welcome_sent
    BY DEF Said, KeepsFlags
  <1>2. CASE ~(r.res = "Ok" /\ r.n = 1)
    <2>1. SentWith(s, r, what, arg) = s
      BY <1>2 DEF SentWith
    <2> QED
      BY <1>1, <2>1 DEF SentInv
  <1>3. CASE r.res = "Ok" /\ r.n = 1
    <2>1. SentWith(s, r, what, arg) = v
      BY <1>3 DEF SentWith
    <2>2. /\ v \in Seq(T)
          /\ HandshakeIn(v) = HandshakeIn(s)
          /\ ItemsOf({"WELCOME"}, v) = ItemsOf({"WELCOME"}, s)
          /\ what = "ERROR" => ItemsOf({"MESSAGE", "PONG"}, v) = ItemsOf({"MESSAGE", "PONG"}, s)
      <3>1. Adds(T, s, v, what)
        BY ItemFacts, Zenon
      <3> HIDE DEF v
      <3> QED
        BY <3>1 DEF Adds, HandshakeItems
    <2> HIDE DEF v, d
    <2>3. SentInv(d, v)
      BY <1>1, <1>3, <2>2 DEF SentInv, d
    <2> QED
      BY <2>1, <2>2, <2>3 DEF d
  <1> QED
    BY <1>2, <1>3
-----------------------------------------------------------------------------
(* The handlers of a frame, shared by PUB and RADIO *)

\* HELLO.
LEMMA HelloFeeds ==
    ASSUME NEW U, NEW c, IsConn(c, U), NEW x \in Seq(U), NEW types, c.state = "PlainHello",
           NEW r, r = FeedPlainHello(c, x)
    PROVE  FeedsTo(U, c, x, r, types)
  <1> DEFINE t == TakeFrame(c, x)
  <1>1. r = IF t.res = "Some" THEN HandleHello(t.conn, t.frame, t.n) ELSE t
    BY DEF FeedPlainHello
  <1>2. \/ Idles(c, x, t) \/ Halves(c, x, t) \/ Spoils(c, x, t)
        \/ \E g \in Seq(U) : Len(g) < FRAME_LEN /\ Completes(c, x, t, g)
    BY TakeFrameCases
  <1>3. t \in {TakeFrame(c, x)}
    OBVIOUS
  <1> HIDE DEF t
  <1>4. CASE Idles(c, x, t) \/ Halves(c, x, t) \/ Spoils(c, x, t)
    <2>1. r = t
      BY <1>1, <1>4 DEF Idles, Halves, Spoils
    <2> QED
      BY <1>3, <1>4, <2>1 DEF FeedsTo
  <1>5. CASE \E g \in Seq(U) : Len(g) < FRAME_LEN /\ Completes(c, x, t, g)
    <2>1. r = HandleHello(t.conn, t.frame, t.n)
      BY <1>1, <1>5 DEF Completes
    <2>2. TakesStep(c, t, r, types) \/ EndsHere(c, t, r)
      BY <2>1 DEF HandleHello, Ok, Err, TakesStep, EndsHere, Advances, Restated
    <2> QED
      BY <1>3, <1>5, <2>2 DEF FeedsTo
  <1> QED
    BY <1>2, <1>4, <1>5

\* READY, of which the parser takes those of the types.
ReadyHandled(t, r, types) ==
    \/ t.res # "Some" /\ r = t
    \/ /\ t.res = "Some" /\ t.frame.kind = "READY" /\ t.frame.arg \in types
       /\ r = Ok([t.conn EXCEPT !.state = "Established"], t.n)
    \/ t.res = "Some" /\ r = Err([t.conn EXCEPT !.state = "Failed"], "NullError")

\* What feed does in the states that wait for READY is a step of FeedsTo.
LEMMA ReadyFeeds ==
    ASSUME NEW U, NEW c, IsConn(c, U), NEW x \in Seq(U), NEW types,
           c.state \in {"Ready", "PlainReady"}, c.our_ready_sent,
           NEW t, t = TakeFrame(c, x), NEW r, ReadyHandled(t, r, types)
    PROVE  FeedsTo(U, c, x, r, types)
  <1>2. \/ Idles(c, x, t) \/ Halves(c, x, t) \/ Spoils(c, x, t)
        \/ \E g \in Seq(U) : Len(g) < FRAME_LEN /\ Completes(c, x, t, g)
    BY TakeFrameCases
  <1>3. t \in {TakeFrame(c, x)}
    OBVIOUS
  <1>4. CASE Idles(c, x, t) \/ Halves(c, x, t) \/ Spoils(c, x, t)
    <2>1. r = t
      BY <1>4 DEF Idles, Halves, Spoils, ReadyHandled
    <2> QED
      BY <1>3, <1>4, <2>1 DEF FeedsTo
  <1>5. CASE \E g \in Seq(U) : Len(g) < FRAME_LEN /\ Completes(c, x, t, g)
    <2>1. t.res = "Some"
      BY <1>5 DEF Completes
    <2>2. TakesStep(c, t, r, types) \/ EndsHere(c, t, r)
      BY <2>1 DEF ReadyHandled, Ok, Err, TakesStep, EndsHere, Advances, Restated
    <2> QED
      BY <1>3, <1>5, <2>2 DEF FeedsTo
  <1> QED
    BY <1>2, <1>4, <1>5

\* The commands of an established connection change the pending PONG and the
\* table only.
ChangesLittle(d, e) ==
    /\ ConnFields \subseteq DOMAIN e
    /\ e.state = d.state
    /\ e.our_greeting_sent = d.our_greeting_sent
    /\ e.our_ready_sent = d.our_ready_sent
    /\ e.our_welcome_sent = d.our_welcome_sent
    /\ e.mechanism = d.mechanism
    /\ e.greeting_buf = d.greeting_buf
    /\ e.frame_decoder = d.frame_decoder
    /\ e.peer_version_minor = d.peer_version_minor

\* e is d with the PONG for the frame f pending.
Answering(d, e, f) ==
    e.pending_pong = IF f.kind = "PING" /\ d.peer_version_minor >= 1
                     THEN <<PingContext(f)>> ELSE d.pending_pong

\* What feed does once established is a step of FeedsTo, whatever a frame
\* means for the table.
LEMMA EstablishedFeeds ==
    ASSUME NEW U, NEW c, IsConn(c, U), NEW x \in Seq(U), NEW types, c.state = "Established",
           NEW t, t = TakeFrame(c, x),
           NEW e, ChangesLittle(t.conn, e), Answering(t.conn, e, t.frame),
           NEW r, r = IF t.res = "Some" THEN Ok(e, t.n) ELSE t
    PROVE  FeedsTo(U, c, x, r, types)
  <1>2. \/ Idles(c, x, t) \/ Halves(c, x, t) \/ Spoils(c, x, t)
        \/ \E g \in Seq(U) : Len(g) < FRAME_LEN /\ Completes(c, x, t, g)
    BY TakeFrameCases
  <1>3. t \in {TakeFrame(c, x)}
    OBVIOUS
  <1>4. CASE Idles(c, x, t) \/ Halves(c, x, t) \/ Spoils(c, x, t)
    <2>1. r = t
      BY <1>4 DEF Idles, Halves, Spoils
    <2> QED
      BY <1>3, <1>4, <2>1 DEF FeedsTo
  <1>5. ASSUME NEW g \in Seq(U), Len(g) < FRAME_LEN, Completes(c, x, t, g)
        PROVE  Applies(U, c, t, r)
    <2> DEFINE d == t.conn
               f == t.frame
    <2>1. r.conn = e /\ r.res = "Ok" /\ r.n = t.n
      BY <1>5 DEF Completes, Ok
    <2>2. Redecoded(U, c, d, Holding(<<>>))
      BY <1>5, CompletesFacts
    <2>3. f.kind = "PING" => PingContext(f) \in ContextsOf(U)
      <3> DEFINE b == g \o x
      <3>1. f = b[1].of /\ b[1].what = "frame"
        BY <1>5 DEF Completes
      <3>2. b[1] \in U
        <4>1. b \in Seq(U) /\ Len(b) = Len(g) + Len(x) /\ Len(g) \in Nat /\ Len(x) \in Nat
          BY ConcatFacts
        <4>2. Len(g) < 2 /\ Len(x) >= 2 - Len(g)
          BY <1>5 DEF Completes, FRAME_LEN
        <4> HIDE DEF b
        <4>3. 1 \in 1 .. Len(b)
          BY <4>1, <4>2
        <4> QED
          BY <4>1, <4>3
      <3> QED
        BY <3>1, <3>2 DEF ContextsOf
    <2> HIDE DEF d, f
    <2>4. /\ e.pending_pong = IF f.kind = "PING" /\ c.peer_version_minor >= 1
                              THEN <<PingContext(f)>> ELSE c.pending_pong
          /\ ChangesLittle(d, e)
      BY <2>2 DEF d, f, Answering, Redecoded
    <2>5. e.pending_pong \in Seq(ContextsOf(U)) /\ Len(e.pending_pong) <= 1
      <3>1. c.pending_pong \in Seq(ContextsOf(U)) /\ Len(c.pending_pong) <= 1
        BY DEF IsConn
      <3>2. ASSUME f.kind = "PING"
            PROVE  <<PingContext(f)>> \in Seq(ContextsOf(U)) /\ Len(<<PingContext(f)>>) <= 1
        BY <2>3, <3>2
      <3> QED
        BY <2>4, <3>1, <3>2
    <2>6. Handled(U, c, e, "Established")
      BY <2>2, <2>4, <2>5 DEF Handled, ChangesLittle, Redecoded, IsConn
    <2> QED
      BY <2>1, <2>4, <2>6 DEF Applies, f
  <1> QED
    BY <1>2, <1>3, <1>4, <1>5 DEF FeedsTo

\* feed consumes no more than it is given.
LEMMA FeedCount ==
    ASSUME NEW U, NEW c, IsConn(c, U), NEW types, NEW x \in Seq(U), NEW r,
           FeedsTo(U, c, x, r, types), r.res = "Ok"
    PROVE  r.n \in 0 .. Len(x)
  <1>0. Len(x) \in Nat
    OBVIOUS
  <1>1. CASE c.state = "Greeting" /\ r = FeedGreeting(c, x)
    <2> DEFINE n == SmallerOf(Len(x), GREETING_LEN - Len(c.greeting_buf))
    <2>1. Len(c.greeting_buf) \in Nat /\ Len(c.greeting_buf) <= 3
      BY DEF IsConn, GREETING_LEN
    <2>2. n \in 0 .. Len(x)
      BY <1>0, <2>1 DEF SmallerOf, GREETING_LEN
    <2>3. r.n = n \/ r.res = "GreetingError"
      BY <1>1 DEF FeedGreeting, Ok, Err
    <2> QED
      BY <2>2, <2>3
  <1>2. ASSUME NEW t, Idles(c, x, t) \/ Halves(c, x, t), r = t PROVE r.n \in 0 .. Len(x)
    <2>1. r.n = 0 \/ (r.n = 1 /\ Len(x) = 1)
      BY <1>2 DEF Idles, Halves
    <2>2. \A k \in Nat : 0 \in 0 .. k /\ (k = 1 => 1 \in 0 .. k)
      OBVIOUS
    <2> QED
      BY <1>0, <2>1, <2>2, Zenon
  <1>3. ASSUME NEW t, NEW g \in Seq(U), Len(g) < FRAME_LEN, Completes(c, x, t, g), r.n = t.n
        PROVE  r.n \in 0 .. Len(x)
    <2>1. r.n = 2 - Len(g) /\ Len(x) >= r.n /\ Len(g) < 2 /\ Len(g) \in Nat
      BY <1>3 DEF Completes, FRAME_LEN
    <2> QED
      BY <1>0, <2>1
  <1>4. \/ c.state = "Greeting" /\ r = FeedGreeting(c, x)
        \/ \E t : (Idles(c, x, t) \/ Halves(c, x, t)) /\ r = t
        \/ \E t : \E g \in Seq(U) : Len(g) < FRAME_LEN /\ Completes(c, x, t, g) /\ r.n = t.n
    BY DEF FeedsTo, Spoils, TakesStep, EndsHere, Applies
  <1> QED
    BY <1>1, <1>2, <1>3, <1>4

\* A frame that is taken is that of a unit.
LEMMA TakenFrame ==
    ASSUME NEW U, NEW c, IsConn(c, U), NEW x \in Seq(U), NEW t, t = TakeFrame(c, x), t.res = "Some"
    PROVE  \E y \in U : y.what = "frame" /\ t.frame = y.of
  <1>1. PICK g \in Seq(U) : Len(g) < FRAME_LEN /\ Completes(c, x, t, g)
    BY TakeFrameCases DEF Idles, Halves, Spoils
  <1> DEFINE b == g \o x
  <1>2. t.frame = b[1].of /\ b[1].what = "frame"
    BY <1>1 DEF Completes
  <1>3. b \in Seq(U) /\ Len(b) = Len(g) + Len(x) /\ Len(g) \in Nat /\ Len(x) \in Nat
    BY ConcatFacts
  <1>4. Len(g) < 2 /\ Len(x) >= 2 - Len(g)
    BY <1>1 DEF Completes, FRAME_LEN
  <1> HIDE DEF b
  <1>5. 1 \in 1 .. Len(b)
    BY <1>3, <1>4
  <1>6. b[1] \in U
    BY <1>3, <1>5
  <1> QED
    BY <1>2, <1>6

\* The beginnings of lists of one or two.
LEMMA TupleParts ==
    /\ \A w : DOMAIN <<w>> = {1} /\ SubSeq(<<w>>, 1, 1) = <<w>> /\ SubSeq(<<w>>, 1, 0) = <<>>
    /\ \A w, z : /\ DOMAIN <<w, z>> = {1, 2} /\ SubSeq(<<w, z>>, 1, 2) = <<w, z>>
                 /\ SubSeq(<<w, z>>, 1, 1) = <<w>> /\ SubSeq(<<w, z>>, 1, 0) = <<>>
  <1>1. ASSUME NEW w
        PROVE  DOMAIN <<w>> = {1} /\ SubSeq(<<w>>, 1, 1) = <<w>> /\ SubSeq(<<w>>, 1, 0) = <<>>
    <2>1. <<w>> \in Seq({w}) /\ Len(<<w>>) = 1
      OBVIOUS
    <2>2. SubSeq(<<w>>, 1, 1) = <<w>>
      BY <2>1, WholeSeq
    <2>3. SubSeq(<<w>>, 1, 0) = <<>>
      BY <2>1
    <2>4. DOMAIN <<w>> = {1}
      OBVIOUS
    <2> QED
      BY <2>2, <2>3, <2>4
  <1>2. ASSUME NEW w, NEW z
        PROVE  /\ DOMAIN <<w, z>> = {1, 2} /\ SubSeq(<<w, z>>, 1, 2) = <<w, z>>
               /\ SubSeq(<<w, z>>, 1, 1) = <<w>> /\ SubSeq(<<w, z>>, 1, 0) = <<>>
    <2>1. <<w, z>> \in Seq({w, z}) /\ Len(<<w, z>>) = 2 /\ <<w, z>>[1] = w
      OBVIOUS
    <2>2. SubSeq(<<w, z>>, 1, 2) = <<w, z>>
      BY <2>1, WholeSeq
    <2>3. SubSeq(<<w, z>>, 1, 0) = <<>>
      BY <2>1
    <2>4. DOMAIN <<w, z>> = {1, 2}
      OBVIOUS
    <2>5. SubSeq(<<w, z>>, 1, 1) = <<w>>
      <3> DEFINE s == <<w, z>>
      <3>1. s \in Seq({w, z}) /\ Len(s) = 2 /\ s[1] = w
        BY <2>1
      <3> HIDE DEF s
      <3>2. Len(SubSeq(s, 1, 1)) = 1 /\ SubSeq(s, 1, 1)[1] = w /\ SubSeq(s, 1, 1) \in Seq({w, z})
        BY <3>1
      <3>3. SubSeq(s, 1, 1) = <<w>>
        <4> DEFINE t == SubSeq(s, 1, 1)
        <4> HIDE DEF t
        <4>1. t \in Seq({w, z}) /\ Len(t) = 1 /\ t[1] = w
          BY <3>2 DEF t
        <4>2. t = <<w>>
          BY <4>1
        <4> QED
          BY <4>2 DEF t
      <3> QED
        BY <3>3 DEF s
    <2> QED
      BY <2>2, <2>3, <2>4, <2>5
  <1> QED
    BY <1>1, <1>2

-----------------------------------------------------------------------------
(* The table of a connection of either kind: what feed makes of it *)

\* No name is stored twice in the table e.
Distinct(e) == \A i, j \in DOMAIN e : e[i] = e[j] => i = j

-----------------------------------------------------------------------------
(* feed of a PUB connection *)

PubTypes == {<<"SUB">>, <<"XSUB">>}

\* The table after one frame of the traffic.
TableWith(table, f) ==
    IF f.kind \in {"SUBSCRIBE", "MSG_SUB"} THEN Subscribe(table, f.arg)
    ELSE IF f.kind \in {"CANCEL", "MSG_CANCEL"} THEN Cancel(table, f.arg)
    ELSE table

\* What feed does to the table of subscriptions.
TableFed(c, x, r) ==
    /\ DOMAIN r.conn = DOMAIN c
    /\ r.conn.sub_table = IF FrameTaken(c, x) THEN TableWith(c.sub_table, TakeFrame(c, x).frame)
                          ELSE c.sub_table

IsPub(c, U) == IsConn(c, U) /\ DOMAIN c = ConnFields \cup {"sub_table"}

\* d is c but for a field.
DiffersIn(c, d, field) ==
    DOMAIN d = DOMAIN c /\ \A k \in DOMAIN c : k # field => d[k] = c[k]

\* The decoder changes nothing of the connection but itself.
LEMMA TakeFrameKeeps ==
    ASSUME NEW U, NEW c, IsConn(c, U), NEW x \in Seq(U), NEW t, t = TakeFrame(c, x)
    PROVE  DiffersIn(c, t.conn, "frame_decoder") /\ IsConn(t.conn, U)
  <1>1. \/ Idles(c, x, t) \/ Halves(c, x, t) \/ Spoils(c, x, t)
        \/ \E g \in Seq(U) : Len(g) < FRAME_LEN /\ Completes(c, x, t, g)
    BY TakeFrameCases
  <1>2. ASSUME NEW dec, IsDecoder(dec, U), t.conn = [c EXCEPT !.frame_decoder = dec]
        PROVE  DiffersIn(c, t.conn, "frame_decoder") /\ IsConn(t.conn, U)
    <2>1. Redecoded(U, c, t.conn, dec)
      BY <1>2, RedecodedFacts
    <2> QED
      BY <1>2, <2>1 DEF Redecoded, DiffersIn
  <1>3. IsDecoder(c.frame_decoder, U) /\ IsDecoder(Poisoned, U) /\ IsDecoder(Holding(<<>>), U)
    <2>1. <<>> \in Seq(U) /\ Len(<<>>) < 2
      OBVIOUS
    <2> QED
      BY <2>1, Zenon DEF IsDecoder, IsConn, FRAME_LEN
  <1>4. CASE Halves(c, x, t)
    <2>1. IsDecoder(Holding(x), U)
      <3>1. Len(x) = 1
        BY <1>4 DEF Halves
      <3>2. Len(x) < 2
        BY <3>1
      <3> QED
        BY <3>2, Zenon DEF IsDecoder, FRAME_LEN
    <2> QED
      BY <1>2, <1>4, <2>1 DEF Halves
  <1>5. CASE Idles(c, x, t)
    BY <1>2, <1>3, <1>5 DEF Idles
  <1>6. CASE Spoils(c, x, t)
    BY <1>2, <1>3, <1>6 DEF Spoils
  <1>7. CASE \E g \in Seq(U) : Len(g) < FRAME_LEN /\ Completes(c, x, t, g)
    BY <1>2, <1>3, <1>7 DEF Completes
  <1> QED
    BY <1>1, <1>4, <1>5, <1>6, <1>7

\* A change of state changes nothing else.
LEMMA RestatedDiffers ==
    ASSUME NEW c, NEW d, NEW st, Restated(c, d, st)
    PROVE  DiffersIn(c, d, "state")
    BY DEF Restated, DiffersIn

\* apply_frame of connection.rs answers a PING, changes the table as
\* TableWith says, and nothing else.
LEMMA PubApplies ==
    ASSUME NEW U, NEW d, IsPub(d, U), NEW f, NEW e, e = ApplyFrame(d, f)
    PROVE  /\ ChangesLittle(d, e) /\ Answering(d, e, f)
           /\ DOMAIN e = DOMAIN d /\ e.sub_table = TableWith(d.sub_table, f)
  <1>1. CASE f.kind \in {"SUBSCRIBE", "MSG_SUB"}
    <2>1. e = [d EXCEPT !.sub_table = Subscribe(d.sub_table, f.arg)]
      BY <1>1 DEF ApplyFrame
    <2> QED
      BY <1>1, <2>1 DEF IsPub, ConnFields, ChangesLittle, Answering, TableWith
  <1>2. CASE f.kind \in {"CANCEL", "MSG_CANCEL"}
    <2>1. e = [d EXCEPT !.sub_table = Cancel(d.sub_table, f.arg)]
      BY <1>2 DEF ApplyFrame
    <2> QED
      BY <1>2, <2>1 DEF IsPub, ConnFields, ChangesLittle, Answering, TableWith
  <1>3. CASE f.kind = "PING" /\ d.peer_version_minor >= 1
    <2>1. e = [d EXCEPT !.pending_pong = <<PingContext(f)>>]
      BY <1>3 DEF ApplyFrame
    <2> QED
      BY <1>3, <2>1 DEF IsPub, ConnFields, ChangesLittle, Answering, TableWith
  <1>4. CASE /\ f.kind \notin {"SUBSCRIBE", "MSG_SUB"}
             /\ f.kind \notin {"CANCEL", "MSG_CANCEL"}
             /\ ~(f.kind = "PING" /\ d.peer_version_minor >= 1)
    <2>1. e = d
      BY <1>4 DEF ApplyFrame
    <2> QED
      BY <1>4, <2>1 DEF IsPub, ConnFields, ChangesLittle, Answering, TableWith
  <1> QED
    BY <1>1, <1>2, <1>3, <1>4

\* The frames of the handshake leave the table alone.
LEMMA HandshakeKeepsTable ==
    ASSUME NEW U, NEW c, IsPub(c, U), NEW x \in Seq(U), c.state # "Established",
           NEW t, t = TakeFrame(c, x), NEW r,
           DiffersIn(t.conn, r.conn, "state")
    PROVE  TableFed(c, x, r)
  <1>1. IsConn(c, U)
    BY DEF IsPub
  <1>2. DiffersIn(c, t.conn, "frame_decoder")
    BY <1>1, TakeFrameKeeps
  <1>3. DOMAIN t.conn = DOMAIN c /\ t.conn.sub_table = c.sub_table
    BY <1>2 DEF IsPub, ConnFields, DiffersIn
  <1>4. DOMAIN r.conn = DOMAIN c /\ r.conn.sub_table = c.sub_table
    BY <1>3 DEF IsPub, ConnFields, DiffersIn
  <1> QED
    BY <1>4 DEF TableFed, FrameTaken

\* feed of connection.rs is a step of FeedsTo for a subscriber's socket
\* types, and applies the frame it takes to the table once established.
LEMMA PubFeeds ==
    ASSUME NEW U, NEW c, IsPub(c, U), NEW x \in Seq(U), NEW r, r = FeedConn(c, x)
    PROVE  FeedsTo(U, c, x, r, PubTypes) /\ TableFed(c, x, r)
  <1> DEFINE t == TakeFrame(c, x)
  <1>0. IsConn(c, U)
    BY DEF IsPub
  <1>1. CASE c.state = "Greeting"
    <2>1. r = FeedGreeting(c, x)
      BY <1>1 DEF FeedConn
    <2>2. FeedsTo(U, c, x, r, PubTypes)
      BY <1>1, <2>1 DEF FeedsTo
    <2>3. ~FrameTaken(c, x)
      BY <1>1 DEF FrameTaken
    <2>4. DOMAIN r.conn = DOMAIN c /\ r.conn.sub_table = c.sub_table
      BY <2>1 DEF FeedGreeting, Ok, Err, IsPub, ConnFields
    <2> QED
      BY <2>2, <2>3, <2>4 DEF TableFed
  <1>2. ASSUME r = Err(c, "WrongState"), c.state # "Established"
        PROVE  FeedsTo(U, c, x, r, PubTypes) /\ TableFed(c, x, r)
    BY <1>2 DEF FeedsTo, TableFed, Err, FrameTaken
  <1>3. ASSUME c.state \in {"Ready", "PlainReady"}, c.our_ready_sent, r = FeedReadyInner(c, x)
        PROVE  FeedsTo(U, c, x, r, PubTypes) /\ TableFed(c, x, r)
    <2>1. ReadyHandled(t, r, PubTypes)
      <3>1. r = IF t.res = "Some" THEN HandleReady(t.conn, t.frame, ParseReady(t.frame), t.n) ELSE t
        BY <1>3 DEF FeedReadyInner
      <3> HIDE DEF t
      <3> QED
        BY <3>1 DEF ReadyHandled, HandleReady, ParseReady, PubTypes
    <2>3. FeedsTo(U, c, x, r, PubTypes)
      <3>1. t = TakeFrame(c, x)
        OBVIOUS
      <3> HIDE DEF t
      <3> QED
        BY <1>0, <1>3, <2>1, <3>1, ReadyFeeds
    <2>4. DiffersIn(t.conn, r.conn, "state")
      <3> HIDE DEF t
      <3>1. r.conn = t.conn \/ Restated(t.conn, r.conn, "Established") \/ Restated(t.conn, r.conn, "Failed")
        BY <2>1 DEF ReadyHandled, Ok, Err, Restated
      <3>2. r.conn = t.conn => DiffersIn(t.conn, r.conn, "state")
        BY DEF DiffersIn
      <3> QED
        BY <3>1, <3>2, RestatedDiffers
    <2> QED
      BY <1>3, <2>3, <2>4, HandshakeKeepsTable
  <1>4. CASE c.state = "Ready"
    <2>1. r = IF ~c.our_ready_sent THEN Err(c, "WrongState") ELSE FeedReadyInner(c, x)
      BY <1>4 DEF FeedConn, FeedReady
    <2> QED
      BY <1>2, <1>3, <1>4, <2>1
  <1>5. CASE c.state = "PlainHello"
    <2>1. r = FeedPlainHello(c, x)
      BY <1>5 DEF FeedConn
    <2>2. FeedsTo(U, c, x, r, PubTypes)
      BY <1>0, <1>5, <2>1, HelloFeeds
    <2>3. r = IF t.res = "Some" THEN HandleHello(t.conn, t.frame, t.n) ELSE t
      BY <2>1 DEF FeedPlainHello
    <2>4. DiffersIn(t.conn, r.conn, "state")
      <3> HIDE DEF t
      <3>1. r.conn = t.conn \/ Restated(t.conn, r.conn, "PlainReady") \/ Restated(t.conn, r.conn, "Failed")
        BY <2>3 DEF HandleHello, Ok, Err, Restated
      <3>2. r.conn = t.conn => DiffersIn(t.conn, r.conn, "state")
        BY DEF DiffersIn
      <3> QED
        BY <3>1, <3>2, RestatedDiffers
    <2> QED
      BY <1>5, <2>2, <2>4, HandshakeKeepsTable
  <1>6. CASE c.state = "PlainReady"
    <2>1. r = IF ~c.our_welcome_sent \/ ~c.our_ready_sent THEN Err(c, "WrongState")
              ELSE FeedReadyInner(c, x)
      BY <1>6 DEF FeedConn, FeedPlainReady
    <2> QED
      BY <1>2, <1>3, <1>6, <2>1
  <1>7. CASE c.state = "Established"
    <2> DEFINE e == ApplyFrame(t.conn, t.frame)
    <2>1. r = IF t.res = "Some" THEN Ok(e, t.n) ELSE t
      BY <1>7 DEF FeedConn, FeedEstablished, HandleEstablished
    <2>2. DiffersIn(c, t.conn, "frame_decoder") /\ IsConn(t.conn, U)
      BY <1>0, TakeFrameKeeps
    <2>3. DOMAIN t.conn = DOMAIN c /\ t.conn.sub_table = c.sub_table
      BY <2>2 DEF IsPub, ConnFields, DiffersIn
    <2>5. /\ ChangesLittle(t.conn, e) /\ Answering(t.conn, e, t.frame)
          /\ DOMAIN e = DOMAIN t.conn /\ e.sub_table = TableWith(t.conn.sub_table, t.frame)
      <3>1. IsPub(t.conn, U)
        BY <2>2, <2>3 DEF IsPub
      <3> HIDE DEF t
      <3> QED
        BY <3>1, PubApplies
    <2>6. FeedsTo(U, c, x, r, PubTypes)
      <3> HIDE DEF e
      <3> QED
        BY <1>0, <1>7, <2>1, <2>5, EstablishedFeeds
    <2>7. TableFed(c, x, r)
      <3> HIDE DEF e
      <3> QED
        BY <1>7, <2>1, <2>3, <2>5 DEF TableFed, FrameTaken, Ok
    <2> QED
      BY <2>6, <2>7
  <1>8. CASE c.state = "Failed"
    <2>1. r = Err(c, "WrongState")
      BY <1>8 DEF FeedConn
    <2> QED
      BY <1>2, <1>8, <2>1
  <1> QED
    BY <1>0, <1>1, <1>4, <1>5, <1>6, <1>7, <1>8 DEF IsConn, States
-----------------------------------------------------------------------------
(* feed of a RADIO connection *)

DishTypes == {<<"DISH">>}

\* The table of groups after one frame of the traffic.
GroupsWith(table, f) ==
    IF f.kind = "JOIN" THEN Radio!G!Join(table, f.arg)
    ELSE IF f.kind = "LEAVE" THEN Radio!G!Leave(table, f.arg)
    ELSE table

GroupsFed(c, x, r) ==
    /\ DOMAIN r.conn = DOMAIN c
    /\ r.conn.group_table = IF FrameTaken(c, x) THEN GroupsWith(c.group_table, TakeFrame(c, x).frame)
                            ELSE c.group_table

IsRadioConn(c, U) == IsConn(c, U) /\ DOMAIN c = ConnFields \cup {"group_table"}

\* RADIO has the text of the handshake in common with PUB.
LEMMA SameText ==
    /\ \A c, x : Radio!H!TakeFrame(c, x) = TakeFrame(c, x)
    /\ \A c, x : Radio!H!FeedGreeting(c, x) = FeedGreeting(c, x)
    /\ \A c, f, n : Radio!H!HandleHello(c, f, n) = HandleHello(c, f, n)
    /\ \A c, f, v, n : Radio!H!HandleReady(c, f, v, n) = HandleReady(c, f, v, n)
    /\ \A f : Radio!H!PingContext(f) = PingContext(f)
    /\ \A c, n : Radio!H!Ok(c, n) = Ok(c, n)
    /\ \A c, e : Radio!H!Err(c, e) = Err(c, e)
  <1>1. \A c, n : Radio!H!Ok(c, n) = Ok(c, n)
    BY Zenon DEF Radio!H!Ok, Ok
  <1>2. \A c, e : Radio!H!Err(c, e) = Err(c, e)
    BY Zenon DEF Radio!H!Err, Err
  <1>3. \A f : Radio!H!PingContext(f) = PingContext(f)
    BY Zenon DEF Radio!H!PingContext, PingContext, Radio!H!SmallerOf, SmallerOf
  <1>4. \A c, x : Radio!H!TakeFrame(c, x) = TakeFrame(c, x)
    <2>1. \A v : Radio!H!Refused(v) <=> Refused(v)
      BY DEF Radio!H!Refused, Refused, Radio!H!FRAME_LEN, FRAME_LEN
    <2>2. \A d, x : Radio!H!DecoderFeed(d, x) = DecoderFeed(d, x)
      BY <2>1 DEF Radio!H!DecoderFeed, DecoderFeed, Radio!H!NewDecoder, NewDecoder,
                  Radio!H!FRAME_LEN, FRAME_LEN
    <2>3. \A d, x : Radio!H!DecodedFrame(d, x) = DecodedFrame(d, x)
      BY DEF Radio!H!DecodedFrame, DecodedFrame
    <2> QED
      BY <1>1, <1>2, <2>2, <2>3 DEF Radio!H!TakeFrame, TakeFrame
  <1>5. \A c, x : Radio!H!FeedGreeting(c, x) = FeedGreeting(c, x)
    <2>1. \A v : Radio!H!ParsePartialGreeting(v) <=> ParsePartialGreeting(v)
      BY DEF Radio!H!ParsePartialGreeting, ParsePartialGreeting, Radio!H!IsGreetingUnit,
             IsGreetingUnit, Radio!H!GREETING_PARTIAL_LEN, GREETING_PARTIAL_LEN
    <2>2. \A m, v : Radio!H!ParseGreeting(m, v) <=> ParseGreeting(m, v)
      BY <2>1 DEF Radio!H!ParseGreeting, ParseGreeting, Radio!H!IsGreetingUnit, IsGreetingUnit
    <2>3. \A v, w : Radio!H!SmallerOf(v, w) = SmallerOf(v, w)
      BY DEF Radio!H!SmallerOf, SmallerOf
    <2>4. /\ Radio!H!GREETING_LEN = GREETING_LEN
          /\ Radio!H!GREETING_PARTIAL_LEN = GREETING_PARTIAL_LEN
      BY DEF Radio!H!GREETING_LEN, GREETING_LEN, Radio!H!GREETING_PARTIAL_LEN, GREETING_PARTIAL_LEN
    <2> SUFFICES ASSUME NEW c, NEW x PROVE Radio!H!FeedGreeting(c, x) = FeedGreeting(c, x)
      OBVIOUS
    <2> DEFINE n       == SmallerOf(Len(x), GREETING_LEN - Len(c.greeting_buf))
               m       == Radio!H!SmallerOf(Len(x), Radio!H!GREETING_LEN - Len(c.greeting_buf))
               Buf(k)  == c.greeting_buf \o SubSeq(x, 1, k)
               C1(k)   == [c EXCEPT !.greeting_buf = Buf(k)]
               C2(k)   == [C1(k) EXCEPT !.peer_version_minor = Buf(k)[3].of.minor,
                              !.peer_greeting_received = TRUE,
                              !.state = IF c.our_greeting_sent
                                        THEN IF c.mechanism = "Null" THEN "Ready" ELSE "PlainHello" ELSE @]
    <2>5. FeedGreeting(c, x) =
             IF /\ Len(c.greeting_buf) < GREETING_PARTIAL_LEN
                /\ Len(Buf(n)) >= GREETING_PARTIAL_LEN
                /\ ~ParsePartialGreeting(Buf(n))
             THEN Err(C1(n), "GreetingError")
             ELSE IF Len(Buf(n)) < GREETING_LEN THEN Ok(C1(n), n)
             ELSE IF ~ParseGreeting(c.mechanism, Buf(n)) THEN Err(C1(n), "GreetingError")
             ELSE Ok(C2(n), n)
      BY DEF FeedGreeting
    <2>6. Radio!H!FeedGreeting(c, x) =
             IF /\ Len(c.greeting_buf) < Radio!H!GREETING_PARTIAL_LEN
                /\ Len(Buf(m)) >= Radio!H!GREETING_PARTIAL_LEN
                /\ ~Radio!H!ParsePartialGreeting(Buf(m))
             THEN Radio!H!Err(C1(m), "GreetingError")
             ELSE IF Len(Buf(m)) < Radio!H!GREETING_LEN THEN Radio!H!Ok(C1(m), m)
             ELSE IF ~Radio!H!ParseGreeting(c.mechanism, Buf(m)) THEN Radio!H!Err(C1(m), "GreetingError")
             ELSE Radio!H!Ok(C2(m), m)
      BY DEF Radio!H!FeedGreeting
    <2>7. m = n
      BY <2>3, <2>4
    <2> HIDE DEF n, m, Buf, C1, C2
    <2> QED
      BY <1>1, <1>2, <2>1, <2>2, <2>4, <2>5, <2>6, <2>7
  <1>6. \A c, f, n : Radio!H!HandleHello(c, f, n) = HandleHello(c, f, n)
    BY Zenon DEF Radio!H!HandleHello, HandleHello, Radio!H!Ok, Ok, Radio!H!Err, Err
  <1>7. \A c, f, v, n : Radio!H!HandleReady(c, f, v, n) = HandleReady(c, f, v, n)
    BY Zenon DEF Radio!H!HandleReady, HandleReady, Radio!H!Ok, Ok, Radio!H!Err, Err
  <1> QED
    BY <1>1, <1>2, <1>3, <1>4, <1>5, <1>6, <1>7, Zenon

\* apply_frame of radio_connection.rs answers a PING, changes the table as
\* GroupsWith says, and nothing else.
LEMMA RadioApplies ==
    ASSUME NEW U, NEW d, IsRadioConn(d, U), NEW f, NEW e, e = Radio!ApplyFrame(d, f)
    PROVE  /\ ChangesLittle(d, e) /\ Answering(d, e, f)
           /\ DOMAIN e = DOMAIN d /\ e.group_table = GroupsWith(d.group_table, f)
  <1>1. CASE f.kind = "JOIN"
    <2>1. e = [d EXCEPT !.group_table = Radio!G!Join(d.group_table, f.arg)]
      BY <1>1 DEF Radio!ApplyFrame
    <2> QED
      BY <1>1, <2>1 DEF IsRadioConn, ConnFields, ChangesLittle, Answering, GroupsWith
  <1>2. CASE f.kind = "LEAVE"
    <2>1. e = [d EXCEPT !.group_table = Radio!G!Leave(d.group_table, f.arg)]
      BY <1>2 DEF Radio!ApplyFrame
    <2> QED
      BY <1>2, <2>1 DEF IsRadioConn, ConnFields, ChangesLittle, Answering, GroupsWith
  <1>3. CASE f.kind = "PING" /\ d.peer_version_minor >= 1
    <2>1. e = [d EXCEPT !.pending_pong = <<PingContext(f)>>]
      BY <1>3, SameText DEF Radio!ApplyFrame
    <2> QED
      BY <1>3, <2>1 DEF IsRadioConn, ConnFields, ChangesLittle, Answering, GroupsWith
  <1>4. CASE f.kind # "JOIN" /\ f.kind # "LEAVE" /\ ~(f.kind = "PING" /\ d.peer_version_minor >= 1)
    <2>1. e = d
      BY <1>4 DEF Radio!ApplyFrame
    <2> QED
      BY <1>4, <2>1 DEF IsRadioConn, ConnFields, ChangesLittle, Answering, GroupsWith
  <1> QED
    BY <1>1, <1>2, <1>3, <1>4

\* A frame of the handshake leaves the groups as they are.
LEMMA HandshakeKeepsGroups ==
    ASSUME NEW U, NEW c, IsRadioConn(c, U), NEW x \in Seq(U), c.state # "Established",
           NEW t, t = TakeFrame(c, x), NEW r,
           DiffersIn(t.conn, r.conn, "state")
    PROVE  GroupsFed(c, x, r)
  <1>1. IsConn(c, U)
    BY DEF IsRadioConn
  <1>2. DiffersIn(c, t.conn, "frame_decoder")
    BY <1>1, TakeFrameKeeps
  <1>3. DOMAIN t.conn = DOMAIN c /\ t.conn.group_table = c.group_table
    BY <1>2 DEF IsRadioConn, ConnFields, DiffersIn
  <1>4. DOMAIN r.conn = DOMAIN c /\ r.conn.group_table = c.group_table
    BY <1>3 DEF IsRadioConn, ConnFields, DiffersIn
  <1> QED
    BY <1>4 DEF GroupsFed, FrameTaken

\* feed of radio_connection.rs is a step of FeedsTo for DISH, and applies the
\* frame it takes to the groups once established.
LEMMA RadioFeeds ==
    ASSUME NEW U, NEW c, IsRadioConn(c, U), NEW x \in Seq(U), NEW r, r = Radio!FeedConn(c, x)
    PROVE  FeedsTo(U, c, x, r, DishTypes) /\ GroupsFed(c, x, r)
  <1> DEFINE t == TakeFrame(c, x)
  <1>0. IsConn(c, U)
    BY DEF IsRadioConn
  <1>1. CASE c.state = "Greeting"
    <2>1. r = FeedGreeting(c, x)
      BY <1>1, SameText DEF Radio!FeedConn, Radio!FeedGreeting
    <2>2. FeedsTo(U, c, x, r, DishTypes)
      BY <1>1, <2>1 DEF FeedsTo
    <2>3. ~FrameTaken(c, x)
      BY <1>1 DEF FrameTaken
    <2>4. DOMAIN r.conn = DOMAIN c /\ r.conn.group_table = c.group_table
      BY <2>1 DEF FeedGreeting, Ok, Err, IsRadioConn, ConnFields
    <2> QED
      BY <2>2, <2>3, <2>4 DEF GroupsFed
  <1>2. ASSUME r = Err(c, "WrongState"), c.state # "Established"
        PROVE  FeedsTo(U, c, x, r, DishTypes) /\ GroupsFed(c, x, r)
    BY <1>2 DEF FeedsTo, GroupsFed, Err, FrameTaken
  <1>3. ASSUME c.state \in {"Ready", "PlainReady"}, c.our_ready_sent,
               r = Radio!FeedReadyInner(c, x)
        PROVE  FeedsTo(U, c, x, r, DishTypes) /\ GroupsFed(c, x, r)
    <2>1. ReadyHandled(t, r, DishTypes)
      <3>1. r = IF t.res = "Some" THEN HandleReady(t.conn, t.frame, Radio!ParseReady(t.frame), t.n) ELSE t
        BY <1>3, SameText DEF Radio!FeedReadyInner
      <3> HIDE DEF t
      <3> QED
        BY <3>1 DEF ReadyHandled, HandleReady, Radio!ParseReady, DishTypes
    <2>3. FeedsTo(U, c, x, r, DishTypes)
      <3>1. t = TakeFrame(c, x)
        OBVIOUS
      <3> HIDE DEF t
      <3> QED
        BY <1>0, <1>3, <2>1, <3>1, ReadyFeeds
    <2>4. DiffersIn(t.conn, r.conn, "state")
      <3> HIDE DEF t
      <3>1. r.conn = t.conn \/ Restated(t.conn, r.conn, "Established") \/ Restated(t.conn, r.conn, "Failed")
        BY <2>1 DEF ReadyHandled, Ok, Err, Restated
      <3>2. r.conn = t.conn => DiffersIn(t.conn, r.conn, "state")
        BY DEF DiffersIn
      <3> QED
        BY <3>1, <3>2, RestatedDiffers
    <2> QED
      BY <1>3, <2>3, <2>4, HandshakeKeepsGroups
  <1>4. CASE c.state = "Ready"
    <2>1. r = IF ~c.our_ready_sent THEN Err(c, "WrongState") ELSE Radio!FeedReadyInner(c, x)
      BY <1>4, SameText DEF Radio!FeedConn, Radio!FeedReady
    <2> QED
      BY <1>2, <1>3, <1>4, <2>1
  <1>5. CASE c.state = "PlainHello"
    <2>1. r = FeedPlainHello(c, x)
      BY <1>5, SameText DEF Radio!FeedConn, Radio!FeedPlainHello, Radio!H!FeedPlainHello, FeedPlainHello
    <2>2. FeedsTo(U, c, x, r, DishTypes)
      BY <1>0, <1>5, <2>1, HelloFeeds
    <2>3. r = IF t.res = "Some" THEN HandleHello(t.conn, t.frame, t.n) ELSE t
      BY <2>1 DEF FeedPlainHello
    <2>4. DiffersIn(t.conn, r.conn, "state")
      <3> HIDE DEF t
      <3>1. r.conn = t.conn \/ Restated(t.conn, r.conn, "PlainReady") \/ Restated(t.conn, r.conn, "Failed")
        BY <2>3 DEF HandleHello, Ok, Err, Restated
      <3>2. r.conn = t.conn => DiffersIn(t.conn, r.conn, "state")
        BY DEF DiffersIn
      <3> QED
        BY <3>1, <3>2, RestatedDiffers
    <2> QED
      BY <1>5, <2>2, <2>4, HandshakeKeepsGroups
  <1>6. CASE c.state = "PlainReady"
    <2>1. r = IF ~c.our_welcome_sent \/ ~c.our_ready_sent THEN Err(c, "WrongState")
              ELSE Radio!FeedReadyInner(c, x)
      BY <1>6, SameText DEF Radio!FeedConn, Radio!FeedPlainReady
    <2> QED
      BY <1>2, <1>3, <1>6, <2>1
  <1>7. CASE c.state = "Established"
    <2> DEFINE e == Radio!ApplyFrame(t.conn, t.frame)
    <2>1. r = IF t.res = "Some" THEN Ok(e, t.n) ELSE t
      BY <1>7, SameText DEF Radio!FeedConn, Radio!FeedEstablished
    <2>2. DiffersIn(c, t.conn, "frame_decoder") /\ IsConn(t.conn, U)
      BY <1>0, TakeFrameKeeps
    <2>3. DOMAIN t.conn = DOMAIN c /\ t.conn.group_table = c.group_table
      BY <2>2 DEF IsRadioConn, ConnFields, DiffersIn
    <2>5. /\ ChangesLittle(t.conn, e) /\ Answering(t.conn, e, t.frame)
          /\ DOMAIN e = DOMAIN t.conn /\ e.group_table = GroupsWith(t.conn.group_table, t.frame)
      <3>1. IsRadioConn(t.conn, U)
        BY <2>2, <2>3 DEF IsRadioConn
      <3> HIDE DEF t
      <3> QED
        BY <3>1, RadioApplies
    <2>6. FeedsTo(U, c, x, r, DishTypes)
      <3> HIDE DEF e
      <3> QED
        BY <1>0, <1>7, <2>1, <2>5, EstablishedFeeds
    <2>7. GroupsFed(c, x, r)
      <3> HIDE DEF e
      <3> QED
        BY <1>7, <2>1, <2>3, <2>5 DEF GroupsFed, FrameTaken, Ok
    <2> QED
      BY <2>6, <2>7
  <1>8. CASE c.state = "Failed"
    <2>1. r = Err(c, "WrongState")
      BY <1>8, SameText DEF Radio!FeedConn
    <2> QED
      BY <1>2, <1>8, <2>1
  <1> QED
    BY <1>0, <1>1, <1>4, <1>5, <1>6, <1>7, <1>8 DEF IsConn, States
-----------------------------------------------------------------------------
(* The table of groups *)

InTable(e) == {e[i] : i \in DOMAIN e}

\* push on a table without the name g: one entry more, and the set of the
\* stored names grows by g.
LEMMA PushFacts ==
    ASSUME NEW T, NEW e \in Seq(T), NEW g \in T, Distinct(e), g \notin InTable(e)
    PROVE  /\ Append(e, g) \in Seq(T) /\ Len(Append(e, g)) = Len(e) + 1
           /\ Distinct(Append(e, g))
           /\ InTable(Append(e, g)) = InTable(e) \cup {g}
  <1> DEFINE f == Append(e, g)
  <1>1. /\ f \in Seq(T) /\ Len(f) = Len(e) + 1 /\ Len(e) \in Nat
        /\ DOMAIN f = 1 .. Len(e) + 1 /\ DOMAIN e = 1 .. Len(e)
        /\ \A i \in 1 .. Len(e) : f[i] = e[i]
        /\ f[Len(e) + 1] = g
    OBVIOUS
  <1> HIDE DEF f
  <1>2. \A i \in 1 .. Len(e) : e[i] # g
    BY <1>1 DEF InTable
  <1>3. Distinct(f)
    <2>1. SUFFICES ASSUME NEW i \in DOMAIN f, NEW j \in DOMAIN f, f[i] = f[j]
                   PROVE  i = j
      BY DEF Distinct
    <2>2. CASE i \in 1 .. Len(e) /\ j \in 1 .. Len(e)
      BY <1>1, <2>1, <2>2 DEF Distinct
    <2>3. CASE ~(i \in 1 .. Len(e) /\ j \in 1 .. Len(e))
      BY <1>1, <1>2, <2>1, <2>3
    <2> QED
      BY <2>2, <2>3
  <1>4. InTable(f) = InTable(e) \cup {g}
    <2>1. ASSUME NEW h \in InTable(f) PROVE h \in InTable(e) \cup {g}
      BY <1>1, <2>1 DEF InTable
    <2>2. ASSUME NEW h \in InTable(e) PROVE h \in InTable(f)
      BY <1>1, <2>2 DEF InTable
    <2>3. g \in InTable(f)
      BY <1>1 DEF InTable
    <2> QED
      BY <2>1, <2>2, <2>3
  <1> QED
    BY <1>1, <1>3, <1>4 DEF f

\* leave on a table that holds g: swap_remove takes g away and nothing else,
\* although it moves the last entry.
LEMMA LeaveFacts ==
    ASSUME NEW T, NEW e \in Seq(T), NEW g \in InTable(e), Distinct(e)
    PROVE  /\ Radio!G!Leave(e, g) \in Seq(T) /\ Len(Radio!G!Leave(e, g)) = Len(e) - 1
           /\ Distinct(Radio!G!Leave(e, g))
           /\ InTable(Radio!G!Leave(e, g)) = InTable(e) \ {g}
  <1> DEFINE First(k) == e[k] = g /\ \A j \in 1 .. k - 1 : e[j] # g
             n == Len(e)
             i == CHOOSE k \in DOMAIN e : First(k)
             f == [j \in 1 .. n - 1 |-> IF j = i THEN e[n] ELSE e[j]]
  <1>1. n \in Nat /\ DOMAIN e = 1 .. n /\ \A j \in 1 .. n : e[j] \in T
    OBVIOUS
  <1>2. PICK k \in DOMAIN e : e[k] = g
    BY DEF InTable
  <1>3. First(k)
    BY <1>1, <1>2 DEF Distinct
  <1>4. i \in 1 .. n /\ e[i] = g
    BY <1>1, <1>2, <1>3
  <1>5. Radio!G!Leave(e, g) = f
    BY DEF Radio!G!Leave, Radio!G!Stored, InTable
  <1> HIDE DEF i, First
  <1>6. /\ f \in Seq(T) /\ Len(f) = n - 1 /\ DOMAIN f = 1 .. n - 1
        /\ \A j \in 1 .. n - 1 : f[j] = IF j = i THEN e[n] ELSE e[j]
    <2>1. n - 1 \in Nat
      BY <1>1, <1>4
    <2>2. \A j \in 1 .. n - 1 : (IF j = i THEN e[n] ELSE e[j]) \in T
      BY <1>1, <1>4
    <2> QED
      BY <2>1, <2>2
  <1> HIDE DEF f
  <1>7. \A j \in 1 .. n : e[j] = g => j = i
    BY <1>1, <1>4 DEF Distinct
  <1>8. Distinct(f)
    <2>1. SUFFICES ASSUME NEW a \in 1 .. n - 1, NEW b \in 1 .. n - 1, f[a] = f[b]
                   PROVE  a = b
      BY <1>6 DEF Distinct
    <2> DEFINE from(j) == IF j = i THEN n ELSE j
    <2>2. /\ from(a) \in 1 .. n /\ from(b) \in 1 .. n
          /\ f[a] = e[from(a)] /\ f[b] = e[from(b)]
      BY <1>1, <1>6
    <2>3. from(a) = from(b)
      BY <1>1, <2>1, <2>2 DEF Distinct
    <2> QED
      BY <1>1, <2>3
  <1>9. InTable(f) = InTable(e) \ {g}
    <2>1. ASSUME NEW h \in InTable(f) PROVE h \in InTable(e) \ {g}
      <3>1. PICK j \in 1 .. n - 1 : f[j] = h
        BY <1>6, <2>1 DEF InTable
      <3>2. CASE j = i
        BY <1>1, <1>4, <1>6, <1>7, <3>1, <3>2 DEF InTable
      <3>3. CASE j # i
        BY <1>1, <1>4, <1>6, <1>7, <3>1, <3>3 DEF InTable
      <3> QED
        BY <3>2, <3>3
    <2>2. ASSUME NEW h \in InTable(e) \ {g} PROVE h \in InTable(f)
      <3>1. PICK j \in 1 .. n : e[j] = h /\ j # i
        BY <1>1, <1>4, <2>2 DEF InTable
      <3>2. CASE j = n
        BY <1>1, <1>4, <1>6, <3>1, <3>2 DEF InTable
      <3>3. CASE j # n
        <4>1. j \in 1 .. n - 1
          <5> HIDE DEF n
          <5> QED
            BY <1>1, <3>3
        <4>2. j \in DOMAIN f /\ f[j] = h
          BY <1>6, <3>1, <4>1
        <4> QED
          BY <4>2 DEF InTable
      <3> QED
        BY <3>2, <3>3
    <2> QED
      BY <2>1, <2>2
  <1> QED
    BY <1>5, <1>6, <1>8, <1>9


\* join adds the group, unless its name is too long or the table full, and
\* takes none away.
LEMMA JoinFacts ==
    ASSUME NEW T, NEW e \in Seq(T), NEW g \in T, Distinct(e),
           NEW f, f = Radio!G!Join(e, g)
    PROVE  /\ f \in Seq(T) /\ Distinct(f)
           /\ InTable(e) \subseteq InTable(f) /\ InTable(f) \subseteq InTable(e) \cup {g}
           /\ g \in InTable(f) \/ Len(g) > NAME_CAP \/ (g \notin InTable(e) /\ Len(e) >= GROUP_CAP)
  <1>1. Radio!G!Stored(e) = InTable(e)
    BY DEF Radio!G!Stored, InTable
  <1>2. CASE Radio!G!Refused(e, g)
    <2>1. f = e
      BY <1>2 DEF Radio!G!Join
    <2> QED
      BY <1>1, <1>2, <2>1 DEF Radio!G!Refused, Radio!G!GroupTooLong, Radio!G!TableFull
  <1>3. CASE g \in InTable(e)
    <2>1. f = e
      BY <1>1, <1>3 DEF Radio!G!Join
    <2> QED
      BY <1>3, <2>1
  <1>4. CASE ~Radio!G!Refused(e, g) /\ g \notin InTable(e)
    <2>1. f = Append(e, g)
      BY <1>1, <1>4 DEF Radio!G!Join
    <2> QED
      BY <1>4, <2>1, PushFacts
  <1> QED
    BY <1>2, <1>3, <1>4

\* leave takes the group, and only it, out of the table.
LEMMA LeaveTakes ==
    ASSUME NEW T, NEW e \in Seq(T), NEW g, Distinct(e), NEW f, f = Radio!G!Leave(e, g)
    PROVE  f \in Seq(T) /\ Distinct(f) /\ InTable(f) = InTable(e) \ {g}
  <1>1. CASE g \in InTable(e)
    BY <1>1, LeaveFacts
  <1>2. CASE g \notin InTable(e)
    <2>1. f = e
      BY <1>2 DEF Radio!G!Leave, Radio!G!Stored, InTable
    <2> QED
      BY <1>2, <2>1
  <1> QED
    BY <1>1, <1>2

\* A table without duplicates is as long as the set of what it holds.
LEMMA TableSize ==
    ASSUME NEW T, NEW e \in Seq(T), Distinct(e)
    PROVE  IsFiniteSet(InTable(e)) /\ Cardinality(InTable(e)) = Len(e)
  <1> DEFINE n == Len(e)
  <1>1. n \in Nat /\ DOMAIN e = 1 .. n
    OBVIOUS
  <1>2. IsFiniteSet(1 .. n) /\ Cardinality(1 .. n) = n
    <2>1. IsFiniteSet(1 .. n) /\ Cardinality(1 .. n) = IF 1 > n THEN 0 ELSE n - 1 + 1
      BY <1>1, FS_Interval
    <2> HIDE DEF n
    <2> QED
      BY <1>1, <2>1
  <1>3. e \in Bijection(1 .. n, InTable(e))
    <2>1. e \in [1 .. n -> InTable(e)]
      BY <1>1 DEF InTable
    <2>2. \A a, b \in 1 .. n : e[a] = e[b] => a = b
      BY <1>1 DEF Distinct
    <2>3. \A x \in InTable(e) : \E a \in 1 .. n : e[a] = x
      BY <1>1 DEF InTable
    <2> HIDE DEF n
    <2> QED
      BY <2>1, <2>2, <2>3, Fun_IsBij
  <1> HIDE DEF n
  <1>4. ExistsBijection(1 .. n, InTable(e))
    BY <1>3 DEF ExistsBijection
  <1> QED
    BY <1>2, <1>4, FS_Bijection DEF n
-----------------------------------------------------------------------------
(* The groups that a peer has joined *)

SaidJoin(fs, g) ==
    \E i \in DOMAIN fs :
        /\ fs[i].kind = "JOIN" /\ fs[i].arg = g
        /\ \A j \in i + 1 .. Len(fs) : ~(fs[j].kind = "LEAVE" /\ fs[j].arg = g)

JoinedIn(fs) == {fs[i].arg : i \in {k \in DOMAIN fs : fs[k].kind = "JOIN"}}

\* One more frame: the last word on g is that of the frame if it names g, and
\* what it was otherwise.
LEMMA SaidJoinAppend ==
    ASSUME NEW T, NEW fs \in Seq(T), NEW f \in T, NEW g
    PROVE  SaidJoin(Append(fs, f), g) <=>
              \/ f.kind = "JOIN" /\ f.arg = g
              \/ SaidJoin(fs, g) /\ ~(f.kind = "LEAVE" /\ f.arg = g)
  <1> DEFINE gs == Append(fs, f)
             n == Len(fs)
  <1>1. /\ DOMAIN fs = 1 .. n /\ DOMAIN gs = 1 .. n + 1 /\ Len(gs) = n + 1 /\ n \in Nat
        /\ gs[n + 1] = f /\ \A i \in 1 .. n : gs[i] = fs[i]
    OBVIOUS
  <1> HIDE DEF gs, n
  <1>2. ASSUME SaidJoin(gs, g)
        PROVE  \/ f.kind = "JOIN" /\ f.arg = g
               \/ SaidJoin(fs, g) /\ ~(f.kind = "LEAVE" /\ f.arg = g)
    <2>1. PICK i \in 1 .. n + 1 :
            /\ gs[i].kind = "JOIN" /\ gs[i].arg = g
            /\ \A j \in i + 1 .. n + 1 : ~(gs[j].kind = "LEAVE" /\ gs[j].arg = g)
      BY <1>1, <1>2 DEF SaidJoin
    <2>2. CASE i = n + 1
      BY <1>1, <2>1, <2>2
    <2>3. CASE i # n + 1
      <3>1. i \in 1 .. n /\ n + 1 \in i + 1 .. n + 1
        BY <1>1, <2>3
      <3>2. ~(f.kind = "LEAVE" /\ f.arg = g)
        BY <1>1, <2>1, <3>1
      <3>3. \A j \in i + 1 .. n : j \in 1 .. n /\ j \in i + 1 .. n + 1
        BY <1>1, <3>1
      <3>4. \A j \in i + 1 .. n : ~(fs[j].kind = "LEAVE" /\ fs[j].arg = g)
        BY <1>1, <2>1, <3>3
      <3>5. fs[i].kind = "JOIN" /\ fs[i].arg = g
        BY <1>1, <2>1, <3>1
      <3> QED
        BY <1>1, <3>1, <3>2, <3>4, <3>5 DEF SaidJoin, n
    <2> QED
      BY <2>2, <2>3
  <1>3. ASSUME f.kind = "JOIN" /\ f.arg = g PROVE SaidJoin(gs, g)
    <2>1. n + 1 \in DOMAIN gs /\ \A j \in (n + 1) + 1 .. Len(gs) : FALSE
      BY <1>1
    <2> QED
      BY <1>1, <1>3, <2>1 DEF SaidJoin
  <1>4. ASSUME SaidJoin(fs, g), ~(f.kind = "LEAVE" /\ f.arg = g) PROVE SaidJoin(gs, g)
    <2>1. PICK i \in 1 .. n :
            /\ fs[i].kind = "JOIN" /\ fs[i].arg = g
            /\ \A j \in i + 1 .. n : ~(fs[j].kind = "LEAVE" /\ fs[j].arg = g)
      BY <1>1, <1>4 DEF SaidJoin, n
    <2>2. ASSUME NEW j \in i + 1 .. n + 1 PROVE ~(gs[j].kind = "LEAVE" /\ gs[j].arg = g)
      <3>1. CASE j = n + 1
        BY <1>1, <1>4, <3>1
      <3>2. CASE j # n + 1
        <4>1. j \in i + 1 .. n /\ j \in 1 .. n
          BY <1>1, <3>2
        <4> QED
          BY <1>1, <2>1, <4>1
      <3> QED
        BY <3>1, <3>2
    <2>3. i \in DOMAIN gs /\ gs[i].kind = "JOIN" /\ gs[i].arg = g
      BY <1>1, <2>1
    <2> QED
      BY <1>1, <2>2, <2>3 DEF SaidJoin
  <1> QED
    BY <1>2, <1>3, <1>4 DEF gs

\* One more JOIN adds its group to those that were named.
LEMMA JoinedInAppend ==
    ASSUME NEW T, NEW fs \in Seq(T), NEW f \in T
    PROVE  JoinedIn(Append(fs, f)) = IF f.kind = "JOIN" THEN JoinedIn(fs) \cup {f.arg}
                                     ELSE JoinedIn(fs)
  <1> DEFINE gs == Append(fs, f)
             n == Len(fs)
  <1>1. /\ DOMAIN fs = 1 .. n /\ DOMAIN gs = 1 .. n + 1 /\ n \in Nat
        /\ gs[n + 1] = f /\ \A i \in 1 .. n : gs[i] = fs[i]
    OBVIOUS
  <1> HIDE DEF gs, n
  <1>2. ASSUME NEW g
        PROVE  g \in JoinedIn(gs) <=> g \in JoinedIn(fs) \/ (f.kind = "JOIN" /\ f.arg = g)
    <2>1. g \in JoinedIn(gs) <=> \E i \in 1 .. n + 1 : gs[i].kind = "JOIN" /\ gs[i].arg = g
      BY <1>1 DEF JoinedIn
    <2>2. g \in JoinedIn(fs) <=> \E i \in 1 .. n : fs[i].kind = "JOIN" /\ fs[i].arg = g
      BY <1>1 DEF JoinedIn
    <2>3. 1 .. n + 1 = (1 .. n) \cup {n + 1}
      BY <1>1
    <2> QED
      BY <1>1, <2>1, <2>2, <2>3
  <1> QED
    BY <1>2 DEF gs

\* The table of a connection that has received the frames fs after the
\* handshake.
GroupsInv(table, fs, A) ==
    /\ table \in Seq(A) /\ Distinct(table)
    /\ IsFiniteSet(JoinedIn(fs))
    /\ \A g \in InTable(table) : SaidJoin(fs, g)
    /\ Cardinality(JoinedIn(fs)) <= GROUP_CAP /\ (\A g \in JoinedIn(fs) : Len(g) <= NAME_CAP) =>
          \A g : SaidJoin(fs, g) => g \in InTable(table)

\* A group that is joined was named by a JOIN.
LEMMA SaidMeansJoined ==
    ASSUME NEW fs, NEW g, SaidJoin(fs, g)
    PROVE  g \in JoinedIn(fs)
    BY DEF SaidJoin, JoinedIn

\* The invariant of the groups holds of an empty table and no traffic.
LEMMA GroupsNone ==
    ASSUME NEW A
    PROVE  GroupsInv(<<>>, <<>>, A)
  <1>1. <<>> \in Seq(A) /\ DOMAIN <<>> = {}
    OBVIOUS
  <1>2. JoinedIn(<<>>) = {} /\ InTable(<<>>) = {} /\ Distinct(<<>>)
    BY <1>1 DEF JoinedIn, InTable, Distinct
  <1>3. \A g : ~SaidJoin(<<>>, g)
    BY <1>1 DEF SaidJoin
  <1> QED
    BY <1>1, <1>2, <1>3, FS_EmptySet DEF GroupsInv

\* The invariant of the groups is kept when the frame f is applied.
LEMMA GroupsMore ==
    ASSUME NEW A, NEW table, NEW T, NEW fs \in Seq(T), NEW f \in T, GroupsInv(table, fs, A),
           f.arg \in A, f.kind = "JOIN" => Len(f.arg) \in Nat
    PROVE  GroupsInv(GroupsWith(table, f), Append(fs, f), A)
  <1> DEFINE gs == Append(fs, f)
             new == GroupsWith(table, f)
  <1>1. /\ table \in Seq(A) /\ Distinct(table) /\ IsFiniteSet(JoinedIn(fs))
        /\ \A g \in InTable(table) : SaidJoin(fs, g)
    BY DEF GroupsInv
  <1>2. \A g : SaidJoin(gs, g) <=>
              \/ f.kind = "JOIN" /\ f.arg = g
              \/ SaidJoin(fs, g) /\ ~(f.kind = "LEAVE" /\ f.arg = g)
    BY SaidJoinAppend
  <1>3. JoinedIn(gs) = IF f.kind = "JOIN" THEN JoinedIn(fs) \cup {f.arg} ELSE JoinedIn(fs)
    BY JoinedInAppend
  <1>4. IsFiniteSet(JoinedIn(gs))
    <2>1. IsFiniteSet(JoinedIn(fs) \cup {f.arg})
      BY <1>1, FS_AddElement
    <2> QED
      BY <1>1, <1>3, <2>1
  <1>5. ASSUME Cardinality(JoinedIn(gs)) <= GROUP_CAP, \A g \in JoinedIn(gs) : Len(g) <= NAME_CAP
        PROVE  \A g : SaidJoin(fs, g) => g \in InTable(table)
    <2> HIDE DEF gs
    <2>1. JoinedIn(fs) \in SUBSET JoinedIn(gs)
      BY <1>3
    <2>2. Cardinality(JoinedIn(fs)) <= Cardinality(JoinedIn(gs))
      BY <1>4, <2>1, FS_Subset
    <2>3. Cardinality(JoinedIn(fs)) \in Nat /\ Cardinality(JoinedIn(gs)) \in Nat
      BY <1>1, <1>4, FS_CardinalityType
    <2>4. Cardinality(JoinedIn(fs)) <= GROUP_CAP
      BY <1>5, <2>2, <2>3, CapsAssumption
    <2> QED
      BY <1>5, <2>1, <2>4 DEF GroupsInv
  <1>6. CASE f.kind = "JOIN"
    <2>1. new = Radio!G!Join(table, f.arg)
      BY <1>6 DEF GroupsWith
    <2> HIDE DEF new, gs
    <2>2. /\ new \in Seq(A) /\ Distinct(new)
          /\ InTable(table) \subseteq InTable(new) /\ InTable(new) \subseteq InTable(table) \cup {f.arg}
          /\ \/ f.arg \in InTable(new) \/ Len(f.arg) > NAME_CAP
             \/ f.arg \notin InTable(table) /\ Len(table) >= GROUP_CAP
      BY <1>1, <2>1, JoinFacts
    <2>3. \A g \in InTable(new) : SaidJoin(gs, g)
      BY <1>1, <1>2, <1>6, <2>2
    <2>4. ASSUME Cardinality(JoinedIn(gs)) <= GROUP_CAP, \A g \in JoinedIn(gs) : Len(g) <= NAME_CAP
          PROVE  \A g : SaidJoin(gs, g) => g \in InTable(new)
      <3>1. ~(Len(f.arg) > NAME_CAP)
        <4>1. Len(f.arg) \in Nat /\ Len(f.arg) <= NAME_CAP
          BY <1>3, <1>6, <2>4
        <4> QED
          BY <4>1, CapsAssumption
      <3>2. ASSUME f.arg \notin InTable(table) PROVE ~(Len(table) >= GROUP_CAP)
        <4> DEFINE S == InTable(table)
        <4>1. IsFiniteSet(S) /\ Cardinality(S) = Len(table)
          BY <1>1, TableSize
        <4>2. IsFiniteSet(S \cup {f.arg}) /\ Cardinality(S \cup {f.arg}) = Cardinality(S) + 1
          BY <3>2, <4>1, FS_AddElement
        <4>3. S \cup {f.arg} \in SUBSET JoinedIn(gs)
          BY <1>1, <1>3, <1>6, SaidMeansJoined
        <4> HIDE DEF S
        <4>4. Cardinality(S \cup {f.arg}) <= Cardinality(JoinedIn(gs))
          BY <1>4, <4>3, FS_Subset
        <4>5. Cardinality(S) \in Nat /\ Cardinality(JoinedIn(gs)) \in Nat
          BY <1>4, <4>1, FS_CardinalityType
        <4>6. Len(table) + 1 <= Cardinality(JoinedIn(gs)) /\ Len(table) \in Nat
          BY <4>1, <4>2, <4>4, <4>5
        <4> QED
          BY <2>4, <4>5, <4>6, CapsAssumption
      <3>3. f.arg \in InTable(new)
        BY <2>2, <3>1, <3>2
      <3>4. \A g : SaidJoin(fs, g) => g \in InTable(table)
        BY <1>5, <2>4
      <3> QED
        BY <1>2, <1>6, <2>2, <3>3, <3>4
    <2> QED
      BY <1>4, <2>2, <2>3, <2>4 DEF GroupsInv, gs, new
  <1>7. CASE f.kind = "LEAVE"
    <2>1. new = Radio!G!Leave(table, f.arg)
      BY <1>7 DEF GroupsWith
    <2> HIDE DEF new, gs
    <2>2. new \in Seq(A) /\ Distinct(new) /\ InTable(new) = InTable(table) \ {f.arg}
      BY <1>1, <2>1, LeaveTakes
    <2>3. \A g \in InTable(new) : SaidJoin(gs, g)
      BY <1>1, <1>2, <1>7, <2>2
    <2>4. ASSUME Cardinality(JoinedIn(gs)) <= GROUP_CAP, \A g \in JoinedIn(gs) : Len(g) <= NAME_CAP
          PROVE  \A g : SaidJoin(gs, g) => g \in InTable(new)
      <3>1. \A g : SaidJoin(fs, g) => g \in InTable(table)
        BY <1>5, <2>4
      <3> QED
        BY <1>2, <1>7, <2>2, <3>1
    <2> QED
      BY <1>4, <2>2, <2>3, <2>4 DEF GroupsInv, gs, new
  <1>8. CASE f.kind # "JOIN" /\ f.kind # "LEAVE"
    <2>1. new = table
      BY <1>8 DEF GroupsWith
    <2> HIDE DEF new, gs
    <2>2. \A g : SaidJoin(gs, g) <=> SaidJoin(fs, g)
      BY <1>2, <1>8
    <2> QED
      BY <1>1, <1>4, <1>5, <2>1, <2>2 DEF GroupsInv, gs, new
  <1> QED
    BY <1>6, <1>7, <1>8

-----------------------------------------------------------------------------
(* What the subscription table makes of the frames *)

\* The number of copies of p in the table e.
Copies(e, p) == Cardinality(Positions(e, p))

\* A table has finitely many places, so that copies can be counted, and a
\* prefix is found by position exactly when it has a copy.
LEMMA CopiesFacts ==
    ASSUME NEW A, NEW e \in Seq(A), NEW p
    PROVE  /\ IsFiniteSet(Positions(e, p))
           /\ Copies(e, p) \in Nat
           /\ Copies(e, p) = 0 <=> Positions(e, p) = {}
  <1>1. Len(e) \in Nat /\ DOMAIN e = 1 .. Len(e)
    OBVIOUS
  <1>2. IsFiniteSet(1 .. Len(e))
    BY <1>1, FS_Interval
  <1>3. Positions(e, p) \in SUBSET (1 .. Len(e))
    BY <1>1 DEF Positions
  <1>4. IsFiniteSet(Positions(e, p))
    BY <1>2, <1>3, FS_Subset
  <1> QED
    BY <1>4, FS_CardinalityType, FS_EmptySet DEF Copies

\* A place less is a copy less.
LEMMA Removed ==
    ASSUME NEW A, NEW e \in Seq(A), NEW p, NEW i \in Positions(e, p), NEW f,
           Positions(f, p) = Positions(e, p) \ {i}
    PROVE  Copies(f, p) = Copies(e, p) - 1
  <1>1. IsFiniteSet(Positions(e, p))
    BY CopiesFacts, Zenon
  <1>2. Cardinality(Positions(e, p) \ {i}) = Cardinality(Positions(e, p)) - 1
    BY <1>1, FS_RemoveElement, Zenon
  <1> QED
    BY <1>2 DEF Copies

\* push: one copy more of p, and the same number of everything else.
LEMMA PushedFacts ==
    ASSUME NEW A, NEW e \in Seq(A), NEW p \in A
    PROVE  /\ Append(e, p) \in Seq(A) /\ Len(Append(e, p)) = Len(e) + 1
           /\ Copies(Append(e, p), p) = Copies(e, p) + 1
           /\ \A q : q # p => Copies(Append(e, p), q) = Copies(e, q)
  <1> DEFINE f == Append(e, p)
             n == Len(e)
  <1>1. /\ f \in Seq(A) /\ Len(f) = n + 1 /\ n \in Nat
        /\ DOMAIN f = 1 .. n + 1 /\ DOMAIN e = 1 .. n
        /\ \A i \in 1 .. n : f[i] = e[i]
        /\ f[n + 1] = p
    OBVIOUS
  <1> HIDE DEF f, n
  <1>2. Copies(f, p) = Copies(e, p) + 1
    <2>1. Positions(f, p) = Positions(e, p) \cup {n + 1}
      BY <1>1 DEF Positions
    <2>2. n + 1 \notin Positions(e, p)
      BY <1>1 DEF Positions
    <2> QED
      BY <2>1, <2>2, CopiesFacts, FS_AddElement DEF Copies
  <1>3. ASSUME NEW q, q # p PROVE Copies(f, q) = Copies(e, q)
    <2>1. Positions(f, q) = Positions(e, q)
      BY <1>1, <1>3 DEF Positions
    <2> QED
      BY <2>1 DEF Copies
  <1> QED
    BY <1>1, <1>2, <1>3 DEF f, n

\* Iterator::position finds a copy when there is one.
LEMMA FirstPositionFacts ==
    ASSUME NEW A, NEW e \in Seq(A), NEW p, Positions(e, p) # {}
    PROVE  FirstPosition(e, p) \in Positions(e, p)
  <1> DEFINE P    == Positions(e, p)
             less == {ss \in Nat \X Nat : ss[1] < ss[2]}
  <1>1. P \subseteq Nat
    BY DEF Positions
  <1>2. IsWellFoundedOn(less, Nat)
    BY NatLessThanWellFounded, Zenon DEF OpToRel
  <1>3. \E i \in P : \A j \in P : <<j, i>> \notin less
    <2> HIDE DEF less
    <2> QED
      BY <1>1, <1>2, WFMin
  <1>4. \E i \in P : \A j \in P : i <= j
    <2>1. PICK i \in P : \A j \in P : <<j, i>> \notin less
      BY <1>3
    <2>2. ASSUME NEW j \in P PROVE i <= j
      <3>1. i \in Nat /\ j \in Nat
        BY <1>1
      <3>2. <<j, i>> \notin less
        BY <2>1
      <3>3. ~(j < i)
        BY <3>1, <3>2
      <3> QED
        BY <3>1, <3>3
    <2> QED
      BY <2>2
  <1> QED
    BY <1>4 DEF FirstPosition

\* swap_remove of a copy of p: one copy less of p, and the same number of
\* everything else, although the last entry moves.
LEMMA SwapRemoveFacts ==
    ASSUME NEW A, NEW e \in Seq(A), NEW p \in A, NEW i \in Positions(e, p)
    PROVE  /\ SwapRemove(e, i) \in Seq(A)
           /\ Len(SwapRemove(e, i)) = Len(e) - 1
           /\ Copies(SwapRemove(e, i), p) = Copies(e, p) - 1
           /\ \A q : q # p => Copies(SwapRemove(e, i), q) = Copies(e, q)
  <1> DEFINE f == SwapRemove(e, i)
             n == Len(e)
  <1>1. /\ n \in Nat /\ DOMAIN e = 1 .. n /\ \A j \in 1 .. n : e[j] \in A
        /\ i \in 1 .. n /\ e[i] = p
    BY DEF Positions
  <1>2. /\ f \in Seq(A) /\ Len(f) = n - 1 /\ DOMAIN f = 1 .. n - 1
        /\ \A j \in 1 .. n - 1 : f[j] = IF j = i THEN e[n] ELSE e[j]
    <2>1. n - 1 \in Nat
      BY <1>1
    <2>2. \A j \in 1 .. n - 1 : (IF j = i THEN e[n] ELSE e[j]) \in A
      BY <1>1
    <2> QED
      BY <2>1, <2>2 DEF SwapRemove
  <1> HIDE DEF f, n
  <1>3. Copies(f, p) = Copies(e, p) - 1
    <2>1. n \in 1 .. n
      BY <1>1
    <2>2. CASE e[n] = p
      <3>1. Positions(f, p) = Positions(e, p) \ {n}
        BY <1>1, <1>2, <2>2 DEF Positions
      <3>2. n \in Positions(e, p)
        BY <1>1, <2>1, <2>2 DEF Positions
      <3> QED
        BY <3>1, <3>2, Removed, Zenon
    <2>3. CASE e[n] # p
      <3>1. Positions(f, p) = Positions(e, p) \ {i}
        BY <1>1, <1>2, <2>3 DEF Positions
      <3>2. i \in Positions(e, p)
        BY <1>1 DEF Positions
      <3> QED
        BY <3>1, <3>2, Removed, Zenon
    <2> QED
      BY <2>2, <2>3
  <1>4. ASSUME NEW q, q # p PROVE Copies(f, q) = Copies(e, q)
    <2>1. CASE e[n] = q
      <3> DEFINE rest == Positions(e, q) \ {n}
      <3>1. Positions(f, q) = rest \cup {i}
        BY <1>1, <1>2, <1>4, <2>1 DEF Positions
      <3>2. i \notin rest /\ n \in Positions(e, q)
        BY <1>1, <1>4, <2>1 DEF Positions
      <3>3. IsFiniteSet(rest) /\ Cardinality(rest) = Copies(e, q) - 1
        BY <3>2, CopiesFacts, FS_RemoveElement DEF Copies
      <3>4. Cardinality(rest \cup {i}) = Cardinality(rest) + 1
        BY <3>2, <3>3, FS_AddElement
      <3>5. Copies(e, q) \in Nat
        BY CopiesFacts
      <3> QED
        BY <3>1, <3>3, <3>4, <3>5 DEF Copies
    <2>2. CASE e[n] # q
      <3>1. Positions(f, q) = Positions(e, q)
        BY <1>1, <1>2, <1>4, <2>2 DEF Positions
      <3> QED
        BY <3>1 DEF Copies
    <2> QED
      BY <2>1, <2>2
  <1> QED
    BY <1>2, <1>3, <1>4 DEF f, n

\* Subscribing stores one copy of the prefix or is refused.
LEMMA SubscribeFacts ==
    ASSUME NEW A, NEW e \in Seq(A), NEW p \in A
    PROVE  \/ (TooLong(p) \/ Full(e)) /\ Subscribe(e, p) = e
           \/ /\ ~TooLong(p) /\ ~Full(e)
              /\ Subscribe(e, p) \in Seq(A)
              /\ Len(Subscribe(e, p)) = Len(e) + 1
              /\ Copies(Subscribe(e, p), p) = Copies(e, p) + 1
              /\ \A q : q # p => Copies(Subscribe(e, p), q) = Copies(e, q)
  BY PushedFacts DEF Subscribe

\* Cancelling takes one copy of the prefix away or finds none.
LEMMA CancelFacts ==
    ASSUME NEW A, NEW e \in Seq(A), NEW p \in A
    PROVE  \/ Copies(e, p) = 0 /\ Cancel(e, p) = e
           \/ /\ Copies(e, p) > 0
              /\ Cancel(e, p) \in Seq(A)
              /\ Len(Cancel(e, p)) = Len(e) - 1
              /\ Copies(Cancel(e, p), p) = Copies(e, p) - 1
              /\ \A q : q # p => Copies(Cancel(e, p), q) = Copies(e, q)
  <1>1. CASE Positions(e, p) = {}
    BY <1>1, CopiesFacts DEF Cancel
  <1>2. CASE Positions(e, p) # {}
    <2>1. Copies(e, p) > 0
      BY <1>2, CopiesFacts
    <2>2. Cancel(e, p) = SwapRemove(e, FirstPosition(e, p))
      BY <1>2 DEF Cancel
    <2>3. FirstPosition(e, p) \in Positions(e, p)
      BY <1>2, FirstPositionFacts
    <2> QED
      BY <2>1, <2>2, <2>3, SwapRemoveFacts
  <1> QED
    BY <1>1, <1>2

\* The frames fs from the i-th on that are of these kinds and about p: those
\* that subscribe to it, and those that cancel it.
Chosen(fs, i, p, kinds) == {j \in i .. Len(fs) : fs[j].kind \in kinds /\ fs[j].arg = p}
SubsFrom(fs, i, p) == Chosen(fs, i, p, {"SUBSCRIBE", "MSG_SUB"})
CancelsFrom(fs, i, p) == Chosen(fs, i, p, {"CANCEL", "MSG_CANCEL"})

\* The table that the frames fs leave has no more copies of a prefix than, from
\* some frame on, there are subscriptions that were not cancelled.
SubsInv(table, fs, A) ==
    /\ table \in Seq(A)
    /\ \A p : Positions(table, p) # {} =>
          \E i \in DOMAIN fs :
              /\ fs[i].arg = p
              /\ Cardinality(SubsFrom(fs, i, p)) >= Copies(table, p) + Cardinality(CancelsFrom(fs, i, p))

\* Frames that count are counted, one more when one more comes.
LEMMA FramesCounted ==
    ASSUME NEW T, NEW fs \in Seq(T), NEW f \in T, NEW p, NEW kinds, NEW i \in 1 .. Len(fs)
    PROVE  /\ Cardinality(Chosen(fs, i, p, kinds)) \in Nat
           /\ Cardinality(Chosen(Append(fs, f), i, p, kinds)) =
                 IF f.kind \in kinds /\ f.arg = p THEN Cardinality(Chosen(fs, i, p, kinds)) + 1
                 ELSE Cardinality(Chosen(fs, i, p, kinds))
  <1> DEFINE S == Chosen(fs, i, p, kinds)
             N == Chosen(Append(fs, f), i, p, kinds)
  <1> DEFINE n == Len(fs)
             gs == Append(fs, f)
  <1>1. /\ n \in Nat /\ Len(gs) = n + 1 /\ gs[n + 1] = f /\ \A j \in 1 .. n : gs[j] = fs[j]
    OBVIOUS
  <1>2. i \in Nat /\ 1 <= i /\ i <= n
    BY <1>1
  <1>3. N = {j \in i .. Len(gs) : gs[j].kind \in kinds /\ gs[j].arg = p}
    BY DEF Chosen
  <1>4. S = {j \in i .. n : fs[j].kind \in kinds /\ fs[j].arg = p}
    BY DEF Chosen
  <1> HIDE DEF gs, n, S, N
  <1>5. IsFiniteSet(i .. n)
    BY <1>1, <1>2, FS_Interval
  <1>6. IsFiniteSet(S) /\ Cardinality(S) \in Nat
    <2>1. S \in SUBSET (i .. n)
      BY <1>4
    <2> QED
      BY <1>5, <2>1, FS_Subset, FS_CardinalityType
  <1>7. n + 1 \notin S
    BY <1>1, <1>2, <1>4
  <1>8. \A j \in i .. n : gs[j] = fs[j]
    BY <1>1, <1>2
  <1>9. \A j : j \in i .. n + 1 <=> j \in i .. n \/ j = n + 1
    BY <1>1, <1>2
  <1>10. CASE f.kind \in kinds /\ f.arg = p
    <2>1. N = S \cup {n + 1}
      BY <1>1, <1>3, <1>4, <1>8, <1>9, <1>10
    <2>2. Cardinality(N) = Cardinality(S) + 1
      BY <1>6, <1>7, <2>1, FS_AddElement
    <2> QED
      BY <1>6, <1>10, <2>2 DEF S, N
  <1>11. CASE ~(f.kind \in kinds /\ f.arg = p)
    <2>1. N = S
      BY <1>1, <1>3, <1>4, <1>8, <1>9, <1>11
    <2> QED
      BY <1>6, <1>11, <2>1 DEF S, N
  <1> QED
    BY <1>10, <1>11

\* No frames, no subscriptions.
LEMMA SubsNone ==
    ASSUME NEW A
    PROVE  SubsInv(<<>>, <<>>, A)
  BY DEF SubsInv, Positions

\* One more frame.
LEMMA SubsMore ==
    ASSUME NEW A, NEW table, NEW T, NEW fs \in Seq(T), NEW f \in T, SubsInv(table, fs, A), f.arg \in A
    PROVE  SubsInv(TableWith(table, f), Append(fs, f), A)
  <1> DEFINE new == TableWith(table, f)
             gs  == Append(fs, f)
             n   == Len(fs)
             subs == {"SUBSCRIBE", "MSG_SUB"}
             cancels == {"CANCEL", "MSG_CANCEL"}
  <1>1. /\ n \in Nat /\ Len(gs) = n + 1 /\ gs[n + 1] = f /\ DOMAIN fs = 1 .. n /\ DOMAIN gs = 1 .. n + 1
        /\ \A j \in 1 .. n : gs[j] = fs[j]
    OBVIOUS
  <1>2. table \in Seq(A)
    BY DEF SubsInv
  <1>3. \A p : Copies(table, p) \in Nat /\ (Copies(table, p) = 0 <=> Positions(table, p) = {})
    BY <1>2, CopiesFacts
  <1>4. ASSUME NEW p, NEW i \in 1 .. n
        PROVE  /\ Cardinality(SubsFrom(fs, i, p)) \in Nat /\ Cardinality(CancelsFrom(fs, i, p)) \in Nat
               /\ Cardinality(SubsFrom(gs, i, p)) =
                     IF f.kind \in subs /\ f.arg = p THEN Cardinality(SubsFrom(fs, i, p)) + 1
                     ELSE Cardinality(SubsFrom(fs, i, p))
               /\ Cardinality(CancelsFrom(gs, i, p)) =
                     IF f.kind \in cancels /\ f.arg = p THEN Cardinality(CancelsFrom(fs, i, p)) + 1
                     ELSE Cardinality(CancelsFrom(fs, i, p))
    <2> HIDE DEF subs, cancels
    <2>1. /\ Cardinality(Chosen(fs, i, p, subs)) \in Nat
          /\ Cardinality(Chosen(gs, i, p, subs)) =
                IF f.kind \in subs /\ f.arg = p THEN Cardinality(Chosen(fs, i, p, subs)) + 1
                ELSE Cardinality(Chosen(fs, i, p, subs))
      BY FramesCounted
    <2>2. /\ Cardinality(Chosen(fs, i, p, cancels)) \in Nat
          /\ Cardinality(Chosen(gs, i, p, cancels)) =
                IF f.kind \in cancels /\ f.arg = p THEN Cardinality(Chosen(fs, i, p, cancels)) + 1
                ELSE Cardinality(Chosen(fs, i, p, cancels))
      BY FramesCounted
    <2> QED
      BY <2>1, <2>2, Zenon DEF SubsFrom, CancelsFrom, subs, cancels
  <1>5. /\ new \in Seq(A)
        /\ \A p : Copies(new, p) \in Nat /\ (Copies(new, p) = 0 <=> Positions(new, p) = {})
        /\ \A p : \/ Copies(new, p) = Copies(table, p) /\ ~(f.kind \in cancels /\ f.arg = p /\ Copies(table, p) > 0)
                  \/ f.kind \in subs /\ f.arg = p /\ Copies(new, p) = Copies(table, p) + 1
                  \/ f.kind \in cancels /\ f.arg = p /\ Copies(new, p) = Copies(table, p) - 1
    <2>1. CASE f.kind \in subs
      <3>1. new = Subscribe(table, f.arg)
        BY <2>1 DEF TableWith
      <3>2. f.kind \notin cancels
        BY <2>1
      <3> HIDE DEF new
      <3>3. new \in Seq(A)
        BY <1>2, <3>1, SubscribeFacts
      <3>4. \A p : Copies(new, p) = Copies(table, p) \/ (f.arg = p /\ Copies(new, p) = Copies(table, p) + 1)
        BY <1>2, <3>1, SubscribeFacts
      <3> QED
        BY <2>1, <3>2, <3>3, <3>4, CopiesFacts
    <2>2. CASE f.kind \in cancels
      <3>1. new = Cancel(table, f.arg)
        BY <2>2 DEF TableWith
      <3> HIDE DEF new
      <3>2. new \in Seq(A)
        BY <1>2, <3>1, CancelFacts
      <3>3. \A p : \/ Copies(new, p) = Copies(table, p) /\ ~(f.arg = p /\ Copies(table, p) > 0)
                   \/ f.arg = p /\ Copies(new, p) = Copies(table, p) - 1
        <4>1. CASE Copies(table, f.arg) = 0 /\ Cancel(table, f.arg) = table
          BY <1>3, <3>1, <4>1
        <4>2. CASE /\ Copies(Cancel(table, f.arg), f.arg) = Copies(table, f.arg) - 1
                   /\ \A q : q # f.arg => Copies(Cancel(table, f.arg), q) = Copies(table, q)
          BY <3>1, <4>2
        <4> QED
          BY <1>2, <4>1, <4>2, CancelFacts
      <3> QED
        BY <2>2, <3>2, <3>3, CopiesFacts
    <2>3. CASE f.kind \notin subs /\ f.kind \notin cancels
      <3>1. new = table
        BY <2>3 DEF TableWith
      <3> HIDE DEF new
      <3> QED
        BY <1>2, <1>3, <2>3, <3>1
    <2> QED
      BY <2>1, <2>2, <2>3
  <1> HIDE DEF new, gs
  <1>6. ASSUME NEW p, Positions(new, p) # {}
        PROVE  \E i \in DOMAIN gs :
                  /\ gs[i].arg = p
                  /\ Cardinality(SubsFrom(gs, i, p)) >= Copies(new, p) + Cardinality(CancelsFrom(gs, i, p))
    <2>1. Copies(new, p) \in Nat /\ Copies(new, p) # 0 /\ Copies(table, p) \in Nat
      BY <1>3, <1>5, <1>6
    <2>2. CASE Positions(table, p) = {}
      <3>1. Copies(table, p) = 0
        BY <1>3, <2>2
      <3>2. f.kind \in subs /\ f.arg = p /\ Copies(new, p) = 1
        BY <1>5, <2>1, <3>1
      <3>3. f.kind \notin cancels
        BY <3>2
      <3>4. SubsFrom(gs, n + 1, p) = {n + 1}
        BY <1>1, <3>2 DEF SubsFrom, Chosen
      <3>5. CancelsFrom(gs, n + 1, p) = {}
        BY <1>1, <3>3 DEF CancelsFrom, Chosen
      <3>6. Cardinality({n + 1}) = 1 /\ Cardinality({}) = 0
        BY FS_Singleton, FS_EmptySet
      <3>7. n + 1 \in DOMAIN gs /\ gs[n + 1].arg = p
        BY <1>1, <3>2
      <3>8. Cardinality(SubsFrom(gs, n + 1, p)) >= Copies(new, p) + Cardinality(CancelsFrom(gs, n + 1, p))
        <4>1. Cardinality(SubsFrom(gs, n + 1, p)) = 1
          BY <3>4, <3>6, Zenon
        <4>2. Cardinality(CancelsFrom(gs, n + 1, p)) = 0
          BY <3>5, <3>6, Zenon
        <4> QED
          BY <3>2, <4>1, <4>2
      <3> QED
        BY <3>7, <3>8
    <2>3. CASE Positions(table, p) # {}
      <3>1. PICK i \in DOMAIN fs :
               /\ fs[i].arg = p
               /\ Cardinality(SubsFrom(fs, i, p)) >= Copies(table, p) + Cardinality(CancelsFrom(fs, i, p))
        BY <2>3 DEF SubsInv
      <3>2. i \in 1 .. n /\ i \in DOMAIN gs /\ gs[i].arg = p
        BY <1>1, <3>1
      <3>3. Copies(table, p) > 0
        BY <1>3, <2>1, <2>3
      <3>4. f.kind \in subs => f.kind \notin cancels
        OBVIOUS
      <3> DEFINE s == Cardinality(SubsFrom(fs, i, p))
                 x == Cardinality(CancelsFrom(fs, i, p))
                 s2 == Cardinality(SubsFrom(gs, i, p))
                 x2 == Cardinality(CancelsFrom(gs, i, p))
                 a == Copies(table, p)
                 b == Copies(new, p)
      <3>5. /\ s \in Nat /\ x \in Nat /\ s >= a + x
            /\ s2 = (IF f.kind \in subs /\ f.arg = p THEN s + 1 ELSE s)
            /\ x2 = (IF f.kind \in cancels /\ f.arg = p THEN x + 1 ELSE x)
        BY <1>4, <3>1, <3>2
      <3>6. \/ b = a /\ ~(f.kind \in cancels /\ f.arg = p)
            \/ f.kind \in subs /\ f.arg = p /\ b = a + 1
            \/ f.kind \in cancels /\ f.arg = p /\ b = a - 1
        BY <1>5, <3>3
      <3>7. a \in Nat /\ b \in Nat
        BY <2>1
      <3> HIDE DEF s, x, s2, x2, a, b, subs, cancels
      <3>8. s2 >= b + x2
        BY <3>4, <3>5, <3>6, <3>7
      <3> QED
        BY <3>2, <3>8 DEF s2, x2, b
    <2> QED
      BY <2>2, <2>3
  <1> QED
    BY <1>5, <1>6 DEF SubsInv, new, gs

-----------------------------------------------------------------------------
(* New connections *)

\* A new connection.
Fresh(c) ==
    /\ ConnFields \subseteq DOMAIN c
    /\ c.state = "Greeting" /\ c.mechanism \in Mechanisms
    /\ c.our_greeting_sent = FALSE /\ c.our_ready_sent = FALSE /\ c.our_welcome_sent = FALSE
    /\ c.greeting_buf = <<>> /\ c.frame_decoder = NewDecoder /\ c.pending_pong = <<>>
    /\ c.peer_version_minor = 0

\* The parts of the invariant hold of a new connection.
LEMMA FreshInv ==
    ASSUME NEW U, NEW c, Fresh(c), NEW types
    PROVE  /\ IsConn(c, U) /\ FedInv(c, <<>>, FALSE, types)
           /\ SentInv(c, <<>>) /\ PongInv(c, <<>>, <<>>)
           /\ TrafficIn(c.mechanism, <<>>) = <<>>
  <1>1. <<>> \in Seq(U) /\ Len(<<>>) = 0 /\ <<>> \in Seq(ContextsOf(U))
    OBVIOUS
  <1>2. NewDecoder = Holding(<<>>)
    BY DEF NewDecoder, Holding
  <1>3. IsDecoder(NewDecoder, U)
    <2>1. Len(<<>>) < 2
      OBVIOUS
    <2> QED
      BY <1>1, <1>2, <2>1, Zenon DEF IsDecoder, FRAME_LEN
  <1>4. IsConn(c, U)
    <2>1. Len(<<>>) <= 3 /\ Len(<<>>) <= 1
      OBVIOUS
    <2> QED
      BY <1>1, <1>3, <2>1, Zenon DEF IsConn, Fresh, States, GREETING_LEN
  <1>5. FramesIn(<<>>) = <<>>
    <2>1. Len(<<>>) < GREETING_LEN + FRAME_LEN
      BY DEF GREETING_LEN, FRAME_LEN
    <2> QED
      BY <1>1, <2>1, FramesInNone, Zenon
  <1>6. Len(FramesIn(<<>>)) < HandshakeFrames(c.mechanism)
    BY <1>1, <1>5 DEF HandshakeFrames
  <1>7. FedInv(c, <<>>, FALSE, types)
    <2>1. Greets(c, <<>>, FALSE) /\ Greeted(c, <<>>) /\ InStep(c, <<>>) /\ Rejects(c, FALSE)
      BY <1>1 DEF Fresh, Greets, Greeted, InStep, Rejects
    <2>2. Received(c, <<>>, types)
      BY <1>6 DEF Fresh, Received
    <2> QED
      BY <2>1, <2>2 DEF FedInv
  <1>8. SentInv(c, <<>>)
    BY ItemsOfNone, HandshakeInNone DEF SentInv, Said, Fresh
  <1>9. TrafficIn(c.mechanism, <<>>) = <<>>
    <2>1. Len(FramesIn(<<>>)) <= HandshakeFrames(c.mechanism)
      BY <1>1, <1>5 DEF HandshakeFrames
    <2> QED
      BY <1>1, <2>1, TrafficNone
  <1>10. PongInv(c, <<>>, <<>>)
    <2>1. PongsIn(<<>>) \o c.pending_pong = <<>>
      BY PongsInNone DEF Fresh
    <2> QED
      BY <2>1, SubseqNone, Zenon DEF PongInv
  <1> QED
    BY <1>4, <1>7, <1>8, <1>9, <1>10

-----------------------------------------------------------------------------
(* Sequences that are cut and joined, and the PINGs that are due *)

\* Appending to an end.
LEMMA AppendEnd ==
    ASSUME NEW T, NEW s \in Seq(T), NEW t \in Seq(T), NEW e \in T
    PROVE  s \o Append(t, e) = Append(s \o t, e) /\ Append(t, e) \in Seq(T)
  OBVIOUS

\* One more unit of a stream.
LEMMA OneMore ==
    ASSUME NEW U, NEW w \in Seq(U), NEW n \in Nat, n < Len(w)
    PROVE  SubSeq(w, 1, n + 1) = Append(SubSeq(w, 1, n), w[n + 1])
  OBVIOUS

\* The rest of the buffer is of its type.
LEMMA RestType ==
    ASSUME NEW U, NEW x \in Seq(U), NEW k \in 0 .. Len(x)
    PROVE  /\ SubSeq(x, k + 1, Len(x)) \in Seq(U) /\ SubSeq(x, 1, k) \in Seq(U)
           /\ Len(SubSeq(x, k + 1, Len(x))) = Len(x) - k
  OBVIOUS

\* Three parts.
LEMMA ThreeParts ==
    ASSUME NEW U, NEW a \in Seq(U), NEW b \in Seq(U), NEW c \in Seq(U)
    PROVE  (a \o b) \o c = a \o (b \o c)
  OBVIOUS

\* What is read moves from the transport into the buffer.
LEMMA ReadMore ==
    ASSUME NEW U, NEW f \in Seq(U), NEW s \in Seq(U), NEW n \in 0 .. Len(s)
    PROVE  (f \o SubSeq(s, 1, n)) \o SubSeq(s, n + 1, Len(s)) = f \o s
  <1> DEFINE x == SubSeq(s, 1, n)
             y == SubSeq(s, n + 1, Len(s))
  <1>1. x \o y = s
    <2>1. /\ x \in Seq(U) /\ y \in Seq(U) /\ Len(x) = n /\ Len(y) = Len(s) - n
          /\ n \in Nat /\ Len(s) \in Nat
      OBVIOUS
    <2>2. (\A i \in 1 .. n : x[i] = s[i]) /\ \A i \in 1 .. Len(s) - n : y[i] = s[n + i]
      <3>1. \A i \in 1 .. n : x[i] = s[i]
        OBVIOUS
      <3>2. \A i \in 1 .. Len(s) - n : y[i] = s[n + i]
        OBVIOUS
      <3> QED
        BY <3>1, <3>2
    <2> HIDE DEF x, y
    <2>3. Len(x \o y) = Len(s) /\ x \o y \in Seq(U)
      BY <2>1
    <2>4. ASSUME NEW i \in 1 .. Len(s)
          PROVE  (x \o y)[i] = s[i]
      <3>1. CASE i <= n
        BY <2>1, <2>2, <3>1
      <3>2. CASE ~(i <= n)
        <4>1. (x \o y)[i] = y[i - n] /\ i - n \in 1 .. Len(s) - n /\ n + (i - n) = i
          BY <2>1, <3>2
        <4> QED
          BY <2>2, <4>1
      <3> QED
        BY <3>1, <3>2
    <2> QED
      BY <2>3, <2>4, SeqEqual
  <1>2. x \in Seq(U) /\ y \in Seq(U)
    BY RestType
  <1> HIDE DEF x, y
  <1>3. (f \o x) \o y = f \o (x \o y)
    BY <1>2, ThreeParts, SMTT(30)
  <1> QED
    BY <1>1, <1>3 DEF x, y

\* The traffic in a stream is made of its frames.
LEMMA TrafficType ==
    ASSUME NEW U, NEW u \in Seq(U), NEW m
    PROVE  TrafficIn(m, u) \in Seq(FramesOf(U))
  <1> DEFINE fs == FramesIn(u)
             h == HandshakeFrames(m)
  <1>1. fs \in Seq(FramesOf(U)) /\ h \in Nat
    BY FramesInType DEF HandshakeFrames
  <1>2. TrafficIn(m, u) = SubSeq(fs, h + 1, Len(fs))
    BY DEF TrafficIn
  <1> HIDE DEF fs, h
  <1> QED
    BY <1>1, <1>2

\* What the frame that feed took adds to the PINGs due is pending then.
LEMMA FeedPings ==
    ASSUME NEW U, NEW c, IsConn(c, U), NEW u \in Seq(U), NEW rej \in BOOLEAN, NEW types,
           FedInv(c, u, rej, types),
           NEW x \in Seq(U), NEW r, FeedsTo(U, c, x, r, types), c.pending_pong = <<>>
    PROVE  PingsDue(r.conn, FedBy(u, x, r)) = PingsDue(c, u) \o r.conn.pending_pong
  <1> DEFINE m == c.mechanism
             v == FedBy(u, x, r)
             d == r.conn
             f == TakeFrame(c, x).frame
             a == PingsDue(c, u)
  <1>0. a \in Seq({PingContext(y) : y \in FramesOf(U)})
    <2>1. TrafficIn(c.mechanism, u) \in Seq(FramesOf(U))
      BY TrafficType
    <2> QED
      BY <2>1, PingsDueType
  <1>1. d.mechanism = m
    BY FeedKeepsFlags DEF KeepsFlags
  <1>2. ASSUME TrafficIn(m, v) = TrafficIn(m, u), d.pending_pong = c.pending_pong,
               d.peer_version_minor = c.peer_version_minor \/ TrafficIn(m, u) = <<>>
        PROVE  PingsDue(d, v) = a \o d.pending_pong
    <2>1. PingsDue(d, v) = PingsDue(c, u)
      BY <1>1, <1>2, PingsInNone, Zenon DEF PingsDue
    <2>2. a \o <<>> = a
      <3> HIDE DEF a
      <3> QED
        BY <1>0
    <2> QED
      BY <1>2, <2>1, <2>2, Zenon
  <1>3. ASSUME Applies(U, c, TakeFrame(c, x), r),
               TrafficIn(m, u) \in Seq(FramesOf(U)), f \in FramesOf(U),
               TrafficIn(m, v) = Append(TrafficIn(m, u), f)
        PROVE  PingsDue(d, v) = a \o d.pending_pong
    <2> DEFINE ping == f.kind = "PING" /\ c.peer_version_minor >= 1
               z == PingContext(f)
    <2>1. /\ d.peer_version_minor = c.peer_version_minor
          /\ d.pending_pong = IF ping THEN <<z>> ELSE <<>>
      BY <1>3 DEF Applies, Handled
    <2>2. PingsDue(d, v) = IF ping THEN Append(a, z) ELSE a
      <3> HIDE DEF f, v, d
      <3> QED
        BY <1>1, <1>3, <2>1, PingsDueMore
    <2>3. Append(a, z) = a \o <<z>> /\ a \o <<>> = a
      <3>1. a \in Seq({PingContext(y) : y \in FramesOf(U)}) /\ z \in {PingContext(y) : y \in FramesOf(U)}
        BY <1>0, <1>3
      <3> HIDE DEF a, z
      <3> QED
        BY <3>1
    <2> HIDE DEF d, v, a, z, ping
    <2> QED
      BY <2>1, <2>2, <2>3
  <1> HIDE DEF d, v, f
  <1>4. \/ /\ TrafficIn(m, v) = TrafficIn(m, u) /\ d.pending_pong = c.pending_pong
           /\ d.peer_version_minor = c.peer_version_minor \/ TrafficIn(m, u) = <<>>
        \/ /\ Applies(U, c, TakeFrame(c, x), r)
           /\ TrafficIn(m, u) \in Seq(FramesOf(U)) /\ f \in FramesOf(U)
           /\ TrafficIn(m, v) = Append(TrafficIn(m, u), f)
    BY FeedTraffic DEF v, d, f
  <1> QED
    BY <1>2, <1>3, <1>4 DEF v, d
=============================================================================
