---------------------------- MODULE TableProofs ----------------------------
(***************************************************************************)
(* The two tables are correct for every capacity and whatever the peer     *)
(* names: the subscription table is a bag of prefixes, swap_remove moves   *)
(* entries and loses none; the group table keeps exactly the memberships   *)
(* that were granted.                                                      *)
(***************************************************************************)
EXTENDS SubTableSpec, GroupTableSpec, FiniteSetTheorems, TLAPS

-----------------------------------------------------------------------------
(* The subscription table *)

\* The number of copies of p in the table e.
Copies(e, p) == Cardinality(Positions(e, p))

\* A table has finitely many places, so that copies can be counted, and a
\* prefix is found by position exactly when it has a copy.
LEMMA CopiesFacts ==
    ASSUME NEW e \in Seq(Prefixes), NEW p
    PROVE  /\ IsFiniteSet(Positions(e, p))
           /\ Copies(e, p) \in Nat
           /\ Copies(e, p) = 0 <=> Positions(e, p) = {}
  <1>1. Len(e) \in Nat /\ DOMAIN e = 1 .. Len(e)
    OBVIOUS
  <1>2. IsFiniteSet(1 .. Len(e))
    BY <1>1, FS_Interval
  <1>3. Positions(e, p) \in SUBSET (1 .. Len(e))
    BY <1>1 DEF Positions
  <1>4. IsFiniteSet(Positions(e, p))
    BY <1>2, <1>3, FS_Subset
  <1> QED
    BY <1>4, FS_CardinalityType, FS_EmptySet DEF Copies

\* push: one copy more of p, and the same number of everything else.
LEMMA AppendFacts ==
    ASSUME NEW e \in Seq(Prefixes), NEW p \in Prefixes
    PROVE  /\ Append(e, p) \in Seq(Prefixes) /\ Len(Append(e, p)) = Len(e) + 1
           /\ Copies(Append(e, p), p) = Copies(e, p) + 1
           /\ \A q : q # p => Copies(Append(e, p), q) = Copies(e, q)
  <1> DEFINE f == Append(e, p)
             n == Len(e)
  <1>1. /\ f \in Seq(Prefixes) /\ Len(f) = n + 1 /\ n \in Nat
        /\ DOMAIN f = 1 .. n + 1 /\ DOMAIN e = 1 .. n
        /\ \A i \in 1 .. n : f[i] = e[i]
        /\ f[n + 1] = p
    OBVIOUS
  <1> HIDE DEF f, n
  <1>2. Copies(f, p) = Copies(e, p) + 1
    <2>1. Positions(f, p) = Positions(e, p) \cup {n + 1}
      BY <1>1 DEF Positions
    <2>2. n + 1 \notin Positions(e, p)
      BY <1>1 DEF Positions
    <2> QED
      BY <2>1, <2>2, CopiesFacts, FS_AddElement DEF Copies
  <1>3. ASSUME NEW q, q # p PROVE Copies(f, q) = Copies(e, q)
    <2>1. Positions(f, q) = Positions(e, q)
      BY <1>1, <1>3 DEF Positions
    <2> QED
      BY <2>1 DEF Copies
  <1> QED
    BY <1>1, <1>2, <1>3 DEF f, n

\* Iterator::position finds a copy when there is one.
LEMMA FirstPositionFacts ==
    ASSUME NEW e \in Seq(Prefixes), NEW p, Positions(e, p) # {}
    PROVE  FirstPosition(e, p) \in Positions(e, p)
  <1> DEFINE P    == Positions(e, p)
             less == {ss \in Nat \X Nat : ss[1] < ss[2]}
  <1>1. P \subseteq Nat
    BY DEF Positions
  <1>2. IsWellFoundedOn(less, Nat)
    BY NatLessThanWellFounded, Zenon DEF OpToRel
  <1>3. \E i \in P : \A j \in P : <<j, i>> \notin less
    <2> HIDE DEF less
    <2> QED
      BY <1>1, <1>2, WFMin
  <1>4. \E i \in P : \A j \in P : i <= j
    <2>1. PICK i \in P : \A j \in P : <<j, i>> \notin less
      BY <1>3
    <2>2. ASSUME NEW j \in P PROVE i <= j
      <3>1. i \in Nat /\ j \in Nat
        BY <1>1
      <3>2. <<j, i>> \notin less
        BY <2>1
      <3>3. ~(j < i)
        BY <3>1, <3>2
      <3> QED
        BY <3>1, <3>3
    <2> QED
      BY <2>2
  <1> QED
    BY <1>4 DEF FirstPosition

\* swap_remove of a copy of p: one copy less of p, and the same number of
\* everything else, although the last entry moves.
LEMMA SwapRemoveFacts ==
    ASSUME NEW e \in Seq(Prefixes), NEW p \in Prefixes, NEW i \in Positions(e, p)
    PROVE  /\ SwapRemove(e, i) \in Seq(Prefixes)
           /\ Len(SwapRemove(e, i)) = Len(e) - 1
           /\ Copies(SwapRemove(e, i), p) = Copies(e, p) - 1
           /\ \A q : q # p => Copies(SwapRemove(e, i), q) = Copies(e, q)
  <1> DEFINE f == SwapRemove(e, i)
             n == Len(e)
  <1>1. /\ n \in Nat /\ DOMAIN e = 1 .. n /\ \A j \in 1 .. n : e[j] \in Prefixes
        /\ i \in 1 .. n /\ e[i] = p
    BY DEF Positions
  <1>2. /\ f \in Seq(Prefixes) /\ Len(f) = n - 1 /\ DOMAIN f = 1 .. n - 1
        /\ \A j \in 1 .. n - 1 : f[j] = IF j = i THEN e[n] ELSE e[j]
    <2>1. n - 1 \in Nat
      BY <1>1
    <2>2. \A j \in 1 .. n - 1 : (IF j = i THEN e[n] ELSE e[j]) \in Prefixes
      BY <1>1
    <2> QED
      BY <2>1, <2>2 DEF SwapRemove
  <1> HIDE DEF f, n
  <1>3. Copies(f, p) = Copies(e, p) - 1
    <2>1. n \in 1 .. n
      BY <1>1
    <2>2. CASE e[n] = p
      <3>1. Positions(f, p) = Positions(e, p) \ {n}
        BY <1>1, <1>2, <2>2 DEF Positions
      <3>2. n \in Positions(e, p)
        BY <1>1, <2>1, <2>2 DEF Positions
      <3> QED
        BY <3>1, <3>2, CopiesFacts, FS_RemoveElement DEF Copies
    <2>3. CASE e[n] # p
      <3>1. Positions(f, p) = Positions(e, p) \ {i}
        BY <1>1, <1>2, <2>3 DEF Positions
      <3> QED
        BY <3>1, CopiesFacts, FS_RemoveElement DEF Copies
    <2> QED
      BY <2>2, <2>3
  <1>4. ASSUME NEW q, q # p PROVE Copies(f, q) = Copies(e, q)
    <2>1. CASE e[n] = q
      <3> DEFINE rest == Positions(e, q) \ {n}
      <3>1. Positions(f, q) = rest \cup {i}
        BY <1>1, <1>2, <1>4, <2>1 DEF Positions
      <3>2. i \notin rest /\ n \in Positions(e, q)
        BY <1>1, <1>4, <2>1 DEF Positions
      <3>3. IsFiniteSet(rest) /\ Cardinality(rest) = Copies(e, q) - 1
        BY <3>2, CopiesFacts, FS_RemoveElement DEF Copies
      <3>4. Cardinality(rest \cup {i}) = Cardinality(rest) + 1
        BY <3>2, <3>3, FS_AddElement
      <3>5. Copies(e, q) \in Nat
        BY CopiesFacts
      <3> QED
        BY <3>1, <3>3, <3>4, <3>5 DEF Copies
    <2>2. CASE e[n] # q
      <3>1. Positions(f, q) = Positions(e, q)
        BY <1>1, <1>2, <1>4, <2>2 DEF Positions
      <3> QED
        BY <3>1 DEF Copies
    <2> QED
      BY <2>1, <2>2
  <1> QED
    BY <1>2, <1>3, <1>4 DEF f, n

-----------------------------------------------------------------------------
\* Subscribing stores one copy of the prefix or is refused.
LEMMA SubscribeFacts ==
    ASSUME NEW e \in Seq(Prefixes), NEW p \in Prefixes
    PROVE  \/ (TooLong(p) \/ Full(e)) /\ Subscribe(e, p) = e
           \/ /\ ~TooLong(p) /\ ~Full(e)
              /\ Subscribe(e, p) \in Seq(Prefixes)
              /\ Len(Subscribe(e, p)) = Len(e) + 1
              /\ Copies(Subscribe(e, p), p) = Copies(e, p) + 1
              /\ \A q : q # p => Copies(Subscribe(e, p), q) = Copies(e, q)
  BY AppendFacts DEF Subscribe

\* Cancelling takes one copy of the prefix away or finds none.
LEMMA CancelFacts ==
    ASSUME NEW e \in Seq(Prefixes), NEW p \in Prefixes
    PROVE  \/ Copies(e, p) = 0 /\ Cancel(e, p) = e
           \/ /\ Copies(e, p) > 0
              /\ Cancel(e, p) \in Seq(Prefixes)
              /\ Len(Cancel(e, p)) = Len(e) - 1
              /\ Copies(Cancel(e, p), p) = Copies(e, p) - 1
              /\ \A q : q # p => Copies(Cancel(e, p), q) = Copies(e, q)
  <1>1. CASE Positions(e, p) = {}
    BY <1>1, CopiesFacts DEF Cancel
  <1>2. CASE Positions(e, p) # {}
    <2>1. Copies(e, p) > 0
      BY <1>2, CopiesFacts
    <2>2. Cancel(e, p) = SwapRemove(e, FirstPosition(e, p))
      BY <1>2 DEF Cancel
    <2>3. FirstPosition(e, p) \in Positions(e, p)
      BY <1>2, FirstPositionFacts
    <2> QED
      BY <2>1, <2>2, <2>3, SwapRemoveFacts
  <1> QED
    BY <1>1, <1>2

-----------------------------------------------------------------------------
\* As long as nothing was refused the copies are the peer's account.
Exact == ~lost => \A p \in Prefixes : Count(p) = held[p]

IInv == TypeOK /\ NothingUnwanted /\ Exact

\* The new table is empty.
LEMMA InitIInv == Init => IInv
  <1>1. SUFFICES ASSUME Init PROVE IInv
    OBVIOUS
  <1>2. TypeOK
    <2>1. entries \in Seq(Prefixes) /\ Len(entries) <= SUB_CAP
      BY <1>1, SubTableAssumption DEF Init
    <2>2. held \in [Prefixes -> 0 .. MaxHeld]
      BY <1>1, MaxHeldAssumption DEF Init
    <2>3. lost \in BOOLEAN
      BY <1>1, Zenon DEF Init
    <2> QED
      BY <2>1, <2>2, <2>3 DEF TypeOK
  <1>3. \A p \in Prefixes : Count(p) = 0 /\ held[p] = 0
    BY <1>1, FS_EmptySet DEF Init, Count, Positions
  <1> QED
    BY <1>2, <1>3 DEF IInv, NothingUnwanted, Exact

\* SubTable::subscribe keeps the invariant, whether it refuses or stores.
LEMMA SubscribeIInv ==
    ASSUME IInv, NEW p \in Prefixes, DoSubscribe(p)
    PROVE  IInv'
  <1>1. /\ entries \in Seq(Prefixes) /\ Len(entries) \in Nat /\ Len(entries) <= SUB_CAP
        /\ held \in [Prefixes -> 0 .. MaxHeld] /\ MaxHeld \in Nat
    BY MaxHeldAssumption DEF IInv, TypeOK
  <1>2. /\ held' = [held EXCEPT ![p] = held[p] + 1] /\ held[p] < MaxHeld
        /\ held' \in [Prefixes -> 0 .. MaxHeld]
    BY <1>1 DEF DoSubscribe
  <1>3. /\ \A q \in Prefixes : Copies(entries, q) \in Nat /\ Copies(entries, q) <= held[q]
        /\ ~lost => \A q \in Prefixes : Copies(entries, q) = held[q]
    BY <1>1, CopiesFacts DEF IInv, NothingUnwanted, Exact, Count, Copies
  <1>4. lost' \in BOOLEAN /\ (~lost' => ~lost /\ ~TooLong(p) /\ ~Full(entries))
    BY Zenon DEF DoSubscribe
  <1>5. entries' \in Seq(Prefixes) /\ Len(entries') <= SUB_CAP
    BY <1>1, SubscribeFacts, SubTableAssumption DEF DoSubscribe, Full
  <1>6. /\ \A q \in Prefixes : Copies(entries', q) <= held'[q]
        /\ ~lost' => \A q \in Prefixes : Copies(entries', q) = held'[q]
    <2>1. CASE (TooLong(p) \/ Full(entries)) /\ entries' = entries
      BY <1>1, <1>2, <1>3, <1>4, <2>1
    <2>2. CASE /\ Copies(entries', p) = Copies(entries, p) + 1
               /\ \A q : q # p => Copies(entries', q) = Copies(entries, q)
      BY <1>1, <1>2, <1>3, <1>4, <2>2
    <2> QED
      BY <1>1, <2>1, <2>2, SubscribeFacts DEF DoSubscribe
  <1> QED
    BY <1>2, <1>4, <1>5, <1>6 DEF IInv, TypeOK, NothingUnwanted, Exact, Count, Copies

\* SubTable::cancel keeps the invariant, whether it finds a copy or not.
LEMMA CancelIInv ==
    ASSUME IInv, NEW p \in Prefixes, DoCancel(p)
    PROVE  IInv'
  <1>1. /\ entries \in Seq(Prefixes) /\ Len(entries) \in Nat /\ Len(entries) <= SUB_CAP
        /\ held \in [Prefixes -> 0 .. MaxHeld] /\ MaxHeld \in Nat /\ lost \in BOOLEAN
    BY MaxHeldAssumption DEF IInv, TypeOK
  <1>2. /\ held' = [held EXCEPT ![p] = IF held[p] > 0 THEN held[p] - 1 ELSE 0]
        /\ held' \in [Prefixes -> 0 .. MaxHeld]
        /\ lost' = lost /\ entries' = Cancel(entries, p)
    BY <1>1 DEF DoCancel
  <1>3. /\ \A q \in Prefixes : Copies(entries, q) \in Nat /\ Copies(entries, q) <= held[q]
        /\ ~lost => \A q \in Prefixes : Copies(entries, q) = held[q]
    BY <1>1, CopiesFacts DEF IInv, NothingUnwanted, Exact, Count, Copies
  <1>4. entries' \in Seq(Prefixes) /\ Len(entries') <= SUB_CAP
    BY <1>1, <1>2, CancelFacts, SubTableAssumption
  <1>5. /\ \A q \in Prefixes : Copies(entries', q) <= held'[q]
        /\ ~lost' => \A q \in Prefixes : Copies(entries', q) = held'[q]
    <2>1. CASE Copies(entries, p) = 0 /\ entries' = entries
      BY <1>1, <1>2, <1>3, <2>1
    <2>2. CASE /\ Copies(entries, p) > 0
               /\ Copies(entries', p) = Copies(entries, p) - 1
               /\ \A q : q # p => Copies(entries', q) = Copies(entries, q)
      BY <1>1, <1>2, <1>3, <2>2
    <2> QED
      BY <1>1, <1>2, <2>1, <2>2, CancelFacts
  <1> QED
    BY <1>1, <1>2, <1>4, <1>5 DEF IInv, TypeOK, NothingUnwanted, Exact, Count, Copies

\* The invariant of the subscription table.
THEOREM Invariance == Spec => []IInv
  <1>1. IInv /\ [Next]_vars => IInv'
    <2>1. SUFFICES ASSUME IInv, [Next]_vars PROVE IInv'
      OBVIOUS
    <2>2. CASE Next
      BY <2>1, <2>2, SubscribeIInv, CancelIInv DEF Next
    <2>3. CASE UNCHANGED vars
      BY <2>1, <2>3 DEF vars, IInv, TypeOK, NothingUnwanted, Exact, Count
    <2> QED
      BY <2>1, <2>2, <2>3
  <1> QED
    BY <1>1, InitIInv, PTL DEF Spec

\* The table never outgrows its array (sub_table.rs, Vec::push).
THEOREM TypeCorrect == Spec => []TypeOK
  BY Invariance, PTL DEF IInv

\* No sequence of refused subscriptions and cancellations leaves a peer with
\* more of a prefix than it holds.
THEOREM NothingUnwantedCorrect == Spec => []NothingUnwanted
  BY Invariance, PTL DEF IInv

\* Until a subscription is refused, matches answers by the peer's own account.
THEOREM NothingMissingCorrect == Spec => []NothingMissing
  <1>1. IInv => NothingMissing
    <2>1. SUFFICES ASSUME IInv, ~lost PROVE NothingMissing
      BY DEF NothingMissing
    <2>2. entries \in Seq(Prefixes) /\ \A p \in Prefixes : Count(p) = held[p]
      BY <2>1 DEF IInv, TypeOK, Exact
    <2>3. \A p \in Prefixes : held[p] > 0 <=> \E i \in DOMAIN entries : entries[i] = p
      <3>1. ASSUME NEW p \in Prefixes PROVE held[p] > 0 <=> Positions(entries, p) # {}
        BY <2>2, CopiesFacts DEF Count, Copies
      <3> QED
        BY <3>1 DEF Positions
    <2>4. \A i \in DOMAIN entries : entries[i] \in Prefixes
      BY <2>2
    <2>5. ASSUME NEW t \in Topics
          PROVE  Matches(entries, t) <=> \E p \in Prefixes : held[p] > 0 /\ StartsWith(t, p)
      BY <2>3, <2>4, Zenon DEF Matches
    <2> QED
      BY <2>2, <2>5 DEF NothingMissing
  <1> QED
    BY <1>1, Invariance, PTL

\* Every SUBSCRIBE is one step of the bag or none.
LEMMA SubscribeRefines ==
    ASSUME IInv, NEW p \in Prefixes, DoSubscribe(p)
    PROVE  [Bag!Next]_Bag!vars
  <1>1. entries \in Seq(Prefixes) /\ Len(entries) \in Nat
    BY DEF IInv, TypeOK
  <1>2. entries' = Subscribe(entries, p)
    BY DEF DoSubscribe
  <1>3. CASE entries' = entries
    BY <1>3 DEF Bag!vars, Count
  <1>4. CASE /\ ~TooLong(p) /\ ~Full(entries)
             /\ Len(entries') = Len(entries) + 1
             /\ Copies(entries', p) = Copies(entries, p) + 1
             /\ \A q : q # p => Copies(entries', q) = Copies(entries, q)
    <2>1. p \in {q \in Prefixes : ~TooLong(q)} /\ Len(entries) < SUB_CAP
      BY <1>1, <1>4, SubTableAssumption DEF Full
    <2>2. [q \in Prefixes |-> Count(q)]' = [[q \in Prefixes |-> Count(q)] EXCEPT ![p] = @ + 1]
      BY <1>4 DEF Count, Copies
    <2>3. Bag!Add(p)
      BY <1>4, <2>1, <2>2 DEF Bag!Add
    <2> QED
      BY <2>3 DEF Bag!Next
  <1> QED
    BY <1>1, <1>2, <1>3, <1>4, SubscribeFacts

\* Every CANCEL is one step of the bag or none.
LEMMA CancelRefines ==
    ASSUME IInv, NEW p \in Prefixes, DoCancel(p)
    PROVE  [Bag!Next]_Bag!vars
  <1>1. entries \in Seq(Prefixes) /\ Len(entries) \in Nat
    BY DEF IInv, TypeOK
  <1>2. entries' = Cancel(entries, p)
    BY DEF DoCancel
  <1>3. CASE entries' = entries
    BY <1>3 DEF Bag!vars, Count
  <1>4. CASE /\ Copies(entries, p) > 0
             /\ Len(entries') = Len(entries) - 1
             /\ Copies(entries', p) = Copies(entries, p) - 1
             /\ \A q : q # p => Copies(entries', q) = Copies(entries, q)
    <2>1. [q \in Prefixes |-> Count(q)][p] > 0
      BY <1>4 DEF Count, Copies
    <2>2. [q \in Prefixes |-> Count(q)]' = [[q \in Prefixes |-> Count(q)] EXCEPT ![p] = @ - 1]
      BY <1>4 DEF Count, Copies
    <2>3. Bag!Remove(p)
      BY <1>4, <2>1, <2>2 DEF Bag!Remove
    <2> QED
      BY <2>3 DEF Bag!Next
  <1> QED
    BY <1>1, <1>2, <1>3, <1>4, CancelFacts

\* The array with its swap_remove implements the bag: no order of calls can
\* tell them apart.
THEOREM Refinement == Spec => ImplementsBag
  <1>1. Init => Bag!Init
    BY FS_EmptySet DEF Init, Bag!Init, Count, Positions
  <1>2. IInv /\ [Next]_vars => [Bag!Next]_Bag!vars
    <2>1. SUFFICES ASSUME IInv, [Next]_vars PROVE [Bag!Next]_Bag!vars
      OBVIOUS
    <2>2. CASE Next
      BY <2>1, <2>2, SubscribeRefines, CancelRefines DEF Next
    <2>3. CASE UNCHANGED vars
      BY <2>3 DEF vars, Bag!vars, Count
    <2> QED
      BY <2>1, <2>2, <2>3
  <1> QED
    BY <1>1, <1>2, Invariance, PTL DEF Spec, ImplementsBag, Bag!Spec

-----------------------------------------------------------------------------
(* The group table *)

\* No name is stored twice in the table e.
Distinct(e) == \A i, j \in DOMAIN e : e[i] = e[j] => i = j

\* push on a table without the name g: one entry more, and the set of the
\* stored names grows by g.
LEMMA PushFacts ==
    ASSUME NEW e \in Seq(Groups), NEW g \in Groups, Distinct(e), g \notin Stored(e)
    PROVE  /\ Append(e, g) \in Seq(Groups) /\ Len(Append(e, g)) = Len(e) + 1
           /\ Distinct(Append(e, g))
           /\ Stored(Append(e, g)) = Stored(e) \cup {g}
  <1> DEFINE f == Append(e, g)
  <1>1. /\ f \in Seq(Groups) /\ Len(f) = Len(e) + 1 /\ Len(e) \in Nat
        /\ DOMAIN f = 1 .. Len(e) + 1 /\ DOMAIN e = 1 .. Len(e)
        /\ \A i \in 1 .. Len(e) : f[i] = e[i]
        /\ f[Len(e) + 1] = g
    OBVIOUS
  <1> HIDE DEF f
  <1>2. \A i \in 1 .. Len(e) : e[i] # g
    BY <1>1 DEF Stored
  <1>3. Distinct(f)
    <2>1. SUFFICES ASSUME NEW i \in DOMAIN f, NEW j \in DOMAIN f, f[i] = f[j]
                   PROVE  i = j
      BY DEF Distinct
    <2>2. CASE i \in 1 .. Len(e) /\ j \in 1 .. Len(e)
      BY <1>1, <2>1, <2>2 DEF Distinct
    <2>3. CASE ~(i \in 1 .. Len(e) /\ j \in 1 .. Len(e))
      BY <1>1, <1>2, <2>1, <2>3
    <2> QED
      BY <2>2, <2>3
  <1>4. Stored(f) = Stored(e) \cup {g}
    <2>1. ASSUME NEW h \in Stored(f) PROVE h \in Stored(e) \cup {g}
      BY <1>1, <2>1 DEF Stored
    <2>2. ASSUME NEW h \in Stored(e) PROVE h \in Stored(f)
      BY <1>1, <2>2 DEF Stored
    <2>3. g \in Stored(f)
      BY <1>1 DEF Stored
    <2> QED
      BY <2>1, <2>2, <2>3
  <1> QED
    BY <1>1, <1>3, <1>4 DEF f

\* leave on a table that holds g: swap_remove takes g away and nothing else,
\* although it moves the last entry.
LEMMA LeaveFacts ==
    ASSUME NEW e \in Seq(Groups), NEW g \in Stored(e), Distinct(e)
    PROVE  /\ Leave(e, g) \in Seq(Groups) /\ Len(Leave(e, g)) = Len(e) - 1
           /\ Distinct(Leave(e, g))
           /\ Stored(Leave(e, g)) = Stored(e) \ {g}
  <1> DEFINE First(k) == e[k] = g /\ \A j \in 1 .. k - 1 : e[j] # g
             n == Len(e)
             i == CHOOSE k \in DOMAIN e : First(k)
             f == [j \in 1 .. n - 1 |-> IF j = i THEN e[n] ELSE e[j]]
  <1>1. n \in Nat /\ DOMAIN e = 1 .. n /\ \A j \in 1 .. n : e[j] \in Groups
    OBVIOUS
  <1>2. PICK k \in DOMAIN e : e[k] = g
    BY DEF Stored
  <1>3. First(k)
    BY <1>1, <1>2 DEF Distinct
  <1>4. i \in 1 .. n /\ e[i] = g
    BY <1>1, <1>2, <1>3
  <1>5. Leave(e, g) = f
    BY DEF Leave
  <1> HIDE DEF i, First
  <1>6. /\ f \in Seq(Groups) /\ Len(f) = n - 1 /\ DOMAIN f = 1 .. n - 1
        /\ \A j \in 1 .. n - 1 : f[j] = IF j = i THEN e[n] ELSE e[j]
    <2>1. n - 1 \in Nat
      BY <1>1, <1>4
    <2>2. \A j \in 1 .. n - 1 : (IF j = i THEN e[n] ELSE e[j]) \in Groups
      BY <1>1, <1>4
    <2> QED
      BY <2>1, <2>2
  <1> HIDE DEF f
  <1>7. \A j \in 1 .. n : e[j] = g => j = i
    BY <1>1, <1>4 DEF Distinct
  <1>8. Distinct(f)
    <2>1. SUFFICES ASSUME NEW a \in 1 .. n - 1, NEW b \in 1 .. n - 1, f[a] = f[b]
                   PROVE  a = b
      BY <1>6 DEF Distinct
    <2> DEFINE from(j) == IF j = i THEN n ELSE j
    <2>2. /\ from(a) \in 1 .. n /\ from(b) \in 1 .. n
          /\ f[a] = e[from(a)] /\ f[b] = e[from(b)]
      BY <1>1, <1>6
    <2>3. from(a) = from(b)
      BY <1>1, <2>1, <2>2 DEF Distinct
    <2> QED
      BY <1>1, <2>3
  <1>9. Stored(f) = Stored(e) \ {g}
    <2>1. ASSUME NEW h \in Stored(f) PROVE h \in Stored(e) \ {g}
      <3>1. PICK j \in 1 .. n - 1 : f[j] = h
        BY <1>6, <2>1 DEF Stored
      <3>2. CASE j = i
        BY <1>1, <1>4, <1>6, <1>7, <3>1, <3>2 DEF Stored
      <3>3. CASE j # i
        BY <1>1, <1>4, <1>6, <1>7, <3>1, <3>3 DEF Stored
      <3> QED
        BY <3>2, <3>3
    <2>2. ASSUME NEW h \in Stored(e) \ {g} PROVE h \in Stored(f)
      <3>1. PICK j \in 1 .. n : e[j] = h /\ j # i
        BY <1>1, <1>4, <2>2 DEF Stored
      <3>2. CASE j = n
        BY <1>1, <1>4, <1>6, <3>1, <3>2 DEF Stored
      <3>3. CASE j # n
        <4>1. j \in 1 .. n - 1
          <5>1. n \in Nat /\ j \in 1 .. n /\ j # n
            BY <1>1, <3>1, <3>3
          <5> HIDE DEF n
          <5> QED
            BY <5>1
        <4>2. j \in DOMAIN f /\ f[j] = h
          BY <1>6, <3>1, <4>1
        <4> QED
          BY <4>2 DEF Stored
      <3> QED
        BY <3>2, <3>3
    <2> QED
      BY <2>1, <2>2
  <1> QED
    BY <1>5, <1>6, <1>8, <1>9

-----------------------------------------------------------------------------
\* A name that is too long is never stored: without this, a refused JOIN could
\* find its group in the table.
NamesFit == \A g \in Stored(groups) : ~GroupTooLong(g)

GroupInv == GroupTypeOK /\ NoDuplicates /\ MatchesMembers /\ NamesFit

\* The new table is empty.
LEMMA InitGroupInv == GroupInit => GroupInv
  BY GroupTableAssumption
  DEF GroupInit, GroupInv, GroupTypeOK, NoDuplicates, MatchesMembers, MatchesGroup, NamesFit, Stored

\* GroupTable::join keeps the invariant, whether it refuses, finds or stores.
LEMMA JoinGroupInv ==
    ASSUME GroupInv, NEW g \in Groups, DoJoin(g)
    PROVE  GroupInv'
  <1> USE DEF NoDuplicates, MatchesMembers, MatchesGroup, NamesFit
  <1>1. /\ groups \in Seq(Groups) /\ Len(groups) \in Nat /\ Len(groups) <= GROUP_CAP
        /\ Distinct(groups)
    BY DEF GroupInv, GroupTypeOK, Distinct
  <1>2. CASE Refused(groups, g)
    <2>1. groups' = groups /\ refused' = refused \cup {g} /\ member' = member \cup {g}
      BY <1>2 DEF DoJoin, Join
    <2>2. g \notin Stored(groups)
      BY <1>2 DEF Refused, GroupInv
    <2>3. Stored(groups)' = Stored(groups)
      BY <2>1 DEF Stored
    <2> QED
      BY <2>1, <2>2, <2>3 DEF GroupInv, GroupTypeOK
  <1>3. CASE ~Refused(groups, g) /\ g \in Stored(groups)
    <2>1. groups' = groups /\ refused' = refused \ {g} /\ member' = member \cup {g}
      BY <1>3 DEF DoJoin, Join
    <2>2. Stored(groups)' = Stored(groups)
      BY <2>1 DEF Stored
    <2> QED
      BY <1>3, <2>1, <2>2 DEF GroupInv, GroupTypeOK
  <1>4. CASE ~Refused(groups, g) /\ g \notin Stored(groups)
    <2>1. /\ groups' = Append(groups, g)
          /\ refused' = refused \ {g} /\ member' = member \cup {g}
      BY <1>4 DEF DoJoin, Join
    <2>2. /\ groups' \in Seq(Groups) /\ Len(groups') = Len(groups) + 1
          /\ Distinct(groups') /\ Stored(groups') = Stored(groups) \cup {g}
      BY <1>1, <1>4, <2>1, PushFacts
    <2>3. Len(groups') <= GROUP_CAP
      BY <1>1, <1>4, <2>2, GroupTableAssumption DEF Refused, TableFull
    <2>4. ~GroupTooLong(g)
      BY <1>4 DEF Refused
    <2>5. GroupTypeOK' /\ NoDuplicates'
      BY <2>1, <2>2, <2>3 DEF GroupInv, GroupTypeOK, Distinct
    <2>6. MatchesMembers' /\ NamesFit'
      BY <2>1, <2>2, <2>4 DEF GroupInv, GroupTypeOK
    <2> QED
      BY <2>5, <2>6 DEF GroupInv
  <1> QED
    BY <1>2, <1>3, <1>4

\* GroupTable::leave keeps the invariant.
LEMMA LeaveGroupInv ==
    ASSUME GroupInv, NEW g \in Groups, DoLeave(g)
    PROVE  GroupInv'
  <1> USE DEF NoDuplicates, MatchesMembers, MatchesGroup, NamesFit
  <1>1. /\ groups \in Seq(Groups) /\ Len(groups) \in Nat /\ Len(groups) <= GROUP_CAP
        /\ Distinct(groups)
    BY DEF GroupInv, GroupTypeOK, Distinct
  <1>2. member' = member \ {g} /\ refused' = refused \ {g}
    BY DEF DoLeave
  <1>3. CASE g \in Stored(groups)
    <2>1. /\ groups' \in Seq(Groups) /\ Len(groups') = Len(groups) - 1
          /\ Distinct(groups') /\ Stored(groups') = Stored(groups) \ {g}
      BY <1>1, <1>3, LeaveFacts DEF DoLeave
    <2>2. Len(groups') <= GROUP_CAP
      BY <1>1, <2>1, GroupTableAssumption
    <2>3. GroupTypeOK' /\ NoDuplicates'
      BY <1>2, <2>1, <2>2 DEF GroupInv, GroupTypeOK, Distinct
    <2>4. MatchesMembers' /\ NamesFit'
      BY <1>2, <2>1 DEF GroupInv, GroupTypeOK
    <2> QED
      BY <2>3, <2>4 DEF GroupInv
  <1>4. CASE g \notin Stored(groups)
    <2>1. groups' = groups
      BY <1>4 DEF DoLeave, Leave
    <2>2. Stored(groups)' = Stored(groups)
      BY <2>1 DEF Stored
    <2> QED
      BY <1>2, <1>4, <2>1, <2>2 DEF GroupInv, GroupTypeOK
  <1> QED
    BY <1>3, <1>4

\* The invariant of the group table.
THEOREM GroupInvariance == GroupSpec => []GroupInv
  <1>1. GroupInv /\ [GroupNext]_groupVars => GroupInv'
    <2>1. SUFFICES ASSUME GroupInv, [GroupNext]_groupVars PROVE GroupInv'
      OBVIOUS
    <2>2. CASE GroupNext
      BY <2>1, <2>2, JoinGroupInv, LeaveGroupInv DEF GroupNext
    <2>3. CASE UNCHANGED groupVars
      BY <2>1, <2>3 DEF groupVars, GroupInv, GroupTypeOK, NoDuplicates, MatchesMembers,
                        MatchesGroup, NamesFit, Stored
    <2> QED
      BY <2>1, <2>2, <2>3
  <1> QED
    BY <1>1, InitGroupInv, PTL DEF GroupSpec

\* The table never outgrows its array (group_table.rs, Vec::push).
THEOREM GroupTypeCorrect == GroupSpec => []GroupTypeOK
  BY GroupInvariance, PTL DEF GroupInv

\* One LEAVE is enough: no group is stored twice.
THEOREM NoDuplicatesCorrect == GroupSpec => []NoDuplicates
  BY GroupInvariance, PTL DEF GroupInv

\* Exactly the memberships that were granted and not given up are stored,
\* whatever JOIN and LEAVE came before.
THEOREM MembersCorrect == GroupSpec => []MatchesMembers
  BY GroupInvariance, PTL DEF GroupInv
============================================================================
