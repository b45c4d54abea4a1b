----------------------- MODULE TsConfigSelectionProofs ----------------------
(* Proofs about TsConfigSelection for every project, every list of         *)
(* tsconfigs and every graph of references between them.                   *)
EXTENDS TsConfigSelection, SequenceTheorems, WellFoundedInduction, TLAPS

-----------------------------------------------------------------------------
(* The list                                                                *)

\* A set of natural numbers that is not empty has a least element.
LEMMA LeastPlace ==
    ASSUME NEW S, S \subseteq Nat, S # {}
    PROVE  \E i \in S : \A j \in S : i <= j
<1> DEFINE Less == OpToRel(<, Nat)
<1>1. PICK i \in S : \A j \in S : <<j, i>> \notin Less
  <2>1. IsWellFoundedOn(Less, Nat)
    BY NatLessThanWellFounded
  <2> HIDE DEF Less
  <2> QED
    BY <2>1, WFMin
<1>2. \A j \in S : ~(j < i)
  BY <1>1 DEF OpToRel
<1> QED
  BY <1>2

\* What a list is after the first n references were added: the same places, and the
\* references at new ones.
Extends(result, tsconfigs, references, n) ==
    /\ result \in Seq(TsConfigs)
    /\ Len(tsconfigs) <= Len(result)
    /\ \A i \in 1..Len(tsconfigs) : result[i] = tsconfigs[i]
    /\ \A i \in 1..n : references[i] \in ToSet(result)
    /\ ToSet(result) \subseteq ToSet(tsconfigs) \cup ToSet(references)
    /\ IsInjective(tsconfigs) => IsInjective(result)

LEMMA AddExtends ==
    ASSUME NEW tsconfigs \in Seq(TsConfigs), NEW references \in Seq(TsConfigs),
           NEW n \in Nat, n + 1 \in 1..Len(references),
           NEW result, Extends(result, tsconfigs, references, n)
    PROVE  Extends(AddDiscovered(result, references[n + 1]), tsconfigs, references, n + 1)
<1> DEFINE t == references[n + 1]
<1>1. t \in TsConfigs /\ t \in ToSet(references)
  BY ElementOfSeq, LenProperties DEF ToSet
<1>2. result \in Seq(TsConfigs) /\ Len(result) \in Nat /\ DOMAIN result = 1..Len(result)
  BY LenProperties DEF Extends
<1>3. /\ Len(tsconfigs) \in Nat /\ DOMAIN tsconfigs = 1..Len(tsconfigs)
      /\ \A i \in 1..(n + 1) : i = n + 1 \/ i \in 1..n
  BY LenProperties
<1>4. CASE t \in ToSet(result)
  BY <1>3, <1>4 DEF AddDiscovered, Extends
<1>5. CASE t \notin ToSet(result)
  <2> DEFINE next == Append(result, t)
  <2>1. AddDiscovered(result, t) = next
    BY <1>5 DEF AddDiscovered
  <2>2. /\ next \in Seq(TsConfigs) /\ Len(next) = Len(result) + 1
        /\ \A i \in 1..Len(result) : next[i] = result[i]
        /\ next[Len(result) + 1] = t
    BY <1>1, <1>2, AppendProperties
  <2> HIDE DEF next
  <2>3. DOMAIN next = 1..(Len(result) + 1)
    BY <2>2, LenProperties
  <2>4. ToSet(next) = ToSet(result) \cup {t}
    <3>1. \A i \in DOMAIN next : next[i] \in ToSet(result) \cup {t}
      BY <1>2, <2>2, <2>3 DEF ToSet
    <3>2. t \in ToSet(next)
      BY <1>2, <2>2, <2>3 DEF ToSet
    <3>3. \A i \in DOMAIN result : result[i] \in ToSet(next)
      BY <1>2, <2>2, <2>3 DEF ToSet
    <3> QED
      BY <3>1, <3>2, <3>3 DEF ToSet
  <2>5. IsInjective(result) => IsInjective(next)
    <3>1. \A i \in 1..Len(result) : next[i] # t
      BY <1>2, <1>5, <2>2 DEF ToSet
    <3> QED
      BY <1>2, <2>2, <2>3, <3>1 DEF IsInjective
  <2>6. \A i \in 1..Len(tsconfigs) : next[i] = tsconfigs[i]
    BY <1>2, <1>3, <2>2 DEF Extends
  <2>7. \A i \in 1..(n + 1) : references[i] \in ToSet(next)
    BY <1>3, <2>4 DEF Extends
  <2> QED
    BY <1>1, <1>2, <1>3, <2>1, <2>2, <2>4, <2>5, <2>6, <2>7 DEF Extends
<1> QED
  BY <1>4, <1>5

\* addDiscoveredTsConfig for all references: the recursion is well-founded, as a least
\* number of references it would fail for has a predecessor it succeeds for.
LEMMA AddAllExtends ==
    ASSUME NEW tsconfigs \in Seq(TsConfigs), NEW references \in Seq(TsConfigs)
    PROVE  Extends(AddAll(tsconfigs, references), tsconfigs, references, Len(references))
<1> DEFINE Step(g, i) == IF i = 0 THEN tsconfigs ELSE AddDiscovered(g[i - 1], references[i])
           Adds(g, n) == /\ g = [i \in 0..n |-> Step(g, i)]
                         /\ \A i \in 0..n : Extends(g[i], tsconfigs, references, i)
           Fails == {n \in 0..Len(references) : ~\E g : Adds(g, n)}
<1>1. Len(references) \in Nat /\ DOMAIN references = 1..Len(references)
  BY LenProperties
<1>2. Extends(tsconfigs, tsconfigs, references, 0)
  BY LenProperties DEF Extends
<1>3. Fails = {}
  <2> SUFFICES ASSUME Fails # {} PROVE FALSE
    OBVIOUS
  <2>0. Fails \subseteq Nat
    BY <1>1
  <2>1. PICK n \in Fails : \A m \in Fails : n <= m
    <3> HIDE DEF Fails
    <3> QED
      BY <2>0, LeastPlace
  <2>2. n # 0
    <3> DEFINE g == [i \in 0..0 |-> tsconfigs]
    <3>1. g = [i \in 0..0 |-> Step(g, i)]
      OBVIOUS
    <3>2. \A i \in 0..0 : Extends(g[i], tsconfigs, references, i)
      BY <1>2
    <3> HIDE DEF g
    <3>3. Adds(g, 0)
      BY <3>1, <3>2
    <3> QED
      BY <2>1, <3>3
  <2>3. n - 1 \in 0..Len(references) /\ n - 1 \notin Fails
    <3>1. n \in 0..Len(references)
      BY <2>1
    <3>2. n - 1 \in 0..Len(references) /\ ~(n <= n - 1)
      BY <1>1, <2>2, <3>1
    <3> HIDE DEF Fails
    <3> QED
      BY <2>1, <3>2
  <2>4. PICK g : Adds(g, n - 1)
    BY <2>3
  <2> DEFINE h == [i \in 0..n |-> IF i = n THEN AddDiscovered(g[n - 1], references[n]) ELSE g[i]]
  <2>5. \A i \in 0..n : h[i] = Step(h, i)
    <3>1. ASSUME NEW i \in 0..n, i # n PROVE h[i] = Step(h, i)
      <4>1. g[i] = Step(g, i)
        BY <1>1, <2>4, <3>1
      <4>2. h[i] = g[i] /\ (i # 0 => h[i - 1] = g[i - 1])
        BY <1>1, <3>1
      <4> QED
        BY <4>1, <4>2
    <3>2. h[n] = Step(h, n)
      BY <1>1, <2>2, <2>3
    <3> QED
      BY <3>1, <3>2
  <2>6. \A i \in 0..n : Extends(h[i], tsconfigs, references, i)
    <3>1. Extends(h[n], tsconfigs, references, n)
      <4>1. Extends(g[n - 1], tsconfigs, references, n - 1)
        BY <1>1, <2>2, <2>4
      <4>2. h[n] = AddDiscovered(g[n - 1], references[n])
        BY <1>1, <2>2
      <4>3. n - 1 \in Nat /\ (n - 1) + 1 = n /\ n \in 1..Len(references)
        BY <1>1, <2>2
      <4> HIDE DEF h
      <4> QED
        BY <4>1, <4>2, <4>3, AddExtends
    <3>2. ASSUME NEW i \in 0..n, i # n PROVE Extends(h[i], tsconfigs, references, i)
      BY <1>1, <2>4, <3>2
    <3> QED
      BY <3>1, <3>2
  <2>7. h = [i \in 0..n |-> Step(h, i)]
    BY <2>5
  <2> HIDE DEF h
  <2>8. Adds(h, n)
    BY <2>6, <2>7
  <2> QED
    BY <2>1, <2>8
<1>4. \E g : Adds(g, Len(references))
  <2> HIDE DEF Adds
  <2> QED
    BY <1>1, <1>3
<1>5. \A g : g = [i \in 0..Len(references) |-> Step(g, i)] =>
         \A i \in 0..Len(references) : Extends(g[i], tsconfigs, references, i)
  <2> SUFFICES ASSUME NEW g, g = [i \in 0..Len(references) |-> Step(g, i)]
               PROVE  \A i \in 0..Len(references) : Extends(g[i], tsconfigs, references, i)
    OBVIOUS
  <2> DEFINE Wrong == {i \in 0..Len(references) : ~Extends(g[i], tsconfigs, references, i)}
  <2> SUFFICES ASSUME Wrong # {} PROVE FALSE
    OBVIOUS
  <2>0. Wrong \subseteq Nat
    BY <1>1
  <2>1. PICK n \in Wrong : \A m \in Wrong : n <= m
    <3> HIDE DEF Wrong
    <3> QED
      BY <2>0, LeastPlace
  <2>2. g[n] = Step(g, n)
    BY <1>1, <2>1
  <2>3. n # 0
    BY <1>2, <2>1, <2>2
  <2>4. Extends(g[n - 1], tsconfigs, references, n - 1)
    BY <1>1, <2>1, <2>3
  <2>5. n - 1 \in Nat /\ (n - 1) + 1 = n /\ n \in 1..Len(references)
    BY <1>1, <2>1, <2>3
  <2>6. Extends(AddDiscovered(g[n - 1], references[n]), tsconfigs, references, n)
    BY <2>4, <2>5, AddExtends
  <2> QED
    BY <2>1, <2>2, <2>3, <2>6
<1> DEFINE added == CHOOSE g : g = [i \in 0..Len(references) |-> Step(g, i)]
<1>6. added = [i \in 0..Len(references) |-> Step(added, i)]
  BY <1>4
<1>7. AddAll(tsconfigs, references) = added[Len(references)]
  BY DEF AddAll
<1> HIDE DEF added
<1> QED
  BY <1>1, <1>5, <1>6, <1>7

-----------------------------------------------------------------------------
(* The selection                                                           *)

\* A tsconfig that gives f no options.
Useless(t, f) == t \in broken \/ f \notin rootNames[t]

\* The references of a tsconfig that was tried are in the list.
Followed(t) == t \in broken \/ ToSet(References[t]) \subseteq ToSet(list)

LEMMA Places ==
    ASSUME TypeOK
    PROVE  /\ Len(list) \in Nat /\ DOMAIN list = 1..Len(list)
           /\ \A i \in 1..Len(list) : list[i] \in TsConfigs /\ list[i] \in ToSet(list)
           /\ \A t \in ToSet(list) : \E i \in 1..Len(list) : t = list[i]
           /\ \A i, j \in 1..Len(list) : list[i] = list[j] => i = j
<1>1. list \in Seq(TsConfigs) /\ IsInjective(list)
  BY DEF TypeOK
<1>2. Len(list) \in Nat /\ DOMAIN list = 1..Len(list)
  BY <1>1, LenProperties
<1>3. \A i \in 1..Len(list) : list[i] \in TsConfigs
  BY <1>1, ElementOfSeq
<1> QED
  BY <1>1, <1>2, <1>3 DEF ToSet, IsInjective

\* The list after a tsconfig was parsed.
LEMMA DiscoverExtends ==
    ASSUME TypeOK, NEW t \in TsConfigs
    PROVE  Extends(Discover(t), list, References[t], Len(References[t]))
BY AddAllExtends, ReferencesAssumption DEF Discover, TypeOK

\* Where all references were followed nothing is discovered.
LEMMA NothingNew ==
    ASSUME TypeOK, NEW t \in TsConfigs, ToSet(References[t]) \subseteq ToSet(list)
    PROVE  ToSet(Discover(t)) = ToSet(list)
<1>1. Extends(Discover(t), list, References[t], Len(References[t]))
  BY DiscoverExtends
<1>2. ToSet(Discover(t)) \subseteq ToSet(list)
  BY <1>1 DEF Extends
<1>3. ToSet(list) \subseteq ToSet(Discover(t))
  <2>1. Discover(t) \in Seq(TsConfigs) /\ DOMAIN Discover(t) = 1..Len(Discover(t))
    BY <1>1, LenProperties DEF Extends
  <2>2. \A i \in 1..Len(list) : i \in 1..Len(Discover(t)) /\ Discover(t)[i] = list[i]
    BY <1>1, <2>1, LenProperties, Places DEF Extends
  <2> QED
    BY <2>1, <2>2, Places DEF ToSet
<1> QED
  BY <1>2, <1>3

\* The list after a step keeps its places.
LEMMA ListGrows ==
    ASSUME TypeOK, NEW t \in TsConfigs, list' = Discover(t)
    PROVE  /\ list' \in Seq(TsConfigs) /\ IsInjective(list')
           /\ Len(list') \in Nat /\ Len(list) <= Len(list')
           /\ DOMAIN list' = 1..Len(list')
           /\ \A i \in 1..Len(list) : list'[i] = list[i]
           /\ ToSet(list) \subseteq ToSet(list')
           /\ ToSet(References[t]) \subseteq ToSet(list')
<1>1. Extends(list', list, References[t], Len(References[t]))
  BY DiscoverExtends
<1>2. /\ list' \in Seq(TsConfigs) /\ Len(list') \in Nat /\ DOMAIN list' = 1..Len(list')
      /\ Len(list) <= Len(list') /\ Len(list) \in Nat
      /\ \A i \in 1..Len(list) : list'[i] = list[i]
  BY <1>1, LenProperties, Places DEF Extends
<1>3. IsInjective(list')
  BY <1>1 DEF Extends, TypeOK
<1>4. ToSet(list) \subseteq ToSet(list')
  BY <1>2, Places DEF ToSet
<1>5. ToSet(References[t]) \subseteq ToSet(list')
  <2>1. DOMAIN References[t] = 1..Len(References[t])
    BY ReferencesAssumption, LenProperties
  <2> QED
    BY <1>1, <2>1 DEF Extends, ToSet
<1> QED
  BY <1>2, <1>3, <1>4, <1>5

-----------------------------------------------------------------------------
(* No covered file is an orphan, in whatever order a selection tries the list. *)

\* What pickBestMatchTsConfig selects is a candidate: among the matching ones there is a
\* deepest, and a first of those.
LEMMA BestMatchRemains ==
    ASSUME TypeOK, NEW f \in Files, Remaining # {}
    PROVE  \E i \in Remaining : BestMatch(f) = list[i]
<1> DEFINE matching == {i \in Remaining : IsPrefix(PathOf[list[i]], PathOf[f])}
           depth(i) == Len(Dirname(list[i]))
           best == CHOOSE i \in matching : \A j \in matching :
                     depth(j) < depth(i) \/ (depth(j) = depth(i) /\ i <= j)
           first == CHOOSE i \in Remaining : \A j \in Remaining : i <= j
<1>1. Remaining \subseteq Nat /\ \A i \in Remaining : list[i] \in TsConfigs
  BY Places DEF Remaining
<1>2. CASE matching = {}
  <2>1. BestMatch(f) = list[first]
    BY <1>2 DEF BestMatch
  <2>2. first \in Remaining
    <3>1. \E i \in Remaining : \A j \in Remaining : i <= j
      BY <1>1, LeastPlace
    <3> QED
      BY <3>1
  <2> QED
    BY <2>1, <2>2
<1>3. CASE matching # {}
  <2>1. BestMatch(f) = list[best]
    BY <1>3 DEF BestMatch
  <2>2. Len(PathOf[f]) \in Nat
    BY PathsAssumption, LenProperties
  <2>3. \A i \in matching : depth(i) \in Nat /\ depth(i) <= Len(PathOf[f])
    <3> SUFFICES ASSUME NEW i \in matching
                 PROVE  depth(i) \in Nat /\ depth(i) <= Len(PathOf[f])
      OBVIOUS
    <3> DEFINE path == PathOf[list[i]]
    <3>1. path \in Seq(ToSet(path)) /\ path # <<>>
      BY <1>1, PathsAssumption
    <3>2. Len(path) <= Len(PathOf[f]) /\ Dirname(list[i]) = SubSeq(path, 1, Len(path) - 1)
      BY DEF IsPrefix, Dirname, Front
    <3> HIDE DEF path
    <3>3. Len(path) \in Nat /\ Len(path) # 0
      BY <3>1, EmptySeq, LenProperties
    <3>4. Len(Dirname(list[i])) = Len(path) - 1
      <4> DEFINE n == Len(path) - 1
      <4>1. n \in Nat /\ n <= Len(path)
        BY <3>3
      <4>2. Len(SubSeq(path, 1, n)) = n
        <5> HIDE DEF n
        <5>1. CASE n = 0
          BY <5>1, SubSeqEmpty, EmptySeq
        <5>2. CASE n # 0
          BY <3>1, <3>3, <4>1, <5>2, SubSeqProperties
        <5> QED
          BY <5>1, <5>2
      <4> QED
        BY <3>2, <4>2, Zenon
    <3> QED
      BY <2>2, <3>2, <3>3, <3>4
  <2> HIDE DEF depth, matching
  <2>4. PICK least \in {Len(PathOf[f]) - depth(i) : i \in matching} :
            \A d \in {Len(PathOf[f]) - depth(i) : i \in matching} : least <= d
    <3>1. {Len(PathOf[f]) - depth(i) : i \in matching} \subseteq Nat
      BY <2>2, <2>3
    <3> QED
      BY <1>3, <3>1, LeastPlace
  <2> DEFINE deepest == {i \in matching : Len(PathOf[f]) - depth(i) = least}
  <2>5. PICK i \in deepest : \A j \in deepest : i <= j
    <3>1. deepest # {} /\ deepest \subseteq Nat
      BY <1>1, <2>4 DEF matching
    <3> HIDE DEF deepest
    <3> QED
      BY <3>1, LeastPlace
  <2>6. \A j \in matching : depth(j) < depth(i) \/ (depth(j) = depth(i) /\ i <= j)
    <3> SUFFICES ASSUME NEW j \in matching
                 PROVE  depth(j) < depth(i) \/ (depth(j) = depth(i) /\ i <= j)
      OBVIOUS
    <3>1. i \in matching /\ Len(PathOf[f]) - depth(i) = least
      BY <2>5
    <3>2. least <= Len(PathOf[f]) - depth(j)
      BY <2>4
    <3>3. /\ depth(i) \in Nat /\ depth(i) <= Len(PathOf[f])
          /\ depth(j) \in Nat /\ depth(j) <= Len(PathOf[f])
      BY <2>3, <3>1
    <3>4. depth(j) = depth(i) => j \in deepest
      BY <3>1
    <3>5. depth(j) = depth(i) => i <= j
      BY <2>5, <3>4
    <3> QED
      BY <2>2, <3>1, <3>2, <3>3, <3>5
  <2>7. best \in matching
    BY <2>5, <2>6
  <2> QED
    BY <2>1, <2>7 DEF matching
<1> QED
  BY <1>2, <1>3

\* No tsconfig in the list gives an orphan options, and all that is referenced is there.
OrphanIsUncovered(f) ==
    selection[f] = Orphan => \A t \in ToSet(list) : Useless(t, f) /\ Followed(t)

\* Inductive: what was tried in vain is useless and its references are in the list.
CompleteInv ==
    /\ TypeOK
    /\ file # None => \A t \in processed : Useless(t, file) /\ Followed(t)
    /\ \A f \in Files : OrphanIsUncovered(f)

LEMMA CompleteInit == Init => CompleteInv
<1> SUFFICES ASSUME Init PROVE CompleteInv
  OBVIOUS
<1>1. TypeOK
  BY ListsAssumption DEF Init, TypeOK
<1> QED
  BY <1>1, NamesAssumption DEF Init, CompleteInv, OrphanIsUncovered

LEMMA CompleteStep == CompleteInv /\ [Next]_vars => CompleteInv'
<1> SUFFICES ASSUME CompleteInv, [Next]_vars PROVE CompleteInv'
  OBVIOUS
<1>0. TypeOK
  BY DEF CompleteInv
<1>1. ASSUME NEW f \in Files, Ask(f) PROVE CompleteInv'
  BY <1>0, <1>1 DEF Ask, TypeOK, CompleteInv, OrphanIsUncovered, Useless, Followed
<1>2. ASSUME Iterate PROVE CompleteInv'
  <2> DEFINE t == BestMatch(file)
  <2>1. /\ file # None /\ file \in Files /\ Remaining # {} /\ UNCHANGED <<rootNames, broken>>
        /\ SkipBroken(t) \/ TryParsed(t)
    BY <1>0, <1>2 DEF Iterate, TypeOK
  <2>2. t \in ToSet(list) /\ t \in TsConfigs
    BY <1>0, <2>1, BestMatchRemains, Places DEF Remaining
  <2> HIDE DEF t
  <2>3. CASE SkipBroken(t)
    BY <1>0, <2>1, <2>2, <2>3
    DEF SkipBroken, TypeOK, CompleteInv, OrphanIsUncovered, Useless, Followed
  <2>4. CASE TryParsed(t)
    <3>1. t \notin broken /\ processed' = processed \cup {t} /\ list' = Discover(t)
      BY <2>4 DEF TryParsed
    <3>2. /\ list' \in Seq(TsConfigs) /\ IsInjective(list')
          /\ ToSet(list) \subseteq ToSet(list')
          /\ ToSet(References[t]) \subseteq ToSet(list')
      BY <1>0, <2>2, <3>1, ListGrows
    <3>3. ASSUME NEW f \in Files, selection[f] = Orphan
          PROVE  \A u \in ToSet(list') : Useless(u, f)' /\ Followed(u)'
      <4>1. \A u \in ToSet(list) : Useless(u, f) /\ Followed(u)
        BY <3>3 DEF CompleteInv, OrphanIsUncovered
      <4>2. ToSet(list') = ToSet(list)
        BY <1>0, <2>2, <3>1, <4>1, NothingNew DEF Followed
      <4> QED
        BY <2>1, <4>1, <4>2 DEF Useless, Followed
    <3>4. CASE file \in rootNames[t]
      <4>1. selection' = [selection EXCEPT ![file] = t] /\ file' = None
        BY <2>4, <3>4 DEF TryParsed, Answer
      <4>2. TypeOK'
        BY <1>0, <2>1, <2>2, <3>1, <3>2, <4>1 DEF TypeOK
      <4>3. \A f \in Files : selection'[f] = Orphan => selection[f] = Orphan
        BY <1>0, <2>2, <4>1, NamesAssumption DEF TypeOK
      <4> QED
        BY <3>3, <4>1, <4>2, <4>3 DEF CompleteInv, OrphanIsUncovered
    <3>5. CASE file \notin rootNames[t]
      <4>1. UNCHANGED <<file, selection>>
        BY <2>4, <3>5 DEF TryParsed
      <4>2. TypeOK'
        BY <1>0, <2>1, <2>2, <3>1, <3>2, <4>1 DEF TypeOK
      <4>3. \A u \in processed' : Useless(u, file)' /\ Followed(u)'
        <5>1. \A u \in processed : Useless(u, file) /\ Followed(u)
          BY <2>1 DEF CompleteInv
        <5> QED
          BY <2>1, <3>1, <3>2, <3>5, <4>1, <5>1 DEF Useless, Followed
      <4> QED
        BY <3>3, <4>1, <4>2, <4>3 DEF CompleteInv, OrphanIsUncovered
    <3> QED
      BY <3>4, <3>5
  <2> QED
    BY <2>1, <2>3, <2>4
<1>3. ASSUME GiveUp PROVE CompleteInv'
  <2>1. /\ file # None /\ file \in Files /\ Remaining = {} /\ file' = None
        /\ selection' = [selection EXCEPT ![file] = Orphan]
        /\ UNCHANGED <<list, rootNames, broken, processed>>
    BY <1>0, <1>3 DEF GiveUp, Answer, TypeOK
  <2>2. \A t \in ToSet(list) : Useless(t, file) /\ Followed(t)
    <3>1. ToSet(list) \subseteq processed
      BY <1>0, <2>1, Places DEF Remaining
    <3> QED
      BY <2>1, <3>1 DEF CompleteInv
  <2>3. TypeOK'
    BY <1>0, <2>1 DEF TypeOK
  <2>4. ASSUME NEW f \in Files PROVE OrphanIsUncovered(f)'
    BY <1>0, <2>1, <2>2 DEF TypeOK, CompleteInv, OrphanIsUncovered, Useless, Followed
  <2> QED
    BY <2>1, <2>3, <2>4 DEF CompleteInv
<1>4. CASE UNCHANGED vars
  BY <1>4 DEF vars, CompleteInv, OrphanIsUncovered, TypeOK, Useless, Followed
<1> QED
  BY <1>1, <1>2, <1>3, <1>4 DEF Next

\* A file is without a tsconfig only when none in the list has it, those that other
\* selections discover later included: its own has followed every reference by then.
THEOREM CoveredFileIsNoOrphanCorrect == Spec => []CoveredFileIsNoOrphan
<1>1. CompleteInv => CoveredFileIsNoOrphan
  BY DEF CompleteInv, OrphanIsUncovered, CoveredFileIsNoOrphan, Usable, Useless
<1> QED
  BY <1>1, CompleteInit, CompleteStep, PTL DEF Spec

-----------------------------------------------------------------------------
(* Selections are stable, whatever is discovered between them: the order in which *)
(* they try the list counts.                                                      *)

\* The place of the list at which a selection for f ends.
FirstUsable(n, f) ==
    /\ n \in 1..Len(list)
    /\ ~Useless(list[n], f)
    /\ \A i \in 1..(n - 1) : Useless(list[i], f)

\* The loop has tried the first k places of the list in order, without success.
Tried(k) ==
    /\ k \in 0..Len(list)
    /\ processed = {list[i] : i \in 1..k}
    /\ \A i \in 1..k : Useless(list[i], file) /\ Followed(list[i])

\* Inductive: what was selected is the first usable of the list, which only grows at its
\* end, and once a file was an orphan all references have been followed.
SelectionInv ==
    /\ TypeOK
    /\ file # None => \E k \in 0..Len(list) : Tried(k)
    /\ \A f \in Files :
         /\ selection[f] \in TsConfigs =>
               \E n \in 1..Len(list) : FirstUsable(n, f) /\ list[n] = selection[f]
         /\ selection[f] = Orphan =>
               /\ \A t \in ToSet(list) : Useless(t, f)
               /\ \A t \in ToSet(list) : Followed(t)

\* While the first k places were tried, the next candidate is the one after them.
LEMMA NextCandidate ==
    ASSUME TypeOK, file \in Files, NEW k \in 0..Len(list), Tried(k)
    PROVE  /\ Remaining = (k + 1)..Len(list)
           /\ Remaining # {} => k + 1 \in 1..Len(list) /\ BestMatch(file) = list[k + 1]
<1>1. /\ Len(list) \in Nat /\ DOMAIN list = 1..Len(list)
      /\ \A i \in 1..Len(list) : list[i] \in TsConfigs
      /\ \A i, j \in 1..Len(list) : list[i] = list[j] => i = j
  BY Places
<1>2. Remaining = (k + 1)..Len(list)
  <2>1. \A i \in 1..Len(list) : list[i] \notin processed <=> i > k
    BY <1>1 DEF Tried
  <2> QED
    BY <1>1, <2>1 DEF Remaining
<1>3. {i \in Remaining : IsPrefix(PathOf[list[i]], PathOf[file])} = {}
  BY <1>1, FilesAssumption DEF Remaining
<1>4. ASSUME Remaining # {}
      PROVE  k + 1 \in 1..Len(list) /\ BestMatch(file) = list[k + 1]
  <2>1. k + 1 \in 1..Len(list) /\ k + 1 \in Remaining
    BY <1>1, <1>2, <1>4
  <2>2. \A i \in Remaining : (\A j \in Remaining : i <= j) => i = k + 1
    BY <1>1, <1>2, <2>1
  <2>3. \A j \in Remaining : k + 1 <= j
    BY <1>1, <1>2
  <2>4. (CHOOSE i \in Remaining : \A j \in Remaining : i <= j) = k + 1
    BY <2>1, <2>2, <2>3
  <2> QED
    BY <1>3, <2>1, <2>4 DEF BestMatch
<1> QED
  BY <1>2, <1>4

LEMMA SelectionInit == Init => SelectionInv
<1> SUFFICES ASSUME Init PROVE SelectionInv
  OBVIOUS
<1>1. list \in Seq(TsConfigs) /\ IsInjective(list)
  BY ListsAssumption DEF Init
<1>2. TypeOK
  BY <1>1 DEF Init, TypeOK
<1>3. \A f \in Files : selection[f] = None /\ None \notin TsConfigs \cup {Orphan}
  BY NamesAssumption DEF Init
<1> QED
  BY <1>2, <1>3 DEF Init, SelectionInv

\* What is known of the files keeps being true when their selections stay.
LEMMA SelectionsKept ==
    ASSUME SelectionInv, NEW f \in Files, selection'[f] = selection[f],
           UNCHANGED <<rootNames, broken>>,
           \/ UNCHANGED list
           \/ \E t \in ToSet(list) : t \notin broken /\ list' = Discover(t)
    PROVE  /\ selection'[f] \in TsConfigs =>
                \E n \in 1..Len(list') : FirstUsable(n, f)' /\ list'[n] = selection'[f]
           /\ selection'[f] = Orphan =>
                /\ \A t \in ToSet(list') : Useless(t, f)'
                /\ \A t \in ToSet(list') : Followed(t)'
<1>1. CASE UNCHANGED list
  BY <1>1 DEF SelectionInv, FirstUsable, Useless, Followed
<1>2. ASSUME NEW t \in ToSet(list), t \notin broken, list' = Discover(t)
      PROVE  /\ selection'[f] \in TsConfigs =>
                  \E n \in 1..Len(list') : FirstUsable(n, f)' /\ list'[n] = selection'[f]
             /\ selection'[f] = Orphan =>
                  /\ \A u \in ToSet(list') : Useless(u, f)'
                  /\ \A u \in ToSet(list') : Followed(u)'
  <2>0. TypeOK /\ t \in TsConfigs /\ Len(list) \in Nat
    BY <1>2, Places DEF SelectionInv
  <2>1. /\ Len(list') \in Nat /\ Len(list) <= Len(list')
        /\ \A i \in 1..Len(list) : list'[i] = list[i]
    BY <1>2, <2>0, ListGrows
  <2>2. ASSUME selection'[f] \in TsConfigs
        PROVE  \E n \in 1..Len(list') : FirstUsable(n, f)' /\ list'[n] = selection'[f]
    <3>1. PICK n \in 1..Len(list) : FirstUsable(n, f) /\ list[n] = selection[f]
      BY <2>2 DEF SelectionInv
    <3>2. /\ n \in 1..Len(list') /\ list'[n] = list[n]
          /\ \A i \in 1..(n - 1) : list'[i] = list[i]
      BY <2>0, <2>1, <3>1
    <3>3. FirstUsable(n, f)'
      BY <3>1, <3>2 DEF FirstUsable, Useless
    <3> QED
      BY <3>1, <3>2, <3>3
  <2>3. ASSUME selection'[f] = Orphan
        PROVE  /\ \A u \in ToSet(list') : Useless(u, f)'
               /\ \A u \in ToSet(list') : Followed(u)'
    <3>1. /\ \A u \in ToSet(list) : Useless(u, f)
          /\ \A u \in ToSet(list) : Followed(u)
      BY <2>3 DEF SelectionInv
    <3>2. ToSet(References[t]) \subseteq ToSet(list)
      BY <1>2, <3>1 DEF Followed
    <3>3. ToSet(list') = ToSet(list)
      BY <1>2, <2>0, <3>2, NothingNew
    <3> QED
      BY <3>1, <3>3 DEF Useless, Followed
  <2> QED
    BY <2>2, <2>3
<1> QED
  BY <1>1, <1>2

LEMMA SelectionStep == SelectionInv /\ [Next]_vars => SelectionInv'
<1> SUFFICES ASSUME SelectionInv, [Next]_vars PROVE SelectionInv'
  OBVIOUS
<1>0. TypeOK /\ Len(list) \in Nat
  BY Places DEF SelectionInv
<1>1. ASSUME NEW f \in Files, Ask(f) PROVE SelectionInv'
  <2>1. file' = f /\ processed' = {} /\ UNCHANGED <<list, rootNames, broken, selection>>
    BY <1>1 DEF Ask
  <2>2. TypeOK'
    BY <1>0, <2>1 DEF TypeOK
  <2>3. 0 \in 0..Len(list') /\ Tried(0)'
    BY <1>0, <2>1 DEF Tried
  <2>4. \A g \in Files : selection'[g] = selection[g]
    BY <2>1
  <2> QED
    BY <2>1, <2>2, <2>3, <2>4, SelectionsKept DEF SelectionInv
<1>2. ASSUME Iterate PROVE SelectionInv'
  <2> DEFINE t == BestMatch(file)
  <2>1. file # None /\ Remaining # {} /\ UNCHANGED <<rootNames, broken>>
    BY <1>2 DEF Iterate
  <2>2. file \in Files
    BY <1>0, <2>1 DEF TypeOK
  <2>3. PICK k \in 0..Len(list) : Tried(k)
    BY <2>1 DEF SelectionInv
  <2>4. k + 1 \in 1..Len(list) /\ t = list[k + 1]
    BY <1>0, <2>1, <2>2, <2>3, NextCandidate
  <2> HIDE DEF t
  <2>5. t \in ToSet(list) /\ t \in TsConfigs
    BY <1>0, <2>4, Places
  <2>6. CASE SkipBroken(t)
    <3>1. t \in broken /\ processed' = processed \cup {t} /\ UNCHANGED <<list, file, selection>>
      BY <2>6 DEF SkipBroken
    <3>2. TypeOK'
      BY <1>0, <2>1, <2>5, <3>1 DEF TypeOK
    <3>3. Tried(k + 1)'
      <4>1. \A i \in 1..(k + 1) : i = k + 1 \/ i \in 1..k
        OBVIOUS
      <4>2. processed' = {list[i] : i \in 1..(k + 1)}
        BY <1>0, <2>3, <2>4, <3>1, <4>1 DEF Tried
      <4>3. \A i \in 1..(k + 1) : Useless(list[i], file) /\ Followed(list[i])
        BY <2>3, <2>4, <3>1, <4>1 DEF Tried, Useless, Followed
      <4> QED
        BY <1>0, <2>1, <2>4, <3>1, <4>2, <4>3 DEF Tried, Useless, Followed
    <3>4. k + 1 \in 0..Len(list') /\ \A g \in Files : selection'[g] = selection[g]
      BY <1>0, <2>4, <3>1
    <3> QED
      BY <2>1, <3>1, <3>2, <3>3, <3>4, SelectionsKept DEF SelectionInv
  <2>7. CASE TryParsed(t)
    <3>1. t \notin broken /\ processed' = processed \cup {t} /\ list' = Discover(t)
      BY <2>7 DEF TryParsed
    <3>2. /\ list' \in Seq(TsConfigs) /\ IsInjective(list')
          /\ Len(list') \in Nat /\ Len(list) <= Len(list')
          /\ \A i \in 1..Len(list) : list'[i] = list[i]
          /\ ToSet(list) \subseteq ToSet(list')
          /\ ToSet(References[t]) \subseteq ToSet(list')
      BY <1>0, <2>5, <3>1, ListGrows
    <3>3. processed' \subseteq ToSet(list')
      BY <1>0, <2>5, <3>1, <3>2 DEF TypeOK
    <3>4. \E u \in ToSet(list) : u \notin broken /\ list' = Discover(u)
      BY <2>5, <3>1
    <3>5. CASE file \in rootNames[t]
      <4>1. selection' = [selection EXCEPT ![file] = t] /\ file' = None
        BY <2>7, <3>5 DEF TryParsed, Answer
      <4>2. TypeOK'
        BY <1>0, <2>1, <2>5, <3>2, <3>3, <4>1 DEF TypeOK
      <4>3. ASSUME NEW f \in Files, f = file
            PROVE  FirstUsable(k + 1, f)' /\ k + 1 \in 1..Len(list') /\ list'[k + 1] = t
        <5>1. k + 1 \in 1..Len(list') /\ list'[k + 1] = t
              /\ \A i \in 1..k : list'[i] = list[i]
          BY <1>0, <2>4, <3>2
        <5>2. (k + 1) - 1 = k
          OBVIOUS
        <5>3. ~Useless(t, f) /\ \A i \in 1..k : Useless(list[i], f)
          BY <2>1, <2>3, <3>1, <3>5, <4>3 DEF Useless, Tried
        <5> QED
          BY <2>1, <5>1, <5>2, <5>3 DEF FirstUsable, Useless
      <4>4. ASSUME NEW f \in Files
            PROVE  /\ selection'[f] \in TsConfigs =>
                        \E n \in 1..Len(list') : FirstUsable(n, f)' /\ list'[n] = selection'[f]
                   /\ selection'[f] = Orphan =>
                        /\ \A u \in ToSet(list') : Useless(u, f)'
                        /\ \A u \in ToSet(list') : Followed(u)'
        <5>1. CASE f = file
          <6>1. selection'[f] = t
            BY <1>0, <4>1, <5>1 DEF TypeOK
          <6> QED
            BY <2>5, <4>3, <5>1, <6>1, NamesAssumption
        <5>2. CASE f # file
          <6>1. selection'[f] = selection[f]
            BY <1>0, <4>1, <5>2 DEF TypeOK
          <6> QED
            BY <2>1, <3>4, <6>1, SelectionsKept
        <5> QED
          BY <5>1, <5>2
      <4> QED
        BY <4>1, <4>2, <4>4 DEF SelectionInv
    <3>6. CASE file \notin rootNames[t]
      <4>1. UNCHANGED <<file, selection>>
        BY <2>7, <3>6 DEF TryParsed
      <4>2. TypeOK'
        BY <1>0, <2>1, <3>2, <3>3, <4>1 DEF TypeOK
      <4>3. Tried(k + 1)'
        <5>1. \A i \in 1..(k + 1) : i = k + 1 \/ i \in 1..k
          OBVIOUS
        <5>2. processed' = {list[i] : i \in 1..(k + 1)}
          BY <1>0, <2>3, <2>4, <3>1, <5>1 DEF Tried
        <5>3. \A i \in 1..(k + 1) : list'[i] = list[i]
          BY <1>0, <2>4, <3>2
        <5>4. \A i \in 1..(k + 1) : Useless(list[i], file)
                                   /\ (list[i] \in broken \/ ToSet(References[list[i]]) \subseteq ToSet(list'))
          BY <2>3, <2>4, <3>2, <3>6, <5>1 DEF Tried, Useless, Followed
        <5> QED
          BY <1>0, <2>1, <2>4, <3>2, <4>1, <5>2, <5>3, <5>4 DEF Tried, Useless, Followed
      <4>4. k + 1 \in 0..Len(list') /\ \A g \in Files : selection'[g] = selection[g]
        BY <1>0, <2>4, <3>2, <4>1
      <4> QED
        BY <2>1, <3>4, <4>2, <4>3, <4>4, SelectionsKept DEF SelectionInv
    <3> QED
      BY <3>5, <3>6
  <2> QED
    BY <1>2, <2>6, <2>7 DEF Iterate, t
<1>3. CASE UNCHANGED vars
  BY <1>3 DEF vars, SelectionInv, TypeOK, Tried, FirstUsable, Useless, Followed
<1>4. ASSUME GiveUp PROVE SelectionInv'
  <2>1. /\ file # None /\ Remaining = {} /\ file' = None
        /\ selection' = [selection EXCEPT ![file] = Orphan]
        /\ UNCHANGED <<list, rootNames, broken, processed>>
    BY <1>4 DEF GiveUp, Answer
  <2>2. file \in Files
    BY <1>0, <2>1 DEF TypeOK
  <2>3. PICK k \in 0..Len(list) : Tried(k)
    BY <2>1 DEF SelectionInv
  <2>4. k = Len(list)
    <3>1. (k + 1)..Len(list) = {}
      BY <1>0, <2>1, <2>2, <2>3, NextCandidate
    <3> QED
      BY <1>0, <3>1
  <2>5. \A u \in ToSet(list) : Useless(u, file) /\ Followed(u)
    BY <1>0, <2>3, <2>4, Places DEF Tried
  <2>6. TypeOK'
    BY <1>0, <2>1, <2>2 DEF TypeOK
  <2>7. ASSUME NEW f \in Files
        PROVE  /\ selection'[f] \in TsConfigs =>
                    \E n \in 1..Len(list') : FirstUsable(n, f)' /\ list'[n] = selection'[f]
               /\ selection'[f] = Orphan =>
                    /\ \A u \in ToSet(list') : Useless(u, f)'
                    /\ \A u \in ToSet(list') : Followed(u)'
    <3>1. CASE f = file
      <4>1. selection'[f] = Orphan
        BY <1>0, <2>1, <3>1 DEF TypeOK
      <4> QED
        BY <2>1, <2>5, <3>1, <4>1, NamesAssumption DEF Useless, Followed
    <3>2. CASE f # file
      <4>1. selection'[f] = selection[f]
        BY <1>0, <2>1, <3>2 DEF TypeOK
      <4> QED
        BY <2>1, <4>1, SelectionsKept
    <3> QED
      BY <3>1, <3>2
  <2> QED
    BY <2>1, <2>6, <2>7 DEF SelectionInv
<1> QED
  BY <1>1, <1>2, <1>3, <1>4 DEF Next

THEOREM SelectionInvCorrect == Spec => []SelectionInv
BY SelectionInit, SelectionStep, PTL DEF Spec

\* Whatever selections and discoveries happen in between, a file asked for again gets
\* what it had: the list grows only behind the first usable place of each file.
THEOREM SelectionIsStableCorrect == Spec => SelectionIsStable
<1> DEFINE Stable == \A f \in Files : selection[f] # None => selection'[f] = selection[f]
<1>1. SelectionInv /\ [Next]_vars => Stable
  <2> SUFFICES ASSUME SelectionInv, [Next]_vars, NEW f \in Files, selection[f] # None,
                      selection'[f] # selection[f]
               PROVE  FALSE
    OBVIOUS
  <2>0. TypeOK /\ Len(list) \in Nat /\ selection[f] \in TsConfigs \cup {Orphan}
    BY Places DEF SelectionInv, TypeOK
  <2>1. /\ file = f /\ file # None /\ file \in Files
        /\ \/ GiveUp
           \/ Iterate /\ TryParsed(BestMatch(file)) /\ file \in rootNames[BestMatch(file)]
                /\ selection'[f] = BestMatch(file)
    <3>1. CASE GiveUp
      BY <2>0, <3>1 DEF GiveUp, Answer, TypeOK
    <3>2. CASE Iterate
      <4>1. file # None /\ (SkipBroken(BestMatch(file)) \/ TryParsed(BestMatch(file)))
        BY <3>2 DEF Iterate
      <4>2. ~SkipBroken(BestMatch(file))
        BY DEF SkipBroken
      <4>3. /\ file \in rootNames[BestMatch(file)]
            /\ selection' = [selection EXCEPT ![file] = BestMatch(file)]
        BY <4>1, <4>2 DEF TryParsed, Answer
      <4> HIDE DEF Stable
      <4> QED
        BY <2>0, <3>2, <4>1, <4>2, <4>3 DEF TypeOK
    <3>3. ~UNCHANGED vars /\ ~\E g \in Files : Ask(g)
      BY DEF vars, Ask
    <3> QED
      BY <3>1, <3>2, <3>3 DEF Next
  <2>2. PICK k \in 0..Len(list) : Tried(k)
    BY <2>1 DEF SelectionInv
  <2>3. CASE GiveUp
    <3>1. Remaining = {} /\ selection'[f] = Orphan
      BY <2>0, <2>1, <2>3 DEF GiveUp, Answer, TypeOK
    <3>2. k = Len(list)
      <4>1. (k + 1)..Len(list) = {}
        BY <2>0, <2>1, <2>2, <3>1, NextCandidate
      <4> QED
        BY <2>0, <4>1
    <3>3. selection[f] \in TsConfigs
      BY <2>0, <3>1
    <3>4. PICK n \in 1..Len(list) : FirstUsable(n, f)
      BY <3>3 DEF SelectionInv
    <3> QED
      BY <2>1, <2>2, <3>2, <3>4 DEF FirstUsable, Tried
  <2>4. CASE Iterate /\ TryParsed(BestMatch(file)) /\ file \in rootNames[BestMatch(file)]
              /\ selection'[f] = BestMatch(file)
    <3>1. k + 1 \in 1..Len(list) /\ BestMatch(file) = list[k + 1]
      BY <2>0, <2>1, <2>2, <2>4, NextCandidate DEF Iterate
    <3>2. ~Useless(list[k + 1], f) /\ list[k + 1] \in ToSet(list)
      BY <2>0, <2>1, <2>4, <3>1, Places DEF TryParsed, Useless
    <3>3. selection[f] \in TsConfigs
      BY <2>0, <3>2 DEF SelectionInv
    <3>4. PICK n \in 1..Len(list) : FirstUsable(n, f) /\ list[n] = selection[f]
      BY <3>3 DEF SelectionInv
    <3>5. n = k + 1
      <4>1. ~(n <= k)
        BY <2>1, <2>2, <3>4 DEF FirstUsable, Tried
      <4>2. ~(k + 1 <= n - 1)
        BY <3>1, <3>2, <3>4 DEF FirstUsable
      <4> QED
        BY <2>0, <4>1, <4>2
    <3> QED
      BY <2>4, <3>1, <3>4, <3>5
  <2> QED
    BY <2>1, <2>3, <2>4
<1>2. SelectionInv /\ [Next]_vars => [Stable]_vars
  BY <1>1
<1>3. Spec => [][Stable]_vars
  BY <1>2, SelectionInvCorrect, PTL DEF Spec
<1> QED
  BY <1>3 DEF SelectionIsStable
=============================================================================
