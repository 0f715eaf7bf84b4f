-------------------------- MODULE EngineForcesProofs --------------------------
(* What TLAPS proves of the registers of an engine, for any number of systems, *)
(* of forces and of periods: the types, that coupling forces and impulse       *)
(* forces stay consistent with the systems, that nothing changes while a       *)
(* simulation runs, and, for a single system, that the breakpoint period       *)
(* divides every discrete period.                                              *)
EXTENDS EngineForces, SequenceTheorems, WellFoundedInduction, TLAPS

(* Least elements, sequences and remainders. *)

LEMMA MinIsLeast ==
    ASSUME NEW S, S \subseteq Nat, S # {}
    PROVE  Min(S) \in S /\ \A y \in S : Min(S) <= y
<1> DEFINE R == {ss \in Nat \X Nat : ss[1] < ss[2]}
<1>1. IsWellFoundedOn(R, Nat)
  <2>1. R = OpToRel(<, Nat)
    BY DEF OpToRel
  <2> QED BY <2>1, NatLessThanWellFounded
<1>2. \A x, y \in Nat : y < x => <<y, x>> \in R
  OBVIOUS
<1>3. PICK x \in S : \A y \in S : ~(<<y, x>> \in R)
  <2> HIDE DEF R
  <2> QED BY <1>1, WFMin
<1>4. \A y \in S : x <= y
  <2> SUFFICES ASSUME NEW y \in S PROVE x <= y
    OBVIOUS
  <2>1. x \in Nat /\ y \in Nat
    OBVIOUS
  <2>2. ~(y < x)
    <3> HIDE DEF R
    <3> QED BY <1>2, <1>3, <2>1, Zenon
  <2> QED BY <2>1, <2>2
<1> QED
  BY <1>4 DEF Min

\* What is left of a sequence once its i-th element is removed.
LEMMA RemovedAt ==
    ASSUME NEW S, NEW s \in Seq(S), NEW i \in 1 .. Len(s)
    PROVE  /\ RemoveAt(s, i) \in Seq(S)
           /\ Len(RemoveAt(s, i)) = Len(s) - 1
           /\ \A j \in 1 .. Len(s) - 1 : RemoveAt(s, i)[j] = IF j < i THEN s[j] ELSE s[j + 1]
<1> DEFINE a == SubSeq(s, 1, i - 1)
           b == SubSeq(s, i + 1, Len(s))
<1>1. Len(s) \in Nat /\ i \in Nat /\ \A j \in 1 .. Len(s) : s[j] \in S
  BY LenProperties, ElementOfSeq
<1>2. a \in Seq(S) /\ Len(a) = i - 1 /\ \A j \in 1 .. i - 1 : a[j] = s[j]
  <2>1. \A j \in 1 .. i - 1 : s[j] \in S
    BY <1>1
  <2>2. /\ a \in Seq(S)
        /\ Len(a) = IF 1 <= i - 1 THEN (i - 1) - 1 + 1 ELSE 0
        /\ \A j \in 1 .. (i - 1) - 1 + 1 : a[j] = s[1 + j - 1]
    <3> HIDE DEF a
    <3> QED BY <1>1, <2>1, SubSeqProperties DEF a
  <2> HIDE DEF a
  <2> QED BY <2>2, <1>1
<1>3. b \in Seq(S) /\ Len(b) = Len(s) - i /\ \A j \in 1 .. Len(s) - i : b[j] = s[i + j]
  <2>1. \A j \in i + 1 .. Len(s) : s[j] \in S
    BY <1>1
  <2>2. /\ b \in Seq(S)
        /\ Len(b) = IF i + 1 <= Len(s) THEN Len(s) - (i + 1) + 1 ELSE 0
        /\ \A j \in 1 .. Len(s) - (i + 1) + 1 : b[j] = s[(i + 1) + j - 1]
    <3> HIDE DEF b
    <3> QED BY <1>1, <2>1, SubSeqProperties DEF b
  <2> HIDE DEF b
  <2> QED BY <2>2, <1>1
<1>4. /\ a \o b \in Seq(S)
      /\ Len(a \o b) = Len(a) + Len(b)
      /\ \A j \in 1 .. Len(a) + Len(b) :
            (a \o b)[j] = IF j <= Len(a) THEN a[j] ELSE b[j - Len(a)]
  <2> HIDE DEF a, b
  <2> QED BY <1>2, <1>3, ConcatProperties
<1>5. RemoveAt(s, i) = a \o b
  BY DEF RemoveAt
<1> HIDE DEF a, b
<1>6. ASSUME NEW j \in 1 .. Len(s) - 1
      PROVE  (a \o b)[j] = IF j < i THEN s[j] ELSE s[j + 1]
  <2>1. (a \o b)[j] = IF j <= i - 1 THEN a[j] ELSE b[j - (i - 1)]
    BY <1>1, <1>2, <1>3, <1>4
  <2>2. CASE j < i
    BY <2>1, <2>2, <1>1, <1>2
  <2>3. CASE ~(j < i)
    <3> DEFINE k == j - (i - 1)
    <3>1. k \in 1 .. Len(s) - i /\ i + k = j + 1
      BY <2>3, <1>1
    <3>2. (a \o b)[j] = b[k]
      BY <2>1, <2>3, <1>1
    <3> HIDE DEF k
    <3>3. b[k] = s[i + k]
      BY <3>1, <1>3
    <3> QED BY <2>3, <3>1, <3>2, <3>3
  <2> QED BY <2>2, <2>3
<1>7. Len(a \o b) = Len(s) - 1
  BY <1>1, <1>2, <1>3, <1>4
<1> QED BY <1>4, <1>5, <1>6, <1>7, Zenon

LEMMA MultipleIsProduct ==
    ASSUME NEW x \in Nat, NEW d \in Nat, d > 0, x % d = 0
    PROVE  \E k \in Nat : x = k * d
<1>1. x = d * (x \div d) + (x % d)
  BY Z3
<1>2. x \div d \in Nat
  BY Z3
<1> QED BY <1>1, <1>2

LEMMA ProductIsMultiple ==
    ASSUME NEW k \in Nat, NEW d \in Nat, d > 0
    PROVE  (k * d) % d = 0
BY Z3

LEMMA MultipleOfItself ==
    ASSUME NEW d \in Nat, d > 0
    PROVE  d % d = 0
<1>1. (1 * d) % d = 0
  BY ProductIsMultiple
<1> QED BY <1>1

LEMMA MultipleOfMultiple ==
    ASSUME NEW x \in Nat, NEW y \in Nat, NEW d \in Nat, y > 0, d > 0, x % y = 0, y % d = 0
    PROVE  x % d = 0
<1>1. PICK k \in Nat : x = k * y
  BY MultipleIsProduct
<1>2. PICK m \in Nat : y = m * d
  BY MultipleIsProduct
<1>3. k * m \in Nat /\ x = (k * m) * d
  BY <1>1, <1>2
<1> QED BY <1>3, ProductIsMultiple

\* A multiple of a period is not shorter, unless it is zero.
LEMMA MultipleIsLonger ==
    ASSUME NEW x \in Nat, NEW d \in Nat, d > 0, x > 0, x % d = 0
    PROVE  d <= x
<1>1. PICK k \in Nat : x = k * d
  BY MultipleIsProduct
<1>2. k >= 1
  BY <1>1
<1> QED BY <1>1, <1>2

-----------------------------------------------------------------------------
(* Types *)

Data == [profiles : SUBSET Periods, impulses : Seq(Windows), breaks : SUBSET Int,
         activeFlags : Nat]
Coupling == [name1 : Names, idx1 : Nat, name2 : Names, idx2 : Nat]

\* The breakpoint periods, and what the shortest is taken of.
BreakPeriods == (Periods \ {0}) \cup {Infinity}
AnyPeriods == Periods \cup {Infinity}

LEMMA PeriodsAreNat == /\ AnyPeriods \subseteq Nat /\ BreakPeriods \subseteq AnyPeriods
                       /\ 0 \notin BreakPeriods /\ Infinity > 0 /\ 0 \in Periods
                       /\ \A p \in AnyPeriods : p <= Infinity
BY PeriodsAssumption DEF AnyPeriods, BreakPeriods

LEMMA MinClippedIsLeast ==
    ASSUME NEW P, P \subseteq AnyPeriods
    PROVE  /\ MinClipped(P) \in BreakPeriods
           /\ \A p \in P : p > 0 => MinClipped(P) <= p
           /\ \/ MinClipped(P) = Infinity
              \/ MinClipped(P) \in P
<1> DEFINE positive == {p \in P : p > 0}
<1>1. CASE \E p \in P : p > 0
  <2>1. positive \subseteq Nat /\ positive # {}
    BY <1>1, PeriodsAreNat
  <2>2. Min(positive) \in positive /\ \A y \in positive : Min(positive) <= y
    <3> HIDE DEF positive
    <3> QED BY <2>1, MinIsLeast
  <2>3. MinClipped(P) = Min(positive)
    BY <1>1 DEF MinClipped
  <2>4. positive \subseteq BreakPeriods
    BY PeriodsAreNat DEF BreakPeriods, AnyPeriods
  <2> QED BY <2>2, <2>3, <2>4
<1>2. CASE ~\E p \in P : p > 0
  BY <1>2 DEF MinClipped, BreakPeriods
<1> QED BY <1>1, <1>2

\* The shortest of two breakpoint periods.
LEMMA MinOfTwo ==
    ASSUME NEW p \in BreakPeriods, NEW q \in BreakPeriods
    PROVE  Min({p, q}) = IF p <= q THEN p ELSE q
<1>1. {p, q} \subseteq Nat /\ {p, q} # {} /\ p \in Nat /\ q \in Nat
  BY PeriodsAreNat
<1>2. Min({p, q}) \in {p, q} /\ Min({p, q}) <= p /\ Min({p, q}) <= q
  BY <1>1, MinIsLeast
<1> QED BY <1>1, <1>2

LEMMA GcdOfType ==
    ASSUME NEW P, NEW Q, P \subseteq AnyPeriods, Q \subseteq AnyPeriods
    PROVE  GcdOf(P, Q).period \in BreakPeriods
<1>1. MinClipped(P) \in BreakPeriods /\ MinClipped(Q) \in BreakPeriods
  BY MinClippedIsLeast
<1>2. Min({MinClipped(P), MinClipped(Q)}) \in BreakPeriods
  BY <1>1, MinOfTwo
<1>3. Infinity \in BreakPeriods
  BY DEF BreakPeriods
<1> QED BY <1>2, <1>3 DEF GcdOf

LEMMA GcdOfSystemsType ==
    ASSUME NEW data \in Seq(Data), NEW Q, Q \subseteq AnyPeriods
    PROVE  GcdOfSystems(data, Q).period \in BreakPeriods
<1> DEFINE gcd == [i \in DOMAIN data |-> GcdOf(data[i].profiles, Q)]
           misfits == {i \in DOMAIN data : ~gcd[i].isIncluded}
           visited == IF misfits = {} THEN DOMAIN data ELSE 1 .. Min(misfits)
           found == {gcd[i].period : i \in visited}
<1>1. CASE data = <<>>
  BY <1>1, MinClippedIsLeast DEF GcdOfSystems
<1>2. CASE data # <<>>
  <2>1. Len(data) \in Nat /\ Len(data) > 0 /\ DOMAIN data = 1 .. Len(data)
    BY <1>2, LenProperties, EmptySeq
  <2>2. visited \subseteq DOMAIN data /\ visited # {}
    <3>1. CASE misfits = {}
      BY <2>1, <3>1
    <3>2. CASE misfits # {}
      <4>1. misfits \subseteq DOMAIN data /\ misfits \subseteq Nat
        BY <2>1
      <4>2. Min(misfits) \in misfits
        <5> HIDE DEF misfits
        <5> QED BY <3>2, <4>1, MinIsLeast
      <4>3. visited = 1 .. Min(misfits)
        BY <3>2
      <4> HIDE DEF misfits, visited
      <4> QED BY <2>1, <4>1, <4>2, <4>3
    <3> QED BY <3>1, <3>2
  <2>3. \A i \in DOMAIN data : gcd[i].period \in BreakPeriods
    <3> SUFFICES ASSUME NEW i \in DOMAIN data
                 PROVE  GcdOf(data[i].profiles, Q).period \in BreakPeriods
      OBVIOUS
    <3>1. data[i] \in Data
      BY <2>1, ElementOfSeq
    <3>2. data[i].profiles \subseteq AnyPeriods
      BY <3>1 DEF Data, AnyPeriods
    <3> QED BY <3>2, GcdOfType
  <2>4. found \subseteq BreakPeriods /\ found # {}
    <3> HIDE DEF gcd, visited
    <3> QED BY <2>2, <2>3
  <2>5. Min(found) \in BreakPeriods
    <3> HIDE DEF found
    <3> QED BY <2>4, PeriodsAreNat, MinIsLeast
  <2>6. GcdOfSystems(data, Q).period = Min(found)
    BY <1>2 DEF GcdOfSystems
  <2> QED BY <2>5, <2>6
<1> QED BY <1>1, <1>2

\* The index of a system is that of a system of this name.
LEMMA SystemIdxIsOfName ==
    ASSUME TypeOK, NEW name, IsSystem(name)
    PROVE  SystemIdx(name) \in 1 .. Len(systems) /\ systems[SystemIdx(name)] = name
<1> DEFINE named == {i \in DOMAIN systems : systems[i] = name}
<1>1. Len(systems) \in Nat /\ DOMAIN systems = 1 .. Len(systems)
  BY LenProperties DEF TypeOK
<1>2. named \subseteq Nat /\ named # {}
  BY <1>1 DEF IsSystem
<1>3. Min(named) \in named
  <2> HIDE DEF named
  <2> QED BY <1>2, MinIsLeast
<1> QED BY <1>1, <1>3 DEF SystemIdx

-----------------------------------------------------------------------------
(* What a call does to the registers of a system *)

HasBreaks(data) ==
    /\ Len(data.impulses) <= data.activeFlags
    /\ \A k \in DOMAIN data.impulses :
          {data.impulses[k].t, data.impulses[k].t + data.impulses[k].dt} \subseteq data.breaks

LEMMA NoDataHasBreaks == NoData \in Data /\ HasBreaks(NoData) /\ NoData.profiles = {}
<1>1. <<>> \in Seq(Windows) /\ Len(<<>>) = 0 /\ DOMAIN <<>> = {}
  BY EmptySeq
<1> QED BY <1>1 DEF NoData, Data, HasBreaks

\* Records with the fields of Data, whatever these are: the updates of one field.
LEMMA DataFields ==
    ASSUME NEW A, NEW B, NEW C, NEW D,
           NEW d \in [profiles : A, impulses : B, breaks : C, activeFlags : D],
           NEW a \in A, NEW b \in B, NEW c \in C, NEW n \in D
    PROVE  /\ [d EXCEPT !.profiles = a] \in
                 [profiles : A, impulses : B, breaks : C, activeFlags : D]
           /\ [d EXCEPT !.profiles = a].profiles = a
           /\ [d EXCEPT !.profiles = a].impulses = d.impulses
           /\ [d EXCEPT !.profiles = a].breaks = d.breaks
           /\ [d EXCEPT !.profiles = a].activeFlags = d.activeFlags
           /\ [d EXCEPT !.impulses = b] \in
                 [profiles : A, impulses : B, breaks : C, activeFlags : D]
           /\ [d EXCEPT !.impulses = b].profiles = d.profiles
           /\ [d EXCEPT !.impulses = b].impulses = b
           /\ [d EXCEPT !.impulses = b].breaks = d.breaks
           /\ [d EXCEPT !.impulses = b].activeFlags = d.activeFlags
           /\ [d EXCEPT !.breaks = c] \in
                 [profiles : A, impulses : B, breaks : C, activeFlags : D]
           /\ [d EXCEPT !.breaks = c].profiles = d.profiles
           /\ [d EXCEPT !.breaks = c].impulses = d.impulses
           /\ [d EXCEPT !.breaks = c].breaks = c
           /\ [d EXCEPT !.breaks = c].activeFlags = d.activeFlags
           /\ [d EXCEPT !.activeFlags = n] \in
                 [profiles : A, impulses : B, breaks : C, activeFlags : D]
           /\ [d EXCEPT !.activeFlags = n].profiles = d.profiles
           /\ [d EXCEPT !.activeFlags = n].impulses = d.impulses
           /\ [d EXCEPT !.activeFlags = n].breaks = d.breaks
           /\ [d EXCEPT !.activeFlags = n].activeFlags = n
OBVIOUS

LEMMA DataTypes ==
    ASSUME NEW d \in Data
    PROVE  /\ d.profiles \in SUBSET Periods /\ d.impulses \in Seq(Windows)
           /\ d.breaks \in SUBSET Int /\ d.activeFlags \in Nat
BY DEF Data

LEMMA WithoutImpulsesType ==
    ASSUME NEW d \in Data, HasBreaks(d)
    PROVE  /\ WithoutImpulses(d) \in Data /\ HasBreaks(WithoutImpulses(d))
           /\ WithoutImpulses(d).profiles = d.profiles
<1>1. <<>> \in Seq(Windows) /\ Len(<<>>) = 0 /\ DOMAIN <<>> = {}
  BY EmptySeq
<1> DEFINE e == WithoutImpulses(d)
<1>2. /\ e \in Data /\ e.impulses = <<>> /\ e.activeFlags = d.activeFlags
      /\ e.profiles = d.profiles
  BY <1>1, DataTypes, DataFields DEF WithoutImpulses, Data
<1> HIDE DEF e
<1>3. HasBreaks(e)
  BY <1>1, <1>2, DataTypes DEF HasBreaks
<1> QED BY <1>2, <1>3 DEF e

LEMMA WithProfilesType ==
    ASSUME NEW d \in Data, HasBreaks(d), NEW P, P \subseteq Periods
    PROVE  /\ [d EXCEPT !.profiles = P] \in Data /\ HasBreaks([d EXCEPT !.profiles = P])
           /\ [d EXCEPT !.profiles = P].profiles = P
<1> DEFINE e == [d EXCEPT !.profiles = P]
<1>1. /\ e \in Data /\ e.impulses = d.impulses /\ e.activeFlags = d.activeFlags
      /\ e.breaks = d.breaks /\ e.profiles = P
  BY DataTypes, DataFields DEF Data
<1> HIDE DEF e
<1>2. HasBreaks(e)
  BY <1>1 DEF HasBreaks
<1> QED BY <1>1, <1>2 DEF e

LEMMA WithImpulseType ==
    ASSUME NEW d \in Data, HasBreaks(d), NEW w \in Windows
    PROVE  /\ WithImpulse(d, w) \in Data /\ HasBreaks(WithImpulse(d, w))
           /\ WithImpulse(d, w).profiles = d.profiles
<1>1. /\ Append(d.impulses, w) \in Seq(Windows)
      /\ Len(Append(d.impulses, w)) = Len(d.impulses) + 1
      /\ \A k \in 1 .. Len(d.impulses) : Append(d.impulses, w)[k] = d.impulses[k]
      /\ Append(d.impulses, w)[Len(d.impulses) + 1] = w
  BY DataTypes, AppendProperties
<1>2. w.t \in Int /\ w.dt \in Int
  BY WindowsAssumption
<1>3. d.breaks \cup {w.t, w.t + w.dt} \in SUBSET Int /\ d.activeFlags + 1 \in Nat
  BY <1>2, DataTypes
<1> DEFINE d1 == [d EXCEPT !.impulses = Append(@, w)]
<1>4. /\ d1 \in Data /\ d1.impulses = Append(d.impulses, w) /\ d1.breaks = d.breaks
      /\ d1.activeFlags = d.activeFlags /\ d1.profiles = d.profiles
  BY <1>1, DataTypes, DataFields DEF Data
<1> DEFINE d2 == [d1 EXCEPT !.breaks = d.breaks \cup {w.t, w.t + w.dt}]
<1>5. /\ d2 \in Data /\ d2.impulses = d1.impulses
      /\ d2.breaks = d.breaks \cup {w.t, w.t + w.dt}
      /\ d2.activeFlags = d1.activeFlags /\ d2.profiles = d1.profiles
  <2> HIDE DEF d1
  <2> QED BY <1>3, <1>4, DataTypes, DataFields DEF Data
<1> DEFINE d3 == [d2 EXCEPT !.activeFlags = d.activeFlags + 1]
<1>6. /\ d3 \in Data /\ d3.impulses = d2.impulses /\ d3.breaks = d2.breaks
      /\ d3.activeFlags = d.activeFlags + 1 /\ d3.profiles = d2.profiles
  <2> HIDE DEF d1, d2
  <2> QED BY <1>3, <1>5, DataTypes, DataFields DEF Data
<1>7. WithImpulse(d, w) = d3
  BY DEF WithImpulse, Data
<1> HIDE DEF d1, d2, d3
<1>8. HasBreaks(d3)
  <2>1. /\ d3.impulses = Append(d.impulses, w) /\ d3.activeFlags = d.activeFlags + 1
        /\ d3.breaks = d.breaks \cup {w.t, w.t + w.dt}
    BY <1>4, <1>5, <1>6
  <2>2. Len(d.impulses) \in Nat /\ DOMAIN d.impulses = 1 .. Len(d.impulses)
    BY DataTypes, LenProperties
  <2>3. DOMAIN Append(d.impulses, w) = 1 .. Len(d.impulses) + 1
    BY <1>1, LenProperties
  <2>4. Len(d3.impulses) <= d3.activeFlags
    BY <1>1, <2>1, <2>2, DataTypes DEF HasBreaks
  <2>5. ASSUME NEW k \in 1 .. Len(d.impulses) + 1
        PROVE  LET v == Append(d.impulses, w)[k]
               IN  {v.t, v.t + v.dt} \subseteq d.breaks \cup {w.t, w.t + w.dt}
    <3>1. CASE k = Len(d.impulses) + 1
      BY <1>1, <3>1
    <3>2. CASE k \in 1 .. Len(d.impulses)
      <4>1. Append(d.impulses, w)[k] = d.impulses[k]
        BY <1>1, <3>2
      <4>2. {d.impulses[k].t, d.impulses[k].t + d.impulses[k].dt} \subseteq d.breaks
        BY <2>2, <3>2 DEF HasBreaks
      <4> QED BY <4>1, <4>2
    <3> QED BY <2>2, <3>1, <3>2
  <2> QED BY <2>1, <2>3, <2>4, <2>5 DEF HasBreaks
<1> QED BY <1>4, <1>5, <1>6, <1>7, <1>8

GoodData(data) == data \in Seq(Data) /\ \A i \in DOMAIN data : HasBreaks(data[i])

LEMMA DataUpdated ==
    ASSUME NEW data, GoodData(data), NEW i \in 1 .. Len(data), NEW e \in Data, HasBreaks(e)
    PROVE  GoodData([data EXCEPT ![i] = e]) /\ Len([data EXCEPT ![i] = e]) = Len(data)
<1>1. /\ [data EXCEPT ![i] = e] \in Seq(Data)
      /\ Len([data EXCEPT ![i] = e]) = Len(data)
      /\ \A j \in 1 .. Len(data) :
            [data EXCEPT ![i] = e][j] = IF j = i THEN e ELSE data[j]
  BY ExceptSeq DEF GoodData
<1>2. DOMAIN data = 1 .. Len(data) /\ DOMAIN [data EXCEPT ![i] = e] = 1 .. Len(data)
  BY <1>1, LenProperties DEF GoodData
<1> QED BY <1>1, <1>2 DEF GoodData

LEMMA DataReplaced ==
    ASSUME NEW data, GoodData(data), NEW f \in [DOMAIN data -> Data],
           \A i \in DOMAIN data : HasBreaks(f[i])
    PROVE  GoodData(f) /\ Len(f) = Len(data)
<1>1. Len(data) \in Nat /\ DOMAIN data = 1 .. Len(data)
  BY LenProperties DEF GoodData
<1>2. f \in [1 .. Len(data) -> Data]
  BY <1>1
<1>3. f \in Seq(Data) /\ Len(f) = Len(data) /\ DOMAIN f = 1 .. Len(data)
  BY <1>1, <1>2
<1> QED BY <1>1, <1>3 DEF GoodData

LEMMA DataAppended ==
    ASSUME NEW data, GoodData(data)
    PROVE  GoodData(Append(data, NoData)) /\ Len(Append(data, NoData)) = Len(data) + 1
<1> DEFINE new == Append(data, NoData)
<1>1. data \in Seq(Data) /\ NoData \in Data
  BY NoDataHasBreaks DEF GoodData
<1>2. /\ new \in Seq(Data) /\ Len(new) = Len(data) + 1
      /\ \A i \in 1 .. Len(data) : new[i] = data[i]
      /\ new[Len(data) + 1] = NoData
  BY <1>1, AppendProperties
<1> HIDE DEF new
<1>3. /\ Len(data) \in Nat /\ DOMAIN data = 1 .. Len(data)
      /\ DOMAIN new = 1 .. Len(data) + 1
  BY <1>1, <1>2, LenProperties
<1>4. \A i \in DOMAIN new : HasBreaks(new[i])
  BY <1>2, <1>3, NoDataHasBreaks DEF GoodData
<1> QED BY <1>2, <1>4 DEF GoodData, new

LEMMA DataRemoved ==
    ASSUME NEW data, GoodData(data), NEW i \in 1 .. Len(data)
    PROVE  GoodData(RemoveAt(data, i)) /\ Len(RemoveAt(data, i)) = Len(data) - 1
<1>1. data \in Seq(Data)
  BY DEF GoodData
<1> DEFINE new == RemoveAt(data, i)
<1>2. /\ new \in Seq(Data) /\ Len(new) = Len(data) - 1
      /\ \A j \in 1 .. Len(data) - 1 : new[j] = IF j < i THEN data[j] ELSE data[j + 1]
  BY <1>1, RemovedAt
<1> HIDE DEF new
<1>3. /\ Len(data) \in Nat /\ DOMAIN data = 1 .. Len(data)
      /\ DOMAIN new = 1 .. Len(data) - 1
  BY <1>1, <1>2, LenProperties
<1>4. \A j \in DOMAIN new : HasBreaks(new[j])
  <2> SUFFICES ASSUME NEW j \in 1 .. Len(data) - 1 PROVE HasBreaks(new[j])
    BY <1>3
  <2>1. j \in DOMAIN data /\ j + 1 \in DOMAIN data
    BY <1>3
  <2>2. new[j] = data[j] \/ new[j] = data[j + 1]
    BY <1>2
  <2> QED BY <2>1, <2>2 DEF GoodData
<1> QED BY <1>2, <1>4 DEF GoodData, new

-----------------------------------------------------------------------------
(* What a call does to the coupling forces *)

Follows(force, names) ==
    /\ force.idx1 \in DOMAIN names /\ names[force.idx1] = force.name1
    /\ force.idx2 \in DOMAIN names /\ names[force.idx2] = force.name2

\* An index that is not of the system removed is, once shifted, of the same system.
LEMMA ShiftedIsOfSameSystem ==
    ASSUME NEW names \in Seq(Names), NEW removed \in 1 .. Len(names),
           NEW i \in DOMAIN names, i # removed
    PROVE  /\ Shifted(i, removed) \in Nat
           /\ Shifted(i, removed) \in DOMAIN RemoveAt(names, removed)
           /\ RemoveAt(names, removed)[Shifted(i, removed)] = names[i]
<1> DEFINE new == RemoveAt(names, removed)
<1>1. /\ new \in Seq(Names) /\ Len(new) = Len(names) - 1
      /\ \A j \in 1 .. Len(names) - 1 :
            new[j] = IF j < removed THEN names[j] ELSE names[j + 1]
  BY RemovedAt
<1> HIDE DEF new
<1>2. /\ Len(names) \in Nat /\ DOMAIN names = 1 .. Len(names)
      /\ DOMAIN new = 1 .. Len(names) - 1
  BY <1>1, LenProperties
<1>3. CASE i > removed
  <2> DEFINE j == i - 1
  <2>1. j \in 1 .. Len(names) - 1 /\ ~(j < removed) /\ j + 1 = i /\ j \in Nat
    BY <1>2, <1>3
  <2>2. Shifted(i, removed) = j
    BY <1>3 DEF Shifted
  <2> HIDE DEF j
  <2>3. new[j] = names[i]
    BY <1>1, <2>1
  <2> QED BY <1>2, <2>1, <2>2, <2>3 DEF new
<1>4. CASE ~(i > removed)
  <2>1. i \in 1 .. Len(names) - 1 /\ i < removed /\ i \in Nat
    BY <1>2, <1>4
  <2>2. Shifted(i, removed) = i
    BY <1>4 DEF Shifted
  <2> QED BY <1>1, <1>2, <2>1, <2>2 DEF new
<1> QED BY <1>3, <1>4

LEMMA CouplingFields ==
    ASSUME NEW A, NEW B,
           NEW force \in [name1 : A, idx1 : B, name2 : A, idx2 : B], NEW i \in B, NEW j \in B
    PROVE  LET f == [force EXCEPT !.idx1 = i, !.idx2 = j]
           IN  /\ f \in [name1 : A, idx1 : B, name2 : A, idx2 : B]
               /\ f.name1 = force.name1 /\ f.idx1 = i /\ f.name2 = force.name2 /\ f.idx2 = j
OBVIOUS

LEMMA CouplingRemoved ==
    ASSUME NEW names \in Seq(Names), NEW removed \in 1 .. Len(names),
           NEW force \in Coupling, Follows(force, names), ~Involves(force, names[removed])
    PROVE  LET f == [force EXCEPT !.idx1 = Shifted(@, removed), !.idx2 = Shifted(@, removed)]
           IN  f \in Coupling /\ Follows(f, RemoveAt(names, removed))
<1>1. force.idx1 # removed /\ force.idx2 # removed
  BY DEF Follows, Involves
<1> DEFINE i == Shifted(force.idx1, removed)
           j == Shifted(force.idx2, removed)
           f == [force EXCEPT !.idx1 = i, !.idx2 = j]
<1>2. /\ i \in Nat /\ i \in DOMAIN RemoveAt(names, removed)
      /\ RemoveAt(names, removed)[i] = force.name1
  BY <1>1, ShiftedIsOfSameSystem DEF Follows
<1>3. /\ j \in Nat /\ j \in DOMAIN RemoveAt(names, removed)
      /\ RemoveAt(names, removed)[j] = force.name2
  BY <1>1, ShiftedIsOfSameSystem DEF Follows
<1>4. [force EXCEPT !.idx1 = Shifted(@, removed), !.idx2 = Shifted(@, removed)] = f
  OBVIOUS
<1>5. /\ f \in Coupling
      /\ f.name1 = force.name1 /\ f.idx1 = i /\ f.name2 = force.name2 /\ f.idx2 = j
  <2> HIDE DEF i, j
  <2> QED BY <1>2, <1>3, CouplingFields DEF Coupling
<1> HIDE DEF i, j, f
<1> QED BY <1>2, <1>3, <1>4, <1>5 DEF Follows

-----------------------------------------------------------------------------
(* The registers *)

OptionsInv ==
    /\ controllerUpdatePeriod \in Periods /\ sensorsUpdatePeriod \in Periods
    /\ isSimulationRunning \in BOOLEAN /\ isRefused \in BOOLEAN
    /\ returnCode \in {"SUCCESS", "ERROR"}

RegistersInv ==
    /\ systems \in Seq(Names)
    /\ GoodData(systemsData) /\ Len(systemsData) = Len(systems)
    /\ forcesCoupling \subseteq Coupling
    /\ \A force \in forcesCoupling : Follows(force, systems)
    /\ stepperUpdatePeriod \in BreakPeriods
    /\ OptionsInv

LEMMA InvImplies == RegistersInv => TypeOK /\ CouplingsFollowSystems /\ ImpulsesHaveBreaks
<1> SUFFICES ASSUME RegistersInv PROVE TypeOK /\ CouplingsFollowSystems /\ ImpulsesHaveBreaks
  OBVIOUS
<1>1. TypeOK
  BY Zenon DEF RegistersInv, OptionsInv, TypeOK, GoodData, Data, Coupling, BreakPeriods
<1>2. CouplingsFollowSystems
  BY DEF RegistersInv, CouplingsFollowSystems, Follows
<1>3. ImpulsesHaveBreaks
  BY Zenon DEF RegistersInv, ImpulsesHaveBreaks, GoodData, HasBreaks
<1> QED BY <1>1, <1>2, <1>3

LEMMA RegistersInit == Init => RegistersInv
<1>1. <<>> \in Seq(Names) /\ <<>> \in Seq(Data) /\ Len(<<>>) = 0 /\ DOMAIN <<>> = {}
  BY EmptySeq
<1> QED BY <1>1, PeriodsAreNat DEF Init, RegistersInv, GoodData, OptionsInv, BreakPeriods

\* What every call that reports keeps.
LEMMA ReportTypes ==
    ASSUME NEW isDone \in BOOLEAN, Report(isDone) \/ ReportSuccess(isDone)
    PROVE  isRefused' \in BOOLEAN /\ returnCode' \in {"SUCCESS", "ERROR"}
BY DEF Report, ReportSuccess

\* A system of the registers and its data.
LEMMA DataOfSystem ==
    ASSUME RegistersInv, NEW name, IsSystem(name)
    PROVE  /\ SystemIdx(name) \in DOMAIN systems /\ systems[SystemIdx(name)] = name
           /\ SystemIdx(name) \in 1 .. Len(systems)
           /\ SystemIdx(name) \in 1 .. Len(systemsData)
           /\ SystemIdx(name) \in DOMAIN systemsData
           /\ systemsData[SystemIdx(name)] \in Data
           /\ HasBreaks(systemsData[SystemIdx(name)])
<1>1. SystemIdx(name) \in 1 .. Len(systems) /\ systems[SystemIdx(name)] = name
  BY InvImplies, SystemIdxIsOfName
<1>2. DOMAIN systems = 1 .. Len(systems) /\ DOMAIN systemsData = 1 .. Len(systemsData)
  BY LenProperties DEF RegistersInv, GoodData
<1> QED BY <1>1, <1>2, ElementOfSeq DEF RegistersInv, GoodData

LEMMA AddsSystem ==
    ASSUME RegistersInv, NEW name \in Names, NEW isValid \in BOOLEAN,
           AddSystemWithController(name, isValid)
    PROVE  RegistersInv'
<1> DEFINE isDone == ~isSimulationRunning /\ isValid
<1>1. /\ Report(isDone) /\ isDone \in BOOLEAN
      /\ UNCHANGED <<forcesCoupling, periods, isSimulationRunning>>
  BY DEF AddSystemWithController
<1>2. OptionsInv' /\ stepperUpdatePeriod' \in BreakPeriods
  BY <1>1, ReportTypes DEF RegistersInv, OptionsInv, periods
<1>3. CASE isDone
  <2>1. systems' = Append(systems, name) /\ systemsData' = Append(systemsData, NoData)
    BY <1>3 DEF AddSystemWithController
  <2>2. /\ systems' \in Seq(Names) /\ Len(systems') = Len(systems) + 1
        /\ \A i \in 1 .. Len(systems) : systems'[i] = systems[i]
    BY <2>1, AppendProperties DEF RegistersInv
  <2>3. GoodData(systemsData') /\ Len(systemsData') = Len(systemsData) + 1
    BY <2>1, DataAppended DEF RegistersInv
  <2>4. /\ DOMAIN systems = 1 .. Len(systems) /\ DOMAIN systems' = 1 .. Len(systems')
        /\ Len(systems) \in Nat
    BY <2>2, LenProperties DEF RegistersInv
  <2>5. \A force \in forcesCoupling : Follows(force, systems')
    BY <2>2, <2>4 DEF RegistersInv, Follows
  <2> QED BY <1>1, <1>2, <2>2, <2>3, <2>5, Zenon DEF RegistersInv
<1>4. CASE ~isDone
  BY <1>1, <1>2, <1>4 DEF AddSystemWithController, RegistersInv
<1> QED BY <1>3, <1>4

LEMMA RemovesSystem ==
    ASSUME RegistersInv, NEW name \in Names, RemoveSystem(name)
    PROVE  RegistersInv'
<1> DEFINE isDone == ~isSimulationRunning /\ IsSystem(name)
           idx == SystemIdx(name)
<1>1. /\ Report(isDone) /\ isDone \in BOOLEAN
      /\ UNCHANGED <<periods, isSimulationRunning>>
  BY DEF RemoveSystem
<1>2. OptionsInv' /\ stepperUpdatePeriod' \in BreakPeriods
  BY <1>1, ReportTypes DEF RegistersInv, OptionsInv, periods
<1>3. CASE isDone
  <2> DEFINE kept == {force \in forcesCoupling : ~Involves(force, name)}
             Moved(force) == [force EXCEPT !.idx1 = Shifted(@, idx), !.idx2 = Shifted(@, idx)]
  <2>1. /\ forcesCoupling' = {Moved(force) : force \in kept}
        /\ systems' = RemoveAt(systems, idx) /\ systemsData' = RemoveAt(systemsData, idx)
    BY <1>3 DEF RemoveSystem
  <2>2. idx \in 1 .. Len(systems) /\ idx \in 1 .. Len(systemsData) /\ systems[idx] = name
    BY <1>3, DataOfSystem
  <2>3. /\ systems' \in Seq(Names) /\ Len(systems') = Len(systems) - 1
        /\ GoodData(systemsData') /\ Len(systemsData') = Len(systemsData) - 1
    BY <2>1, <2>2, RemovedAt, DataRemoved DEF RegistersInv
  <2>4. ASSUME NEW force \in kept
        PROVE  Moved(force) \in Coupling /\ Follows(Moved(force), systems')
    <3>1. /\ systems \in Seq(Names) /\ force \in Coupling /\ Follows(force, systems)
          /\ ~Involves(force, systems[idx])
      BY <2>2 DEF RegistersInv
    <3> HIDE DEF idx
    <3> QED BY <2>1, <2>2, <3>1, CouplingRemoved
  <2>5. forcesCoupling' \subseteq Coupling /\ \A f \in forcesCoupling' : Follows(f, systems')
    <3> HIDE DEF kept, Moved
    <3> QED BY <2>1, <2>4
  <2>6. Len(systemsData') = Len(systems')
    BY <2>3 DEF RegistersInv
  <2> QED BY <1>2, <2>3, <2>5, <2>6, Zenon DEF RegistersInv
<1>4. CASE ~isDone
  BY <1>1, <1>2, <1>4 DEF RemoveSystem, RegistersInv, registers
<1> QED BY <1>3, <1>4

\* The calls that register and remove coupling forces.
LEMMA CouplingCalls ==
    ASSUME RegistersInv,
           \/ \E name1, name2 \in Names, isValid \in BOOLEAN :
                 RegisterForceCoupling(name1, name2, isValid)
           \/ \E name1, name2 \in Names : RemoveForcesCoupling(name1, name2)
           \/ \E name \in Names : RemoveForcesCouplingOf(name)
           \/ RemoveAllForcesCoupling
    PROVE  RegistersInv'
<1>1. /\ UNCHANGED <<systems, systemsData, periods, isSimulationRunning>>
      /\ \E isDone \in BOOLEAN : Report(isDone)
  BY DEF RegisterForceCoupling, RemoveForcesCoupling, RemoveForcesCouplingOf,
         RemoveAllForcesCoupling
<1>2. OptionsInv' /\ stepperUpdatePeriod' \in BreakPeriods
  BY <1>1, ReportTypes DEF RegistersInv, OptionsInv, periods
<1>3. ASSUME NEW name1 \in Names, NEW name2 \in Names, NEW isValid \in BOOLEAN,
             RegisterForceCoupling(name1, name2, isValid)
      PROVE  \A force \in forcesCoupling' : force \in Coupling /\ Follows(force, systems)
  <2> SUFFICES ASSUME NEW force \in forcesCoupling', force \notin forcesCoupling
               PROVE  force \in Coupling /\ Follows(force, systems)
    BY DEF RegistersInv
  <2>1. /\ IsSystem(name1) /\ IsSystem(name2)
        /\ force = [name1 |-> name1, idx1 |-> SystemIdx(name1),
                    name2 |-> name2, idx2 |-> SystemIdx(name2)]
    BY <1>3 DEF RegisterForceCoupling
  <2>2. /\ SystemIdx(name1) \in DOMAIN systems /\ systems[SystemIdx(name1)] = name1
        /\ SystemIdx(name2) \in DOMAIN systems /\ systems[SystemIdx(name2)] = name2
        /\ SystemIdx(name1) \in Nat /\ SystemIdx(name2) \in Nat
    BY <2>1, DataOfSystem DEF RegistersInv
  <2> QED BY <2>1, <2>2 DEF Coupling, Follows
<1>4. ASSUME \/ \E name1, name2 \in Names : RemoveForcesCoupling(name1, name2)
             \/ \E name \in Names : RemoveForcesCouplingOf(name)
             \/ RemoveAllForcesCoupling
      PROVE  forcesCoupling' \subseteq forcesCoupling
  BY <1>4 DEF RemoveForcesCoupling, RemoveForcesCouplingOf, RemoveAllForcesCoupling
<1>5. \A force \in forcesCoupling' : force \in Coupling /\ Follows(force, systems)
  BY <1>3, <1>4 DEF RegistersInv
<1> QED BY <1>1, <1>2, <1>5 DEF RegistersInv

\* The calls that change the registers of the systems or the periods keep them good.
LEMMA DataCalls ==
    ASSUME RegistersInv, UNCHANGED <<systems, forcesCoupling>>, OptionsInv',
           GoodData(systemsData'), Len(systemsData') = Len(systemsData),
           stepperUpdatePeriod' \in BreakPeriods
    PROVE  RegistersInv'
BY DEF RegistersInv

LEMMA RegistersImpulse ==
    ASSUME RegistersInv, NEW name \in Names, NEW w \in Windows, NEW isValid \in BOOLEAN,
           RegisterForceImpulse(name, w, isValid)
    PROVE  RegistersInv'
<1> DEFINE isDone == /\ ~isSimulationRunning /\ IsSystem(name) /\ isValid
                     /\ w.dt >= StepperMin /\ w.t >= 0
           idx == SystemIdx(name)
<1>1. /\ ReportSuccess(isDone) /\ isDone \in BOOLEAN
      /\ UNCHANGED <<systems, forcesCoupling, periods, isSimulationRunning>>
      /\ systemsData' = IF isDone THEN [systemsData EXCEPT ![idx] = WithImpulse(@, w)]
                        ELSE systemsData
  BY DEF RegisterForceImpulse
<1>2. OptionsInv' /\ stepperUpdatePeriod' \in BreakPeriods
  BY <1>1, ReportTypes DEF RegistersInv, OptionsInv, periods
<1>3. ASSUME isDone
      PROVE  GoodData(systemsData') /\ Len(systemsData') = Len(systemsData)
  <2>1. systemsData' = [systemsData EXCEPT ![idx] = WithImpulse(systemsData[idx], w)]
    BY <1>1, <1>3
  <2>2. /\ idx \in 1 .. Len(systemsData)
        /\ systemsData[idx] \in Data /\ HasBreaks(systemsData[idx])
    BY <1>3, DataOfSystem
  <2>3. WithImpulse(systemsData[idx], w) \in Data /\ HasBreaks(WithImpulse(systemsData[idx], w))
    BY <2>2, WithImpulseType
  <2>4. GoodData(systemsData)
    BY DEF RegistersInv
  <2> HIDE DEF idx
  <2> QED BY <2>1, <2>2, <2>3, <2>4, DataUpdated
<1>4. GoodData(systemsData') /\ Len(systemsData') = Len(systemsData)
  BY <1>1, <1>3 DEF RegistersInv
<1> QED BY <1>1, <1>2, <1>4, DataCalls

LEMMA RemovesImpulsesOf ==
    ASSUME RegistersInv, NEW name \in Names, RemoveForcesImpulseOf(name)
    PROVE  RegistersInv'
<1> DEFINE isDone == ~isSimulationRunning /\ IsSystem(name)
           idx == SystemIdx(name)
<1>1. /\ ReportSuccess(isDone) /\ isDone \in BOOLEAN
      /\ UNCHANGED <<systems, forcesCoupling, periods, isSimulationRunning>>
      /\ systemsData' = IF isDone THEN [systemsData EXCEPT ![idx] = WithoutImpulses(@)]
                        ELSE systemsData
  BY DEF RemoveForcesImpulseOf
<1>2. OptionsInv' /\ stepperUpdatePeriod' \in BreakPeriods
  BY <1>1, ReportTypes DEF RegistersInv, OptionsInv, periods
<1>3. ASSUME isDone
      PROVE  GoodData(systemsData') /\ Len(systemsData') = Len(systemsData)
  <2>1. systemsData' = [systemsData EXCEPT ![idx] = WithoutImpulses(systemsData[idx])]
    BY <1>1, <1>3
  <2>2. /\ idx \in 1 .. Len(systemsData)
        /\ systemsData[idx] \in Data /\ HasBreaks(systemsData[idx])
    BY <1>3, DataOfSystem
  <2>3. /\ WithoutImpulses(systemsData[idx]) \in Data
        /\ HasBreaks(WithoutImpulses(systemsData[idx]))
    BY <2>2, WithoutImpulsesType
  <2>4. GoodData(systemsData)
    BY DEF RegistersInv
  <2> HIDE DEF idx
  <2> QED BY <2>1, <2>2, <2>3, <2>4, DataUpdated
<1>4. GoodData(systemsData') /\ Len(systemsData') = Len(systemsData)
  BY <1>1, <1>3 DEF RegistersInv
<1> QED BY <1>1, <1>2, <1>4, DataCalls

\* The calls that remove forces of every system.
LEMMA RemovesFromAll ==
    ASSUME RegistersInv, RemoveForcesImpulse \/ RemoveForcesProfile \/ RemoveAllForces
    PROVE  RegistersInv'
<1>1. /\ UNCHANGED <<systems, periods, isSimulationRunning>>
      /\ \E isDone \in BOOLEAN : Report(isDone)
      /\ forcesCoupling' \subseteq forcesCoupling
  BY DEF RemoveForcesImpulse, RemoveForcesProfile, RemoveAllForces
<1>2. OptionsInv' /\ stepperUpdatePeriod' \in BreakPeriods
  BY <1>1, ReportTypes DEF RegistersInv, OptionsInv, periods
<1>3. GoodData(systemsData) /\ \A i \in DOMAIN systemsData :
         systemsData[i] \in Data /\ HasBreaks(systemsData[i])
  <2>1. DOMAIN systemsData = 1 .. Len(systemsData)
    BY LenProperties DEF RegistersInv, GoodData
  <2> QED BY <2>1, ElementOfSeq DEF RegistersInv, GoodData
<1>4. PICK f \in [DOMAIN systemsData -> Data] :
         systemsData' = f /\ \A i \in DOMAIN systemsData : HasBreaks(f[i])
  <2> DEFINE f1 == [i \in DOMAIN systemsData |-> WithoutImpulses(systemsData[i])]
             f2 == [i \in DOMAIN systemsData |-> WithoutProfiles(systemsData[i])]
             f3 == [i \in DOMAIN systemsData |-> WithoutProfiles(WithoutImpulses(systemsData[i]))]
  <2>1. systemsData \in [DOMAIN systemsData -> Data]
    BY <1>3, LenProperties DEF GoodData
  <2>2. \A i \in DOMAIN systemsData :
           WithoutImpulses(systemsData[i]) \in Data /\ HasBreaks(WithoutImpulses(systemsData[i]))
    BY <1>3, WithoutImpulsesType
  <2>3. \A d \in Data : HasBreaks(d) => WithoutProfiles(d) \in Data /\ HasBreaks(WithoutProfiles(d))
    BY WithProfilesType DEF WithoutProfiles
  <2>4. /\ f1 \in [DOMAIN systemsData -> Data] /\ \A i \in DOMAIN systemsData : HasBreaks(f1[i])
        /\ f2 \in [DOMAIN systemsData -> Data] /\ \A i \in DOMAIN systemsData : HasBreaks(f2[i])
        /\ f3 \in [DOMAIN systemsData -> Data] /\ \A i \in DOMAIN systemsData : HasBreaks(f3[i])
    BY <1>3, <2>2, <2>3
  <2>5. systemsData' \in {systemsData, f1, f2, f3}
    BY DEF RemoveForcesImpulse, RemoveForcesProfile, RemoveAllForces
  <2> HIDE DEF f1, f2, f3
  <2> QED BY <1>3, <2>1, <2>4, <2>5
<1>5. GoodData(systemsData') /\ Len(systemsData') = Len(systemsData)
  BY <1>3, <1>4, DataReplaced
<1> QED BY <1>1, <1>2, <1>5 DEF RegistersInv

LEMMA RegistersProfile ==
    ASSUME RegistersInv, NEW name \in Names, NEW p \in Periods, NEW isValid \in BOOLEAN,
           RegisterForceProfile(name, p, isValid)
    PROVE  RegistersInv'
<1> DEFINE isDone == /\ ~isSimulationRunning /\ IsSystem(name) /\ isValid
                     /\ IsPeriodValid(p) /\ WithPeriod(p).isIncluded
           idx == SystemIdx(name)
<1>1. /\ UNCHANGED <<systems, forcesCoupling, controllerUpdatePeriod, sensorsUpdatePeriod,
                     isSimulationRunning>>
      /\ Report(isDone)
  BY DEF RegisterForceProfile
<1>2. OptionsInv'
  BY <1>1 DEF RegistersInv, OptionsInv, Report
<1>3. CASE isDone
  <2>1. /\ stepperUpdatePeriod' = WithPeriod(p).period
        /\ systemsData' = [systemsData EXCEPT ![idx].profiles = @ \cup {p}]
    BY <1>3 DEF RegisterForceProfile
  <2>2. /\ idx \in 1 .. Len(systemsData)
        /\ systemsData[idx] \in Data /\ HasBreaks(systemsData[idx])
    BY <1>3, DataOfSystem
  <2> DEFINE P == systemsData[idx].profiles \cup {p}
  <2>3. P \subseteq Periods
    BY <2>2, DataTypes
  <2> HIDE DEF P
  <2>4. /\ [systemsData[idx] EXCEPT !.profiles = P] \in Data
        /\ HasBreaks([systemsData[idx] EXCEPT !.profiles = P])
    BY <2>2, <2>3, WithProfilesType
  <2>5. systemsData' = [systemsData EXCEPT ![idx] = [systemsData[idx] EXCEPT !.profiles = P]]
    BY <2>1 DEF P
  <2>6. GoodData(systemsData') /\ Len(systemsData') = Len(systemsData)
    <3> GoodData(systemsData)
      BY DEF RegistersInv
    <3> HIDE DEF idx
    <3> QED BY <2>2, <2>4, <2>5, DataUpdated
  <2>7. stepperUpdatePeriod' \in BreakPeriods
    <3>1. {stepperUpdatePeriod, p} \subseteq AnyPeriods
      BY PeriodsAreNat DEF RegistersInv, AnyPeriods
    <3> QED BY <2>1, <3>1, GcdOfSystemsType DEF WithPeriod, RegistersInv, GoodData
  <2> QED BY <1>1, <1>2, <2>6, <2>7, DataCalls
<1>4. CASE ~isDone
  BY <1>1, <1>2, <1>4 DEF RegisterForceProfile, RegistersInv
<1> QED BY <1>3, <1>4

LEMMA RemovesProfilesOf ==
    ASSUME RegistersInv, NEW name \in Names, RemoveForcesProfileOf(name)
    PROVE  RegistersInv'
<1> DEFINE isDone == ~isSimulationRunning /\ IsSystem(name)
           idx == SystemIdx(name)
<1>1. /\ UNCHANGED <<systems, forcesCoupling, controllerUpdatePeriod, sensorsUpdatePeriod,
                     isSimulationRunning>>
      /\ Report(FALSE) \/ ReportSuccess(isDone)
  BY DEF RemoveForcesProfileOf
<1>2. OptionsInv'
  BY <1>1 DEF RegistersInv, OptionsInv, Report, ReportSuccess
<1>3. CASE isDone
  <2>1. /\ systemsData' = [systemsData EXCEPT ![idx] = WithoutProfiles(systemsData[idx])]
        /\ stepperUpdatePeriod' = GcdOfSystems(systemsData', OptionPeriods).period
    BY <1>3 DEF RemoveForcesProfileOf
  <2>2. /\ idx \in 1 .. Len(systemsData)
        /\ systemsData[idx] \in Data /\ HasBreaks(systemsData[idx])
    BY <1>3, DataOfSystem
  <2>3. /\ WithoutProfiles(systemsData[idx]) \in Data
        /\ HasBreaks(WithoutProfiles(systemsData[idx]))
    BY <2>2, WithProfilesType DEF WithoutProfiles
  <2>4. GoodData(systemsData') /\ Len(systemsData') = Len(systemsData)
    <3> GoodData(systemsData)
      BY DEF RegistersInv
    <3> HIDE DEF idx
    <3> QED BY <2>1, <2>2, <2>3, DataUpdated
  <2>5. stepperUpdatePeriod' \in BreakPeriods
    <3>1. OptionPeriods \subseteq AnyPeriods
      BY DEF RegistersInv, OptionsInv, OptionPeriods, AnyPeriods
    <3> QED BY <2>1, <2>4, <3>1, GcdOfSystemsType DEF GoodData
  <2> QED BY <1>1, <1>2, <2>4, <2>5, DataCalls
<1>4. CASE ~isDone
  BY <1>1, <1>2, <1>4 DEF RemoveForcesProfileOf, RegistersInv
<1> QED BY <1>3, <1>4

LEMMA SetsOptions ==
    ASSUME RegistersInv, NEW controller \in Periods, NEW sensors \in Periods,
           SetOptions(controller, sensors)
    PROVE  RegistersInv'
<1>1. UNCHANGED registers /\ \E isDone \in BOOLEAN : Report(isDone)
  BY DEF SetOptions
<1>2. OptionsInv'
  BY <1>1, ReportTypes DEF SetOptions, RegistersInv, OptionsInv, periods
<1>3. stepperUpdatePeriod' \in BreakPeriods
  <2>1. GcdOfSystems(systemsData, {controller, sensors}).period \in BreakPeriods
    <3>1. {controller, sensors} \subseteq AnyPeriods
      BY DEF AnyPeriods
    <3> QED BY <3>1, GcdOfSystemsType DEF RegistersInv, GoodData
  <2> QED BY <2>1 DEF SetOptions, RegistersInv, periods
<1> QED BY <1>1, <1>2, <1>3 DEF RegistersInv, registers

LEMMA Resets ==
    ASSUME RegistersInv, NEW removeAllForce \in BOOLEAN, Reset(removeAllForce)
    PROVE  RegistersInv'
<1>1. /\ UNCHANGED <<systems, forcesCoupling>>
      /\ OptionsInv'
  BY DEF Reset, Cleared, RegistersInv, OptionsInv
<1>2. CASE removeAllForce
  <2> DEFINE f == [i \in DOMAIN systemsData |-> NoData]
  <2>1. systemsData' = f /\ stepperUpdatePeriod' = MinClipped(OptionPeriods)
    BY <1>2 DEF Reset, Cleared
  <2>2. f \in [DOMAIN systemsData -> Data] /\ \A i \in DOMAIN systemsData : HasBreaks(f[i])
    BY NoDataHasBreaks
  <2>3. GoodData(systemsData') /\ Len(systemsData') = Len(systemsData)
    <3> HIDE DEF f
    <3> QED BY <2>1, <2>2, DataReplaced DEF RegistersInv
  <2>4. stepperUpdatePeriod' \in BreakPeriods
    <3>1. OptionPeriods \subseteq AnyPeriods
      BY DEF RegistersInv, OptionsInv, OptionPeriods, AnyPeriods
    <3> QED BY <2>1, <3>1, MinClippedIsLeast
  <2> QED BY <1>1, <2>3, <2>4, DataCalls
<1>3. CASE ~removeAllForce
  BY <1>1, <1>3 DEF Reset, Cleared, RegistersInv
<1> QED BY <1>2, <1>3

LEMMA StartsOrStops ==
    ASSUME RegistersInv, (\E isStateValid \in BOOLEAN : Start(isStateValid)) \/ Stop
    PROVE  RegistersInv'
<1>1. /\ UNCHANGED <<registers, periods>> /\ isSimulationRunning' \in BOOLEAN
      /\ isRefused' \in BOOLEAN /\ returnCode' \in {"SUCCESS", "ERROR"}
  BY ReportTypes DEF Start, Stop, Report, RegistersInv, OptionsInv
<1> QED BY <1>1 DEF registers, periods, RegistersInv, OptionsInv

LEMMA RegistersStep == RegistersInv /\ [Next]_vars => RegistersInv'
<1> SUFFICES ASSUME RegistersInv, [Next]_vars PROVE RegistersInv'
  OBVIOUS
<1>1. ASSUME NEW name \in Names, NEW isValid \in BOOLEAN,
             AddSystem(name, isValid) \/ AddSystemWithController(name, isValid)
      PROVE  RegistersInv'
  <2>1. (isValid /\ ~IsSystem(name)) \in BOOLEAN
    OBVIOUS
  <2>2. \E isRobotValid \in BOOLEAN : AddSystemWithController(name, isRobotValid)
    BY <1>1, <2>1, Zenon DEF AddSystem
  <2> QED BY <2>2, AddsSystem
<1>2. ASSUME NEW name \in Names, NEW isValid \in BOOLEAN, NEW other \in Names,
             RegisterForceCoupling(name, other, isValid)
      PROVE  RegistersInv'
  BY <1>2, CouplingCalls
<1>3. ASSUME NEW name \in Names, NEW isValid \in BOOLEAN, NEW w \in Windows,
             RegisterForceImpulse(name, w, isValid)
      PROVE  RegistersInv'
  BY <1>3, RegistersImpulse
<1>4. ASSUME NEW name \in Names, NEW isValid \in BOOLEAN, NEW p \in Periods,
             RegisterForceProfile(name, p, isValid)
      PROVE  RegistersInv'
  BY <1>4, RegistersProfile
<1>5. ASSUME NEW name \in Names, RemoveSystem(name)
      PROVE  RegistersInv'
  BY <1>5, RemovesSystem
<1>6. ASSUME NEW name \in Names, RemoveForcesCouplingOf(name)
      PROVE  RegistersInv'
  BY <1>6, CouplingCalls
<1>7. ASSUME NEW name \in Names, RemoveForcesImpulseOf(name)
      PROVE  RegistersInv'
  BY <1>7, RemovesImpulsesOf
<1>8. ASSUME NEW name \in Names, RemoveForcesProfileOf(name)
      PROVE  RegistersInv'
  BY <1>8, RemovesProfilesOf
<1>9. ASSUME NEW name \in Names, NEW other \in Names, RemoveForcesCoupling(name, other)
      PROVE  RegistersInv'
  BY <1>9, CouplingCalls
<1>10. CASE RemoveAllForcesCoupling
  BY <1>10, CouplingCalls
<1>11. CASE RemoveForcesImpulse \/ RemoveForcesProfile \/ RemoveAllForces
  BY <1>11, RemovesFromAll
<1>12. ASSUME NEW controller \in Periods, NEW sensors \in Periods,
              SetOptions(controller, sensors)
       PROVE  RegistersInv'
  BY <1>12, SetsOptions
<1>13. CASE (\E isStateValid \in BOOLEAN : Start(isStateValid)) \/ Stop
  BY <1>13, StartsOrStops
<1>14. ASSUME NEW removeAllForce \in BOOLEAN, Reset(removeAllForce)
       PROVE  RegistersInv'
  BY <1>14, Resets
<1>15. CASE UNCHANGED vars
  BY <1>15 DEF vars, registers, periods, RegistersInv, OptionsInv
<1> QED BY <1>1, <1>2, <1>3, <1>4, <1>5, <1>6, <1>7, <1>8, <1>9, <1>10, <1>11, <1>12, <1>13,
           <1>14, <1>15, Zenon DEF Next

\* The registers are those of the systems there are, with their types.
THEOREM RegistersInvariant == Spec => []RegistersInv
<1> QED BY RegistersInit, RegistersStep, PTL DEF Spec

\* Every register keeps its type, and the period of the breakpoints is never zero.
THEOREM RegistersTypes == Spec => []TypeOK
<1>1. RegistersInv => TypeOK
  BY InvImplies
<1> QED BY <1>1, RegistersInvariant, PTL

\* For any number of systems, whatever their names, and in whatever order they are added and
\* removed, `computeForcesCoupling' finds the systems a coupling force was registered for at
\* the indices that it holds.
THEOREM CouplingsFollow == Spec => []CouplingsFollowSystems
<1>1. RegistersInv => CouplingsFollowSystems
  BY InvImplies
<1> QED BY <1>1, RegistersInvariant, PTL

\* Whichever impulse forces are registered and removed, there is a breakpoint where each of
\* them starts and ends, and there are flags enough for `start' and `step'.
THEOREM ImpulsesKeepBreaks == Spec => []ImpulsesHaveBreaks
<1>1. RegistersInv => ImpulsesHaveBreaks
  BY InvImplies
<1> QED BY <1>1, RegistersInvariant, PTL

\* A simulation that goes on has the systems, the forces of each and the periods it had.
THEOREM RunningIsFrozen == Spec => FrozenWhileRunning
<1>1. [Next]_vars =>
         [isSimulationRunning /\ isSimulationRunning' =>
             UNCHANGED <<systems, systemsData, periods>>]_vars
  <2> SUFFICES ASSUME Next, isSimulationRunning, isSimulationRunning'
               PROVE  UNCHANGED <<systems, systemsData, periods>>
    BY DEF vars, registers
  <2> DEFINE frozen == UNCHANGED <<systems, systemsData, periods>>
  <2>1. ASSUME NEW name \in Names, NEW isValid \in BOOLEAN,
               \/ AddSystem(name, isValid) \/ AddSystemWithController(name, isValid)
               \/ \E other \in Names : RegisterForceCoupling(name, other, isValid)
        PROVE  frozen
    BY <2>1 DEF AddSystem, AddSystemWithController, RegisterForceCoupling
  <2>2. ASSUME NEW name \in Names, NEW isValid \in BOOLEAN,
               \/ \E w \in Windows : RegisterForceImpulse(name, w, isValid)
               \/ \E p \in Periods : RegisterForceProfile(name, p, isValid)
        PROVE  frozen
    BY <2>2 DEF RegisterForceImpulse, RegisterForceProfile, periods
  <2>3. ASSUME NEW name \in Names,
               \/ RemoveSystem(name) \/ RemoveForcesCouplingOf(name)
               \/ \E other \in Names : RemoveForcesCoupling(name, other)
        PROVE  frozen
    BY <2>3 DEF RemoveSystem, RemoveForcesCouplingOf, RemoveForcesCoupling, registers
  <2>4. ASSUME NEW name \in Names,
               RemoveForcesImpulseOf(name) \/ RemoveForcesProfileOf(name)
        PROVE  frozen
    BY <2>4 DEF RemoveForcesImpulseOf, RemoveForcesProfileOf, periods
  <2>5. RemoveAllForcesCoupling \/ RemoveForcesImpulse \/ RemoveForcesProfile \/ RemoveAllForces
        => frozen
    BY DEF RemoveAllForcesCoupling, RemoveForcesImpulse, RemoveForcesProfile, RemoveAllForces
  <2>6. ASSUME NEW controller \in Periods, NEW sensors \in Periods, SetOptions(controller, sensors)
        PROVE  frozen
    BY <2>6 DEF SetOptions, registers, periods
  <2>7. ASSUME NEW isStateValid \in BOOLEAN, Start(isStateValid)
        PROVE  frozen
    BY <2>7 DEF Start, registers
  <2>8. ~Stop
    BY DEF Stop
  <2>9. ASSUME NEW removeAllForce \in BOOLEAN
        PROVE  ~Reset(removeAllForce)
    BY DEF Reset
  <2> HIDE DEF frozen
  <2>10. frozen
    BY <2>1, <2>2, <2>3, <2>4, <2>5, <2>6, <2>7, <2>8, <2>9 DEF Next
  <2> QED BY <2>10 DEF frozen
<1> QED BY <1>1, PTL DEF Spec, FrozenWhileRunning

-----------------------------------------------------------------------------
(* The periods of a single system *)

AllDivided(P, period) == \A p \in P : p > 0 => period <= p /\ IsMultiple(p, period)

ProfilesOf(data) == UNION {data[i].profiles : i \in DOMAIN data}

LEMMA GcdDivides ==
    ASSUME NEW P, P \subseteq Periods, IsGcdIncluded(P)
    PROVE  AllDivided(P, MinClipped(P))
<1> SUFFICES ASSUME NEW p \in P, p > 0
             PROVE  MinClipped(P) <= p /\ IsMultiple(p, MinClipped(P))
  BY DEF AllDivided
<1>1. P \subseteq AnyPeriods
  BY DEF AnyPeriods
<1>2. MinClipped(P) <= p /\ MinClipped(P) \in Nat
  BY <1>1, MinClippedIsLeast, PeriodsAreNat
<1>3. MinClipped(P) # Infinity
  BY <1>2, PeriodsAssumption
<1>4. p \in Nat /\ p # 0
  BY PeriodsAssumption
<1> QED BY <1>2, <1>3, <1>4 DEF IsGcdIncluded

\* What divides a period divides what this one divides.
LEMMA DividedByDivisor ==
    ASSUME NEW P, P \subseteq Periods, NEW s \in BreakPeriods, NEW d \in BreakPeriods,
           AllDivided(P, s), s = Infinity \/ (s > 0 /\ IsMultiple(s, d))
    PROVE  AllDivided(P, d)
<1> SUFFICES ASSUME NEW p \in P, p > 0
             PROVE  d <= p /\ IsMultiple(p, d)
  BY DEF AllDivided
<1>1. /\ p \in Nat /\ s \in Nat /\ d \in Nat /\ s > 0 /\ d > 0 /\ p < Infinity
      /\ Infinity \in Nat
  BY PeriodsAssumption DEF BreakPeriods
<1>2. s <= p /\ p % s = 0 /\ s # Infinity
  BY <1>1 DEF AllDivided, IsMultiple
<1>3. s % d = 0
  BY <1>2 DEF IsMultiple
<1>4. p % d = 0
  BY <1>1, <1>2, <1>3, MultipleOfMultiple
<1>5. d <= p
  BY <1>1, <1>4, MultipleIsLonger
<1> QED BY <1>1, <1>4, <1>5 DEF IsMultiple

\* Periods that are accepted together are multiples of the shortest.
LEMMA GcdOfDivides ==
    ASSUME NEW P, NEW Q, P \subseteq Periods, Q \subseteq Periods, GcdOf(P, Q).isIncluded
    PROVE  /\ IsGcdIncluded(P) /\ IsGcdIncluded(Q)
           /\ AllDivided(P, GcdOf(P, Q).period) /\ AllDivided(Q, GcdOf(P, Q).period)
<1> DEFINE p == MinClipped(P)
           q == MinClipped(Q)
           d == GcdOf(P, Q).period
<1>1. IsGcdIncluded(P) /\ IsGcdIncluded(Q)
  BY DEF GcdOf
<1>2. /\ p = Infinity \/ IsMultiple(p, q) \/ IsMultiple(q, p)
      /\ d = Min({p, q})
  BY <1>1 DEF GcdOf
<1>3. p \in BreakPeriods /\ q \in BreakPeriods
  <2>1. P \subseteq AnyPeriods /\ Q \subseteq AnyPeriods
    BY DEF AnyPeriods
  <2> QED BY <2>1, MinClippedIsLeast
<1>4. AllDivided(P, p) /\ AllDivided(Q, q)
  BY <1>1, GcdDivides
<1> HIDE DEF p, q, d
<1>5. d = IF p <= q THEN p ELSE q
  BY <1>2, <1>3, MinOfTwo
<1>6. /\ p \in Nat /\ q \in Nat /\ p > 0 /\ q > 0 /\ p <= Infinity /\ q <= Infinity
      /\ Infinity \in Nat
  BY <1>3, PeriodsAssumption DEF BreakPeriods
<1>7. \A x \in Nat : x > 0 /\ x # Infinity => IsMultiple(x, x)
  BY MultipleOfItself DEF IsMultiple
<1>8. p = Infinity \/ IsMultiple(p, d)
  <2>1. CASE p <= q
    BY <2>1, <1>5, <1>6, <1>7
  <2>2. CASE ~(p <= q) /\ IsMultiple(p, q)
    BY <2>2, <1>5
  <2>3. CASE ~(p <= q) /\ IsMultiple(q, p)
    BY <2>3, <1>6, MultipleIsLonger DEF IsMultiple
  <2> QED BY <1>2, <2>1, <2>2, <2>3
<1>9. q = Infinity \/ IsMultiple(q, d)
  <2>1. CASE p > q
    BY <2>1, <1>5, <1>6, <1>7
  <2>2. CASE p <= q /\ IsMultiple(q, p)
    BY <2>2, <1>5
  <2>3. CASE p <= q /\ IsMultiple(p, q)
    <3>1. p = q
      BY <2>3, <1>6, MultipleIsLonger DEF IsMultiple
    <3> QED BY <3>1, <1>5, <1>6, <1>7
  <2>4. CASE p <= q /\ p = Infinity
    BY <2>4, <1>6
  <2> QED BY <1>2, <1>6, <2>1, <2>2, <2>3, <2>4
<1>10. d \in BreakPeriods
  BY <1>3, <1>5
<1>11. AllDivided(P, d) /\ AllDivided(Q, d)
  BY <1>3, <1>4, <1>6, <1>8, <1>9, <1>10, DividedByDivisor
<1> QED BY <1>1, <1>11 DEF d

LEMMA GcdOfSingle ==
    ASSUME NEW data \in Seq(Data), Len(data) = 1, NEW Q, Q \subseteq AnyPeriods
    PROVE  /\ GcdOfSystems(data, Q).isIncluded <=> GcdOf(data[1].profiles, Q).isIncluded
           /\ GcdOfSystems(data, Q).period = GcdOf(data[1].profiles, Q).period
<1> DEFINE gcd == [i \in DOMAIN data |-> GcdOf(data[i].profiles, Q)]
           misfits == {i \in DOMAIN data : ~gcd[i].isIncluded}
           visited == IF misfits = {} THEN DOMAIN data ELSE 1 .. Min(misfits)
           found == {gcd[i].period : i \in visited}
<1>1. DOMAIN data = {1} /\ data # <<>>
  <2>1. DOMAIN data = 1 .. 1
    BY LenProperties
  <2>2. data # <<>>
    BY EmptySeq
  <2> QED BY <2>1, <2>2
<1>2. gcd[1] = GcdOf(data[1].profiles, Q)
  BY <1>1
<1>3. misfits = IF gcd[1].isIncluded THEN {} ELSE {1}
  <2> HIDE DEF gcd
  <2> QED BY <1>1
<1>4. Min({1}) = 1
  BY MinIsLeast
<1>5. visited = {1}
  <2> HIDE DEF misfits
  <2> QED BY <1>1, <1>3, <1>4
<1>6. found = {gcd[1].period}
  <2> HIDE DEF gcd, visited
  <2> QED BY <1>5
<1>7. gcd[1].period \in Nat
  <2>1. data[1] \in Data
    BY ElementOfSeq
  <2>2. data[1].profiles \subseteq AnyPeriods
    BY <2>1, DataTypes DEF AnyPeriods
  <2> QED BY <1>2, <2>2, GcdOfType, PeriodsAreNat
<1>8. Min(found) = gcd[1].period
  <2> HIDE DEF gcd, found
  <2>1. found \subseteq Nat /\ found # {}
    BY <1>6, <1>7
  <2>2. Min(found) \in found
    BY <2>1, MinIsLeast
  <2> QED BY <1>6, <2>2
<1>9. /\ GcdOfSystems(data, Q).isIncluded <=> misfits = {}
      /\ GcdOfSystems(data, Q).period = Min(found)
  BY <1>1 DEF GcdOfSystems
<1> HIDE DEF gcd, misfits, found
<1> QED BY <1>2, <1>3, <1>8, <1>9

PeriodsInv ==
    /\ Len(systems) <= 1
    /\ AllDivided(OptionPeriods, stepperUpdatePeriod)
    /\ AllDivided(ProfilesOf(systemsData), stepperUpdatePeriod)
    /\ IsGcdIncluded(OptionPeriods)

LEMMA PeriodsInit == Init => PeriodsInv
<1> SUFFICES ASSUME Init PROVE PeriodsInv
  OBVIOUS
<1>1. Len(systems) = 0 /\ DOMAIN systemsData = {}
  BY EmptySeq DEF Init
<1>2. OptionPeriods = {0}
  BY DEF Init, OptionPeriods
<1>3. MinClipped({0}) = Infinity
  BY DEF MinClipped
<1> QED BY <1>1, <1>2, <1>3 DEF PeriodsInv, AllDivided, ProfilesOf, IsGcdIncluded

\* The calls that leave the periods and add none.
LEMMA PeriodsFrame ==
    ASSUME PeriodsInv, UNCHANGED periods, Len(systems') <= 1,
           ProfilesOf(systemsData') \subseteq ProfilesOf(systemsData)
    PROVE  PeriodsInv'
<1>1. OptionPeriods' = OptionPeriods /\ stepperUpdatePeriod' = stepperUpdatePeriod
  BY DEF OptionPeriods, periods
<1>2. IsGcdIncluded(OptionPeriods)'
  BY <1>1 DEF PeriodsInv, IsGcdIncluded, MinClipped
<1> QED BY <1>1, <1>2 DEF PeriodsInv, AllDivided

\* The single system there is, and its profiles.
LEMMA SingleSystem ==
    ASSUME RegistersInv, Len(systems) <= 1
    PROVE  /\ Len(systemsData) = Len(systems) /\ systemsData \in Seq(Data)
           /\ ProfilesOf(systemsData) \subseteq Periods
           /\ systemsData = <<>> => ProfilesOf(systemsData) = {}
           /\ systemsData # <<>> =>
                 /\ Len(systemsData) = 1 /\ DOMAIN systemsData = {1}
                 /\ ProfilesOf(systemsData) = systemsData[1].profiles
           /\ \A name : IsSystem(name) => systemsData # <<>> /\ SystemIdx(name) = 1
<1>1. Len(systemsData) = Len(systems) /\ systemsData \in Seq(Data)
  BY DEF RegistersInv, GoodData
<1>2. DOMAIN systemsData = 1 .. Len(systemsData) /\ Len(systemsData) \in Nat
  BY <1>1, LenProperties
<1>3. ASSUME systemsData = <<>>
      PROVE  ProfilesOf(systemsData) = {}
  <2>1. DOMAIN systemsData = {}
    BY <1>3, <1>2, EmptySeq
  <2> QED BY <2>1 DEF ProfilesOf
<1>4. ASSUME systemsData # <<>>
      PROVE  Len(systemsData) = 1 /\ DOMAIN systemsData = {1}
  <2>1. Len(systemsData) # 0
    BY <1>1, <1>4, EmptySeq
  <2>2. Len(systemsData) = 1
    BY <1>1, <1>2, <2>1
  <2> QED BY <1>2, <2>2
<1>5. ASSUME systemsData # <<>>
      PROVE  /\ ProfilesOf(systemsData) = systemsData[1].profiles
             /\ systemsData[1].profiles \subseteq Periods
  <2>1. systemsData[1] \in Data
    BY <1>1, <1>4, <1>5, ElementOfSeq
  <2> QED BY <1>4, <1>5, <2>1, DataTypes DEF ProfilesOf
<1>6. ASSUME NEW name, IsSystem(name)
      PROVE  systemsData # <<>> /\ SystemIdx(name) = 1
  <2>1. SystemIdx(name) \in DOMAIN systemsData
    BY <1>6, DataOfSystem
  <2>2. DOMAIN systemsData # {}
    BY <2>1
  <2>3. systemsData # <<>>
    BY <1>2, <2>2, EmptySeq
  <2> QED BY <2>1, <2>3, <1>4
<1> QED BY <1>1, <1>3, <1>4, <1>5, <1>6

\* A period that is accepted for a single system is a multiple or a divisor.
LEMMA SetsOptionsPeriods ==
    ASSUME RegistersInv, PeriodsInv, NEW controller \in Periods, NEW sensors \in Periods,
           SetOptions(controller, sensors)
    PROVE  PeriodsInv'
<1> DEFINE Q == {controller, sensors}
           gcd == GcdOfSystems(systemsData, Q)
           isDone == /\ ~isSimulationRunning
                     /\ IsPeriodValid(controller) /\ IsPeriodValid(sensors)
                     /\ gcd.isIncluded
<1>1. UNCHANGED registers
  BY DEF SetOptions
<1>2. CASE ~isDone
  BY <1>1, <1>2, PeriodsFrame DEF SetOptions, registers, PeriodsInv
<1>3. CASE isDone
  <2>1. OptionPeriods' = Q /\ stepperUpdatePeriod' = gcd.period /\ gcd.isIncluded
    BY <1>3 DEF SetOptions, OptionPeriods
  <2>2. Q \subseteq Periods /\ Q \subseteq AnyPeriods
    BY DEF AnyPeriods
  <2>3. ProfilesOf(systemsData)' = ProfilesOf(systemsData) /\ Len(systems') <= 1
    BY <1>1 DEF registers, PeriodsInv, ProfilesOf
  <2> HIDE DEF gcd, Q
  <2>4. /\ IsGcdIncluded(Q) /\ AllDivided(Q, gcd.period)
        /\ AllDivided(ProfilesOf(systemsData), gcd.period)
    <3>1. CASE systemsData = <<>>
      <4>1. gcd.isIncluded <=> IsGcdIncluded(Q)
        BY <3>1 DEF GcdOfSystems, gcd
      <4>2. gcd.period = MinClipped(Q)
        BY <3>1 DEF GcdOfSystems, gcd
      <4>3. ProfilesOf(systemsData) = {}
        BY <3>1, SingleSystem DEF PeriodsInv
      <4> QED BY <2>1, <2>2, <4>1, <4>2, <4>3, GcdDivides DEF AllDivided
    <3>2. CASE systemsData # <<>>
      <4> DEFINE P == ProfilesOf(systemsData)
      <4>1. /\ systemsData \in Seq(Data) /\ Len(systemsData) = 1
            /\ P = systemsData[1].profiles /\ P \subseteq Periods
        BY <3>2, SingleSystem DEF PeriodsInv
      <4> HIDE DEF P
      <4>2. /\ gcd.isIncluded <=> GcdOf(P, Q).isIncluded
            /\ gcd.period = GcdOf(P, Q).period
        BY <2>2, <4>1, GcdOfSingle DEF gcd
      <4>3. /\ IsGcdIncluded(Q) /\ AllDivided(P, GcdOf(P, Q).period)
            /\ AllDivided(Q, GcdOf(P, Q).period)
        BY <2>1, <2>2, <4>1, <4>2, GcdOfDivides
      <4> QED BY <4>2, <4>3 DEF P
    <3> QED BY <3>1, <3>2
  <2>5. IsGcdIncluded(OptionPeriods)'
    BY <2>1, <2>4 DEF IsGcdIncluded, MinClipped
  <2>6. AllDivided(OptionPeriods, stepperUpdatePeriod)'
    BY <2>1, <2>4 DEF AllDivided
  <2>7. AllDivided(ProfilesOf(systemsData), stepperUpdatePeriod)'
    BY <2>1, <2>3, <2>4 DEF AllDivided
  <2> QED BY <2>3, <2>5, <2>6, <2>7 DEF PeriodsInv
<1> QED BY <1>2, <1>3

LEMMA RegistersProfilePeriods ==
    ASSUME RegistersInv, PeriodsInv, NEW name \in Names, NEW p \in Periods,
           NEW isValid \in BOOLEAN, RegisterForceProfile(name, p, isValid)
    PROVE  PeriodsInv'
<1> DEFINE isDone == /\ ~isSimulationRunning /\ IsSystem(name) /\ isValid
                     /\ IsPeriodValid(p) /\ WithPeriod(p).isIncluded
           Q == {stepperUpdatePeriod, p}
           P == ProfilesOf(systemsData)
<1>1. UNCHANGED <<systems, controllerUpdatePeriod, sensorsUpdatePeriod>> /\ Len(systems') <= 1
  BY DEF RegisterForceProfile, PeriodsInv
<1>2. CASE ~isDone
  <2>1. UNCHANGED <<stepperUpdatePeriod, systemsData>>
    BY <1>2 DEF RegisterForceProfile
  <2> QED BY <1>1, <2>1, PeriodsFrame DEF periods
<1>3. CASE isDone
  <2>1. /\ systemsData # <<>> /\ SystemIdx(name) = 1
        /\ Len(systemsData) = 1 /\ DOMAIN systemsData = {1} /\ systemsData \in Seq(Data)
        /\ P = systemsData[1].profiles /\ P \subseteq Periods
    BY <1>3, SingleSystem DEF PeriodsInv
  <2>2. /\ WithPeriod(p).isIncluded /\ stepperUpdatePeriod' = WithPeriod(p).period
        /\ systemsData' = [systemsData EXCEPT ![1].profiles = @ \cup {p}]
    BY <1>3, <2>1 DEF RegisterForceProfile
  <2>3. Q \subseteq AnyPeriods
    BY PeriodsAreNat DEF RegistersInv, AnyPeriods
  <2>4. /\ GcdOf(P, Q).isIncluded /\ stepperUpdatePeriod' = GcdOf(P, Q).period
    <3> HIDE DEF P, Q
    <3> QED BY <2>1, <2>2, <2>3, GcdOfSingle DEF WithPeriod, Q
  <2>5. ProfilesOf(systemsData') = P \cup {p}
    <3>1. systemsData[1] \in Data
      BY <2>1, ElementOfSeq
    <3>2. DOMAIN systemsData' = {1} /\ systemsData'[1].profiles = P \cup {p}
      BY <2>1, <2>2, <3>1 DEF Data
    <3> QED BY <3>2 DEF ProfilesOf
  <2>6. OptionPeriods \subseteq Periods /\ OptionPeriods' = OptionPeriods
    BY <1>1 DEF RegistersInv, OptionsInv, OptionPeriods
  <2>7. AllDivided(OptionPeriods, stepperUpdatePeriod) /\ AllDivided(P, stepperUpdatePeriod)
    BY DEF PeriodsInv
  <2> DEFINE d == GcdOf(P, Q).period
  <2>8. /\ AllDivided(OptionPeriods, d) /\ AllDivided(P, d) /\ AllDivided({p}, d)
    <3>1. CASE stepperUpdatePeriod = Infinity
      <4>1. IsGcdIncluded(Q)
        BY <2>4 DEF GcdOf
      <4>2. MinClipped(Q) = Infinity
        <5>1. Infinity \in Q /\ ~IsMultiple(Infinity, MinClipped(Q)) /\ Infinity # 0
          BY <3>1, PeriodsAreNat DEF IsMultiple
        <5> QED BY <4>1, <5>1 DEF IsGcdIncluded
      <4>3. p = 0
        <5>1. p > 0 => MinClipped(Q) <= p
          <6> HIDE DEF Q
          <6> QED BY <2>3, MinClippedIsLeast DEF Q
        <5> QED BY <4>2, <5>1, PeriodsAssumption
      <4>4. \A x \in OptionPeriods \cup P : ~(x > 0)
        BY <2>1, <2>6, <2>7, <3>1, PeriodsAssumption DEF AllDivided, IsMultiple
      <4> QED BY <4>3, <4>4 DEF AllDivided
    <3>2. CASE stepperUpdatePeriod # Infinity
      <4>1. Q \subseteq Periods /\ stepperUpdatePeriod \in BreakPeriods
        BY <3>2 DEF RegistersInv, BreakPeriods
      <4>2. AllDivided(P, d) /\ AllDivided(Q, d)
        <5> HIDE DEF P, Q
        <5> QED BY <2>1, <2>4, <4>1, GcdOfDivides
      <4>3. stepperUpdatePeriod > 0 /\ IsMultiple(stepperUpdatePeriod, d)
        <5>1. stepperUpdatePeriod > 0
          BY <4>1, PeriodsAssumption DEF BreakPeriods
        <5> HIDE DEF d
        <5> QED BY <4>2, <5>1 DEF AllDivided
      <4>4. d \in BreakPeriods
        <5>1. P \subseteq AnyPeriods
          BY <2>1 DEF AnyPeriods
        <5> HIDE DEF P, Q
        <5> QED BY <2>3, <5>1, GcdOfType
      <4>5. AllDivided(OptionPeriods, d)
        <5> HIDE DEF d
        <5> QED BY <2>6, <2>7, <4>1, <4>3, <4>4, DividedByDivisor
      <4> QED BY <4>2, <4>5 DEF AllDivided
    <3> QED BY <3>1, <3>2
  <2> HIDE DEF d, P, Q
  <2>9. AllDivided(OptionPeriods, stepperUpdatePeriod)'
    BY <2>4, <2>6, <2>8 DEF AllDivided, d
  <2>10. AllDivided(ProfilesOf(systemsData), stepperUpdatePeriod)'
    BY <2>4, <2>5, <2>8 DEF AllDivided, d
  <2>11. IsGcdIncluded(OptionPeriods)'
    BY <2>6 DEF PeriodsInv, IsGcdIncluded, MinClipped
  <2> QED BY <1>1, <2>9, <2>10, <2>11 DEF PeriodsInv
<1> QED BY <1>2, <1>3

LEMMA RemovesProfilesOfPeriods ==
    ASSUME RegistersInv, PeriodsInv, NEW name \in Names, RemoveForcesProfileOf(name)
    PROVE  PeriodsInv'
<1> DEFINE isDone == ~isSimulationRunning /\ IsSystem(name)
           Q == OptionPeriods
<1>1. UNCHANGED <<systems, controllerUpdatePeriod, sensorsUpdatePeriod>> /\ Len(systems') <= 1
  BY DEF RemoveForcesProfileOf, PeriodsInv
<1>2. CASE ~isDone
  <2>1. UNCHANGED <<stepperUpdatePeriod, systemsData>>
    BY <1>2 DEF RemoveForcesProfileOf
  <2> QED BY <1>1, <2>1, PeriodsFrame DEF periods
<1>3. CASE isDone
  <2>1. /\ systemsData # <<>> /\ SystemIdx(name) = 1
        /\ Len(systemsData) = 1 /\ DOMAIN systemsData = {1} /\ systemsData \in Seq(Data)
    BY <1>3, SingleSystem DEF PeriodsInv
  <2>2. /\ systemsData' = [systemsData EXCEPT ![1] = WithoutProfiles(systemsData[1])]
        /\ stepperUpdatePeriod' = GcdOfSystems(systemsData', Q).period
    BY <1>3, <2>1 DEF RemoveForcesProfileOf
  <2>3. /\ systemsData[1] \in Data /\ WithoutProfiles(systemsData[1]) \in Data
        /\ WithoutProfiles(systemsData[1]).profiles = {}
    <3>1. systemsData[1] \in Data /\ HasBreaks(systemsData[1])
      BY <1>3, <2>1, DataOfSystem
    <3> QED BY <3>1, WithProfilesType DEF WithoutProfiles
  <2>4. /\ systemsData' \in Seq(Data) /\ Len(systemsData') = 1
        /\ DOMAIN systemsData' = {1} /\ systemsData'[1].profiles = {}
    BY <2>1, <2>2, <2>3, ExceptSeq
  <2>5. ProfilesOf(systemsData') = {}
    BY <2>4 DEF ProfilesOf
  <2>6. OptionPeriods \subseteq Periods /\ OptionPeriods' = OptionPeriods
        /\ IsGcdIncluded(OptionPeriods) /\ Q \subseteq AnyPeriods
    BY <1>1 DEF RegistersInv, OptionsInv, OptionPeriods, PeriodsInv, AnyPeriods
  <2>7. stepperUpdatePeriod' = GcdOf({}, Q).period
    <3> HIDE DEF Q
    <3> QED BY <2>2, <2>4, <2>6, GcdOfSingle
  <2>8. GcdOf({}, Q).period = MinClipped(Q)
    <3>1. MinClipped({}) = Infinity /\ IsGcdIncluded({})
      BY DEF MinClipped, IsGcdIncluded
    <3>2. MinClipped(Q) \in BreakPeriods /\ Infinity \in BreakPeriods
      BY <2>6, MinClippedIsLeast DEF BreakPeriods
    <3>3. Min({Infinity, MinClipped(Q)}) = MinClipped(Q)
      <4> DEFINE q == MinClipped(Q)
      <4> HIDE DEF q
      <4>1. Min({Infinity, q}) = IF Infinity <= q THEN Infinity ELSE q
        BY <3>2, MinOfTwo DEF q
      <4>2. q \in Nat /\ q <= Infinity /\ Infinity \in Nat
        BY <3>2, PeriodsAreNat DEF q, AnyPeriods
      <4> QED BY <4>1, <4>2 DEF q
    <3> QED BY <2>6, <3>1, <3>3 DEF GcdOf
  <2>9. AllDivided(OptionPeriods, stepperUpdatePeriod)'
    BY <2>6, <2>7, <2>8, GcdDivides DEF AllDivided
  <2>10. IsGcdIncluded(OptionPeriods)'
    BY <2>6 DEF IsGcdIncluded, MinClipped
  <2> QED BY <1>1, <2>5, <2>9, <2>10 DEF PeriodsInv, AllDivided
<1> QED BY <1>2, <1>3

LEMMA ResetsPeriods ==
    ASSUME RegistersInv, PeriodsInv, NEW removeAllForce \in BOOLEAN, Reset(removeAllForce)
    PROVE  PeriodsInv'
<1>1. UNCHANGED <<systems, controllerUpdatePeriod, sensorsUpdatePeriod>> /\ Len(systems') <= 1
  BY DEF Reset, Cleared, PeriodsInv
<1>2. CASE ~removeAllForce
  BY <1>1, <1>2, PeriodsFrame DEF Reset, Cleared, periods
<1>3. CASE removeAllForce
  <2>1. ProfilesOf(systemsData') = {}
    <3>1. systemsData' = [i \in DOMAIN systemsData |-> NoData]
      BY <1>3 DEF Reset, Cleared
    <3> QED BY <3>1, NoDataHasBreaks DEF ProfilesOf
  <2>2. stepperUpdatePeriod' = MinClipped(OptionPeriods) /\ OptionPeriods' = OptionPeriods
    BY <1>1, <1>3 DEF Reset, Cleared, OptionPeriods
  <2>3. OptionPeriods \subseteq Periods /\ IsGcdIncluded(OptionPeriods)
    BY DEF RegistersInv, OptionsInv, OptionPeriods, PeriodsInv
  <2>4. AllDivided(OptionPeriods, stepperUpdatePeriod)'
    BY <2>2, <2>3, GcdDivides DEF AllDivided
  <2>5. IsGcdIncluded(OptionPeriods)'
    BY <2>2, <2>3 DEF IsGcdIncluded, MinClipped
  <2> QED BY <1>1, <2>1, <2>4, <2>5 DEF PeriodsInv, AllDivided
<1> QED BY <1>2, <1>3

\* A system is added only if there is none, and comes without profiles.
LEMMA AddsSystemPeriods ==
    ASSUME RegistersInv, PeriodsInv, MaxSystems <= 1, NEW name \in Names,
           NEW isValid \in BOOLEAN, AddSystemWithController(name, isValid)
    PROVE  PeriodsInv'
<1>1. UNCHANGED periods /\ Len(systems) = 0 /\ Len(systems) = Len(systemsData)
  <2>1. Len(systems) \in Nat
    BY DEF RegistersInv
  <2> QED BY <2>1, BoundsAssumption DEF AddSystemWithController, RegistersInv
<1>2. CASE ~(~isSimulationRunning /\ isValid)
  BY <1>1, <1>2, PeriodsFrame DEF AddSystemWithController, PeriodsInv
<1>3. CASE ~isSimulationRunning /\ isValid
  <2>1. systems' = Append(systems, name) /\ systemsData' = Append(systemsData, NoData)
    BY <1>3 DEF AddSystemWithController
  <2>2. Len(systems') = 1
    BY <1>1, <2>1, AppendProperties DEF RegistersInv
  <2>3. DOMAIN systemsData' = {1} /\ systemsData'[1] = NoData
    <3>1. /\ systemsData' \in Seq(Data) /\ Len(systemsData') = 1 /\ systemsData'[1] = NoData
      BY <1>1, <2>1, NoDataHasBreaks, AppendProperties DEF RegistersInv, GoodData
    <3> QED BY <3>1, LenProperties
  <2>4. ProfilesOf(systemsData') = {}
    BY <2>3, NoDataHasBreaks DEF ProfilesOf
  <2> QED BY <1>1, <2>2, <2>4, PeriodsFrame
<1> QED BY <1>2, <1>3

LEMMA RemovesSystemPeriods ==
    ASSUME RegistersInv, PeriodsInv, NEW name \in Names, RemoveSystem(name)
    PROVE  PeriodsInv'
<1> DEFINE isDone == ~isSimulationRunning /\ IsSystem(name)
<1>1. UNCHANGED periods
  BY DEF RemoveSystem
<1>2. CASE ~isDone
  BY <1>1, <1>2, PeriodsFrame DEF RemoveSystem, PeriodsInv, registers
<1>3. CASE isDone
  <2>1. systemsData # <<>> /\ SystemIdx(name) = 1 /\ Len(systemsData) = 1 /\ Len(systems) = 1
    BY <1>3, SingleSystem DEF PeriodsInv
  <2>2. systems' = RemoveAt(systems, 1) /\ systemsData' = RemoveAt(systemsData, 1)
    BY <1>3, <2>1 DEF RemoveSystem
  <2>3. Len(systems') = 0 /\ Len(systemsData') = 0 /\ systemsData' \in Seq(Data)
    <3>1. systems \in Seq(Names) /\ systemsData \in Seq(Data)
      BY DEF RegistersInv, GoodData
    <3>2. Len(RemoveAt(systems, 1)) = 0
      <4>1. Len(systems) = 1 /\ 1 \in 1 .. Len(systems)
        BY <2>1
      <4>2. Len(RemoveAt(systems, 1)) = Len(systems) - 1
        BY <3>1, <4>1, RemovedAt
      <4> QED BY <4>1, <4>2
    <3>3. Len(RemoveAt(systemsData, 1)) = 0 /\ RemoveAt(systemsData, 1) \in Seq(Data)
      BY <2>1, <3>1, RemovedAt
    <3> QED BY <2>2, <3>2, <3>3
  <2>4. DOMAIN systemsData' = {}
    BY <2>3, LenProperties
  <2> QED BY <1>1, <2>3, <2>4, PeriodsFrame DEF ProfilesOf
<1> QED BY <1>2, <1>3

\* The calls that remove forces add no profile.
LEMMA RemovalsPeriods ==
    ASSUME RegistersInv, PeriodsInv,
           \/ \E name \in Names : RemoveForcesImpulseOf(name)
           \/ RemoveForcesImpulse \/ RemoveForcesProfile \/ RemoveAllForces
    PROVE  PeriodsInv'
<1>1. UNCHANGED <<systems, periods>>
  BY DEF RemoveForcesImpulseOf, RemoveForcesImpulse, RemoveForcesProfile, RemoveAllForces
<1>2. /\ \A i \in DOMAIN systemsData : systemsData[i] \in Data /\ HasBreaks(systemsData[i])
      /\ systemsData \in [DOMAIN systemsData -> Data]
  <2>1. DOMAIN systemsData = 1 .. Len(systemsData) /\ systemsData \in [DOMAIN systemsData -> Data]
    BY LenProperties DEF RegistersInv, GoodData
  <2> QED BY <2>1 DEF RegistersInv, GoodData
<1>3. \A d \in Data : HasBreaks(d) =>
         /\ WithoutImpulses(d).profiles = d.profiles /\ WithoutProfiles(d).profiles = {}
         /\ WithoutProfiles(WithoutImpulses(d)).profiles = {}
  BY WithoutImpulsesType, WithProfilesType DEF WithoutProfiles
<1>4. /\ DOMAIN systemsData' = DOMAIN systemsData
      /\ \A i \in DOMAIN systemsData : systemsData'[i].profiles \subseteq systemsData[i].profiles
  <2>1. ASSUME NEW name \in Names, RemoveForcesImpulseOf(name)
        PROVE  /\ DOMAIN systemsData' = DOMAIN systemsData
               /\ \A i \in DOMAIN systemsData :
                     systemsData'[i].profiles \subseteq systemsData[i].profiles
    <3>1. \/ systemsData' = systemsData
          \/ systemsData' = [systemsData EXCEPT
                ![SystemIdx(name)] = WithoutImpulses(systemsData[SystemIdx(name)])]
      BY <2>1 DEF RemoveForcesImpulseOf
    <3> QED BY <1>2, <1>3, <3>1
  <2>2. ASSUME RemoveForcesImpulse \/ RemoveForcesProfile \/ RemoveAllForces
        PROVE  /\ DOMAIN systemsData' = DOMAIN systemsData
               /\ \A i \in DOMAIN systemsData :
                     systemsData'[i].profiles \subseteq systemsData[i].profiles
    BY <1>2, <1>3, <2>2 DEF RemoveForcesImpulse, RemoveForcesProfile, RemoveAllForces
  <2> QED BY <2>1, <2>2
<1>5. ProfilesOf(systemsData') \subseteq ProfilesOf(systemsData)
  BY <1>4 DEF ProfilesOf
<1> QED BY <1>1, <1>5, PeriodsFrame DEF PeriodsInv

LEMMA RegistersImpulsePeriods ==
    ASSUME RegistersInv, PeriodsInv, NEW name \in Names, NEW w \in Windows,
           NEW isValid \in BOOLEAN, RegisterForceImpulse(name, w, isValid)
    PROVE  PeriodsInv'
<1>1. UNCHANGED <<systems, periods>>
  BY DEF RegisterForceImpulse
<1>2. CASE systemsData' = systemsData
  BY <1>1, <1>2, PeriodsFrame DEF PeriodsInv
<1>3. CASE systemsData' # systemsData
  <2>1. IsSystem(name)
    BY <1>3 DEF RegisterForceImpulse
  <2> DEFINE idx == SystemIdx(name)
  <2>2. systemsData' = [systemsData EXCEPT ![idx] = WithImpulse(systemsData[idx], w)]
    BY <1>3 DEF RegisterForceImpulse
  <2>3. WithImpulse(systemsData[idx], w).profiles = systemsData[idx].profiles
    BY <2>1, DataOfSystem, WithImpulseType
  <2>4. systemsData \in [DOMAIN systemsData -> Data]
    BY LenProperties DEF RegistersInv, GoodData
  <2>5. /\ DOMAIN systemsData' = DOMAIN systemsData
        /\ \A i \in DOMAIN systemsData : systemsData'[i].profiles = systemsData[i].profiles
    BY <2>2, <2>3, <2>4
  <2>6. ProfilesOf(systemsData') \subseteq ProfilesOf(systemsData)
    BY <2>5 DEF ProfilesOf
  <2> QED BY <1>1, <2>6, PeriodsFrame DEF PeriodsInv
<1> QED BY <1>2, <1>3

LEMMA PeriodsStep ==
    ASSUME MaxSystems <= 1, RegistersInv, PeriodsInv, [Next]_vars
    PROVE  PeriodsInv'
<1>1. ASSUME NEW name \in Names, NEW isValid \in BOOLEAN,
             AddSystem(name, isValid) \/ AddSystemWithController(name, isValid)
      PROVE  PeriodsInv'
  <2>1. (isValid /\ ~IsSystem(name)) \in BOOLEAN
    OBVIOUS
  <2>2. \E isRobotValid \in BOOLEAN : AddSystemWithController(name, isRobotValid)
    BY <1>1, <2>1, Zenon DEF AddSystem
  <2> QED BY <2>2, AddsSystemPeriods
<1>2. ASSUME UNCHANGED <<systems, systemsData, periods>>
      PROVE  PeriodsInv'
  BY <1>2, PeriodsFrame DEF PeriodsInv
<1>3. ASSUME NEW name \in Names, NEW isValid \in BOOLEAN, NEW other \in Names,
             RegisterForceCoupling(name, other, isValid)
      PROVE  PeriodsInv'
  BY <1>2, <1>3 DEF RegisterForceCoupling
<1>4. ASSUME NEW name \in Names, NEW isValid \in BOOLEAN, NEW w \in Windows,
             RegisterForceImpulse(name, w, isValid)
      PROVE  PeriodsInv'
  BY <1>4, RegistersImpulsePeriods
<1>5. ASSUME NEW name \in Names, NEW isValid \in BOOLEAN, NEW p \in Periods,
             RegisterForceProfile(name, p, isValid)
      PROVE  PeriodsInv'
  BY <1>5, RegistersProfilePeriods
<1>6. ASSUME NEW name \in Names, RemoveSystem(name)
      PROVE  PeriodsInv'
  BY <1>6, RemovesSystemPeriods
<1>7. ASSUME NEW name \in Names, RemoveForcesCouplingOf(name)
      PROVE  PeriodsInv'
  BY <1>2, <1>7 DEF RemoveForcesCouplingOf
<1>8. ASSUME NEW name \in Names, RemoveForcesImpulseOf(name)
      PROVE  PeriodsInv'
  BY <1>8, RemovalsPeriods
<1>9. ASSUME NEW name \in Names, RemoveForcesProfileOf(name)
      PROVE  PeriodsInv'
  BY <1>9, RemovesProfilesOfPeriods
<1>10. ASSUME NEW name \in Names, NEW other \in Names, RemoveForcesCoupling(name, other)
       PROVE  PeriodsInv'
  BY <1>2, <1>10 DEF RemoveForcesCoupling
<1>11. CASE RemoveAllForcesCoupling
  BY <1>2, <1>11 DEF RemoveAllForcesCoupling
<1>12. CASE RemoveForcesImpulse \/ RemoveForcesProfile \/ RemoveAllForces
  BY <1>12, RemovalsPeriods
<1>13. ASSUME NEW controller \in Periods, NEW sensors \in Periods,
              SetOptions(controller, sensors)
       PROVE  PeriodsInv'
  BY <1>13, SetsOptionsPeriods
<1>14. CASE (\E isStateValid \in BOOLEAN : Start(isStateValid)) \/ Stop
  BY <1>2, <1>14 DEF Start, Stop, registers
<1>15. ASSUME NEW removeAllForce \in BOOLEAN, Reset(removeAllForce)
       PROVE  PeriodsInv'
  BY <1>15, ResetsPeriods
<1>16. CASE UNCHANGED vars
  BY <1>2, <1>16 DEF vars, registers
<1> QED BY <1>1, <1>3, <1>4, <1>5, <1>6, <1>7, <1>8, <1>9, <1>10, <1>11, <1>12, <1>13,
           <1>14, <1>15, <1>16, Zenon DEF Next

\* With a single system, whatever is registered, removed and set, and in whatever order, the
\* breakpoints of the integration loop are among the updates of every discrete period:
\* the rule of registerForceProfile and setOptions.  With two systems it fails.
THEOREM SingleSystemPeriods ==
    ASSUME MaxSystems <= 1
    PROVE  Spec => []PeriodsAreMultiples
<1>1. Init => PeriodsInv
  BY PeriodsInit
<1>2. RegistersInv /\ PeriodsInv /\ [Next]_vars => PeriodsInv'
  BY PeriodsStep
<1>3. PeriodsInv => PeriodsAreMultiples
  BY Zenon DEF PeriodsInv, PeriodsAreMultiples, AreBreakpointsOf, DiscretePeriods, AllDivided,
        ProfilesOf
<1> QED BY <1>1, <1>2, <1>3, RegistersInvariant, PTL DEF Spec

=============================================================================
