------------------------ MODULE RecoveryExecutorProofs ------------------------
(***************************************************************************)
(* What the journal says of an account, a recorded "flat" and a recovery   *)
(* are right, and restarts renew no attempts, for every size, minimum, lot,*)
(* number of retries, snapshot age and clock.  Positions are sums over the *)
(* fills, so the proofs begin with induction over sets of numbers and what *)
(* it says of sums.                                                        *)
(***************************************************************************)
EXTENDS RecoveryExecutor, FiniteSetTheorems, WellFoundedInduction, TLAPS

-----------------------------------------------------------------------------
(* Induction over the natural numbers, for a set of them. *)

LEMMA Least ==
  ASSUME NEW K \in SUBSET Nat, K # {}
  PROVE  \E m \in K : \A k \in K : m <= k
<1>1. PICK m \in K : \A k \in K : ~(<<k, m>> \in OpToRel(<, Nat))
  BY NatLessThanWellFounded, WFMin
<1>2. \A k \in K : ~(k < m)
  BY <1>1 DEF OpToRel
<1>3. QED
  BY <1>2

LEMMA Induction ==
  ASSUME NEW K \in SUBSET Nat, 0 \in K, \A n \in Nat : n \in K => n + 1 \in K
  PROVE  K = Nat
<1> SUFFICES ASSUME Nat \ K # {} PROVE FALSE
  OBVIOUS
<1>1. PICK m \in Nat \ K : \A k \in Nat \ K : m <= k
  BY Least
<1>2. m # 0 /\ m - 1 \in Nat
  BY <1>1
<1>3. m - 1 \in K
  BY <1>1, <1>2
<1>4. m - 1 + 1 \in K
  BY <1>2, <1>3
<1>5. QED
  BY <1>1, <1>4

\* A nonempty set of bounded numbers has its Max.
LEMMA MaxBounds ==
  ASSUME NEW n \in Nat, NEW S, S \subseteq 0 .. n, S # {}
  PROVE  Max(S) \in S /\ \A s \in S : s <= Max(S)
<1> DEFINE Below == {d \in Nat : n - d \in S}
<1>1. Below \in SUBSET Nat /\ Below # {}
  <2>1. PICK s \in S : s \in 0 .. n
    OBVIOUS
  <2>2. n - s \in Below
    BY <2>1
  <2>3. QED
    BY <2>2
<1>2. PICK d \in Below : \A e \in Below : d <= e
  BY <1>1, Least
<1>3. \A s \in S : n - d >= s
  <2>1. TAKE s \in S
  <2>2. s \in 0 .. n /\ n - s \in Nat /\ n - (n - s) = s
    OBVIOUS
  <2>3. n - s \in Below
    BY <2>2
  <2>4. QED
    BY <1>2, <2>2, <2>3, SMTT(30)
<1>4. n - d \in S /\ S \subseteq Int
  BY <1>2
<1>5. \E m \in S : \A s \in S : m >= s
  BY <1>3, <1>4
<1>6. Max(S) \in S /\ \A s \in S : Max(S) >= s
  BY <1>5 DEF Max
<1>7. QED
  BY <1>4, <1>6

-----------------------------------------------------------------------------
(* Sums.  f is any function whose domain contains the finite sets summed      *)
(* over.                                                                      *)

\* iter[s] is what is added up for the subset s of S.
Adds(f, S, iter) ==
  iter = [s \in SUBSET S |->
            IF s = {} THEN 0
            ELSE f[CHOOSE x \in s : TRUE] + iter[s \ {CHOOSE x \in s : TRUE}]]

LEMMA OneLess ==
  ASSUME NEW s, IsFiniteSet(s), NEW x \in s
  PROVE  IsFiniteSet(s \ {x}) /\ Cardinality(s \ {x}) = Cardinality(s) - 1 /\ Cardinality(s) \in Nat
  BY FS_RemoveElement, FS_CardinalityType

\* Two ways of adding up agree on the sets both know.
LEMMA AddsOnce ==
  ASSUME NEW f, NEW S, IsFiniteSet(S), NEW T, NEW g, NEW h, Adds(f, S, g), Adds(f, T, h)
  PROVE  \A s \in (SUBSET S) \cap (SUBSET T) : g[s] = h[s]
<1> DEFINE Same(n) == \A s \in (SUBSET S) \cap (SUBSET T) : Cardinality(s) = n => g[s] = h[s]
           K == {n \in Nat : Same(n)}
<1>1. \A s \in SUBSET S : IsFiniteSet(s) /\ Cardinality(s) \in Nat
  BY FS_Subset, FS_CardinalityType
<1>2. 0 \in K
  <2>1. \A s \in SUBSET S : Cardinality(s) = 0 => s = {}
    BY <1>1, FS_EmptySet
  <2>2. g[{}] = 0 /\ h[{}] = 0
    BY DEF Adds
  <2>3. QED
    BY <2>1, <2>2
<1>3. ASSUME NEW n \in Nat, n \in K PROVE n + 1 \in K
  <2> SUFFICES ASSUME NEW s \in (SUBSET S) \cap (SUBSET T), Cardinality(s) = n + 1
               PROVE  g[s] = h[s]
    OBVIOUS
  <2>1. s # {}
    BY <1>1, FS_EmptySet
  <2>2. PICK x : x = CHOOSE y \in s : TRUE
    OBVIOUS
  <2>3. x \in s
    BY <2>1, <2>2
  <2>4. s \ {x} \in (SUBSET S) \cap (SUBSET T) /\ Cardinality(s \ {x}) = n
    BY <1>1, <2>3, OneLess
  <2>5. g[s \ {x}] = h[s \ {x}]
    BY <1>3, <2>4
  <2>6. g[s] = f[x] + g[s \ {x}]
    BY <2>1, <2>2 DEF Adds
  <2>7. h[s] = f[x] + h[s \ {x}]
    <3>1. s \in SUBSET T
      OBVIOUS
    <3>2. h = [t \in SUBSET T |->
                IF t = {} THEN 0
                ELSE f[CHOOSE y \in t : TRUE] + h[t \ {CHOOSE y \in t : TRUE}]]
      BY Zenon DEF Adds
    <3>3. QED
      BY <2>1, <2>2, <3>1, <3>2
  <2>8. QED
    BY <2>5, <2>6, <2>7
<1>4. K = Nat
  <2> HIDE DEF K
  <2>1. K \in SUBSET Nat
    BY DEF K
  <2>2. QED
    BY <1>2, <1>3, <2>1, Induction
<1>5. QED
  BY <1>1, <1>4

\* Every finite set can be added up.
LEMMA AddsExists ==
  ASSUME NEW f, NEW S, IsFiniteSet(S)
  PROVE  \E iter : Adds(f, S, iter)
<1> DEFINE Upto(n, g) ==
             g = [s \in SUBSET S |->
                    IF s = {} \/ Cardinality(s) > n THEN 0
                    ELSE f[CHOOSE x \in s : TRUE] + g[s \ {CHOOSE x \in s : TRUE}]]
           K == {n \in Nat : \E g : Upto(n, g)}
<1>1. \A s \in SUBSET S : IsFiniteSet(s) /\ Cardinality(s) \in Nat
  BY FS_Subset, FS_CardinalityType
<1>2. 0 \in K
  <2>1. \A s \in SUBSET S : s # {} => Cardinality(s) > 0
    BY <1>1, FS_EmptySet
  <2>2. Upto(0, [s \in SUBSET S |-> 0])
    BY <2>1
  <2>3. QED
    BY <2>2
<1>3. ASSUME NEW n \in Nat, n \in K PROVE n + 1 \in K
  <2>1. PICK g : Upto(n, g)
    BY <1>3
  <2> DEFINE h == [s \in SUBSET S |->
                     IF s = {} \/ Cardinality(s) > n + 1 THEN 0
                     ELSE f[CHOOSE x \in s : TRUE] + g[s \ {CHOOSE x \in s : TRUE}]]
  <2>2. ASSUME NEW s \in SUBSET S, Cardinality(s) <= n PROVE h[s] = g[s]
    <3>1. Cardinality(s) \in Nat /\ ~(Cardinality(s) > n + 1) /\ ~(Cardinality(s) > n)
      BY <1>1, <2>2
    <3>2. h[s] = IF s = {} THEN 0
                 ELSE f[CHOOSE x \in s : TRUE] + g[s \ {CHOOSE x \in s : TRUE}]
      BY <3>1
    <3>3. g[s] = IF s = {} THEN 0
                 ELSE f[CHOOSE x \in s : TRUE] + g[s \ {CHOOSE x \in s : TRUE}]
      BY <2>1, <3>1
    <3>4. QED
      BY <3>2, <3>3
  <2>3. ASSUME NEW s \in SUBSET S, s # {}, ~(Cardinality(s) > n + 1)
        PROVE  h[s \ {CHOOSE x \in s : TRUE}] = g[s \ {CHOOSE x \in s : TRUE}]
    <3>1. PICK x : x = CHOOSE y \in s : TRUE
      OBVIOUS
    <3>2. x \in s
      BY <2>3, <3>1
    <3>3. s \ {x} \in SUBSET S /\ Cardinality(s \ {x}) = Cardinality(s) - 1 /\ Cardinality(s) \in Nat
      BY <1>1, <3>2, OneLess
    <3>4. Cardinality(s \ {x}) <= n
      BY <2>3, <3>3
    <3>5. h[s \ {x}] = g[s \ {x}]
      BY <2>2, <3>3, <3>4
    <3>6. QED
      BY <3>1, <3>5
  <2>4. \A s \in SUBSET S :
          h[s] = IF s = {} \/ Cardinality(s) > n + 1 THEN 0
                 ELSE f[CHOOSE x \in s : TRUE] + h[s \ {CHOOSE x \in s : TRUE}]
    <3>1. TAKE s \in SUBSET S
    <3>2. CASE s = {} \/ Cardinality(s) > n + 1
      BY <3>2
    <3>3. CASE s # {} /\ ~(Cardinality(s) > n + 1)
      <4>1. h[s] = f[CHOOSE x \in s : TRUE] + g[s \ {CHOOSE x \in s : TRUE}]
        BY <3>3
      <4>2. h[s \ {CHOOSE x \in s : TRUE}] = g[s \ {CHOOSE x \in s : TRUE}]
        BY <2>3, <3>3
      <4>3. QED
        BY <3>3, <4>1, <4>2
    <3>4. QED
      BY <3>2, <3>3
  <2>5. h = [s \in SUBSET S |-> h[s]]
    OBVIOUS
  <2> HIDE DEF h
  <2>6. Upto(n + 1, h)
    BY <2>4, <2>5
  <2> HIDE DEF Upto
  <2>7. QED
    BY <2>6
<1>4. K = Nat
  <2> HIDE DEF K
  <2>1. K \in SUBSET Nat
    BY DEF K
  <2>2. QED
    BY <1>2, <1>3, <2>1, Induction
<1>5. PICK g : Upto(Cardinality(S), g)
  <2> HIDE DEF Upto
  <2>1. Cardinality(S) \in K
    BY <1>1, <1>4
  <2>2. QED
    BY <2>1
<1>6. \A s \in SUBSET S : ~(Cardinality(s) > Cardinality(S))
  BY <1>1, FS_Subset
<1>7. Adds(f, S, g)
  BY <1>5, <1>6 DEF Adds
<1>8. QED
  BY <1>7

LEMMA SumAdds ==
  ASSUME NEW f, NEW S, IsFiniteSet(S)
  PROVE  \E iter : Adds(f, S, iter) /\ SumFunctionOnSet(f, S) = iter[S]
<1>1. \E iter : Adds(f, S, iter)
  BY AddsExists
<1>2. QED
  BY <1>1 DEF Adds, SumFunctionOnSet, FoldFunctionOnSet, MapThenFoldSet

LEMMA SumEmpty == ASSUME NEW f PROVE SumFunctionOnSet(f, {}) = 0
<1>1. IsFiniteSet({})
  BY FS_EmptySet
<1>2. PICK iter : Adds(f, {}, iter) /\ SumFunctionOnSet(f, {}) = iter[{}]
  BY <1>1, SumAdds
<1>3. QED
  BY <1>2 DEF Adds

\* What a sum takes off first depends on the set alone.
Taken(S) == CHOOSE x \in S : TRUE

LEMMA SumTakes ==
  ASSUME NEW f, NEW S, IsFiniteSet(S), S # {}
  PROVE  /\ Taken(S) \in S
         /\ SumFunctionOnSet(f, S) = f[Taken(S)] + SumFunctionOnSet(f, S \ {Taken(S)})
<1>1. PICK x : x = Taken(S)
  OBVIOUS
<1>2. x \in S /\ IsFiniteSet(S \ {x})
  BY <1>1, OneLess DEF Taken
<1>3. PICK g : Adds(f, S, g) /\ SumFunctionOnSet(f, S) = g[S]
  BY SumAdds
<1>4. PICK h : Adds(f, S \ {x}, h) /\ SumFunctionOnSet(f, S \ {x}) = h[S \ {x}]
  BY <1>2, SumAdds
<1>5. g[S \ {x}] = h[S \ {x}]
  <2>1. S \ {x} \in (SUBSET S) \cap SUBSET (S \ {x})
    OBVIOUS
  <2>2. QED
    BY <1>3, <1>4, <2>1, AddsOnce
<1>6. g[S] = f[x] + g[S \ {x}]
  BY <1>1, <1>3 DEF Adds, Taken
<1>7. QED
  BY <1>1, <1>2, <1>3, <1>4, <1>5, <1>6

\* The sum of differences is the difference of the sums.
LEMMA SumDifference ==
  ASSUME NEW S, IsFiniteSet(S), NEW f, NEW g, NEW h,
         \A x \in S : f[x] \in Int /\ g[x] \in Int /\ h[x] = f[x] - g[x]
  PROVE  /\ SumFunctionOnSet(f, S) \in Int /\ SumFunctionOnSet(g, S) \in Int
         /\ SumFunctionOnSet(h, S) = SumFunctionOnSet(f, S) - SumFunctionOnSet(g, S)
<1> DEFINE Differ(s) ==
             /\ SumFunctionOnSet(f, s) \in Int /\ SumFunctionOnSet(g, s) \in Int
             /\ SumFunctionOnSet(h, s) = SumFunctionOnSet(f, s) - SumFunctionOnSet(g, s)
           K == {n \in Nat : \A s \in SUBSET S : Cardinality(s) = n => Differ(s)}
<1>1. \A s \in SUBSET S : IsFiniteSet(s) /\ Cardinality(s) \in Nat
  BY FS_Subset, FS_CardinalityType
<1>2. 0 \in K
  <2>1. \A s \in SUBSET S : Cardinality(s) = 0 => s = {}
    BY <1>1, FS_EmptySet
  <2>2. Differ({})
    BY SumEmpty
  <2> HIDE DEF Differ
  <2>3. QED
    BY <2>1, <2>2
<1>3. ASSUME NEW n \in Nat, n \in K PROVE n + 1 \in K
  <2>1. ASSUME NEW s \in SUBSET S, Cardinality(s) = n + 1 PROVE Differ(s)
    <3>1. s # {} /\ IsFiniteSet(s)
      BY <1>1, <2>1, FS_EmptySet
    <3>2. PICK x : x = Taken(s)
      OBVIOUS
    <3>3. x \in s
      BY <3>1, <3>2, SumTakes
    <3>4. s \ {x} \in SUBSET S /\ Cardinality(s \ {x}) = n
      BY <2>1, <3>1, <3>3, OneLess
    <3>5. Differ(s \ {x})
      <4> HIDE DEF Differ
      <4>1. QED
        BY <1>3, <3>4
    <3>6. /\ SumFunctionOnSet(f, s) = f[x] + SumFunctionOnSet(f, s \ {x})
          /\ SumFunctionOnSet(g, s) = g[x] + SumFunctionOnSet(g, s \ {x})
          /\ SumFunctionOnSet(h, s) = h[x] + SumFunctionOnSet(h, s \ {x})
      BY <3>1, <3>2, SumTakes
    <3>7. f[x] \in Int /\ g[x] \in Int /\ h[x] = f[x] - g[x]
      BY <3>3
    <3>8. QED
      BY <3>5, <3>6, <3>7
  <2> HIDE DEF Differ
  <2>2. QED
    BY <2>1
<1>4. K = Nat
  <2> HIDE DEF K
  <2>1. K \in SUBSET Nat
    BY DEF K
  <2>2. QED
    BY <1>2, <1>3, <2>1, Induction
<1>5. Differ(S)
  <2> HIDE DEF Differ
  <2>1. S \in SUBSET S /\ Cardinality(S) \in K
    BY <1>1, <1>4
  <2>2. QED
    BY <2>1
<1>6. QED
  BY <1>5

-----------------------------------------------------------------------------
(* What the actions do to the log and to the orders at the venue, order by    *)
(* order.                                                                     *)

LEMMA Elements ==
  ASSUME NEW T, NEW l \in Seq(T)
  PROVE  DOMAIN l = 1 .. Len(l) /\ \A i \in DOMAIN l : l[i] \in T
  OBVIOUS

LEMMA AppendElements ==
  ASSUME NEW T, NEW l \in Seq(T), NEW o \in T
  PROVE  /\ Append(l, o) \in Seq(T) /\ Len(Append(l, o)) = Len(l) + 1
         /\ DOMAIN Append(l, o) = DOMAIN l \cup {Len(l) + 1}
         /\ Len(l) + 1 \notin DOMAIN l
         /\ \A i \in DOMAIN l : Append(l, o)[i] = l[i]
         /\ Append(l, o)[Len(l) + 1] = o
  OBVIOUS

LEMMA ReplaceElement ==
  ASSUME NEW T, NEW l \in Seq(T), NEW i \in DOMAIN l, NEW o \in T
  PROVE  /\ [l EXCEPT ![i] = o] \in Seq(T) /\ Len([l EXCEPT ![i] = o]) = Len(l)
         /\ DOMAIN [l EXCEPT ![i] = o] = DOMAIN l
         /\ \A j \in DOMAIN l : [l EXCEPT ![i] = o][j] = IF j = i THEN o ELSE l[j]
  OBVIOUS

\* The order changes its status, the others nothing.
Touched(i, how) ==
  /\ i \in DOMAIN log /\ DOMAIN log' = DOMAIN log
  /\ \A j \in DOMAIN log : log'[j] = IF j = i THEN [log[i] EXCEPT !.status = how] ELSE log[j]

Moved(i, st) ==
  /\ i \in DOMAIN sent /\ DOMAIN sent' = DOMAIN sent
  /\ \A j \in DOMAIN sent : sent'[j] = IF j = i THEN st ELSE sent[j]

\* What may have become of an order at the venue.
Fates == {"no", "wire", "live"} \cup Terminal

LEMMA Domains ==
  ASSUME Shapes
  PROVE  /\ DOMAIN log = DOMAIN sent /\ DOMAIN log = 1 .. Len(log) /\ Len(log) \in Nat
         /\ \A i \in DOMAIN log : log[i] \in Order /\ sent[i] \in Fates
  BY DEF Shapes, Fates

\* The latest event is never of the future.
LEMMA LaterBounds ==
  ASSUME Shapes, NEW at \in 0 .. now, now \in 0 .. MaxTime
  PROVE  Later(at) \in 0 .. now /\ Later(at) >= latest /\ Later(at) >= at
  BY DEF Later, Shapes

\* An order is placed: the entry, as the first, or a close of what is left, when
\* the attempts or early_stop allow it.
LEMMA BeginEffect ==
  ASSUME Shapes, now \in 0 .. MaxTime, Enter \/ Exit \/ EarlyStop
  PROVE  \E o \in Order :
           /\ o.status = "pending"
           /\ o.side = IF o.role = "entry" THEN 1 ELSE -1
           /\ o.role = "entry" => DOMAIN log = {}
           /\ o.role = "close" => Pending = {} /\ (~Exhausted \/ status = "stopping")
           /\ log' = Append(log, o) /\ sent' = Append(sent, "no")
           /\ flatAt' = NoVerdict
           /\ UNCHANGED <<fills, last, latest, now, required, opening, closing, trades, snapshot>>
           /\ status' \in {status, "shutting_down"} /\ status' # "stopping"
           /\ stops' = IF status = "stopping" THEN stops + 1 ELSE stops
<1>1. CASE Enter
  <2>1. [role |-> "entry", side |-> 1, lots |-> Lots, status |-> "pending"] \in Order
    BY RecoveryAssumption DEF Order, Statuses
  <2>2. DOMAIN log = {}
    BY <1>1 DEF Enter, Begin, Orders
  <2>3. QED
    BY <1>1, <2>1, <2>2 DEF Enter, Begin, Intend
<1>2. CASE Exit \/ EarlyStop
  <2>1. /\ Pending = {} /\ AmountToClose \in Int /\ Begin("close", -1, AmountToClose)
        /\ ~Exhausted \/ status = "stopping"
        /\ status' = "shutting_down"
        /\ stops' = IF status = "stopping" THEN stops + 1 ELSE stops
    BY <1>2 DEF Exit, EarlyStop, Begin, Turn, Handling
  <2>2. [role |-> "close", side |-> -1, lots |-> AmountToClose, status |-> "pending"] \in Order
    BY <2>1 DEF Order, Statuses
  <2>3. QED
    BY <2>1, <2>2 DEF Begin, Intend
<1>3. QED
  BY <1>1, <1>2

LEMMA PlacedEffect ==
  ASSUME Shapes, Placed
  PROVE  \E i \in Pending :
           /\ Touched(i, "working") /\ log' \in Seq(Order) /\ Len(log') = Len(log)
           /\ Moved(i, "wire") /\ sent' \in Seq(Fates) /\ Len(sent') = Len(sent)
           /\ closing' = IF log[i].role = "close" THEN i ELSE closing
           /\ opening' = IF log[i].role = "entry" THEN i ELSE opening
           /\ latest' = Later(now)
           /\ UNCHANGED <<fills, flatAt, last, now, required, status, stops, trades, snapshot>>
<1>1. PICK i \in Pending :
        /\ Acknowledge(i, now)
        /\ sent' = [sent EXCEPT ![i] = "wire"]
        /\ closing' = IF log[i].role = "close" THEN i ELSE closing
        /\ opening' = IF log[i].role = "entry" THEN i ELSE opening
  BY DEF Placed
<1>2. i \in DOMAIN log /\ i \in DOMAIN sent /\ log[i] \in Order
  BY <1>1, Domains DEF Pending
<1>3. log' = [log EXCEPT ![i] = [log[i] EXCEPT !.status = "working"]]
  BY <1>1, <1>2 DEF Acknowledge
<1>4. [log[i] EXCEPT !.status = "working"] \in Order
  BY <1>2 DEF Order, Statuses
<1>5. latest' = Later(now)
  BY <1>1 DEF Acknowledge
<1>6. log \in Seq(Order) /\ sent \in Seq(Fates) /\ "wire" \in Fates
  BY DEF Shapes, Fates
<1>7. Touched(i, "working") /\ log' \in Seq(Order) /\ Len(log') = Len(log)
  BY <1>2, <1>3, <1>4, <1>6, ReplaceElement DEF Touched
<1>8. Moved(i, "wire") /\ sent' \in Seq(Fates) /\ Len(sent') = Len(sent)
  BY <1>1, <1>2, <1>6, ReplaceElement DEF Moved
<1>9. QED
  BY <1>1, <1>5, <1>7, <1>8 DEF Placed, Acknowledge

LEMMA EndsEffect ==
  ASSUME Shapes, now \in 0 .. MaxTime, NEW i, NEW how \in Terminal, Ends(i, how)
  PROVE  /\ Touched(i, how) /\ log' \in Seq(Order) /\ Len(log') = Len(log)
         /\ i \in Orders /\ flatAt' = NoVerdict /\ latest' = Later(now)
         /\ closing' \in {0, closing}
         /\ status # "stopping" /\ status' \in {status, "shutting_down", "stopping"}
         /\ status' = "stopping" => opening = i
         /\ UNCHANGED <<fills, last, now, required, opening, stops, trades, snapshot>>
<1>1. i \in DOMAIN log /\ i \in Orders /\ log[i] \in Order
  BY Domains DEF Ends, SetStatus, Orders
<1>2. log' = [log EXCEPT ![i] = [log[i] EXCEPT !.status = how]]
  BY <1>1 DEF Ends, SetStatus
<1>3. [log[i] EXCEPT !.status = how] \in Order
  BY <1>1 DEF Order, Statuses
<1>4. log \in Seq(Order)
  BY DEF Shapes
<1>5. Touched(i, how) /\ log' \in Seq(Order) /\ Len(log') = Len(log)
  BY <1>1, <1>2, <1>3, <1>4, ReplaceElement DEF Touched
<1>6. QED
  BY <1>1, <1>5 DEF Ends, SetStatus, Handling

\* The venue, or the way to it, changes the state of an order.
LEMMA SentEffect ==
  ASSUME Shapes, NEW i \in DOMAIN log, NEW st \in Fates, sent' = [sent EXCEPT ![i] = st]
  PROVE  Moved(i, st) /\ sent' \in Seq(Fates) /\ Len(sent') = Len(sent)
<1>1. sent \in Seq(Fates) /\ i \in DOMAIN sent
  BY Domains DEF Shapes, Fates
<1>2. QED
  BY <1>1, ReplaceElement DEF Moved

-----------------------------------------------------------------------------
(* Typing *)

\* A step that leaves the log, the fills and the trades alone.
LEMMA TypedAside ==
  ASSUME TypeOK, Shapes, UNCHANGED <<log, fills, latest, trades>>,
         now' \in 0 .. MaxTime, now <= now', required' \in BOOLEAN, closing' \in {0} \cup Closes,
         status' \in {"running", "stopping", "shutting_down", "closed"},
         opening' \in {0} \cup Orders, stops' \in Nat,
         sent' \in Seq(Fates), Len(sent') = Len(sent), flatAt' \in {NoVerdict, last'}
  PROVE  TypeOK' /\ Shapes'
<1>1. now \in 0 .. MaxTime
  BY DEF TypeOK
<1>2. Closes' = Closes /\ Orders' = Orders
  BY DEF Closes, Orders, Pending
<1>3. DOMAIN sent' = DOMAIN log' /\ \A i \in DOMAIN log' : sent'[i] \in Fates
  BY DEF Shapes
<1>4. TypeOK'
  BY <1>2, <1>3 DEF TypeOK, Fates
<1>5. latest' \in 0 .. now' /\ \A t \in trades' : t.at \in 0 .. now'
  <2>1. latest \in 0 .. now
    BY DEF Shapes
  <2>2. \A t \in trades : t.at \in 0 .. now
    BY DEF Shapes
  <2>3. QED
    BY <1>1, <2>1, <2>2
<1>6. Shapes'
  BY <1>2, <1>5 DEF Shapes, Fates
<1>7. QED
  BY <1>4, <1>6

\* The closing order taken up again after a restart is one of the log, or none.
LEMMA ClosingTyped ==
  ASSUME Shapes
  PROVE  Max({0} \cup (Closes \cap Working)) \in {0} \cup Closes
<1>1. {0} \cup (Closes \cap Working) \subseteq 0 .. Len(log) /\ Len(log) \in Nat
  BY Domains DEF Closes, Orders
<1>2. QED
  BY <1>1, MaxBounds

LEMMA TypedStep ==
  ASSUME TypeOK, Shapes, Next
  PROVE  TypeOK' /\ Shapes'
<1>0. now \in 0 .. MaxTime /\ sent \in Seq(Fates)
  BY DEF TypeOK, Shapes, Fates
<1>1. CASE Enter \/ Exit \/ EarlyStop
  <2>1. PICK o \in Order :
           /\ o.status = "pending"
           /\ o.side = IF o.role = "entry" THEN 1 ELSE -1
           /\ log' = Append(log, o) /\ sent' = Append(sent, "no")
           /\ flatAt' = NoVerdict
           /\ UNCHANGED <<fills, last, latest, now, required, opening, closing, trades, snapshot>>
           /\ status' \in {status, "shutting_down"}
           /\ stops' = IF status = "stopping" THEN stops + 1 ELSE stops
    BY <1>0, <1>1, BeginEffect
  <2>2. /\ log' \in Seq(Order) /\ Len(log') = Len(log) + 1
        /\ DOMAIN log' = DOMAIN log \cup {Len(log) + 1} /\ Len(log) + 1 \notin DOMAIN log
        /\ \A i \in DOMAIN log : log'[i] = log[i]
        /\ log'[Len(log) + 1] = o
    BY <2>1, AppendElements DEF Shapes
  <2>3. sent' \in Seq(Fates) /\ Len(sent') = Len(sent) + 1
    <3>1. "no" \in Fates
      BY DEF Fates
    <3>2. QED
      BY <1>0, <2>1, <3>1, AppendElements
  <2>4. Orders' = Orders /\ Closes' = Closes
    BY <2>1, <2>2 DEF Orders, Pending, Closes
  <2>5. Len(sent') = Len(log')
    BY <2>2, <2>3 DEF Shapes
  <2>6. DOMAIN sent' = DOMAIN log' /\ \A i \in DOMAIN log' : sent'[i] \in Fates /\ log'[i] \in Order
    <3>1. DOMAIN sent' = 1 .. Len(sent') /\ \A i \in DOMAIN sent' : sent'[i] \in Fates
      BY <2>3, Elements
    <3>2. DOMAIN log' = 1 .. Len(log') /\ \A i \in DOMAIN log' : log'[i] \in Order
      BY <2>2, Elements
    <3>3. DOMAIN sent' = DOMAIN log'
      BY <2>5, <3>1, <3>2
    <3>4. QED
      BY <3>1, <3>2, <3>3
  <2>7. \A i \in DOMAIN log' : log'[i].side = IF log'[i].role = "entry" THEN 1 ELSE -1
    BY <1>0, <2>1, <2>2 DEF Shapes
  <2>8. TypeOK'
    BY <2>1, <2>4, <2>6 DEF TypeOK, Fates, Order, Statuses
  <2>9. Shapes'
    BY <2>1, <2>2, <2>3, <2>4, <2>5, <2>7 DEF Shapes, Fates
  <2>10. QED
    BY <2>8, <2>9
<1>2. CASE Placed
  <2>1. PICK i \in Pending :
           /\ Touched(i, "working") /\ log' \in Seq(Order) /\ Len(log') = Len(log)
           /\ sent' \in Seq(Fates) /\ Len(sent') = Len(sent)
           /\ closing' = IF log[i].role = "close" THEN i ELSE closing
           /\ opening' = IF log[i].role = "entry" THEN i ELSE opening
           /\ latest' = Later(now)
           /\ UNCHANGED <<fills, flatAt, last, now, required, status, stops, trades, snapshot>>
    BY <1>2, PlacedEffect
  <2>2. /\ \A j \in DOMAIN log : log[j] \in Order
        /\ \A j \in DOMAIN log : log'[j].role = log[j].role /\ log'[j].side = log[j].side
        /\ latest' \in 0 .. now'
    <3>1. /\ \A j \in DOMAIN log : log[j] \in Order
          /\ \A j \in DOMAIN log : log'[j].role = log[j].role /\ log'[j].side = log[j].side
      BY <2>1, Domains, ZenonT(30) DEF Touched, Order
    <3>2. now \in 0 .. now
      BY <1>0
    <3>3. Later(now) \in 0 .. now
      BY <1>0, <3>2, LaterBounds
    <3>4. QED
      BY <2>1, <3>1, <3>3
  <2>3. Orders' = Orders \cup {i} /\ log'[i].status = "working"
    BY <2>1, <2>2, ZenonT(30) DEF Touched, Orders, Pending, Order
  <2>4. /\ Closes \subseteq Closes' /\ closing' \in {0} \cup Closes'
        /\ opening' \in {0} \cup Orders'
    BY <2>1, <2>2, <2>3 DEF Closes, TypeOK, Touched, Orders
  <2>5. DOMAIN sent' = DOMAIN log' /\ \A j \in DOMAIN log' : sent'[j] \in Fates /\ log'[j] \in Order
    BY <2>1 DEF Shapes
  <2>6. TypeOK'
    BY <2>1, <2>4, <2>5 DEF TypeOK, Fates, Order, Statuses
  <2>7. Shapes'
    BY <2>1, <2>2, <2>3 DEF Shapes, Fates, Touched
  <2>8. QED
    BY <2>6, <2>7
<1>3. ASSUME NEW i \in DOMAIN log, OnEnd(i) \/ OnFail(i)
      PROVE  TypeOK' /\ Shapes'
  <2>1. PICK how \in Terminal : Ends(i, how)
    BY <1>3 DEF OnEnd, OnFail, Terminal
  <2>2. /\ Touched(i, how) /\ log' \in Seq(Order) /\ Len(log') = Len(log)
        /\ i \in Orders /\ flatAt' = NoVerdict
        /\ closing' \in {0, closing} /\ status' \in {status, "shutting_down", "stopping"}
        /\ latest' = Later(now)
        /\ UNCHANGED <<fills, last, now, required, opening, stops, trades, snapshot>>
    BY <1>0, <2>1, EndsEffect
  <2>3. sent' \in Seq(Fates) /\ Len(sent') = Len(sent)
    <3>1. CASE OnEnd(i)
      BY <1>0, <3>1 DEF OnEnd
    <3>2. CASE OnFail(i)
      <4>1. PICK fate \in {"failed", "live", sent[i]} : sent' = [sent EXCEPT ![i] = fate]
        BY <1>0, <3>2, Domains DEF OnFail
      <4>2. fate \in Fates
        BY Domains DEF Fates, Terminal
      <4>3. QED
        BY <4>1, <4>2, SentEffect
    <3>3. QED
      BY <1>3, <3>1, <3>2
  <2>4. \A j \in DOMAIN log : /\ log'[j].role = log[j].role /\ log'[j].side = log[j].side
                              /\ log'[j].status = IF j = i THEN how ELSE log[j].status
    BY <2>2, Domains, ZenonT(30) DEF Touched, Order
  <2>5. Orders' = Orders /\ Closes' = Closes
    <3>1. how # "pending"
      BY DEF Terminal
    <3>2. Orders' = Orders
      BY <2>2, <2>4, <3>1 DEF Touched, Orders, Pending
    <3>3. QED
      BY <2>2, <2>4, <3>2 DEF Closes, Orders, Touched
  <2>6. DOMAIN sent' = DOMAIN log' /\ \A j \in DOMAIN log' : sent'[j] \in Fates /\ log'[j] \in Order
    BY <2>2, <2>3 DEF Shapes
  <2>7. TypeOK'
    BY <2>2, <2>5, <2>6 DEF TypeOK, Fates, Order, Statuses
  <2>8. /\ \A j \in DOMAIN log' : log'[j].side = IF log'[j].role = "entry" THEN 1 ELSE -1
        /\ latest' \in 0 .. now'
    <3>1. now \in 0 .. now
      BY <1>0
    <3>2. Later(now) \in 0 .. now
      BY <1>0, <3>1, LaterBounds
    <3>3. QED
      BY <1>0, <2>2, <2>4, <3>2 DEF Shapes, Touched
  <2>9. Shapes'
    BY <2>2, <2>3, <2>5, <2>8 DEF Shapes, Fates, Touched
  <2>10. QED
    BY <2>7, <2>9
<1>4. ASSUME NEW t \in trades, OnFill(t)
      PROVE  TypeOK' /\ Shapes'
  <2>1. /\ t \in trades /\ t.order \in Orders /\ fills' = fills \cup {t}
        /\ flatAt' \in {flatAt, NoVerdict} /\ required' \in BOOLEAN
        /\ latest' \in {latest, Later(t.at)}
        /\ UNCHANGED <<log, last, now, status, opening, closing, stops, venue, snapshot>>
    BY <1>4 DEF OnFill, Record, TypeOK
  <2>2. Orders' = Orders /\ Closes' = Closes
    BY <2>1 DEF Orders, Pending, Closes
  <2>3. TypeOK'
    BY <2>1, <2>2 DEF TypeOK, venue
  <2>4. Shapes'
    <3>1. t.at \in 0 .. now
      BY DEF Shapes
    <3>2. latest' \in 0 .. now'
      BY <1>0, <2>1, <3>1, LaterBounds DEF Shapes
    <3>3. QED
      BY <2>1, <2>2, <3>2 DEF Shapes, venue
  <2>5. QED
    BY <2>3, <2>4
<1>5. ASSUME NEW i \in DOMAIN log, Trade(i)
      PROVE  TypeOK' /\ Shapes'
  <2>1. PICK lots \in 1 .. Left(i) :
          /\ trades' = trades \cup {[order |-> i, n |-> Left(i), lots |-> lots, at |-> now]}
          /\ sent' = [sent EXCEPT ![i] = IF lots = Left(i) THEN "filled" ELSE "live"]
    BY <1>5 DEF Trade
  <2>2. UNCHANGED <<log, fills, flatAt, last, latest, now, required, status, opening, closing, stops, snapshot>>
    BY <1>5 DEF Trade, journal, executor
  <2>3. sent' \in Seq(Fates) /\ Len(sent') = Len(sent)
    <3>1. (IF lots = Left(i) THEN "filled" ELSE "live") \in Fates
      BY DEF Fates, Terminal
    <3>2. QED
      BY <2>1, <3>1, SentEffect
  <2>4. lots \in Int /\ Orders' = Orders /\ Closes' = Closes
    BY <2>2 DEF Orders, Pending, Closes
  <2>5. DOMAIN sent' = DOMAIN log' /\ \A j \in DOMAIN log' : sent'[j] \in Fates
    BY <2>2, <2>3 DEF Shapes
  <2>6. TypeOK'
    BY <2>1, <2>2, <2>4, <2>5 DEF TypeOK, Fates
  <2>7. IsFiniteSet(trades')
    BY <2>1, FS_AddElement DEF Shapes
  <2>8. PICK new : trades' = trades \cup {new} /\ new.order = i /\ new.lots = lots /\ new.at = now
    <3>1. PICK new : new = [order |-> i, n |-> Left(i), lots |-> lots, at |-> now]
      OBVIOUS
    <3>2. new.order = i /\ new.lots = lots /\ new.at = now
      BY <3>1
    <3>3. QED
      BY <2>1, <3>1, <3>2
  <2>9. \A t \in trades' : t.order \in DOMAIN log' /\ t.lots \in Int /\ t.at \in 0 .. now'
    BY <1>0, <2>2, <2>4, <2>8 DEF Shapes
  <2>10. Shapes'
    BY <2>2, <2>3, <2>4, <2>7, <2>9 DEF Shapes, Fates
  <2>11. QED
    BY <2>6, <2>10
<1>6. CASE Hold \/ Residue \/ Finish \/ Forget
  <2>1. /\ UNCHANGED <<log, fills, flatAt, last, latest, trades, sent, now>>
        /\ required' \in {required, TRUE} /\ closing' \in {0, closing}
        /\ status' \in {status, "shutting_down", "closed"} /\ UNCHANGED <<opening, stops>>
    BY <1>6 DEF Hold, Residue, Finish, Forget, journal, venue
  <2>2. /\ required' \in BOOLEAN /\ closing' \in {0} \cup Closes
        /\ status' \in {"running", "stopping", "shutting_down", "closed"}
        /\ opening' \in {0} \cup Orders /\ stops' \in Nat
    BY <2>1 DEF TypeOK
  <2>3. /\ sent' \in Seq(Fates) /\ Len(sent') = Len(sent)
        /\ flatAt' \in {NoVerdict, last'} /\ now' \in 0 .. MaxTime /\ now <= now'
    BY <1>0, <2>1 DEF TypeOK
  <2>4. QED
    BY <2>1, <2>2, <2>3, TypedAside
<1>7. CASE Raised
  <2>1. PICK i \in Pending : sent' = [sent EXCEPT ![i] = "wire"]
    BY <1>7 DEF Raised
  <2>2. sent' \in Seq(Fates) /\ Len(sent') = Len(sent)
    <3>1. "wire" \in Fates /\ i \in DOMAIN log
      BY DEF Fates, Pending
    <3>2. QED
      BY <2>1, <3>1, SentEffect
  <2>3. /\ UNCHANGED <<log, fills, flatAt, last, latest, now, status, opening, closing, stops, trades>>
        /\ required' = TRUE
    BY <1>7 DEF Raised, journal
  <2>4. QED
    BY <1>0, <2>2, <2>3, TypedAside DEF TypeOK
<1>8. CASE Restart
  <2>1. sent' \in Seq(Fates) /\ Len(sent') = Len(sent)
    <3>1. CASE Sending
      <4>1. PICK i \in Pending : sent' = [sent EXCEPT ![i] = "wire"]
        BY <1>8, <3>1 DEF Restart
      <4>2. "wire" \in Fates /\ i \in DOMAIN log
        BY DEF Fates, Pending
      <4>3. QED
        BY <4>1, <4>2, SentEffect
    <3>2. CASE ~Sending
      BY <1>0, <1>8, <3>2 DEF Restart
    <3>3. QED
      BY <3>1, <3>2
  <2>2. /\ UNCHANGED <<log, fills, flatAt, last, latest, now, trades>>
        /\ required' \in BOOLEAN /\ status' = "running" /\ opening' = 0 /\ stops' = stops
        /\ closing' = Max({0} \cup (Closes \cap Working))
    BY <1>8 DEF Restart, journal, Blocking
  <2>3. closing' \in {0} \cup Closes
    BY <2>2, ClosingTyped
  <2>4. QED
    BY <1>0, <2>1, <2>2, <2>3, TypedAside DEF TypeOK
<1>9. CASE Resume
  <2>1. /\ UNCHANGED <<log, fills, latest, now, trades, sent, opening, closing, stops>>
        /\ flatAt' \in {NoVerdict, last'} /\ required' \in {required, FALSE}
        /\ status' \in {status, "shutting_down"}
    BY <1>9 DEF Resume, Reconcile, venue
  <2>2. /\ required' \in BOOLEAN /\ closing' \in {0} \cup Closes
        /\ status' \in {"running", "stopping", "shutting_down", "closed"}
        /\ opening' \in {0} \cup Orders /\ stops' \in Nat
    BY <2>1 DEF TypeOK
  <2>3. /\ sent' \in Seq(Fates) /\ Len(sent') = Len(sent)
        /\ now' \in 0 .. MaxTime /\ now <= now'
    BY <1>0, <2>1
  <2>4. QED
    BY <2>1, <2>2, <2>3, TypedAside
<1>10. CASE TakeSnapshot
  <2>1. UNCHANGED <<log, fills, flatAt, last, latest, now, trades, sent, required, status, opening, closing, stops>>
    BY <1>10 DEF TakeSnapshot, journal, executor, venue
  <2>2. QED
    BY <1>0, <2>1, TypedAside DEF TypeOK
<1>11. CASE Advance
  <2>1. /\ UNCHANGED <<log, fills, flatAt, last, latest, trades, sent, required, status, opening, closing, stops>>
        /\ now' \in 0 .. MaxTime /\ now <= now'
    BY <1>0, <1>11, RecoveryAssumption DEF Advance, journal, executor, venue
  <2>2. QED
    BY <1>0, <2>1, TypedAside DEF TypeOK
<1>12. ASSUME NEW i \in DOMAIN log, Accept(i) \/ Cancel(i)
       PROVE  TypeOK' /\ Shapes'
  <2>1. PICK st \in {"live", "canceled"} : sent' = [sent EXCEPT ![i] = st]
    BY <1>12 DEF Accept, Cancel
  <2>2. sent' \in Seq(Fates) /\ Len(sent') = Len(sent)
    <3>1. st \in Fates
      BY DEF Fates, Terminal
    <3>2. QED
      BY <2>1, <3>1, SentEffect
  <2>3. UNCHANGED <<log, fills, flatAt, last, latest, now, trades, required, status, opening, closing, stops>>
    BY <1>12 DEF Accept, Cancel, journal, executor
  <2>4. QED
    BY <1>0, <2>2, <2>3, TypedAside DEF TypeOK
<1>13. QED
  BY <1>1, <1>2, <1>3, <1>4, <1>5, <1>6, <1>7, <1>8, <1>9, <1>10, <1>11, <1>12 DEF Next

-----------------------------------------------------------------------------
(* What any step does to the orders of the log, to their fate at the venue    *)
(* and to what was traded.                                                    *)

\* The actions that leave the log alone.
Aside ==
  \/ Hold \/ Residue \/ Finish \/ Forget \/ Raised \/ Restart \/ Resume
  \/ TakeSnapshot \/ Advance
  \/ \E t \in trades : OnFill(t)
  \/ \E i \in DOMAIN log : Accept(i) \/ Trade(i) \/ Cancel(i)

LEMMA AsideKeepsLog == ASSUME Aside PROVE log' = log
  BY DEF Aside, Hold, Residue, Finish, Forget, Raised, Restart, Resume, Reconcile,
         TakeSnapshot, Advance, OnFill, Record, Accept, Trade, Cancel, journal

LEMMA AsideStops ==
  ASSUME Aside
  PROVE  /\ stops' = stops /\ opening' \in {0, opening}
         /\ status' = "stopping" => status = "stopping"
  BY DEF Aside, Hold, Residue, Finish, Forget, Raised, Restart, Resume,
         TakeSnapshot, Advance, OnFill, Accept, Trade, Cancel, executor

\* An order keeps its role and its side, and an event as late as the step that
\* ends it is on record.
LEMMA LogSteps ==
  ASSUME TypeOK, Shapes, Next
  PROVE  \A j \in DOMAIN log :
           /\ j \in DOMAIN log'
           /\ log'[j].role = log[j].role /\ log'[j].side = log[j].side
           /\ log'[j].status \in Terminal => log[j].status \in Terminal \/ latest' >= now
<1>0. now \in 0 .. MaxTime
  BY DEF TypeOK
<1>1. CASE Enter \/ Exit \/ EarlyStop
  <2>1. PICK o \in Order : log' = Append(log, o)
    BY <1>0, <1>1, BeginEffect
  <2>2. \A j \in DOMAIN log : j \in DOMAIN log' /\ log'[j] = log[j]
    BY <2>1, Domains, AppendElements DEF Shapes, Order
  <2>3. QED
    BY <2>2
<1>2. CASE Placed
  <2>1. PICK i \in Pending : Touched(i, "working")
    BY <1>2, PlacedEffect
  <2>2. "working" \notin Terminal
    BY DEF Terminal
  <2>3. ASSUME NEW j \in DOMAIN log
        PROVE  /\ j \in DOMAIN log'
               /\ log'[j].role = log[j].role /\ log'[j].side = log[j].side
               /\ log'[j].status \in {log[j].status, "working"}
    <3>1. log[j] \in Order
      BY Domains
    <3>2. CASE j = i
      <4>1. log'[j] = [log[j] EXCEPT !.status = "working"]
        BY <2>1, <3>2 DEF Touched
      <4>2. QED
        BY <2>1, <3>1, <4>1 DEF Touched, Order
    <3>3. CASE j # i
      BY <2>1, <3>1, <3>3 DEF Touched, Order
    <3>4. QED
      BY <3>2, <3>3
  <2>4. QED
    BY <2>2, <2>3
<1>3. ASSUME NEW i \in DOMAIN log, OnEnd(i) \/ OnFail(i), NEW j \in DOMAIN log
      PROVE  /\ j \in DOMAIN log'
             /\ log'[j].role = log[j].role /\ log'[j].side = log[j].side
             /\ log'[j].status \in Terminal => log[j].status \in Terminal \/ latest' >= now
  <2>1. PICK how \in Terminal : Ends(i, how)
    BY <1>3 DEF OnEnd, OnFail, Terminal
  <2>2. Touched(i, how) /\ latest' = Later(now)
    BY <1>0, <2>1, EndsEffect
  <2>3. log[j] \in Order
    BY Domains
  <2>4. latest' >= now
    <3>1. now \in 0 .. now
      BY <1>0
    <3>2. QED
      BY <1>0, <2>2, <3>1, LaterBounds
  <2>5. CASE j = i
    <3>1. log'[j] = [log[j] EXCEPT !.status = how]
      BY <2>2, <2>5 DEF Touched
    <3>2. QED
      BY <2>2, <2>3, <2>4, <3>1 DEF Touched, Order
  <2>6. CASE j # i
    BY <2>2, <2>6 DEF Touched
  <2>7. QED
    BY <2>5, <2>6
<1>4. CASE Aside
  BY <1>4, AsideKeepsLog, Domains DEF Order
<1>5. QED
  BY <1>1, <1>2, <1>3, <1>4 DEF Next, Aside

\* The time of the latest event never goes back.
LEMMA LatestSteps ==
  ASSUME TypeOK, Shapes, Next
  PROVE  latest \in Int /\ latest' \in Int /\ latest' >= latest
<1>0. latest \in Int /\ now \in 0 .. MaxTime /\ now \in 0 .. now
  BY DEF TypeOK, Shapes
<1>1. CASE latest' = latest
  BY <1>0, <1>1
<1>2. ASSUME NEW at \in 0 .. now, latest' = Later(at) PROVE latest' \in Int /\ latest' >= latest
  BY <1>0, <1>2, LaterBounds
<1>3. CASE Enter \/ Exit \/ EarlyStop
  <2>1. latest' = latest
    BY <1>0, <1>3, BeginEffect
  <2>2. QED
    BY <1>0, <2>1
<1>4. CASE Placed
  BY <1>0, <1>2, <1>4, PlacedEffect
<1>5. ASSUME NEW i \in DOMAIN log, OnEnd(i) \/ OnFail(i) PROVE latest' \in Int /\ latest' >= latest
  <2>1. PICK how \in Terminal : Ends(i, how)
    BY <1>5 DEF OnEnd, OnFail, Terminal
  <2>2. QED
    BY <1>0, <1>2, <2>1, EndsEffect
<1>6. ASSUME NEW t \in trades, OnFill(t) PROVE latest' \in Int /\ latest' >= latest
  <2>1. t.at \in 0 .. now /\ latest' \in {latest, Later(t.at)}
    BY <1>6 DEF OnFill, Record, Shapes
  <2>2. QED
    BY <1>0, <1>2, <2>1
<1>7. CASE Aside /\ ~\E t \in trades : OnFill(t)
  <2>1. latest' = latest
    BY <1>7 DEF Aside, Hold, Residue, Finish, Forget, Raised, Restart, Resume, Reconcile,
       TakeSnapshot, Advance, Accept, Trade, Cancel, journal
  <2>2. QED
    BY <1>0, <2>1
<1>8. QED
  BY <1>0, <1>3, <1>4, <1>5, <1>6, <1>7 DEF Next, Aside

\* The log grows by a close only where the attempts allow it, and otherwise
\* holds the same orders.
LEMMA LogGrows ==
  ASSUME TypeOK, Shapes, Next
  PROVE  \/ DOMAIN log' = DOMAIN log /\ stops' = stops
         \/ /\ DOMAIN log' = DOMAIN log \cup {Len(log) + 1}
            /\ log'[Len(log) + 1].role = "entry" => DOMAIN log = {}
            /\ log'[Len(log) + 1].role = "close" =>
                 Pending = {} /\ (~Exhausted \/ status = "stopping")
            /\ stops' = IF status = "stopping" THEN stops + 1 ELSE stops
            /\ log'[Len(log) + 1].status = "pending" /\ sent'[Len(log) + 1] = "no"
            /\ trades' = trades
<1>0. now \in 0 .. MaxTime
  BY DEF TypeOK
<1>1. CASE Enter \/ Exit \/ EarlyStop
  <2>1. PICK o \in Order :
           /\ o.status = "pending"
           /\ o.role = "entry" => DOMAIN log = {}
           /\ o.role = "close" => Pending = {} /\ (~Exhausted \/ status = "stopping")
           /\ log' = Append(log, o) /\ sent' = Append(sent, "no")
           /\ UNCHANGED <<fills, last, now, required, closing, trades, snapshot>>
           /\ stops' = IF status = "stopping" THEN stops + 1 ELSE stops
    BY <1>0, <1>1, BeginEffect
  <2>2. DOMAIN log' = DOMAIN log \cup {Len(log) + 1} /\ log'[Len(log) + 1] = o
    BY <2>1, AppendElements DEF Shapes
  <2>3. sent'[Len(log) + 1] = "no"
    <3>1. sent \in Seq(Fates) /\ "no" \in Fates /\ Len(sent) = Len(log)
      BY DEF Shapes, Fates
    <3>2. QED
      BY <2>1, <3>1, AppendElements
  <2>4. QED
    BY <2>1, <2>2, <2>3
<1>2. CASE Placed
  BY <1>2, PlacedEffect DEF Touched
<1>3. ASSUME NEW i \in DOMAIN log, OnEnd(i) \/ OnFail(i)
      PROVE  DOMAIN log' = DOMAIN log /\ stops' = stops
  <2>1. PICK how \in Terminal : Ends(i, how)
    BY <1>3 DEF OnEnd, OnFail, Terminal
  <2>2. QED
    BY <1>0, <2>1, EndsEffect DEF Touched
<1>4. CASE Aside
  BY <1>4, AsideKeepsLog, AsideStops
<1>5. QED
  BY <1>1, <1>2, <1>3, <1>4 DEF Next, Aside

\* The closes of the log, the one not yet acknowledged included.
AllCloses == {i \in DOMAIN log : log[i].role = "close"}

LEMMA AttemptsStep ==
  ASSUME TypeOK, Shapes, Next, Cardinality(AllCloses) <= MaxRetries + 1 + stops
  PROVE  Cardinality(AllCloses') <= MaxRetries + 1 + stops'
<1>1. \A j \in DOMAIN log : log'[j].role = log[j].role
  BY LogSteps
<1>2. MaxRetries \in Nat /\ stops \in Nat
  BY RecoveryAssumption DEF TypeOK
<1>3. IsFiniteSet(AllCloses) /\ Cardinality(AllCloses) \in Nat
  <2>1. IsFiniteSet(1 .. Len(log))
    BY Domains, FS_Interval
  <2>2. AllCloses \subseteq 1 .. Len(log)
    BY Domains DEF AllCloses
  <2>3. QED
    BY <2>1, <2>2, FS_Subset, FS_CardinalityType
<1>4. CASE DOMAIN log' = DOMAIN log /\ stops' = stops
  <2>1. AllCloses' = AllCloses
    BY <1>1, <1>4 DEF AllCloses
  <2>2. QED
    BY <1>4, <2>1
<1>5. CASE /\ DOMAIN log' = DOMAIN log \cup {Len(log) + 1}
           /\ log'[Len(log) + 1].role = "close" =>
                Pending = {} /\ (~Exhausted \/ status = "stopping")
           /\ stops' = IF status = "stopping" THEN stops + 1 ELSE stops
  <2>1. Len(log) + 1 \notin DOMAIN log
    BY Domains
  <2>2. CASE log'[Len(log) + 1].role # "close"
    <3>1. AllCloses' = AllCloses
      BY <1>1, <1>5, <2>1, <2>2 DEF AllCloses
    <3>2. QED
      BY <1>2, <1>3, <1>5, <3>1
  <2>3. CASE log'[Len(log) + 1].role = "close"
    <3>1. AllCloses' = AllCloses \cup {Len(log) + 1} /\ Len(log) + 1 \notin AllCloses
      BY <1>1, <1>5, <2>1, <2>3 DEF AllCloses
    <3>2. Cardinality(AllCloses') = Cardinality(AllCloses) + 1
      BY <1>3, <3>1, FS_AddElement
    <3>3. CASE status = "stopping"
      BY <1>2, <1>3, <1>5, <3>2, <3>3
    <3>4. CASE status # "stopping"
      <4>1. AllCloses = Closes
        BY <1>5, <2>3 DEF AllCloses, Closes, Orders
      <4>2. ~(Cardinality(AllCloses) >= MaxRetries + 1)
        BY <1>5, <2>3, <3>4, <4>1 DEF Exhausted, Attempts
      <4>3. QED
        BY <1>2, <1>3, <1>5, <3>2, <3>4, <4>2
    <3>5. QED
      BY <3>3, <3>4
  <2>4. QED
    BY <2>2, <2>3
<1>6. QED
  BY <1>4, <1>5, LogGrows

LEMMA EarlyCounted ==
  /\ stops \in Nat => EarlyCloses \in Nat /\ stops <= EarlyCloses
  /\ stops' \in Nat => EarlyCloses' \in Nat /\ stops' <= EarlyCloses'
<1>1. stops \in Nat => EarlyCloses \in Nat /\ stops <= EarlyCloses
  <2>1. CASE status = "stopping"
    BY <2>1 DEF EarlyCloses
  <2>2. CASE status # "stopping"
    BY <2>2 DEF EarlyCloses
  <2>3. QED
    BY <2>1, <2>2
<1>2. stops' \in Nat => EarlyCloses' \in Nat /\ stops' <= EarlyCloses'
  <2>1. PICK n : n = stops'
    OBVIOUS
  <2>2. PICK m : m = EarlyCloses'
    OBVIOUS
  <2>3. m = n \/ m = n + 1
    BY <2>1, <2>2, Zenon DEF EarlyCloses
  <2>4. n \in Nat => m \in Nat /\ n <= m
    BY <2>3
  <2>5. QED
    BY <2>1, <2>2, <2>4, Zenon
<1>3. QED
  BY <1>1, <1>2

\* early_stop follows the end of the entry, which is reported at most twice.
LEMMA StopsStep ==
  ASSUME TypeOK, Shapes, StopsAreEnds, Next
  PROVE  StopsAreEnds'
<1>0. /\ now \in 0 .. MaxTime /\ DOMAIN sent = DOMAIN log
      /\ stops \in Nat /\ EarlyCloses \in Nat /\ TypeOK' /\ stops' \in Nat /\ EarlyCloses' \in Nat
  <2>1. TypeOK'
    BY TypedStep
  <2>2. stops \in Nat /\ stops' \in Nat
    BY <2>1 DEF TypeOK
  <2>3. /\ stops \in Nat => EarlyCloses \in Nat
        /\ stops' \in Nat => EarlyCloses' \in Nat
    BY EarlyCounted
  <2>4. EarlyCloses \in Nat /\ EarlyCloses' \in Nat
    BY <2>2, <2>3
  <2>5. QED
    BY <2>1, <2>2, <2>3, <2>4 DEF TypeOK
<1>1. CASE Enter \/ Exit \/ EarlyStop
  <2>1. PICK o \in Order :
           /\ o.status = "pending"
           /\ o.role = "entry" => DOMAIN log = {}
           /\ log' = Append(log, o) /\ sent' = Append(sent, "no")
           /\ opening' = opening
           /\ status' # "stopping"
           /\ stops' = IF status = "stopping" THEN stops + 1 ELSE stops
    BY <1>0, <1>1, BeginEffect
  <2>2. EarlyCloses' = EarlyCloses
    BY <1>0, <2>1 DEF EarlyCloses
  <2>3. /\ DOMAIN log' = DOMAIN log \cup {Len(log) + 1}
        /\ \A i \in DOMAIN log : log'[i] = log[i] /\ sent'[i] = sent[i]
        /\ log'[Len(log) + 1] = o /\ sent'[Len(log) + 1] = "no"
        /\ DOMAIN log = {} => Len(log) = 0
        /\ DOMAIN log # {} => 1 \in DOMAIN log /\ Len(log) + 1 # 1
    <3>1. "no" \in Fates /\ sent \in Seq(Fates) /\ Len(sent) = Len(log) /\ log \in Seq(Order)
      BY DEF Shapes, Fates
    <3>2. QED
      BY <1>0, <2>1, <3>1, AppendElements, Domains
  <2>4. \A i \in DOMAIN log' : log'[i].role = "entry" => i = 1
    BY <2>1, <2>3 DEF StopsAreEnds
  <2>5. CASE DOMAIN log = {}
    BY <2>1, <2>2, <2>3, <2>4, <2>5 DEF StopsAreEnds
  <2>6. CASE DOMAIN log # {}
    BY <2>1, <2>2, <2>3, <2>4, <2>6 DEF StopsAreEnds
  <2>7. QED
    BY <2>5, <2>6
<1>2. CASE Placed
  <2>1. PICK i \in Pending :
           /\ Touched(i, "working") /\ Moved(i, "wire")
           /\ opening' = IF log[i].role = "entry" THEN i ELSE opening
           /\ UNCHANGED <<status, stops>>
    BY <1>2, PlacedEffect
  <2>2. i \in DOMAIN log /\ log[i].status = "pending"
    BY DEF Pending
  <2>3. /\ DOMAIN log' = DOMAIN log
        /\ \A j \in DOMAIN log : j # i => log'[j] = log[j] /\ sent'[j] = sent[j]
        /\ log'[i].role = log[i].role /\ log'[i].status = "working" /\ sent'[i] = "wire"
    BY <1>0, <2>1, <2>2, Domains DEF Touched, Moved, Order
  <2>4. EarlyCloses' = EarlyCloses
    BY <2>1 DEF EarlyCloses
  <2>5. \A j \in DOMAIN log' : log'[j].role = "entry" => j = 1
    BY <2>3 DEF StopsAreEnds
  <2>6. opening' \in {0, 1}
    BY <2>1, <2>2 DEF StopsAreEnds
  <2>7. CASE i = 1
    <3>1. EarlyCloses = 0
      BY <2>2, <2>7 DEF StopsAreEnds
    <3>2. QED
      BY <2>3, <2>4, <2>5, <2>6, <3>1 DEF StopsAreEnds
  <2>8. CASE i # 1
    BY <2>3, <2>4, <2>5, <2>6, <2>8 DEF StopsAreEnds
  <2>9. QED
    BY <2>7, <2>8
<1>3. ASSUME NEW i \in DOMAIN log, OnEnd(i) \/ OnFail(i)
      PROVE  StopsAreEnds'
  <2>1. PICK how \in Terminal : /\ Ends(i, how)
                                /\ \/ OnEnd(i) /\ how = sent[i] /\ sent' = sent
                                   \/ OnFail(i)
    BY <1>3 DEF OnEnd, OnFail, Terminal
  <2>2. /\ Touched(i, how) /\ i \in Orders
        /\ status # "stopping" /\ (status' = "stopping" => opening = i)
        /\ UNCHANGED <<opening, stops>>
    BY <1>0, <2>1, EndsEffect
  <2>3. /\ DOMAIN log' = DOMAIN log
        /\ \A j \in DOMAIN log : j # i => log'[j] = log[j] /\ sent'[j] = sent[j]
        /\ log'[i].role = log[i].role /\ log'[i].status = how
        /\ how \notin {"pending", "working"}
    <3>1. \A j \in DOMAIN log : j # i => sent'[j] = sent[j]
      BY <1>0, <1>3 DEF OnEnd, OnFail
    <3>2. log[i] \in Order /\ how \notin {"pending", "working"}
      BY Domains DEF Terminal
    <3>3. QED
      BY <2>2, <3>1, <3>2 DEF Touched, Order
  <2>4. EarlyCloses = stops /\ EarlyCloses' = IF status' = "stopping" THEN stops + 1 ELSE stops
    BY <1>0, <2>2 DEF EarlyCloses
  <2>5. \A j \in DOMAIN log' : log'[j].role = "entry" => j = 1
    BY <2>3 DEF StopsAreEnds
  <2>6. CASE i # 1
    <3>1. status' # "stopping"
      BY <1>0, <1>3, <2>2, <2>6, Domains DEF StopsAreEnds
    <3>2. EarlyCloses' = EarlyCloses
      BY <2>4, <3>1
    <3>3. QED
      BY <2>2, <2>3, <2>5, <2>6, <3>2 DEF StopsAreEnds
  <2>7. CASE i = 1 /\ OnEnd(i) /\ how = sent[i] /\ sent' = sent
    <3>1. sent[1] \in Terminal /\ log[1].status # sent[1]
      BY <2>7 DEF OnEnd
    <3>2. EarlyCloses <= 1 /\ EarlyCloses' <= 2
      BY <1>0, <1>3, <2>4, <2>7, <3>1 DEF StopsAreEnds
    <3>3. sent'[1] = sent[1] /\ log'[1].status = sent[1] /\ sent[1] \notin {"live", "wire"}
      BY <2>1, <2>3, <2>7, <3>1 DEF Terminal
    <3>4. QED
      BY <1>3, <2>2, <2>3, <2>5, <2>7, <3>2, <3>3 DEF StopsAreEnds
  <2>8. CASE i = 1 /\ OnFail(i)
    <3>1. log[1].status = "working"
      BY <2>8 DEF OnFail
    <3>2. EarlyCloses = 0 /\ EarlyCloses' <= 1
      BY <1>0, <1>3, <2>4, <2>8, <3>1 DEF StopsAreEnds
    <3>3. QED
      BY <1>0, <1>3, <2>2, <2>3, <2>5, <2>8, <3>2 DEF StopsAreEnds
  <2>9. QED
    BY <2>1, <2>6, <2>7, <2>8
<1>4. CASE Aside
  <2>1. log' = log /\ EarlyCloses' <= EarlyCloses /\ opening' \in {0, 1}
    <3>1. /\ stops' = stops /\ opening' \in {0, opening}
          /\ status' = "stopping" => status = "stopping"
      BY <1>4, AsideStops
    <3>2. QED
      BY <1>0, <1>4, <3>1, AsideKeepsLog DEF EarlyCloses, StopsAreEnds
  <2>2. CASE sent' = sent
    BY <1>0, <2>1, <2>2 DEF StopsAreEnds
  <2>3. ASSUME NEW i \in DOMAIN log, NEW st, sent' = [sent EXCEPT ![i] = st],
               \/ st = "wire" /\ log[i].status = "pending"
               \/ st \in {"live", "filled", "canceled"} /\ sent[i] \in {"wire", "live"}
        PROVE  StopsAreEnds'
    <3>1. CASE i # 1
      <4>1. 1 \in DOMAIN log => sent'[1] = sent[1]
        BY <1>0, <2>3, <3>1
      <4>2. QED
        BY <1>0, <2>1, <4>1 DEF StopsAreEnds
    <3>2. CASE i = 1
      <4>1. sent'[1] = st
        BY <1>0, <2>3, <3>2
      <4>2. CASE st = "wire" /\ log[1].status = "pending"
        <5>1. EarlyCloses = 0
          BY <2>3, <3>2, <4>2 DEF StopsAreEnds
        <5>2. QED
          BY <1>0, <2>1, <5>1 DEF StopsAreEnds
      <4>3. CASE st \in {"live", "filled", "canceled"} /\ sent[1] \in {"wire", "live"}
        <5>1. EarlyCloses <= 1
          BY <1>0, <2>3, <3>2, <4>3 DEF StopsAreEnds
        <5>2. log[1].status = "pending" => EarlyCloses = 0
          BY <2>3, <3>2 DEF StopsAreEnds
        <5>3. QED
          BY <1>0, <2>1, <2>3, <3>2, <4>1, <4>3, <5>1, <5>2 DEF StopsAreEnds
      <4>4. QED
        BY <2>3, <3>2, <4>2, <4>3
    <3>3. QED
      BY <3>1, <3>2
  <2>4. CASE Hold \/ Residue \/ Finish \/ Forget \/ Resume \/ TakeSnapshot \/ Advance
             \/ \E t \in trades : OnFill(t)
    BY <2>2, <2>4 DEF Hold, Residue, Finish, Forget, Resume, TakeSnapshot, Advance, OnFill, venue
  <2>5. CASE Raised \/ Restart
    <3>1. \A i \in Pending : i \in DOMAIN log /\ log[i].status = "pending"
      BY DEF Pending
    <3>2. sent' = sent \/ \E i \in Pending : sent' = [sent EXCEPT ![i] = "wire"]
      BY <2>5 DEF Raised, Restart
    <3>3. QED
      BY <2>2, <2>3, <3>1, <3>2
  <2>6. ASSUME NEW i \in DOMAIN log, Accept(i) \/ Trade(i) \/ Cancel(i)
        PROVE  StopsAreEnds'
    <3>1. \E st \in {"live", "canceled", "filled"} :
            sent[i] \in {"wire", "live"} /\ sent' = [sent EXCEPT ![i] = st]
      BY <2>6 DEF Accept, Trade, Cancel
    <3>2. QED
      BY <2>3, <3>1
  <2>7. QED
    BY <1>4, <2>4, <2>5, <2>6 DEF Aside
<1>5. QED
  BY <1>1, <1>2, <1>3, <1>4 DEF Next, Aside

\* An order comes alive only off the wire, and a request stays on the wire only
\* until the journal ends it.
LEMMA SentSteps ==
  ASSUME TypeOK, Shapes, WireOpen, Next
  PROVE  \A j \in DOMAIN log :
           /\ sent'[j] = "live" => sent[j] \in {"wire", "live"}
           /\ sent'[j] = "wire" => log'[j].status \notin Terminal
<1>0. now \in 0 .. MaxTime /\ DOMAIN sent = DOMAIN log
  BY Domains DEF TypeOK
<1>1. CASE Enter \/ Exit \/ EarlyStop
  <2>1. PICK o \in Order : log' = Append(log, o) /\ sent' = Append(sent, "no")
    BY <1>0, <1>1, BeginEffect
  <2>2. sent \in Seq(Fates) /\ "no" \in Fates
    BY DEF Shapes, Fates
  <2>3. \A j \in DOMAIN log : log'[j] = log[j] /\ sent'[j] = sent[j]
    BY <1>0, <2>1, <2>2, AppendElements DEF Shapes
  <2>4. QED
    BY <2>3 DEF WireOpen
<1>2. CASE Placed
  <2>1. PICK i \in Pending : Touched(i, "working") /\ Moved(i, "wire")
    BY <1>2, PlacedEffect
  <2>2. log'[i].status = "working" /\ sent'[i] = "wire" /\ "working" \notin Terminal
    BY <2>1, Domains DEF Touched, Moved, Order, Terminal
  <2>3. \A j \in DOMAIN log : j # i => log'[j] = log[j] /\ sent'[j] = sent[j]
    BY <1>0, <2>1 DEF Touched, Moved
  <2>4. QED
    BY <2>2, <2>3 DEF WireOpen
<1>3. ASSUME NEW i \in DOMAIN log, OnEnd(i) \/ OnFail(i), NEW j \in DOMAIN log
      PROVE  /\ sent'[j] = "live" => sent[j] \in {"wire", "live"}
             /\ sent'[j] = "wire" => log'[j].status \notin Terminal
  <2>1. PICK how \in Terminal : Ends(i, how)
    BY <1>3 DEF OnEnd, OnFail, Terminal
  <2>2. Touched(i, how)
    BY <1>0, <2>1, EndsEffect
  <2>3. CASE j # i
    <3>1. log'[j] = log[j]
      BY <2>2, <2>3 DEF Touched
    <3>2. sent'[j] = sent[j]
      BY <1>0, <1>3, <2>3 DEF OnEnd, OnFail
    <3>3. QED
      BY <3>1, <3>2 DEF WireOpen
  <2>4. CASE j = i
    <3>1. sent'[j] # "wire" /\ (sent'[j] = "live" => sent[j] \in {"wire", "live"})
      BY <1>0, <1>3, <2>4 DEF OnEnd, OnFail, Terminal
    <3>2. QED
      BY <3>1
  <2>5. QED
    BY <2>3, <2>4
<1>4. CASE Aside
  <2>1. log' = log
    BY <1>4, AsideKeepsLog
  <2>2. CASE \/ sent' = sent
             \/ \E i \in Pending : sent' = [sent EXCEPT ![i] = "wire"]
    <3>1. \A i \in Pending : i \in DOMAIN log /\ log[i].status = "pending"
      BY DEF Pending
    <3>2. QED
      BY <1>0, <2>1, <2>2, <3>1 DEF WireOpen, Terminal
  <2>3. CASE \E i \in DOMAIN log, st \in {"live", "canceled", "filled"} :
               sent[i] \in {"wire", "live"} /\ sent' = [sent EXCEPT ![i] = st]
    BY <1>0, <2>1, <2>3 DEF WireOpen
  <2>4. CASE Hold \/ Residue \/ Finish \/ Forget \/ Resume \/ TakeSnapshot \/ Advance
             \/ \E t \in trades : OnFill(t)
    BY <2>2, <2>4 DEF Hold, Residue, Finish, Forget, Resume, TakeSnapshot, Advance, OnFill, venue
  <2>5. CASE Raised \/ Restart
    BY <2>2, <2>5 DEF Raised, Restart
  <2>6. ASSUME NEW i \in DOMAIN log, Accept(i) \/ Trade(i) \/ Cancel(i)
        PROVE  \E st \in {"live", "canceled", "filled"} :
                 sent[i] \in {"wire", "live"} /\ sent' = [sent EXCEPT ![i] = st]
    BY <2>6 DEF Accept, Trade, Cancel
  <2>7. QED
    BY <1>4, <2>3, <2>4, <2>5, <2>6 DEF Aside
<1>5. QED
  BY <1>1, <1>2, <1>3, <1>4 DEF Next, Aside

LEMMA WireStep ==
  ASSUME TypeOK, Shapes, WireOpen, Next
  PROVE  WireOpen'
<1>1. \A j \in DOMAIN log : sent'[j] = "wire" => log'[j].status \notin Terminal
  BY SentSteps
<1>2. DOMAIN log' = DOMAIN log \/ (DOMAIN log' = DOMAIN log \cup {Len(log) + 1} /\ sent'[Len(log) + 1] = "no")
  BY LogGrows
<1>3. QED
  BY <1>1, <1>2 DEF WireOpen

\* The account's position changes only by a trade of an order that is alive.
LEMMA PositionSteps ==
  ASSUME TypeOK, Shapes, Next
  PROVE  \/ Position' = Position
         \/ /\ \E i \in Live : Trade(i)
            /\ UNCHANGED <<journal, now, snapshot>>
<1>1. CASE trades' = trades
  <2>1. \A t \in trades : log'[t.order].side = log[t.order].side
    BY LogSteps DEF Shapes
  <2>2. [t \in trades' |-> log'[t.order].side * t.lots] = [t \in trades |-> log[t.order].side * t.lots]
    BY <1>1, <2>1
  <2>3. QED
    BY <2>2 DEF Position
<1>2. ASSUME NEW i \in DOMAIN log, Trade(i)
      PROVE  i \in Live /\ UNCHANGED <<journal, now, snapshot>>
  BY <1>2, Domains DEF Trade, Live
<1>3. CASE ~\E i \in DOMAIN log : Trade(i)
  <2>1. trades' = trades
    BY <1>3 DEF Next, Enter, Exit, EarlyStop, Begin, Hold, Residue, Finish, Forget, Placed, Raised, Restart,
         Resume, TakeSnapshot, Advance, OnFill, OnEnd, OnFail, Ends, Accept, Cancel, venue
  <2>2. QED
    BY <1>1, <2>1
<1>4. QED
  BY <1>2, <1>3

-----------------------------------------------------------------------------
(* The snapshot and the verdict on it *)

LEMMA SnapshotStep ==
  ASSUME TypeOK, Shapes, Shapes', WireOpen, SnapshotExplains, Next
  PROVE  SnapshotExplains'
<1>0. now \in 0 .. MaxTime
  BY DEF TypeOK
<1>1. CASE TakeSnapshot
  <2>1. snapshot' = [at |-> now, position |-> Position, open |-> Live] /\ UNCHANGED <<log, now, sent, trades>>
    BY <1>1 DEF TakeSnapshot, journal, venue
  <2>2. Live' = Live /\ Position' = Position
    BY <2>1 DEF Live, Position
  <2>3. snapshot'.at = now /\ snapshot'.position = Position /\ snapshot'.open = Live
    BY <2>1
  <2>4. QED
    BY <1>0, <2>1, <2>2, <2>3 DEF SnapshotExplains, Unsettled
<1>2. CASE Resume
  BY <1>2 DEF Resume, SnapshotExplains, NoSnapshot
<1>3. CASE snapshot' = snapshot /\ snapshot # NoSnapshot
  <2>1. snapshot.at \in 0 .. now /\ now' \in {now, now + 1}
    <3>1. now' \in {now, now + 1}
      BY DEF Next, Enter, Exit, EarlyStop, Begin, Hold, Residue, Finish, Forget, Placed, Raised, Restart, Resume,
         TakeSnapshot, Advance, OnFill, OnEnd, OnFail, Ends, Accept, Trade, Cancel
    <3>2. QED
      BY <1>3, <3>1 DEF SnapshotExplains
  <2> SUFFICES ASSUME latest' < snapshot.at
               PROVE  /\ \A i \in Live' : Unsettled(i)'
                      /\ Position' # snapshot.position => \E i \in DOMAIN log' : Unsettled(i)'
    <3>1. snapshot'.at \in 0 .. now'
      BY <1>0, <1>3, <2>1
    <3>2. QED
      BY <1>3, <3>1 DEF SnapshotExplains
  <2>2. latest < snapshot.at /\ ~(latest' >= now)
    BY <1>0, <2>1, LatestSteps
  <2>3. ASSUME NEW i \in DOMAIN log, Unsettled(i) PROVE i \in DOMAIN log' /\ Unsettled(i)'
    BY <1>3, <2>2, <2>3, LogSteps DEF Unsettled
  <2>4. ASSUME NEW i \in Live' PROVE Unsettled(i)'
    <3>1. i \in DOMAIN log /\ sent'[i] = "live"
      BY <2>4, LogGrows, Domains DEF Live, Shapes
    <3>2. CASE sent[i] = "live"
      BY <1>3, <2>2, <2>3, <3>1, <3>2, Domains DEF SnapshotExplains, Live
    <3>3. CASE sent[i] = "wire"
      BY <2>3, <3>1, <3>3 DEF WireOpen, Unsettled
    <3>4. QED
      BY <3>1, <3>2, <3>3, SentSteps
  <2>5. ASSUME Position' # snapshot.position PROVE \E i \in DOMAIN log' : Unsettled(i)'
    <3>1. \E i \in DOMAIN log : Unsettled(i)
      <4>1. CASE Position' = Position
        BY <1>3, <2>2, <2>5, <4>1 DEF SnapshotExplains
      <4>2. CASE \E i \in Live : Trade(i)
        <5>1. PICK i \in Live : Trade(i)
          BY <4>2
        <5>2. i \in DOMAIN log
          BY <5>1, Domains DEF Live
        <5>3. QED
          BY <1>3, <2>2, <5>1, <5>2 DEF SnapshotExplains
      <4>3. QED
        BY <4>1, <4>2, PositionSteps
    <3>2. PICK i \in DOMAIN log : Unsettled(i)
      BY <3>1
    <3>3. QED
      BY <2>3, <3>2
  <2>6. QED
    BY <2>4, <2>5
<1>4. CASE snapshot' = snapshot /\ snapshot = NoSnapshot
  BY <1>4 DEF SnapshotExplains, NoSnapshot
<1>5. TakeSnapshot \/ Resume \/ snapshot' = snapshot
  BY DEF Next, Enter, Exit, EarlyStop, Begin, Hold, Residue, Finish, Forget, Placed, Raised, Restart,
     TakeSnapshot, Advance, OnFill, OnEnd, OnFail, Ends, Accept, Trade, Cancel
<1>6. QED
  BY <1>1, <1>2, <1>3, <1>4, <1>5

\* A snapshot younger than every owned event, of an account without orders and
\* a journal that waits for none, still shows the account.
LEMMA SnapshotTrue ==
  ASSUME TypeOK, Shapes, SnapshotExplains, snapshot # NoSnapshot,
         snapshot.at >= latest, snapshot.at # latest,
         Pending = {}, Working = {}, snapshot.open = {}
  PROVE  Position = snapshot.position /\ Live = {}
<1>1. \A i \in DOMAIN log : log[i].status \in Terminal
  BY DEF Pending, Working, Orders
<1>2. latest < snapshot.at
  BY DEF SnapshotExplains, Shapes
<1>3. \A i \in DOMAIN log : ~Unsettled(i)
  BY <1>1 DEF Unsettled
<1>4. \A i \in Live : i \in DOMAIN log
  BY Domains DEF Live
<1>5. QED
  BY <1>2, <1>3, <1>4 DEF SnapshotExplains

\* What a verdict that lets the executor go on, or enter again, has checked.
LEMMA ReasonMeans ==
  ASSUME NEW s, Reason(s) \in {"flat", "reduce_only_recovery_required"}
  PROVE  /\ Pending = {} /\ Working = {} /\ s.open = {} /\ Signed = s.position
         /\ Reason(s) = "flat" => s.position = 0
  BY DEF Reason, Settled

LEMMA VerdictStep ==
  ASSUME TypeOK, Shapes, WireOpen, SnapshotExplains, VerdictHolds, Next
  PROVE  VerdictHolds'
<1>0. now \in 0 .. MaxTime
  BY DEF TypeOK
<1> SUFFICES ASSUME flatAt' # NoVerdict
             PROVE  /\ Pending' = {} /\ Working' = {} /\ flatAt' >= latest'
                    /\ flatAt' # latest' => Position' = 0 /\ Live' = {}
  BY DEF VerdictHolds
<1>1. CASE Resume
  <2>1. /\ Reason(snapshot) = "flat" /\ flatAt' = snapshot.at /\ snapshot.at >= latest
        /\ snapshot # NoSnapshot /\ UNCHANGED <<log, fills, latest, sent, trades>>
    BY <1>1 DEF Resume, Reconcile, Usable, venue
  <2>2. /\ Pending' = Pending /\ Working' = Working /\ latest' = latest
        /\ Live' = Live /\ Position' = Position
    BY <2>1 DEF Pending, Working, Orders, Live, Position
  <2>3. Pending = {} /\ Working = {} /\ snapshot.open = {} /\ snapshot.position = 0
    BY <2>1, ReasonMeans
  <2>4. snapshot.at # latest => Position = 0 /\ Live = {}
    BY <2>1, <2>3, SnapshotTrue
  <2>5. QED
    BY <2>1, <2>2, <2>3, <2>4
<1>2. CASE ~Resume
  <2>1. flatAt' = flatAt /\ log' = log /\ latest' = latest
    <3>1. ~(Enter \/ Exit \/ EarlyStop)
      BY <1>0, BeginEffect
    <3>2. ASSUME NEW i \in DOMAIN log PROVE ~OnEnd(i) /\ ~OnFail(i)
      <4>1. ASSUME NEW how \in Terminal PROVE ~Ends(i, how)
        BY <1>0, <4>1, EndsEffect
      <4>2. QED
        BY <4>1 DEF OnEnd, OnFail, Terminal
    <3>3. CASE Placed
      <4>1. flatAt' = flatAt /\ Pending # {}
        BY <3>3, PlacedEffect
      <4>2. QED
        BY <4>1 DEF VerdictHolds
    <3>4. CASE Aside
      <4>1. log' = log
        BY <3>4, AsideKeepsLog
      <4>2. ASSUME NEW t \in trades, OnFill(t) PROVE flatAt' = flatAt /\ latest' = latest
        BY <4>2 DEF OnFill, Record
      <4>3. CASE ~\E t \in trades : OnFill(t)
        BY <1>2, <3>4, <4>3 DEF Aside, Hold, Residue, Finish, Forget, Raised, Restart,
           TakeSnapshot, Advance, Accept, Trade, Cancel, journal
      <4>4. QED
        BY <4>1, <4>2, <4>3
    <3>5. QED
      BY <3>1, <3>2, <3>3, <3>4 DEF Next, Aside
  <2>2. Pending' = Pending /\ Working' = Working /\ latest' = latest
    BY <2>1 DEF Pending, Working, Orders
  <2>3. Pending = {} /\ Working = {} /\ flatAt >= latest
    BY <2>1 DEF VerdictHolds
  <2>4. ASSUME flatAt' # latest' PROVE Position' = 0 /\ Live' = {}
    <3>1. Position = 0 /\ Live = {}
      BY <2>1, <2>2, <2>4 DEF VerdictHolds
    <3>2. Position' = 0
      BY <3>1, PositionSteps
    <3>3. \A j \in DOMAIN log : sent[j] # "live" /\ sent[j] # "wire"
      BY <2>3, <3>1, Domains DEF Live, WireOpen, Pending, Working, Orders
    <3>4. \A j \in DOMAIN log : sent'[j] # "live"
      BY <3>3, SentSteps
    <3>5. DOMAIN sent' = DOMAIN log
      BY <2>1, TypedStep DEF TypeOK
    <3>6. QED
      BY <3>2, <3>4, <3>5 DEF Live
  <2>5. QED
    BY <2>1, <2>2, <2>3, <2>4
<1>3. QED
  BY <1>1, <1>2

-----------------------------------------------------------------------------
(* The theorems *)

LEMMA InitHolds == Init => IInv
<1> SUFFICES ASSUME Init PROVE IInv
  OBVIOUS
<1>1. /\ log = <<>> /\ fills = {} /\ flatAt = NoVerdict /\ last = 0 /\ latest = 0 /\ now = 0
      /\ required = FALSE /\ status = "running" /\ opening = 0 /\ closing = 0 /\ stops = 0
      /\ sent = <<>> /\ trades = {} /\ snapshot = NoSnapshot
  BY DEF Init, JournalInit
<1>2. TypeOK
  <2>1. DOMAIN log = {} /\ DOMAIN sent = {}
    BY <1>1
  <2>2. now \in 0 .. MaxTime
    BY <1>1, RecoveryAssumption
  <2>3. required \in BOOLEAN
    BY <1>1
  <2>4. QED
    BY <1>1, <2>1, <2>2, <2>3, Zenon DEF TypeOK
<1>3. Shapes
  BY <1>1, FS_EmptySet DEF Shapes
<1>4. AttemptsBounded
  <2>1. {i \in DOMAIN log : log[i].role = "close"} = {}
    BY <1>1
  <2>2. Cardinality({i \in DOMAIN log : log[i].role = "close"}) = 0
    BY <2>1, FS_EmptySet
  <2>3. QED
    BY <1>1, <1>2, <2>2, RecoveryAssumption DEF AttemptsBounded
<1>5. WireOpen /\ SnapshotExplains /\ VerdictHolds
  BY <1>1 DEF WireOpen, SnapshotExplains, VerdictHolds
<1>6. StopsAreEnds
  BY <1>1 DEF StopsAreEnds, EarlyCloses
<1>7. QED
  BY <1>2, <1>3, <1>4, <1>5, <1>6 DEF IInv

\* The journal, the venue and the snapshot stay in step, for every size of the
\* entry, venue minimum and lot, number of retries, snapshot age and clock.
THEOREM Inductive == Spec => []IInv
<1>1. IInv /\ [Next]_vars => IInv'
  <2> SUFFICES ASSUME IInv, [Next]_vars PROVE IInv'
    OBVIOUS
  <2>1. CASE UNCHANGED vars
    <3>1. UNCHANGED <<log, fills, flatAt, last, latest, now, required, status, opening, closing, stops, sent, trades, snapshot>>
      BY <2>1 DEF vars, journal, executor, venue
    <3>2. Orders' = Orders /\ Closes' = Closes /\ Pending' = Pending /\ Working' = Working
          /\ Live' = Live /\ Position' = Position
      BY <3>1 DEF Orders, Closes, Pending, Working, Live, Position
    <3>3. TypeOK' /\ AttemptsBounded' /\ Shapes'
      BY <3>1, <3>2 DEF IInv, TypeOK, AttemptsBounded, Shapes
    <3>4. WireOpen' /\ SnapshotExplains' /\ VerdictHolds'
      BY <3>1, <3>2 DEF IInv, WireOpen, SnapshotExplains, Unsettled, VerdictHolds
    <3>5. StopsAreEnds'
      BY <3>1 DEF IInv, StopsAreEnds, EarlyCloses
    <3>6. QED
      BY <3>3, <3>4, <3>5 DEF IInv
  <2>2. CASE Next
    <3>1. TypeOK /\ Shapes /\ WireOpen /\ SnapshotExplains /\ VerdictHolds /\ StopsAreEnds
      BY DEF IInv
    <3>2. TypeOK' /\ Shapes'
      BY <2>2, <3>1, TypedStep
    <3>3. StopsAreEnds' /\ AttemptsBounded'
      <4>1. Cardinality(AllCloses) <= MaxRetries + 1 + stops
        BY DEF IInv, AttemptsBounded, AllCloses
      <4>2. Cardinality(AllCloses') <= MaxRetries + 1 + stops'
        BY <2>2, <3>1, <4>1, AttemptsStep
      <4>3. StopsAreEnds'
        BY <2>2, <3>1, StopsStep
      <4>4. stops' <= 2
        <5>1. stops' \in Nat
          BY <3>2 DEF TypeOK
        <5>2. EarlyCloses' <= 2 /\ stops' <= EarlyCloses'
          BY <4>3, <5>1, EarlyCounted DEF StopsAreEnds
        <5>3. EarlyCloses' \in Nat
          BY <5>1, EarlyCounted
        <5>4. QED
          BY <5>1, <5>2, <5>3
      <4>5. QED
        BY <3>2, <4>2, <4>3, <4>4 DEF AttemptsBounded, AllCloses
    <3>4. WireOpen'
      BY <2>2, <3>1, WireStep
    <3>5. SnapshotExplains'
      BY <2>2, <3>1, <3>2, SnapshotStep
    <3>6. VerdictHolds'
      BY <2>2, <3>1, VerdictStep
    <3>7. QED
      BY <3>2, <3>3, <3>4, <3>5, <3>6 DEF IInv
  <2>3. QED
    BY <2>1, <2>2
<1>2. QED
  BY <1>1, InitHolds, PTL DEF Spec

\* No restart gives the executor new attempts: over its life it sends no more
\* than _max_retries + 1 closes and the two early_stop may place when the entry
\* ends, whatever the connector reports, late or never.
THEOREM AttemptsKept == Spec => []AttemptsBounded
<1>1. IInv => AttemptsBounded
  BY DEF IInv
<1>2. QED
  BY <1>1, Inductive, PTL

\* A recorded "flat" is flat, as long as it is recorded.
THEOREM FlatKept == Spec => []FlatMeansFlat
<1>1. IInv => FlatMeansFlat
  BY DEF IInv, VerdictHolds, FlatMeansFlat
<1>2. QED
  BY <1>1, Inductive, PTL

\* What the journal calls the signed position is what is left to close.
LEMMA SignedIsLeft ==
  ASSUME TypeOK, Shapes
  PROVE  AmountToClose = Signed
<1> DEFINE entered == [t \in fills |-> IF log[t.order].role = "entry" THEN t.lots ELSE 0]
           closed  == [t \in fills |-> IF log[t.order].role = "close" THEN t.lots ELSE 0]
           both    == [t \in fills |-> log[t.order].side * t.lots]
<1>1. \A t \in fills : entered[t] \in Int /\ closed[t] \in Int /\ both[t] = entered[t] - closed[t]
  <2>1. TAKE t \in fills
  <2>2. /\ t.order \in DOMAIN log /\ t.lots \in Int
        /\ log[t.order].role \in {"entry", "close"}
        /\ log[t.order].side = IF log[t.order].role = "entry" THEN 1 ELSE -1
    BY Domains DEF TypeOK, Shapes, Order
  <2>3. CASE log[t.order].role = "entry"
    BY <2>2, <2>3
  <2>4. CASE log[t.order].role = "close"
    BY <2>2, <2>4
  <2>5. QED
    BY <2>2, <2>3, <2>4
<1>2. IsFiniteSet(fills)
  BY FS_Subset DEF TypeOK, Shapes
<1> HIDE DEF entered, closed, both
<1>3. SumFunctionOnSet(both, fills) = SumFunctionOnSet(entered, fills) - SumFunctionOnSet(closed, fills)
  BY <1>1, <1>2, SumDifference
<1>4. DOMAIN both = fills /\ DOMAIN entered = fills /\ DOMAIN closed = fills
  BY DEF both, entered, closed
<1>5. SumFunction(both) = SumFunction(entered) - SumFunction(closed)
  BY <1>3, <1>4 DEF SumFunction
<1>6. QED
  BY <1>5 DEF both, entered, closed, AmountToClose, Signed, Filled

\* A restarted executor goes on only when what it is going to close is what the
\* account holds, and no order of its own can still change that.
THEOREM RecoveryKept == Spec => RecoverySound
<1>1. IInv /\ [Next]_vars =>
        [required /\ ~required' /\ status' = "shutting_down" /\ snapshot.at # latest =>
           AmountToClose = Position /\ \A i \in DOMAIN sent : sent[i] \notin {"wire", "live"}]_vars
  <2> SUFFICES ASSUME IInv, Next, required, ~required', status' = "shutting_down", snapshot.at # latest
               PROVE  AmountToClose = Position /\ \A i \in DOMAIN sent : sent[i] \notin {"wire", "live"}
    OBVIOUS
  <2>1. TypeOK /\ Shapes /\ WireOpen /\ SnapshotExplains
    BY DEF IInv
  <2>2. Resume
    BY <2>1 DEF Next, Enter, Exit, EarlyStop, Begin, Hold, Residue, Finish, Forget, Placed, Raised, Restart,
       TakeSnapshot, Advance, OnFill, OnEnd, OnFail, Ends, Accept, Trade, Cancel, executor, Turn, TypeOK
  <2>3. /\ Reason(snapshot) = "reduce_only_recovery_required" /\ snapshot # NoSnapshot
        /\ snapshot.at >= latest
    BY <2>2 DEF Resume, Reconcile, Usable
  <2>4. Pending = {} /\ Working = {} /\ snapshot.open = {} /\ Signed = snapshot.position
    BY <2>3, ReasonMeans
  <2>5. Position = snapshot.position /\ Live = {}
    BY <2>1, <2>3, <2>4, SnapshotTrue
  <2>6. AmountToClose = Position
    BY <2>1, <2>4, <2>5, SignedIsLeft
  <2>7. \A j \in DOMAIN log : log[j].status \in Terminal
    BY <2>1, <2>4 DEF Pending, Working, Orders
  <2>8. \A j \in DOMAIN sent : sent[j] \notin {"wire", "live"}
    BY <2>1, <2>5, <2>7, Domains DEF Live, WireOpen
  <2>9. QED
    BY <2>6, <2>8
<1>2. QED
  BY <1>1, Inductive, PTL DEF Spec, RecoverySound
=============================================================================
