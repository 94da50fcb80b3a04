----------------------------- MODULE PlanProofs -----------------------------
(***************************************************************************)
(* Proofs about PlanManager, for every directory, every set of labels and  *)
(* of what layers say, and every number of listeners and requests: the     *)
(* plan is what its layers say although slices share their arrays, the     *)
(* last layer has the last word, and the listeners end up with the newest  *)
(* plan unless two updates overlap.                                        *)
(***************************************************************************)
EXTENDS PlanManager, SequenceTheorems, WellFoundedInduction, TLAPS

(***************************************************************************)
(* The inductive invariant.                                                *)
(***************************************************************************)
Slot == Layer \cup {NoLayer}
IsSequence(s) == s \in Seq({s[i] : i \in DOMAIN s})

ArraysInv ==
  /\ arrays \in Seq(Seq(Slot))
  /\ plan.array \in 1 .. Len(arrays)
  /\ plan.len \in 0 .. Len(arrays[plan.array])
  /\ \A k \in 1 .. plan.len : arrays[plan.array][k] \in Layer

\* No plan that there was is longer than the present one in the same array.
Kept(p) ==
  /\ p.array \in 1 .. Len(arrays)
  /\ p.len \in 0 .. Len(arrays[p.array])
  /\ p.array = plan.array => p.len <= plan.len

HistoryInv ==
  /\ IsSequence(issued)
  /\ \A i \in 1 .. Len(issued) : Kept(issued[i].plan)
  /\ PlansAreValues

\* Each sub-directory has room for the requests to come.
RoomLeft ==
  \A i \in 1 .. plan.len :
    (Layers(plan)[i].order % OrderStep) + (MaxRequests - requests) < OrderStep

\* Before requests are served, no layer stands where the arguments of run would go.
OrderInv ==
  /\ OrdersAscend
  /\ torn \/ RoomLeft
  /\ phase # "serving" =>
       /\ ~torn
       /\ \A i \in 1 .. plan.len :
            SubLabel(Layers(plan)[i].label) = SubLabel(ArgsLabel)
              => Layers(plan)[i].label = ArgsLabel

\* Without an overlap only one update is on its way, the newest.
Calling(c) == c.plan = Len(issued) /\ \A l \in 1 .. c.next - 1 : seen[l] = Len(issued)
CallsInv ==
  /\ calls \subseteq [plan: 1 .. Len(issued), next: 1 .. Listeners]
  /\ seen \in [1 .. Listeners -> 0 .. Len(issued)]
  /\ ~overlapped =>
       /\ calls = {} => \A l \in 1 .. Listeners : seen[l] = Len(issued)
       /\ calls # {} => \E c \in calls : calls = {c} /\ Calling(c)

Scalars ==
  /\ phase \in {"new", "loaded", "serving"}
  /\ phase = "new" => plan.len = 0
  /\ torn \in BOOLEAN
  /\ shifted \subseteq 1 .. Len(arrays)
  /\ overlapped \in BOOLEAN
  /\ requests \in 0 .. MaxRequests

PlanInv ==
  ArraysInv /\ HistoryInv /\ PlanIsCombination /\ OrderInv /\ CallsInv /\ Scalars

-----------------------------------------------------------------------------
(***************************************************************************)
(* The capacity of a slice is a number: AppendCap is well defined.         *)
(***************************************************************************)
LEMMA LeastNumber ==
  ASSUME NEW S \in SUBSET Nat, S # {}
  PROVE  \E x \in S : \A y \in S : x <= y
<1>1. PICK x \in S : \A y \in S : ~(<<y, x>> \in OpToRel(<, Nat))
  BY NatLessThanWellFounded, WFMin, Zenon
<1>2. \A y \in S : x <= y
  <2> SUFFICES ASSUME NEW y \in S, ~(x <= y) PROVE FALSE
    OBVIOUS
  <2>1. x \in Nat /\ y \in Nat /\ y < x
    OBVIOUS
  <2> QED BY <1>1, <2>1 DEF OpToRel
<1> QED BY <1>2

\* The capacity after one more element was appended, the nth
NextCap(cap, n) == IF n <= cap THEN cap ELSE Grown(cap)

\* The capacities of the slices with up to n elements
IsCaps(caps, n) ==
  /\ caps \in [0 .. n -> Nat]
  /\ caps[0] = 0
  /\ \A k \in 1 .. n : caps[k] = NextCap(caps[k - 1], k)

LEMMA NextCapType ==
  ASSUME NEW cap \in Nat, NEW n \in Nat
  PROVE  NextCap(cap, n) \in Nat
BY DEF NextCap, Grown

LEMMA CapsExist ==
  ASSUME NEW n \in Nat
  PROVE  \E caps \in [0 .. n -> Nat] : IsCaps(caps, n)
<1> DEFINE Bad == {m \in Nat : ~\E caps \in [0 .. m -> Nat] : IsCaps(caps, m)}
<1> SUFFICES ASSUME Bad # {} PROVE FALSE
  OBVIOUS
<1>1. PICK m \in Bad : \A y \in Bad : m <= y
  BY LeastNumber
<1>2. CASE m = 0
  <2> DEFINE caps == [k \in 0 .. 0 |-> 0]
  <2>1. caps \in [0 .. m -> Nat] /\ IsCaps(caps, m)
    BY <1>2 DEF IsCaps
  <2> QED BY <2>1
<1>3. CASE m # 0
  <2>1. m - 1 \in Nat /\ m - 1 \notin Bad
    BY <1>1, <1>3
  <2>2. PICK old \in [0 .. m - 1 -> Nat] : IsCaps(old, m - 1)
    BY <2>1
  <2> DEFINE caps == [k \in 0 .. m |-> IF k < m THEN old[k] ELSE NextCap(old[m - 1], m)]
  <2>3. NextCap(old[m - 1], m) \in Nat
    <3>1. m \in Nat /\ m - 1 \in 0 .. m - 1
      BY <2>1
    <3>2. old[m - 1] \in Nat
      BY <2>2, <3>1
    <3> QED BY <3>1, <3>2, NextCapType
  <2>4. caps \in [0 .. m -> Nat] /\ caps[0] = 0
    BY <2>2, <2>3, <1>3 DEF IsCaps
  <2>5. \A k \in 1 .. m : caps[k] = NextCap(caps[k - 1], k)
    <3> SUFFICES ASSUME NEW k \in 1 .. m PROVE caps[k] = NextCap(caps[k - 1], k)
      OBVIOUS
    <3>1. k - 1 \in 0 .. m /\ k \in 0 .. m /\ caps[k - 1] = old[k - 1]
      OBVIOUS
    <3>2. CASE k = m
      BY <3>1, <3>2
    <3>3. CASE k # m
      <4>1. k \in 1 .. m - 1 /\ caps[k] = old[k]
        BY <3>3
      <4> QED BY <4>1, <3>1, <2>2 DEF IsCaps
    <3> QED BY <3>2, <3>3
  <2> HIDE DEF caps
  <2>6. IsCaps(caps, m)
    BY <2>4, <2>5 DEF IsCaps
  <2> QED BY <2>4, <2>6
<1> QED BY <1>2, <1>3

LEMMA CapsAgree ==
  ASSUME NEW m \in Nat, NEW n \in Nat, m <= n, NEW old, NEW new,
         IsCaps(old, m), IsCaps(new, n)
  PROVE  \A k \in 0 .. m : old[k] = new[k]
<1> DEFINE Bad == {k \in 0 .. m : old[k] # new[k]}
<1> SUFFICES ASSUME Bad # {} PROVE FALSE
  OBVIOUS
<1>1. Bad \in SUBSET Nat
  OBVIOUS
<1>2. PICK k \in Bad : \A y \in Bad : k <= y
  BY <1>1, LeastNumber, Zenon
<1>3. k # 0
  BY DEF IsCaps
<1>4. k - 1 \in 0 .. m /\ k - 1 \notin Bad
  BY <1>2, <1>3
<1> QED BY <1>3, <1>4 DEF IsCaps

LEMMA CapIsNat == \A n \in Nat : AppendCap[n] \in Nat
<1> DEFINE Caps(n) == CHOOSE caps \in [0 .. n -> Nat] : IsCaps(caps, n)
           f == [n \in Nat |-> Caps(n)[n]]
           Recurs(g) == g = [n \in Nat |-> IF n = 0 THEN 0
                                           ELSE IF n <= g[n - 1] THEN g[n - 1] ELSE Grown(g[n - 1])]
<1>1. ASSUME NEW n \in Nat PROVE IsCaps(Caps(n), n)
  BY CapsExist
<1> HIDE DEF Caps
<1>2. ASSUME NEW n \in Nat, n # 0 PROVE f[n] = NextCap(f[n - 1], n)
  <2>1. n - 1 \in Nat /\ n - 1 <= n
    BY <1>2
  <2>2. Caps(n - 1)[n - 1] = Caps(n)[n - 1]
    BY <2>1, <1>1, CapsAgree
  <2>3. Caps(n)[n] = NextCap(Caps(n)[n - 1], n)
    BY <1>1, <1>2 DEF IsCaps
  <2> QED BY <2>1, <2>2, <2>3
<1>3. f[0] = 0
  BY <1>1 DEF IsCaps
<1>4. Recurs(f)
  <2>1. \A n \in Nat :
          f[n] = IF n = 0 THEN 0 ELSE IF n <= f[n - 1] THEN f[n - 1] ELSE Grown(f[n - 1])
    BY <1>2, <1>3 DEF NextCap
  <2> QED BY <2>1
<1> HIDE DEF f
<1>5. AppendCap = CHOOSE g : Recurs(g)
  BY DEF AppendCap
<1>6. Recurs(AppendCap)
  <2> HIDE DEF Recurs
  <2> QED BY <1>4, <1>5
<1>7. AppendCap[0] = 0 /\ \A n \in Nat \ {0} : AppendCap[n] = NextCap(AppendCap[n - 1], n)
  <2> DEFINE g == AppendCap
  <2>1. g = [n \in Nat |-> IF n = 0 THEN 0
                           ELSE IF n <= g[n - 1] THEN g[n - 1] ELSE Grown(g[n - 1])]
    BY <1>6
  <2> HIDE DEF g
  <2>2. g[0] = 0 /\ \A n \in Nat \ {0} : g[n] = NextCap(g[n - 1], n)
    BY <2>1 DEF NextCap
  <2> QED BY <2>2 DEF g
<1> DEFINE Bad == {n \in Nat : AppendCap[n] \notin Nat}
<1> SUFFICES ASSUME Bad # {} PROVE FALSE
  OBVIOUS
<1>8. PICK n \in Bad : \A y \in Bad : n <= y
  BY LeastNumber
<1>9. n # 0
  BY <1>7
<1>10. n - 1 \in Nat /\ AppendCap[n - 1] \in Nat
  BY <1>8, <1>9
<1> QED BY <1>7, <1>9, <1>10, NextCapType

(***************************************************************************)
(* Sequences.                                                              *)
(***************************************************************************)
LEMMA SlotLayers == Layer \subseteq Slot /\ NoLayer \in Slot
BY DEF Slot

LEMMA Inserted ==
  ASSUME NEW S, NEW s \in Seq(S), NEW e \in S, NEW i \in 1 .. Len(s) + 1
  PROVE  /\ InsertAt(s, i, e) \in Seq(S)
         /\ Len(InsertAt(s, i, e)) = Len(s) + 1
         /\ \A k \in 1 .. Len(s) + 1 :
              InsertAt(s, i, e)[k] = IF k < i THEN s[k] ELSE IF k = i THEN e ELSE s[k - 1]
<1> DEFINE front == SubSeq(s, 1, i - 1)
           back == SubSeq(s, i, Len(s))
           one == <<e>>
           n == Len(s)
<1>1. n \in Nat /\ i \in Int /\ i - 1 \in Int
  OBVIOUS
<1>2. /\ front \in Seq(S) /\ Len(front) = i - 1
      /\ \A k \in 1 .. i - 1 : front[k] = s[k]
  <2>1. \A k \in 1 .. i - 1 : s[k] \in S
    OBVIOUS
  <2>2. /\ front \in Seq(S)
        /\ Len(front) = IF 1 <= i - 1 THEN i - 1 - 1 + 1 ELSE 0
        /\ \A k \in 1 .. i - 1 - 1 + 1 : front[k] = s[1 + k - 1]
    BY <2>1, <1>1, SubSeqProperties
  <2> HIDE DEF front
  <2> QED BY <2>2
<1>3. /\ back \in Seq(S) /\ Len(back) = n + 1 - i
      /\ \A k \in 1 .. n + 1 - i : back[k] = s[i + k - 1]
  <2>1. \A k \in i .. n : s[k] \in S
    OBVIOUS
  <2>2. /\ back \in Seq(S)
        /\ Len(back) = IF i <= n THEN n - i + 1 ELSE 0
        /\ \A k \in 1 .. n - i + 1 : back[k] = s[i + k - 1]
    BY <2>1, <1>1, SubSeqProperties
  <2> HIDE DEF back
  <2> QED BY <2>2
<1>4. one \in Seq(S) /\ Len(one) = 1 /\ one[1] = e
  OBVIOUS
<1> HIDE DEF front, back, one
<1>5. /\ front \o one \in Seq(S) /\ Len(front \o one) = i
      /\ \A k \in 1 .. i : (front \o one)[k] = IF k < i THEN s[k] ELSE e
  <2>1. /\ front \o one \in Seq(S)
        /\ Len(front \o one) = Len(front) + Len(one)
        /\ \A k \in 1 .. Len(front) + Len(one) :
             (front \o one)[k] = IF k <= Len(front) THEN front[k] ELSE one[k - Len(front)]
    BY <1>2, <1>4, ConcatProperties
  <2> QED BY <2>1, <1>2, <1>4
<1> DEFINE low == front \o one
<1> HIDE DEF low
<1>6. low \in Seq(S) /\ Len(low) = i /\ \A k \in 1 .. i : low[k] = IF k < i THEN s[k] ELSE e
  BY <1>5 DEF low
<1>7. /\ low \o back \in Seq(S)
      /\ Len(low \o back) = Len(low) + Len(back)
      /\ \A k \in 1 .. Len(low) + Len(back) :
           (low \o back)[k] = IF k <= Len(low) THEN low[k] ELSE back[k - Len(low)]
  BY <1>6, <1>3, ConcatProperties
<1>8. InsertAt(s, i, e) = low \o back
  BY DEF InsertAt, low, front, back, one
<1>9. ASSUME NEW k \in 1 .. n + 1
      PROVE (low \o back)[k] = IF k < i THEN s[k] ELSE IF k = i THEN e ELSE s[k - 1]
  <2>1. CASE k <= i
    <3>1. k \in 1 .. i /\ k \in 1 .. Len(low) + Len(back) /\ k <= Len(low)
      BY <2>1, <1>6, <1>3, <1>1
    <3>2. (low \o back)[k] = low[k]
      BY <3>1, <1>7
    <3> QED BY <2>1, <3>1, <3>2, <1>6, <1>1
  <2>2. CASE k > i
    <3>1. k - i \in 1 .. n + 1 - i /\ i + (k - i) - 1 = k - 1
      BY <2>2, <1>1
    <3>2. (low \o back)[k] = back[k - i]
      BY <2>2, <1>6, <1>7, <1>3, <1>1
    <3>3. back[k - i] = s[i + (k - i) - 1]
      BY <3>1, <1>3
    <3>4. back[k - i] = s[k - 1]
      BY <3>1, <3>3
    <3>5. ~(k < i) /\ k # i
      BY <2>2, <1>1
    <3> QED BY <3>2, <3>4, <3>5
  <2>3. k <= i \/ k > i
    BY <1>1
  <2> QED BY <2>1, <2>2, <2>3, Zenon
<1>10. Len(low \o back) = n + 1
  BY <1>6, <1>3, <1>7, <1>1
<1> QED BY <1>7, <1>8, <1>9, <1>10

LEMMA PaddedIs ==
  ASSUME NEW layers \in Seq(Layer), NEW cap \in Nat
  PROVE  /\ Padded(layers, cap) \in Seq(Slot)
         /\ Len(Padded(layers, cap)) >= Len(layers)
         /\ \A k \in 1 .. Len(layers) : Padded(layers, cap)[k] = layers[k]
<1> DEFINE n == Len(layers)
           rest == [i \in 1 .. cap - n |-> NoLayer]
           m == IF cap >= n THEN cap - n ELSE 0
<1>1. n \in Nat /\ layers \in Seq(Slot)
  BY SlotLayers
<1>2. m \in Nat /\ 1 .. cap - n = 1 .. m
  BY <1>1
<1>3. rest \in [1 .. m -> Slot]
  BY <1>2, SlotLayers
<1> HIDE DEF rest, m
<1>4. rest \in Seq(Slot) /\ Len(rest) = m
  BY <1>2, <1>3
<1>5. /\ layers \o rest \in Seq(Slot)
      /\ Len(layers \o rest) = n + m
      /\ \A k \in 1 .. n + m : (layers \o rest)[k] = IF k <= n THEN layers[k] ELSE rest[k - n]
  BY <1>1, <1>4, ConcatProperties
<1>6. Padded(layers, cap) = layers \o rest
  BY DEF Padded, rest
<1> QED BY <1>1, <1>2, <1>5, <1>6

LEMMA AppendedOne ==
  ASSUME NEW s, IsSequence(s), NEW e
  PROVE  /\ Len(s) \in Nat
         /\ IsSequence(Append(s, e))
         /\ Len(Append(s, e)) = Len(s) + 1
         /\ \A i \in 1 .. Len(s) : Append(s, e)[i] = s[i]
         /\ Append(s, e)[Len(s) + 1] = e
<1> DEFINE S == {s[i] : i \in DOMAIN s} \cup {e}
           t == Append(s, e)
<1>1. s \in Seq(S)
  <2>1. {s[i] : i \in DOMAIN s} \subseteq S
    OBVIOUS
  <2> HIDE DEF S
  <2> QED BY <2>1, SeqMonotonic DEF IsSequence
<1>2. e \in S
  OBVIOUS
<1> HIDE DEF S
<1>3. /\ t \in Seq(S) /\ Len(t) = Len(s) + 1 /\ Len(s) \in Nat
      /\ \A i \in 1 .. Len(s) : t[i] = s[i]
      /\ t[Len(s) + 1] = e
  BY <1>1, <1>2, AppendProperties
<1> HIDE DEF t
<1>4. t \in Seq({t[i] : i \in DOMAIN t})
  <2>1. t \in [1 .. Len(t) -> S] /\ DOMAIN t = 1 .. Len(t) /\ Len(t) \in Nat
    BY <1>3
  <2>2. t \in [1 .. Len(t) -> {t[i] : i \in DOMAIN t}]
    BY <2>1
  <2> DEFINE T == {t[i] : i \in DOMAIN t}
  <2>3. t \in [1 .. Len(t) -> T]
    BY <2>2
  <2> HIDE DEF T
  <2>4. t \in Seq(T)
    BY <2>1, <2>3
  <2> QED BY <2>4 DEF T
<1> QED BY <1>3, <1>4 DEF t, IsSequence

LEMMA Prefix ==
  ASSUME NEW S, NEW a \in Seq(S), NEW n \in 0 .. Len(a), NEW T,
         \A k \in 1 .. n : a[k] \in T
  PROVE  /\ SubSeq(a, 1, n) \in Seq(T)
         /\ Len(SubSeq(a, 1, n)) = n
         /\ \A k \in 1 .. n : SubSeq(a, 1, n)[k] = a[k]
<1>1. 1 \in Int /\ n \in Int /\ n \in Nat
  OBVIOUS
<1>2. /\ SubSeq(a, 1, n) \in Seq(T)
      /\ Len(SubSeq(a, 1, n)) = IF 1 <= n THEN n - 1 + 1 ELSE 0
      /\ \A k \in 1 .. n - 1 + 1 : SubSeq(a, 1, n)[k] = a[1 + k - 1]
  BY <1>1, SubSeqProperties
<1> DEFINE s == SubSeq(a, 1, n)
<1> HIDE DEF s
<1>3. s \in Seq(T) /\ Len(s) = n /\ \A k \in 1 .. n : s[k] = a[k]
  BY <1>1, <1>2 DEF s
<1> QED BY <1>3 DEF s

LEMMA SamePrefix ==
  ASSUME NEW S, NEW a \in Seq(S), NEW b \in Seq(S), NEW n \in 0 .. Len(a), n <= Len(b),
         \A k \in 1 .. n : a[k] = b[k]
  PROVE  SubSeq(a, 1, n) = SubSeq(b, 1, n)
<1>1. n \in 0 .. Len(b) /\ \A k \in 1 .. n : a[k] \in S /\ b[k] \in S
  OBVIOUS
<1> DEFINE s == SubSeq(a, 1, n)
           t == SubSeq(b, 1, n)
<1>2. s \in Seq(S) /\ Len(s) = n /\ \A k \in 1 .. n : s[k] = a[k]
  BY <1>1, Prefix
<1>3. t \in Seq(S) /\ Len(t) = n /\ \A k \in 1 .. n : t[k] = b[k]
  BY <1>1, Prefix
<1> HIDE DEF s, t
<1>4. s = t
  BY <1>2, <1>3, SeqEqual
<1> QED BY <1>4 DEF s, t

LEMMA PlanLayers ==
  ASSUME ArraysInv
  PROVE  /\ Len(arrays) \in Nat /\ plan.len \in Nat
         /\ arrays[plan.array] \in Seq(Slot)
         /\ Layers(plan) \in Seq(Layer)
         /\ Len(Layers(plan)) = plan.len
         /\ \A k \in 1 .. plan.len : Layers(plan)[k] = arrays[plan.array][k]
<1>1. arrays[plan.array] \in Seq(Slot) /\ Len(arrays) \in Nat /\ plan.len \in Nat
  BY DEF ArraysInv
<1> QED BY <1>1, Prefix DEF ArraysInv, Layers

(***************************************************************************)
(* What a new layer does to the arrays.                                    *)
(***************************************************************************)
LEMMA InsertIs ==
  ASSUME ArraysInv, NEW n \in 0 .. plan.len, NEW layer \in Layer
  PROVE  /\ Insert(plan, n, layer) \in Seq(Slot)
         /\ Len(Insert(plan, n, layer)) >= plan.len + 1
         /\ HasRoom(plan) => Len(Insert(plan, n, layer)) = Len(arrays[plan.array])
         /\ InsertAt(Layers(plan), n + 1, layer) \in Seq(Layer)
         /\ Len(InsertAt(Layers(plan), n + 1, layer)) = plan.len + 1
         /\ \A k \in 1 .. plan.len + 1 :
              Insert(plan, n, layer)[k] = InsertAt(Layers(plan), n + 1, layer)[k]
<1> DEFINE a == arrays[plan.array]
           inserted == InsertAt(Layers(plan), n + 1, layer)
           rest == SubSeq(a, plan.len + 2, Len(a))
<1>1. a \in Seq(Slot) /\ Len(a) \in Nat /\ plan.len \in Nat /\ plan.len <= Len(a)
  BY PlanLayers DEF ArraysInv
<1>2. n + 1 \in 1 .. Len(Layers(plan)) + 1
  BY PlanLayers
<1>3. inserted \in Seq(Layer) /\ Len(inserted) = plan.len + 1
  BY <1>2, PlanLayers, Inserted
<1>4. inserted \in Seq(Slot)
  BY <1>3, SlotLayers, SeqMonotonic
<1>5. Insert(plan, n, layer) = IF HasRoom(plan) THEN inserted \o rest
                               ELSE Padded(inserted, Grown(Len(a)))
  BY DEF Insert
<1> HIDE DEF inserted
<1>6. CASE HasRoom(plan)
  <2>1. plan.len < Len(a)
    BY <1>6 DEF HasRoom
  <2>2. plan.len + 2 \in Int /\ Len(a) \in Int /\ \A i \in plan.len + 2 .. Len(a) : a[i] \in Slot
    BY <1>1
  <2>3. rest \in Seq(Slot) /\ Len(rest) = Len(a) - plan.len - 1
    <3>1. /\ rest \in Seq(Slot)
          /\ Len(rest) = IF plan.len + 2 <= Len(a) THEN Len(a) - (plan.len + 2) + 1 ELSE 0
      BY <2>2, SubSeqProperties
    <3> HIDE DEF rest
    <3> QED BY <3>1, <2>1, <1>1
  <2> HIDE DEF rest
  <2> DEFINE new == inserted \o rest
  <2>4. /\ new \in Seq(Slot)
        /\ Len(new) = Len(inserted) + Len(rest)
        /\ \A k \in 1 .. Len(inserted) + Len(rest) :
             new[k] = IF k <= Len(inserted) THEN inserted[k] ELSE rest[k - Len(inserted)]
    BY <1>4, <2>3, ConcatProperties
  <2>5. new = Insert(plan, n, layer)
    BY <1>5, <1>6
  <2> HIDE DEF new
  <2>6. Len(new) = Len(a) /\ Len(new) >= plan.len + 1
    BY <2>1, <2>3, <2>4, <1>1, <1>3
  <2>7. \A k \in 1 .. plan.len + 1 : new[k] = inserted[k]
    BY <2>1, <2>3, <2>4, <1>1, <1>3
  <2> QED BY <2>4, <2>5, <2>6, <2>7, <1>3 DEF inserted
<1>7. CASE ~HasRoom(plan)
  <2>1. Grown(Len(a)) \in Nat
    BY <1>1 DEF Grown
  <2> DEFINE new == Padded(inserted, Grown(Len(a)))
  <2>2. /\ new \in Seq(Slot) /\ Len(new) >= Len(inserted)
        /\ \A k \in 1 .. Len(inserted) : new[k] = inserted[k]
    BY <1>3, <2>1, PaddedIs
  <2>3. new = Insert(plan, n, layer)
    BY <1>5, <1>7
  <2> HIDE DEF new
  <2> QED BY <2>2, <2>3, <1>3, <1>7 DEF inserted
<1> QED BY <1>6, <1>7

\* The array that a plan with the new layer is in
Place == IF HasRoom(plan) THEN plan.array ELSE Len(arrays) + 1

LEMMA Stored ==
  ASSUME ArraysInv, NEW n \in 0 .. plan.len, NEW layer \in Layer,
         arrays' = StoreArray(Insert(plan, n, layer))
  PROVE  /\ arrays' \in Seq(Seq(Slot))
         /\ Len(arrays') >= Len(arrays)
         /\ Place \in 1 .. Len(arrays')
         /\ arrays'[Place] = Insert(plan, n, layer)
         /\ \A i \in 1 .. Len(arrays) :
              /\ Len(arrays'[i]) = Len(arrays[i])
              /\ ~(HasRoom(plan) /\ i = plan.array) => arrays'[i] = arrays[i]
<1> DEFINE new == Insert(plan, n, layer)
<1>1. new \in Seq(Slot) /\ (HasRoom(plan) => Len(new) = Len(arrays[plan.array]))
  BY InsertIs
<1> HIDE DEF new
<1>2. arrays \in Seq(Seq(Slot)) /\ plan.array \in 1 .. Len(arrays) /\ Len(arrays) \in Nat
  BY DEF ArraysInv
<1>3. CASE HasRoom(plan)
  <2>1. arrays' = [arrays EXCEPT ![plan.array] = new]
    BY <1>3 DEF StoreArray, new
  <2>2. /\ arrays' \in Seq(Seq(Slot)) /\ Len(arrays') = Len(arrays)
        /\ \A j \in 1 .. Len(arrays) : arrays'[j] = IF j = plan.array THEN new ELSE arrays[j]
    BY <2>1, <1>1, <1>2, ExceptSeq
  <2> QED BY <2>2, <1>1, <1>2, <1>3 DEF Place, new
<1>4. CASE ~HasRoom(plan)
  <2>1. arrays' = Append(arrays, new)
    BY <1>4 DEF StoreArray, new
  <2>2. /\ arrays' \in Seq(Seq(Slot)) /\ Len(arrays') = Len(arrays) + 1
        /\ \A j \in 1 .. Len(arrays) : arrays'[j] = arrays[j]
        /\ arrays'[Len(arrays) + 1] = new
    BY <2>1, <1>1, <1>2, AppendProperties
  <2> QED BY <2>2, <1>2, <1>4 DEF Place, new
<1> QED BY <1>3, <1>4

LEMMA PrefixStays ==
  ASSUME ArraysInv, NEW n \in 0 .. plan.len, NEW layer \in Layer,
         arrays' = StoreArray(Insert(plan, n, layer)),
         NEW a \in 1 .. Len(arrays), NEW m \in 0 .. Len(arrays[a]),
         a = plan.array => m <= plan.len,
         ~(HasRoom(plan) /\ n < plan.len /\ a = plan.array)
  PROVE  SubSeq(arrays'[a], 1, m) = SubSeq(arrays[a], 1, m)
<1>1. /\ arrays' \in Seq(Seq(Slot)) /\ Len(arrays') >= Len(arrays)
      /\ Len(arrays'[a]) = Len(arrays[a])
  BY Stored
<1>2. a \in 1 .. Len(arrays') /\ arrays \in Seq(Seq(Slot)) /\ Len(arrays) \in Nat
  BY <1>1 DEF ArraysInv
<1>3. arrays'[a] \in Seq(Slot) /\ arrays[a] \in Seq(Slot)
  BY <1>1, <1>2
<1>4. \A k \in 1 .. m : arrays'[a][k] = arrays[a][k]
  <2>1. CASE ~(HasRoom(plan) /\ a = plan.array)
    BY <2>1, Stored
  <2>2. CASE HasRoom(plan) /\ a = plan.array
    <3>1. n = plan.len /\ m <= n /\ plan.len \in Nat
      BY <2>2, PlanLayers
    <3>2. arrays'[a] = Insert(plan, n, layer)
      BY <2>2, Stored DEF Place
    <3> SUFFICES ASSUME NEW k \in 1 .. m PROVE arrays'[a][k] = arrays[a][k]
      OBVIOUS
    <3>3. k \in 1 .. plan.len + 1 /\ k \in 1 .. plan.len /\ k < n + 1
      BY <3>1
    <3>4. arrays'[a][k] = InsertAt(Layers(plan), n + 1, layer)[k]
      BY <3>2, <3>3, InsertIs
    <3>5. InsertAt(Layers(plan), n + 1, layer)[k] = Layers(plan)[k]
      <4>1. n + 1 \in 1 .. Len(Layers(plan)) + 1 /\ k \in 1 .. Len(Layers(plan)) + 1
        BY <3>1, <3>3, PlanLayers
      <4>2. Layers(plan) \in Seq(Layer)
        BY PlanLayers
      <4>3. InsertAt(Layers(plan), n + 1, layer)[k] =
              IF k < n + 1 THEN Layers(plan)[k]
              ELSE IF k = n + 1 THEN layer ELSE Layers(plan)[k - 1]
        BY <4>1, <4>2, Inserted
      <4> QED BY <4>3, <3>3
    <3>6. Layers(plan)[k] = arrays[a][k]
      BY <2>2, <3>3, PlanLayers
    <3> QED BY <3>4, <3>5, <3>6
  <2> QED BY <2>1, <2>2
<1>5. m \in 0 .. Len(arrays'[a]) /\ m <= Len(arrays[a]) /\ Len(arrays[a]) \in Nat
  BY <1>1, <1>3
<1> QED BY <1>3, <1>4, <1>5, SamePrefix

(***************************************************************************)
(* What every new plan must be: in an array with its layers, which leaves  *)
(* the plans that there were.                                              *)
(***************************************************************************)
Holds(array, layers) ==
  /\ arrays \in Seq(Seq(Slot))
  /\ array \in 1 .. Len(arrays)
  /\ Len(layers) <= Len(arrays[array])
  /\ \A k \in 1 .. Len(layers) : arrays[array][k] = layers[k]

Stays(q, layers) ==
  /\ q.array \in 1 .. Len(arrays')
  /\ q.len \in 0 .. Len(arrays'[q.array])
  /\ q.array \notin shifted' => SubSeq(arrays'[q.array], 1, q.len) = layers

LEMMA NewPlanIs ==
  ASSUME NEW array, NEW layers \in Seq(Layer), Holds(array, layers)',
         plan' = NewPlan(array, layers)
  PROVE  /\ ArraysInv'
         /\ PlanIsCombination'
         /\ Layers(plan)' = layers
         /\ plan'.len = Len(layers) /\ plan'.array = array
<1>1. plan'.len = Len(layers) /\ plan'.array = array /\ plan'.services = CombineServices(layers)
  BY DEF NewPlan
<1>2. Len(layers) \in Nat /\ \A k \in 1 .. Len(layers) : layers[k] \in Layer
  OBVIOUS
<1>3. /\ arrays' \in Seq(Seq(Slot)) /\ array \in 1 .. Len(arrays')
      /\ Len(layers) <= Len(arrays'[array])
      /\ \A k \in 1 .. Len(layers) : arrays'[array][k] = layers[k]
  BY DEF Holds
<1>4. arrays'[array] \in Seq(Slot)
  BY <1>3
<1>5. Len(layers) \in 0 .. Len(arrays'[array])
  BY <1>2, <1>3, <1>4
<1>6. ArraysInv'
  BY <1>1, <1>2, <1>3, <1>5 DEF ArraysInv
<1>7. SubSeq(arrays'[array], 1, Len(layers)) = layers
  <2> DEFINE s == SubSeq(arrays'[array], 1, Len(layers))
  <2>1. /\ s \in Seq(Layer) /\ Len(s) = Len(layers)
        /\ \A k \in 1 .. Len(layers) : s[k] = arrays'[array][k]
    BY <1>2, <1>3, <1>4, <1>5, Prefix
  <2> HIDE DEF s
  <2>2. s = layers
    BY <2>1, <1>3, SeqEqual
  <2> QED BY <2>2 DEF s
<1>8. Layers(plan)' = layers
  BY <1>1, <1>7 DEF Layers
<1> QED BY <1>1, <1>6, <1>8 DEF PlanIsCombination

LEMMA PlanIsIssued ==
  ASSUME HistoryInv, NEW array, NEW layers \in Seq(Layer), Holds(array, layers)',
         Publish(NewPlan(array, layers), layers),
         \A i \in 1 .. Len(issued) :
           /\ Stays(issued[i].plan, issued[i].layers)
           /\ issued[i].plan.array = array => issued[i].plan.len <= Len(layers)
  PROVE  HistoryInv'
<1>1. /\ plan' = NewPlan(array, layers)
      /\ issued' = Append(issued, [plan |-> NewPlan(array, layers), layers |-> layers])
  BY DEF Publish
<1>2. ArraysInv' /\ Layers(plan)' = layers /\ plan'.len = Len(layers) /\ plan'.array = array
  BY <1>1, NewPlanIs
<1>3. /\ Len(issued) \in Nat
      /\ IsSequence(issued')
      /\ Len(issued') = Len(issued) + 1
      /\ \A i \in 1 .. Len(issued) : issued'[i] = issued[i]
      /\ issued'[Len(issued) + 1] = [plan |-> plan', layers |-> layers]
  BY <1>1, AppendedOne DEF HistoryInv
<1>4. ASSUME NEW i \in 1 .. Len(issued') PROVE Kept(issued[i].plan)'
  <2>1. CASE i = Len(issued) + 1
    <3>1. issued'[i].plan = plan'
      BY <2>1, <1>3
    <3>2. plan'.len <= plan'.len
      BY <1>2
    <3> QED BY <3>1, <3>2, <1>2 DEF Kept, ArraysInv
  <2>2. CASE i # Len(issued) + 1
    <3>1. i \in 1 .. Len(issued) /\ issued'[i] = issued[i]
      BY <2>2, <1>3
    <3>2. /\ issued[i].plan.array \in 1 .. Len(arrays')
          /\ issued[i].plan.len \in 0 .. Len(arrays'[issued[i].plan.array])
          /\ issued[i].plan.array = array => issued[i].plan.len <= Len(layers)
      BY <3>1 DEF Stays
    <3> QED BY <3>1, <3>2, <1>2 DEF Kept
  <2> QED BY <2>1, <2>2
<1>5. ASSUME NEW i \in DOMAIN issued', issued'[i].plan.array \notin shifted'
      PROVE Layers(issued[i].plan)' = issued'[i].layers
  <2>1. i \in 1 .. Len(issued')
    BY <1>3 DEF IsSequence
  <2>2. CASE i = Len(issued) + 1
    BY <2>2, <1>2, <1>3 DEF Layers
  <2>3. CASE i # Len(issued) + 1
    <3>1. i \in 1 .. Len(issued) /\ issued'[i] = issued[i]
      BY <2>1, <2>3, <1>3
    <3> QED BY <3>1, <1>5 DEF Layers, Stays
  <2> QED BY <2>2, <2>3
<1> QED BY <1>3, <1>4, <1>5 DEF HistoryInv, PlansAreValues

LEMMA PlanIsCalled ==
  ASSUME HistoryInv, CallsInv, NEW p, NEW layers, Publish(p, layers), seen' = seen,
         overlapped \in BOOLEAN
  PROVE  CallsInv' /\ overlapped' \in BOOLEAN
<1>1. PICK c : c = [plan |-> Len(issued) + 1, next |-> 1]
  OBVIOUS
<1>2. Len(issued') = Len(issued) + 1 /\ Len(issued) \in Nat
  BY AppendedOne DEF HistoryInv, Publish
<1>3. calls' = calls \cup {c} /\ overlapped' = (overlapped \/ calls # {})
  BY <1>1 DEF Publish
<1>4. Listeners \in Nat \ {0}
  BY PlanManagerAssumption DEF PlanManagerAssumption
<1>5. calls' \subseteq [plan: 1 .. Len(issued'), next: 1 .. Listeners]
  <2>1. c \in [plan: 1 .. Len(issued'), next: 1 .. Listeners]
    BY <1>1, <1>2, <1>4
  <2>2. [plan: 1 .. Len(issued), next: 1 .. Listeners]
          \subseteq [plan: 1 .. Len(issued'), next: 1 .. Listeners]
    BY <1>2
  <2> QED BY <2>1, <2>2, <1>3 DEF CallsInv
<1>6. seen' \in [1 .. Listeners -> 0 .. Len(issued')]
  <2>1. 0 .. Len(issued) \subseteq 0 .. Len(issued')
    BY <1>2
  <2> QED BY <2>1 DEF CallsInv
<1>7. ASSUME ~overlapped' PROVE \E d \in calls' : calls' = {d} /\ Calling(d)'
  <2>1. calls = {} /\ calls' = {c} /\ c \in calls'
    BY <1>7, <1>3
  <2>2. c.plan = Len(issued') /\ 1 .. c.next - 1 = {}
    BY <1>1, <1>2
  <2>3. Calling(c)'
    BY <2>2 DEF Calling
  <2> QED BY <2>1, <2>3
<1>8. calls' # {}
  BY <1>3
<1> QED BY <1>3, <1>5, <1>6, <1>7, <1>8 DEF CallsInv

(***************************************************************************)
(* The place and the order of a new layer.                                 *)
(***************************************************************************)
LEMMA Split ==
  ASSUME NEW o \in Nat
  PROVE  /\ o \div OrderStep \in Nat /\ o % OrderStep \in 0 .. OrderStep - 1
         /\ o = OrderStep * (o \div OrderStep) + (o % OrderStep)
BY DEF OrderStep

LEMMA SplitUnique ==
  ASSUME NEW q \in Nat, NEW r \in 0 .. OrderStep - 1
  PROVE  /\ OrderStep * q + r \in Nat
         /\ (OrderStep * q + r) \div OrderStep = q
         /\ (OrderStep * q + r) % OrderStep = r
BY DEF OrderStep

\* One more in the same sub-directory stays in its range, before every order of the next.
LEMMA NextOrder ==
  ASSUME NEW o \in Nat, (o % OrderStep) + 1 < OrderStep
  PROVE  /\ (o + 1) \div OrderStep = o \div OrderStep
         /\ (o + 1) % OrderStep = (o % OrderStep) + 1
         /\ \A p \in Nat : o < p /\ p \div OrderStep # o \div OrderStep => o + 1 < p
<1>1. o + 1 = OrderStep * (o \div OrderStep) + ((o % OrderStep) + 1)
  BY Split DEF OrderStep
<1>2. (o % OrderStep) + 1 \in 0 .. OrderStep - 1
  BY Split DEF OrderStep
<1>3. (o + 1) \div OrderStep = o \div OrderStep /\ (o + 1) % OrderStep = (o % OrderStep) + 1
  BY <1>1, <1>2, Split, SplitUnique
<1>4. ASSUME NEW p \in Nat, o < p, p \div OrderStep # o \div OrderStep PROVE o + 1 < p
  <2>1. p # o + 1
    BY <1>3, <1>4
  <2> QED BY <2>1, <1>4
<1> QED BY <1>3, <1>4

\* The first order of the directory after that of o.
LEMMA LaterOrder ==
  ASSUME NEW o \in Nat, NEW r \in {0, 1}
  PROVE  LET next == (o \div OrderStep + 1) * OrderStep + r
         IN /\ next \in Nat
            /\ next % OrderStep = r
            /\ \A p \in Nat : p <= o => p < next /\ p \div OrderStep # next \div OrderStep
<1> DEFINE d == o \div OrderStep
           next == (d + 1) * OrderStep + r
<1>1. d + 1 \in Nat /\ r \in 0 .. OrderStep - 1
  BY Split DEF OrderStep
<1>2. next = OrderStep * (d + 1) + r
  BY <1>1 DEF OrderStep
<1>3. next \in Nat /\ next \div OrderStep = d + 1 /\ next % OrderStep = r
  BY <1>1, <1>2, SplitUnique
<1>4. ASSUME NEW p \in Nat, p <= o PROVE p < next /\ p \div OrderStep # next \div OrderStep
  <2>1. p \div OrderStep \in Nat /\ p = OrderStep * (p \div OrderStep) + (p % OrderStep)
        /\ p % OrderStep \in 0 .. OrderStep - 1
    BY Split
  <2>2. o = OrderStep * d + (o % OrderStep) /\ o % OrderStep \in 0 .. OrderStep - 1 /\ d \in Nat
    BY Split
  <2> HIDE DEF d
  <2>3. p \div OrderStep <= d
    BY <2>1, <2>2, <1>4 DEF OrderStep
  <2> QED BY <2>1, <2>2, <2>3, <1>2, <1>3, <1>4 DEF OrderStep
<1> QED BY <1>3, <1>4

LEMMA LastOf ==
  ASSUME NEW n \in Nat, NEW S \in SUBSET (1 .. n), S # {}
  PROVE  Max(S) \in S /\ \A i \in S : i <= Max(S)
<1> DEFINE T == {n - i : i \in S}
<1>1. T \in SUBSET Nat /\ T # {}
  <2>1. \A i \in S : n - i \in Nat
    OBVIOUS
  <2>2. PICK i \in S : TRUE
    OBVIOUS
  <2>3. n - i \in T
    OBVIOUS
  <2> QED BY <2>1, <2>3
<1>2. PICK x \in T : \A y \in T : x <= y
  BY <1>1, LeastNumber, Zenon
<1>3. PICK m \in S : x = n - m
  BY <1>2
<1>4. \A i \in S : m >= i
  <2> SUFFICES ASSUME NEW i \in S PROVE m >= i
    OBVIOUS
  <2>1. x <= n - i
    BY <1>2
  <2> QED BY <2>1, <1>3
<1>5. Max(S) = CHOOSE k \in S : \A i \in S : k >= i
  BY DEF Max
<1> QED BY <1>4, <1>5

LEMMA FirstOf ==
  ASSUME NEW n \in Nat, NEW S \in SUBSET (1 .. n), S # {}
  PROVE  Min(S) \in S
<1>1. S \in SUBSET Nat
  OBVIOUS
<1>2. \E x \in S : \A y \in S : x <= y
  BY <1>1, LeastNumber, Zenon
<1> QED BY <1>2 DEF Min

LEMMA IndexIs ==
  ASSUME ArraysInv, NEW label
  PROVE  /\ NewIndex(label) \in 0 .. plan.len
         /\ SameDirectory(label) = {} => NewIndex(label) = plan.len
         /\ SameDirectory(label) # {} =>
              /\ NewIndex(label) \in 1 .. plan.len
              /\ SubLabel(Layers(plan)[NewIndex(label)].label) = SubLabel(label)
              /\ \A i \in 1 .. plan.len :
                   i > NewIndex(label) => SubLabel(Layers(plan)[i].label) # SubLabel(label)
<1>1. plan.len \in Nat /\ SameDirectory(label) \in SUBSET (1 .. plan.len)
  BY PlanLayers DEF SameDirectory
<1>2. CASE SameDirectory(label) = {}
  BY <1>1, <1>2 DEF NewIndex
<1>3. CASE SameDirectory(label) # {}
  <2> DEFINE m == NewIndex(label)
  <2>1. m \in SameDirectory(label) /\ \A i \in SameDirectory(label) : i <= m
    BY <1>1, <1>3, LastOf DEF NewIndex
  <2> HIDE DEF m
  <2>2. m \in 1 .. plan.len /\ SubLabel(Layers(plan)[m].label) = SubLabel(label)
    BY <2>1 DEF SameDirectory
  <2>3. ASSUME NEW i \in 1 .. plan.len, i > m
        PROVE SubLabel(Layers(plan)[i].label) # SubLabel(label)
    <3>1. i \notin SameDirectory(label)
      BY <2>1, <2>2, <2>3, <1>1
    <3> QED BY <3>1 DEF SameDirectory
  <2> QED BY <1>3, <2>2, <2>3, <1>1 DEF m
<1> QED BY <1>2, <1>3

Before(x, y) ==
  /\ x.order < y.order
  /\ x.label # y.label
  /\ SubLabel(x.label) = SubLabel(y.label) <=> x.order \div OrderStep = y.order \div OrderStep

LEMMA AscendingIs ==
  ASSUME NEW layers
  PROVE  Ascending(layers) <=> \A i, j \in DOMAIN layers : i < j => Before(layers[i], layers[j])
BY DEF Ascending, Before

LEMMA OrderType ==
  ASSUME ArraysInv, NEW label
  PROVE  NewOrder(label) \in Nat
<1> DEFINE layers == Layers(plan)
<1>1. \A i \in 1 .. plan.len : layers[i] \in Layer /\ layers[i].order \in Nat
  <2>1. \A i \in 1 .. plan.len : layers[i] \in Layer
    BY PlanLayers
  <2> HIDE DEF layers
  <2> QED BY <2>1 DEF Layer
<1>2. plan.len \in Nat
  BY PlanLayers
<1> HIDE DEF layers
<1>3. CASE plan.len = 0
  <2>1. SameDirectory(label) = {}
    BY <1>2, <1>3, IndexIs
  <2> QED BY <1>3, <2>1 DEF NewOrder, OrderStep
<1>4. CASE plan.len # 0 /\ SameDirectory(label) # {}
  <2>1. NewIndex(label) \in 1 .. plan.len
    BY <1>4, IndexIs
  <2>2. NewOrder(label) = layers[NewIndex(label)].order + 1
    BY <1>4 DEF NewOrder, layers
  <2> QED BY <2>1, <2>2, <1>1
<1>5. CASE plan.len # 0 /\ SameDirectory(label) = {}
  <2> DEFINE o == layers[plan.len].order
             r == IF HasSub(label) THEN 1 ELSE 0
  <2>1. o \in Nat /\ r \in {0, 1}
    BY <1>1, <1>2, <1>5
  <2>2. NewOrder(label) = (o \div OrderStep + 1) * OrderStep + r
    BY <1>5 DEF NewOrder, layers
  <2> HIDE DEF o, r
  <2> QED BY <2>1, <2>2, LaterOrder
<1> QED BY <1>3, <1>4, <1>5

LEMMA InsertedBetween ==
  ASSUME ArraysInv, Ascending(Layers(plan)), RoomLeft, requests \in 0 .. MaxRequests,
         NEW layer \in Layer, FindLayer(layer.label) = {}, layer.order = NewOrder(layer.label),
         NEW r \in 0 .. MaxRequests, requests <= r,
         SameDirectory(layer.label) = {} \/ r = requests + 1
  PROVE  /\ \A i \in 1 .. NewIndex(layer.label) : Before(Layers(plan)[i], layer)
         /\ \A i \in NewIndex(layer.label) + 1 .. plan.len : Before(layer, Layers(plan)[i])
         /\ (layer.order % OrderStep) + (MaxRequests - r) < OrderStep
<1> DEFINE L == Layers(plan)
           n == plan.len
           label == layer.label
           m == NewIndex(layer.label)
<1>1. n \in Nat /\ DOMAIN L = 1 .. n /\ m \in 0 .. n /\ MaxRequests \in Nat /\ requests \in Nat
  BY PlanLayers, IndexIs, PlanManagerAssumption DEF PlanManagerAssumption
<1>2. \A i \in 1 .. n : L[i] \in Layer
  BY PlanLayers
<1>3. \A i, j \in 1 .. n : i < j => Before(L[i], L[j])
  BY <1>1, AscendingIs
<1>4. \A i \in 1 .. n : (L[i].order % OrderStep) + (MaxRequests - requests) < OrderStep
  BY DEF RoomLeft
<1>5. \A i \in 1 .. n : L[i].label # label
  BY DEF FindLayer
<1>6. /\ SameDirectory(label) = {} => m = n
      /\ SameDirectory(label) # {} =>
           /\ m \in 1 .. n
           /\ SubLabel(L[m].label) = SubLabel(label)
           /\ \A i \in 1 .. n : i > m => SubLabel(L[i].label) # SubLabel(label)
  BY IndexIs
<1>7. SameDirectory(label) = {} => \A i \in 1 .. n : SubLabel(L[i].label) # SubLabel(label)
  BY DEF SameDirectory
<1>8. layer.order = CASE n = 0 -> OrderStep
                      [] SameDirectory(label) # {} -> L[m].order + 1
                      [] OTHER -> (L[n].order \div OrderStep + 1) * OrderStep
                                    + (IF HasSub(label) THEN 1 ELSE 0)
  BY DEF NewOrder
<1>9. MaxRequests + 1 < OrderStep
  BY PlanManagerAssumption DEF PlanManagerAssumption
<1> HIDE DEF L, n, label, m
<1>10. \A i \in 1 .. n : L[i].order \in Nat
  BY <1>2 DEF Layer
<1>11. layer.order \in Nat
  BY DEF Layer
<1>12. CASE n = 0
  <2>1. 1 .. m = {} /\ m + 1 .. n = {}
    BY <1>1, <1>12
  <2>2. layer.order = OrderStep /\ layer.order % OrderStep = 0
    <3>1. SameDirectory(label) = {}
      BY <1>1, <1>6, <1>12
    <3> QED BY <3>1, <1>8, <1>12 DEF OrderStep
  <2>3. (layer.order % OrderStep) + (MaxRequests - r) < OrderStep
    BY <2>2, <1>1, <1>9 DEF OrderStep
  <2> QED BY <2>1, <2>3 DEF L, n, m
<1>13. CASE n # 0 /\ SameDirectory(label) = {}
  <2> DEFINE o == L[n].order
             b == IF HasSub(label) THEN 1 ELSE 0
  <2>1. n \in 1 .. n /\ o \in Nat /\ b \in {0, 1}
    BY <1>1, <1>10, <1>13
  <2>2. layer.order = (o \div OrderStep + 1) * OrderStep + b
    BY <1>8, <1>13
  <2> HIDE DEF o, b
  <2>3. /\ layer.order % OrderStep = b
        /\ \A p \in Nat : p <= o =>
             p < layer.order /\ p \div OrderStep # layer.order \div OrderStep
    BY <2>1, <2>2, LaterOrder
  <2>4. ASSUME NEW i \in 1 .. n PROVE Before(L[i], layer)
    <3>1. L[i].order <= o
      <4>1. CASE i = n
        BY <4>1, <1>10 DEF o
      <4>2. CASE i # n
        <5>1. Before(L[i], L[n])
          BY <4>2, <2>1, <1>1, <1>3
        <5> QED BY <5>1, <1>10, <2>1 DEF Before, o
      <4> QED BY <4>1, <4>2
    <3>2. L[i].order < layer.order /\ L[i].order \div OrderStep # layer.order \div OrderStep
      BY <3>1, <2>3, <1>10
    <3> QED BY <3>2, <1>5, <1>7, <1>13 DEF Before, label
  <2>5. m = n /\ m + 1 .. n = {}
    BY <1>6, <1>13, <1>1
  <2>6. (layer.order % OrderStep) + (MaxRequests - r) < OrderStep
    BY <2>1, <2>3, <1>1, <1>9 DEF OrderStep
  <2> QED BY <2>4, <2>5, <2>6 DEF L, n, m
<1>14. CASE n # 0 /\ SameDirectory(label) # {}
  <2> DEFINE o == L[m].order
  <2>1. m \in 1 .. n /\ o \in Nat /\ layer.order = o + 1 /\ r = requests + 1
    BY <1>6, <1>8, <1>10, <1>14 DEF label
  <2>2. (o % OrderStep) + 1 < OrderStep /\ (o % OrderStep) + 1 + (MaxRequests - r) < OrderStep
    <3>1. (o % OrderStep) + (MaxRequests - requests) < OrderStep /\ o % OrderStep \in Nat
      BY <2>1, <1>4, Split DEF OrderStep
    <3> QED BY <3>1, <2>1, <1>1 DEF OrderStep
  <2>3. /\ layer.order \div OrderStep = o \div OrderStep
        /\ layer.order % OrderStep = (o % OrderStep) + 1
        /\ \A p \in Nat : o < p /\ p \div OrderStep # o \div OrderStep => layer.order < p
    BY <2>1, <2>2, NextOrder
  <2>4. SubLabel(L[m].label) = SubLabel(label)
    BY <1>6, <1>14
  <2>5. ASSUME NEW i \in 1 .. m PROVE Before(L[i], layer)
    <3>1. CASE i = m
      BY <3>1, <2>1, <2>3, <2>4, <1>5 DEF Before, label
    <3>2. CASE i # m
      <4>1. Before(L[i], L[m]) /\ i \in 1 .. n
        BY <3>2, <2>1, <1>1, <1>3
      <4>2. L[i].order < layer.order
        BY <4>1, <2>1, <1>10 DEF Before
      <4> QED BY <4>1, <4>2, <2>3, <2>4, <1>5 DEF Before, label
    <3> QED BY <3>1, <3>2
  <2>6. ASSUME NEW i \in m + 1 .. n PROVE Before(layer, L[i])
    <3>1. i \in 1 .. n /\ i > m /\ Before(L[m], L[i])
      BY <2>1, <1>1, <1>3
    <3>2. SubLabel(L[i].label) # SubLabel(label)
      BY <3>1, <1>6, <1>14
    <3>3. o < L[i].order /\ L[i].order \div OrderStep # o \div OrderStep
      BY <3>1, <3>2, <2>4 DEF Before
    <3>4. layer.order < L[i].order
      BY <3>1, <3>3, <2>3, <1>10
    <3> QED BY <3>1, <3>2, <3>3, <3>4, <2>3, <1>5 DEF Before, label
  <2> QED BY <2>2, <2>3, <2>5, <2>6 DEF L, n, m
<1> QED BY <1>12, <1>13, <1>14

LEMMA InsertedAscends ==
  ASSUME NEW L \in Seq(Layer), NEW layer \in Layer, NEW m \in 0 .. Len(L), NEW left,
         \A i, j \in 1 .. Len(L) : i < j => Before(L[i], L[j]),
         \A i \in 1 .. m : Before(L[i], layer),
         \A i \in m + 1 .. Len(L) : Before(layer, L[i]),
         (layer.order % OrderStep) + left < OrderStep,
         \A i \in 1 .. Len(L) : (L[i].order % OrderStep) + left < OrderStep,
         NEW new \in Seq(Layer), Len(new) = Len(L) + 1,
         \A k \in 1 .. Len(L) + 1 :
           new[k] = IF k < m + 1 THEN L[k] ELSE IF k = m + 1 THEN layer ELSE L[k - 1]
  PROVE  /\ Ascending(new)
         /\ \A i \in 1 .. Len(new) : (new[i].order % OrderStep) + left < OrderStep
<1> DEFINE n == Len(L)
<1>1. n \in Nat /\ L \in Seq(Layer) /\ Len(L) = n /\ m \in 0 .. n
  OBVIOUS
<1>2. /\ \A i \in 1 .. m : Before(L[i], layer)
      /\ \A i \in m + 1 .. n : Before(layer, L[i])
      /\ (layer.order % OrderStep) + left < OrderStep
  OBVIOUS
<1>3. \A i, j \in 1 .. n : i < j => Before(L[i], L[j])
  OBVIOUS
<1>4. \A i \in 1 .. n : (L[i].order % OrderStep) + left < OrderStep
  OBVIOUS
<1>5. /\ new \in Seq(Layer) /\ Len(new) = n + 1
      /\ \A k \in 1 .. n + 1 :
           new[k] = IF k < m + 1 THEN L[k] ELSE IF k = m + 1 THEN layer ELSE L[k - 1]
  OBVIOUS
<1> HIDE DEF n
<1>6. ASSUME NEW i \in 1 .. n + 1, NEW j \in 1 .. n + 1, i < j PROVE Before(new[i], new[j])
  <2>1. CASE j < m + 1
    <3>1. i \in 1 .. n /\ j \in 1 .. n /\ new[i] = L[i] /\ new[j] = L[j]
      BY <2>1, <1>1, <1>5, <1>6
    <3> QED BY <3>1, <1>3, <1>6
  <2>2. CASE j = m + 1
    <3>1. i \in 1 .. m /\ new[i] = L[i] /\ new[j] = layer
      BY <2>2, <1>1, <1>5, <1>6
    <3> QED BY <3>1, <1>2
  <2>3. CASE j > m + 1
    <3> DEFINE k == j - 1
    <3>1. k \in m + 1 .. n /\ k \in 1 .. n /\ new[j] = L[k]
      BY <2>3, <1>1, <1>5
    <3> HIDE DEF k
    <3>2. CASE i < m + 1
      <4>1. i \in 1 .. n /\ i < k /\ new[i] = L[i]
        BY <3>1, <3>2, <1>1, <1>5
      <4> QED BY <4>1, <3>1, <1>3
    <3>3. CASE i = m + 1
      <4>1. new[i] = layer
        BY <3>3, <1>1, <1>5
      <4> QED BY <4>1, <3>1, <1>2
    <3>4. CASE i > m + 1
      <4> DEFINE h == i - 1
      <4>1. h \in 1 .. n /\ h < k /\ new[i] = L[h]
        BY <3>4, <1>1, <1>5, <1>6 DEF k
      <4> HIDE DEF h
      <4> QED BY <4>1, <3>1, <1>3
    <3> QED BY <3>2, <3>3, <3>4, <1>1
  <2> QED BY <2>1, <2>2, <2>3, <1>1
<1>7. ASSUME NEW i \in 1 .. n + 1
      PROVE (new[i].order % OrderStep) + left < OrderStep
  <2>1. CASE i < m + 1
    <3>1. i \in 1 .. n /\ new[i] = L[i]
      BY <2>1, <1>1, <1>5
    <3> QED BY <3>1, <1>4
  <2>2. CASE i = m + 1
    <3>1. new[i] = layer
      BY <2>2, <1>1, <1>5
    <3> QED BY <3>1, <1>2
  <2>3. CASE i > m + 1
    <3> DEFINE k == i - 1
    <3>1. k \in 1 .. n /\ new[i] = L[k]
      BY <2>3, <1>1, <1>5
    <3> HIDE DEF k
    <3> QED BY <3>1, <1>4
  <2> QED BY <2>1, <2>2, <2>3, <1>1
<1>8. DOMAIN new = 1 .. n + 1
  BY <1>1, <1>5
<1> QED BY <1>5, <1>6, <1>7, <1>8, AscendingIs

LEMMA WithLayerAscends ==
  ASSUME ArraysInv, Ascending(Layers(plan)), RoomLeft, requests \in 0 .. MaxRequests,
         NEW layer \in Layer, FindLayer(layer.label) = {}, layer.order = NewOrder(layer.label),
         NEW r \in 0 .. MaxRequests, requests <= r,
         SameDirectory(layer.label) = {} \/ r = requests + 1,
         NEW new, new = WithLayer(layer)
  PROVE  /\ Ascending(new)
         /\ \A i \in 1 .. Len(new) : (new[i].order % OrderStep) + (MaxRequests - r) < OrderStep
<1>1. PICK L \in Seq(Layer) : L = Layers(plan)
  BY PlanLayers
<1>2. PICK m : m = NewIndex(layer.label)
  OBVIOUS
<1>3. Len(L) = plan.len /\ plan.len \in Nat /\ m \in 0 .. Len(L) /\ DOMAIN L = 1 .. Len(L)
  BY <1>1, <1>2, PlanLayers, IndexIs
<1>4. /\ \A i \in 1 .. m : Before(L[i], layer)
      /\ \A i \in m + 1 .. Len(L) : Before(layer, L[i])
      /\ (layer.order % OrderStep) + (MaxRequests - r) < OrderStep
  BY <1>1, <1>2, <1>3, InsertedBetween
<1>5. \A i, j \in 1 .. Len(L) : i < j => Before(L[i], L[j])
  BY <1>1, <1>3, AscendingIs
<1>6. \A i \in 1 .. Len(L) : (L[i].order % OrderStep) + (MaxRequests - r) < OrderStep
  <2>1. \A i \in 1 .. Len(L) : (L[i].order % OrderStep) + (MaxRequests - requests) < OrderStep
    BY <1>1, <1>3 DEF RoomLeft
  <2>2. \A i \in 1 .. Len(L) : L[i].order % OrderStep \in Nat
    <3>1. \A i \in 1 .. Len(L) : L[i] \in Layer
      BY <1>1
    <3>2. \A i \in 1 .. Len(L) : L[i].order \in Nat
      BY <3>1 DEF Layer
    <3> QED BY <3>2, Split DEF OrderStep
  <2>3. MaxRequests \in Nat /\ OrderStep \in Nat
    BY PlanManagerAssumption DEF PlanManagerAssumption, OrderStep
  <2> QED BY <2>1, <2>2, <2>3
<1>7. PICK p \in 1 .. Len(L) + 1 : p = m + 1
  BY <1>3
<1>8. new = InsertAt(L, p, layer)
  BY <1>1, <1>2, <1>7 DEF WithLayer
<1>9. /\ InsertAt(L, p, layer) \in Seq(Layer) /\ Len(InsertAt(L, p, layer)) = Len(L) + 1
      /\ \A k \in 1 .. Len(L) + 1 :
           InsertAt(L, p, layer)[k] = IF k < p THEN L[k] ELSE IF k = p THEN layer ELSE L[k - 1]
  BY <1>7, Inserted
<1>10. /\ new \in Seq(Layer) /\ Len(new) = Len(L) + 1
       /\ \A k \in 1 .. Len(L) + 1 :
            new[k] = IF k < m + 1 THEN L[k] ELSE IF k = m + 1 THEN layer ELSE L[k - 1]
  BY <1>7, <1>8, <1>9
<1> QED BY <1>3, <1>4, <1>5, <1>6, <1>10, InsertedAscends

(***************************************************************************)
(* The plans that there were stay as they are, unless a layer is inserted  *)
(* before others in place.                                                 *)
(***************************************************************************)
LEMMA IssuedStays ==
  ASSUME ArraysInv, HistoryInv, NEW n \in 0 .. plan.len, NEW layer \in Layer,
         arrays' = StoreArray(Insert(plan, n, layer)),
         shifted' = IF HasRoom(plan) /\ n < plan.len THEN shifted \cup {plan.array} ELSE shifted,
         NEW i \in 1 .. Len(issued)
  PROVE  Stays(issued[i].plan, issued[i].layers)
<1> DEFINE q == issued[i].plan
<1>1. /\ q.array \in 1 .. Len(arrays) /\ q.len \in 0 .. Len(arrays[q.array])
      /\ q.array = plan.array => q.len <= plan.len
  BY DEF HistoryInv, Kept
<1>2. /\ arrays' \in Seq(Seq(Slot)) /\ Len(arrays') >= Len(arrays)
      /\ Len(arrays'[q.array]) = Len(arrays[q.array])
  BY <1>1, Stored
<1>3. q.array \in 1 .. Len(arrays') /\ q.len \in 0 .. Len(arrays'[q.array])
  BY <1>1, <1>2, PlanLayers
<1>4. ASSUME q.array \notin shifted'
      PROVE SubSeq(arrays'[q.array], 1, q.len) = issued[i].layers
  <2>1. i \in DOMAIN issued
    BY DEF HistoryInv, IsSequence
  <2>2. q.array \notin shifted /\ ~(HasRoom(plan) /\ n < plan.len /\ q.array = plan.array)
    BY <1>4
  <2>3. SubSeq(arrays[q.array], 1, q.len) = issued[i].layers
    BY <2>1, <2>2 DEF HistoryInv, PlansAreValues, Layers
  <2> HIDE DEF q
  <2>4. SubSeq(arrays'[q.array], 1, q.len) = SubSeq(arrays[q.array], 1, q.len)
    BY <1>1, <2>2, PrefixStays
  <2> QED BY <2>3, <2>4
<1> QED BY <1>3, <1>4 DEF Stays

LEMMA OldArraysStay ==
  ASSUME ArraysInv, HistoryInv, NEW array, arrays' = Append(arrays, array),
         array \in Seq(Slot), shifted' = shifted, NEW i \in 1 .. Len(issued)
  PROVE  /\ Stays(issued[i].plan, issued[i].layers)
         /\ issued[i].plan.array # Len(arrays) + 1
<1> DEFINE q == issued[i].plan
<1>1. q.array \in 1 .. Len(arrays) /\ q.len \in 0 .. Len(arrays[q.array])
  BY DEF HistoryInv, Kept
<1>2. arrays \in Seq(Seq(Slot)) /\ Len(arrays) \in Nat
  BY DEF ArraysInv
<1>3. Len(arrays') = Len(arrays) + 1 /\ arrays'[q.array] = arrays[q.array]
  BY <1>1, <1>2, AppendProperties
<1>4. i \in DOMAIN issued
  BY DEF HistoryInv, IsSequence
<1>5. q.array \notin shifted' => SubSeq(arrays'[q.array], 1, q.len) = issued[i].layers
  BY <1>3, <1>4 DEF HistoryInv, PlansAreValues, Layers
<1> QED BY <1>1, <1>2, <1>3, <1>5 DEF Stays

(***************************************************************************)
(* appendLayer.                                                            *)
(***************************************************************************)
LEMMA ShiftedType ==
  ASSUME Scalars, ArraysInv, NEW n,
         shifted' = IF HasRoom(plan) /\ n < plan.len THEN shifted \cup {plan.array} ELSE shifted,
         Len(arrays') >= Len(arrays), Len(arrays') \in Nat
  PROVE  shifted' \subseteq 1 .. Len(arrays')
<1>1. Len(arrays) \in Nat /\ plan.array \in 1 .. Len(arrays)
  BY DEF ArraysInv
<1>2. 1 .. Len(arrays) \subseteq 1 .. Len(arrays')
  BY <1>1
<1> QED BY <1>1, <1>2 DEF Scalars

LEMMA OldOrNew ==
  ASSUME NEW L \in Seq(Layer), NEW layer \in Layer, NEW p \in 1 .. Len(L) + 1,
         NEW i \in 1 .. Len(L) + 1
  PROVE  \/ InsertAt(L, p, layer)[i] = layer
         \/ \E k \in 1 .. Len(L) : InsertAt(L, p, layer)[i] = L[k]
<1>1. InsertAt(L, p, layer)[i] = IF i < p THEN L[i] ELSE IF i = p THEN layer ELSE L[i - 1]
  BY Inserted
<1>2. i < p => i \in 1 .. Len(L)
  OBVIOUS
<1>3. i > p => i - 1 \in 1 .. Len(L)
  OBVIOUS
<1>4. i < p \/ i = p \/ i > p
  OBVIOUS
<1> QED BY <1>1, <1>2, <1>3, <1>4

LEMMA Added ==
  ASSUME PlanInv, NEW new \in Layer, AddLayer(new),
         NEW layer, layer = [new EXCEPT !.order = NewOrder(new.label)],
         NEW n, n = NewIndex(new.label),
         NEW layers, layers = WithLayer(layer),
         NEW array, array = Place
  PROVE  /\ layer \in Layer /\ layer.label = new.label /\ layer.services = new.services
         /\ layer.order = NewOrder(layer.label)
         /\ n \in 0 .. plan.len /\ plan.len \in Nat
         /\ layers = InsertAt(Layers(plan), n + 1, layer)
         /\ layers \in Seq(Layer) /\ Len(layers) = plan.len + 1
         /\ arrays' = StoreArray(Insert(plan, n, layer))
         /\ Publish(NewPlan(array, layers), layers)
         /\ shifted' = IF HasRoom(plan) /\ n < plan.len THEN shifted \cup {plan.array} ELSE shifted
         /\ phase' = phase /\ seen' = seen /\ torn' = torn
         /\ Len(arrays') >= Len(arrays) /\ Holds(array, layers)'
<1>1. /\ layer \in Layer /\ layer.label = new.label /\ layer.services = new.services
      /\ layer.order = NewOrder(layer.label)
  <2>1. NewOrder(new.label) \in Nat
    BY OrderType DEF PlanInv
  <2> QED BY <2>1 DEF Layer
<1>2. n \in 0 .. plan.len /\ plan.len \in Nat
  BY IndexIs, PlanLayers DEF PlanInv
<1>3. layers = InsertAt(Layers(plan), n + 1, layer)
  BY <1>1 DEF WithLayer
<1>4. /\ arrays' = StoreArray(Insert(plan, n, layer))
      /\ Publish(NewPlan(array, layers), layers)
      /\ shifted' = IF HasRoom(plan) /\ n < plan.len THEN shifted \cup {plan.array} ELSE shifted
      /\ phase' = phase /\ seen' = seen /\ torn' = torn
  BY DEF AddLayer, Place, Shifts
<1>5. /\ layers \in Seq(Layer) /\ Len(layers) = plan.len + 1
      /\ Len(Insert(plan, n, layer)) >= plan.len + 1
      /\ \A k \in 1 .. plan.len + 1 : Insert(plan, n, layer)[k] = layers[k]
  <2>1. /\ Len(Insert(plan, n, layer)) >= plan.len + 1
        /\ InsertAt(Layers(plan), n + 1, layer) \in Seq(Layer)
        /\ Len(InsertAt(Layers(plan), n + 1, layer)) = plan.len + 1
        /\ \A k \in 1 .. plan.len + 1 :
             Insert(plan, n, layer)[k] = InsertAt(Layers(plan), n + 1, layer)[k]
    <3>1. ArraysInv /\ n \in 0 .. plan.len /\ layer \in Layer
      BY <1>1, <1>2 DEF PlanInv
    <3> QED BY <3>1, InsertIs, Zenon
  <2> QED BY <2>1, <1>3, Zenon
<1>6. /\ arrays' \in Seq(Seq(Slot)) /\ Len(arrays') >= Len(arrays)
      /\ array \in 1 .. Len(arrays') /\ arrays'[array] = Insert(plan, n, layer)
  BY <1>1, <1>2, <1>4, Stored DEF PlanInv
<1>7. Holds(array, layers)'
  BY <1>5, <1>6 DEF Holds
<1> QED BY <1>1, <1>2, <1>3, <1>4, <1>5, <1>6, <1>7

LEMMA AddKept ==
  ASSUME PlanInv, NEW new \in Layer, FindLayer(new.label) = {}, AddLayer(new),
         requests' \in 0 .. MaxRequests, requests <= requests',
         SameDirectory(new.label) = {} \/ requests' = requests + 1,
         phase # "new", phase # "serving" => new.label = ArgsLabel
  PROVE  PlanInv'
<1>1. PICK layer, n, layers, array :
        /\ layer = [new EXCEPT !.order = NewOrder(new.label)]
        /\ n = NewIndex(new.label) /\ layers = WithLayer(layer) /\ array = Place
  OBVIOUS
<1>2. layer \in Layer /\ layer.label = new.label /\ layer.order = NewOrder(layer.label)
  BY <1>1, Added
<1>3. n \in 0 .. plan.len /\ plan.len \in Nat
  BY <1>1, Added
<1>4. layers = InsertAt(Layers(plan), n + 1, layer)
  BY <1>1, Added
<1>5. /\ arrays' = StoreArray(Insert(plan, n, layer))
      /\ Publish(NewPlan(array, layers), layers)
      /\ shifted' = IF HasRoom(plan) /\ n < plan.len THEN shifted \cup {plan.array} ELSE shifted
      /\ phase' = phase /\ seen' = seen /\ torn' = torn
  BY <1>1, Added
<1>6. layers \in Seq(Layer) /\ Len(layers) = plan.len + 1
  BY <1>1, Added
<1>7. Len(arrays') >= Len(arrays) /\ Holds(array, layers)'
  BY <1>1, Added
<1>8. \A i \in 1 .. Len(issued) : Stays(issued[i].plan, issued[i].layers)
  BY <1>2, <1>3, <1>5, IssuedStays DEF PlanInv
<1>9. \A i \in 1 .. Len(issued) :
         issued[i].plan.array = array => issued[i].plan.len <= Len(layers)
  <2> SUFFICES ASSUME NEW i \in 1 .. Len(issued), issued[i].plan.array = array
      PROVE issued[i].plan.len <= Len(layers)
    OBVIOUS
  <2>1. Kept(issued[i].plan)
    BY DEF PlanInv, HistoryInv
  <2>2. issued[i].plan.array \in 1 .. Len(arrays) /\ Len(arrays) \in Nat
    BY <2>1 DEF Kept, PlanInv, ArraysInv
  <2>3. array = plan.array
    BY <2>2, <1>1 DEF Place
  <2>4. issued[i].plan.len <= plan.len /\ issued[i].plan.len \in 0 .. Len(arrays[plan.array])
    BY <2>1, <2>3 DEF Kept
  <2> QED BY <2>4, <1>3, <1>6
<1>10. HistoryInv'
  BY <1>5, <1>6, <1>7, <1>8, <1>9, PlanIsIssued DEF PlanInv
<1>11. /\ ArraysInv' /\ PlanIsCombination' /\ Layers(plan)' = layers
       /\ plan'.len = Len(layers)
  BY <1>5, <1>6, <1>7, NewPlanIs DEF Publish
<1>12. CallsInv' /\ overlapped' \in BOOLEAN
  BY <1>5, PlanIsCalled DEF PlanInv, Scalars
<1>13. Scalars'
  <2>1. Len(arrays') \in Nat
    BY <1>7 DEF Holds
  <2>2. shifted' \subseteq 1 .. Len(arrays')
    BY <1>5, <1>7, <2>1, ShiftedType DEF PlanInv
  <2> QED BY <1>5, <1>12, <2>2 DEF PlanInv, Scalars
<1>14. OrderInv'
  <2>1. ASSUME ~torn PROVE Ascending(layers) /\ \A i \in 1 .. Len(layers) :
                             (layers[i].order % OrderStep) + (MaxRequests - requests') < OrderStep
    <3>1. PICK r : r = requests'
      OBVIOUS
    <3>2. Ascending(Layers(plan)) /\ RoomLeft /\ requests \in 0 .. MaxRequests
      BY <2>1 DEF PlanInv, OrderInv, OrdersAscend, Scalars
    <3>3. Ascending(layers) /\ \A i \in 1 .. Len(layers) :
            (layers[i].order % OrderStep) + (MaxRequests - r) < OrderStep
      BY <3>1, <3>2, <1>1, <1>2, WithLayerAscends DEF PlanInv
    <3> QED BY <3>1, <3>3
  <2>2. OrdersAscend' /\ (torn' \/ RoomLeft')
    BY <2>1, <1>5, <1>11 DEF OrdersAscend, RoomLeft
  <2>3. ASSUME phase # "serving"
        PROVE ~torn /\ \A i \in 1 .. Len(layers) :
                SubLabel(layers[i].label) = SubLabel(ArgsLabel) => layers[i].label = ArgsLabel
    <3>1. ~torn /\ \A i \in 1 .. plan.len :
            SubLabel(Layers(plan)[i].label) = SubLabel(ArgsLabel)
              => Layers(plan)[i].label = ArgsLabel
      BY <2>3 DEF PlanInv, OrderInv
    <3>2. ASSUME NEW i \in 1 .. Len(layers)
          PROVE \/ layers[i] = layer
                \/ \E k \in 1 .. plan.len : layers[i] = Layers(plan)[k]
      <4>1. PICK L \in Seq(Layer) : L = Layers(plan) /\ Len(L) = plan.len
        BY PlanLayers DEF PlanInv
      <4>2. PICK p \in 1 .. Len(L) + 1 : p = n + 1
        BY <4>1, <1>3
      <4>3. i \in 1 .. Len(L) + 1 /\ layers = InsertAt(L, p, layer)
        BY <4>1, <4>2, <1>4, <1>6
      <4>4. layers[i] = layer \/ \E k \in 1 .. Len(L) : layers[i] = L[k]
        BY <4>3, <1>2, OldOrNew, Zenon
      <4> QED BY <4>1, <4>4
    <3> QED BY <3>1, <3>2, <2>3, <1>2
  <2> QED BY <2>2, <2>3, <1>5, <1>11 DEF OrderInv
<1> QED BY <1>10, <1>11, <1>12, <1>13, <1>14 DEF PlanInv

LEMMA RefuseKept ==
  ASSUME PlanInv, NEW new \in Layer, RefuseLayer(new), phase = "serving",
         requests' = requests + 1, requests' \in 0 .. MaxRequests
  PROVE  PlanInv'
<1>1. PICK n : n = NewIndex(new.label)
  OBVIOUS
<1>2. n \in 0 .. plan.len /\ plan.len \in Nat
  BY <1>1, IndexIs, PlanLayers DEF PlanInv
<1>3. /\ arrays' = StoreArray(Insert(plan, n, new))
      /\ torn' = (torn \/ (HasRoom(plan) /\ n < plan.len))
      /\ shifted' = IF HasRoom(plan) /\ n < plan.len THEN shifted \cup {plan.array} ELSE shifted
      /\ plan' = plan /\ phase' = phase /\ issued' = issued /\ calls' = calls /\ seen' = seen
      /\ overlapped' = overlapped
  BY <1>1 DEF RefuseLayer, Shifts
<1>4. /\ arrays' \in Seq(Seq(Slot)) /\ Len(arrays') >= Len(arrays) /\ Len(arrays') \in Nat
      /\ Place \in 1 .. Len(arrays') /\ arrays'[Place] = Insert(plan, n, new)
      /\ \A i \in 1 .. Len(arrays) :
           /\ Len(arrays'[i]) = Len(arrays[i])
           /\ ~(HasRoom(plan) /\ i = plan.array) => arrays'[i] = arrays[i]
  <2>1. /\ arrays' \in Seq(Seq(Slot)) /\ Len(arrays') >= Len(arrays)
        /\ Place \in 1 .. Len(arrays') /\ arrays'[Place] = Insert(plan, n, new)
        /\ \A i \in 1 .. Len(arrays) :
             /\ Len(arrays'[i]) = Len(arrays[i])
             /\ ~(HasRoom(plan) /\ i = plan.array) => arrays'[i] = arrays[i]
    BY <1>2, <1>3, Stored DEF PlanInv
  <2> QED BY <2>1
<1>5. ArraysInv'
  <2>1. plan.array \in 1 .. Len(arrays) /\ plan.len \in 0 .. Len(arrays[plan.array])
        /\ Len(arrays) \in Nat /\ \A k \in 1 .. plan.len : arrays[plan.array][k] \in Layer
    BY DEF PlanInv, ArraysInv
  <2>2. plan.array \in 1 .. Len(arrays') /\ plan.len \in 0 .. Len(arrays'[plan.array])
    BY <2>1, <1>4
  <2>3. \A k \in 1 .. plan.len : arrays'[plan.array][k] \in Layer
    <3>1. CASE ~HasRoom(plan)
      BY <3>1, <2>1, <1>4
    <3>2. CASE HasRoom(plan)
      <4>1. arrays'[plan.array] = Insert(plan, n, new)
        BY <3>2, <1>4 DEF Place
      <4>2. PICK inserted : inserted = InsertAt(Layers(plan), n + 1, new)
        OBVIOUS
      <4>3. /\ inserted \in Seq(Layer) /\ Len(inserted) = plan.len + 1
            /\ \A k \in 1 .. plan.len + 1 : Insert(plan, n, new)[k] = inserted[k]
        BY <4>2, <1>2, InsertIs DEF PlanInv
      <4>4. \A k \in 1 .. plan.len : k \in 1 .. plan.len + 1 /\ inserted[k] \in Layer
        BY <4>3, <1>2
      <4> QED BY <4>1, <4>3, <4>4
    <3> QED BY <3>1, <3>2
  <2> QED BY <2>2, <2>3, <1>3, <1>4 DEF ArraysInv
<1>6. HistoryInv'
  <2>1. ASSUME NEW i \in 1 .. Len(issued) PROVE Stays(issued[i].plan, issued[i].layers)
    BY <1>2, <1>3, IssuedStays DEF PlanInv
  <2>2. \A i \in 1 .. Len(issued) : Kept(issued[i].plan)'
    BY <2>1, <1>3 DEF Stays, Kept, PlanInv, HistoryInv
  <2>3. PlansAreValues'
    <3>1. DOMAIN issued = 1 .. Len(issued)
      BY DEF PlanInv, HistoryInv, IsSequence
    <3> QED BY <2>1, <3>1, <1>3 DEF Stays, PlansAreValues, Layers
  <2> QED BY <2>2, <2>3, <1>3 DEF HistoryInv, PlanInv, IsSequence
<1>7. torn' \/ (~torn /\ Layers(plan)' = Layers(plan))
  <2> SUFFICES ASSUME ~torn' PROVE Layers(plan)' = Layers(plan)
    BY <1>3
  <2>1. PICK a : a = plan.array
    OBVIOUS
  <2>2. PICK m : m = plan.len
    OBVIOUS
  <2>3. a \in 1 .. Len(arrays) /\ m \in 0 .. Len(arrays[a]) /\ m <= plan.len
    BY <2>1, <2>2, <1>2 DEF PlanInv, ArraysInv
  <2>4. SubSeq(arrays'[a], 1, m) = SubSeq(arrays[a], 1, m)
    BY <2>3, <1>2, <1>3, PrefixStays DEF PlanInv
  <2> QED BY <2>1, <2>2, <2>4, <1>3 DEF Layers
<1>8. PlanIsCombination' /\ OrderInv'
  <2>1. PlanIsCombination'
    BY <1>3, <1>7 DEF PlanInv, PlanIsCombination
  <2>2. OrdersAscend'
    BY <1>3, <1>7 DEF PlanInv, OrderInv, OrdersAscend
  <2>3. ASSUME ~torn' PROVE RoomLeft'
    <3>1. \A i \in 1 .. plan.len :
            (Layers(plan)[i].order % OrderStep) + (MaxRequests - requests) < OrderStep
      BY <2>3, <1>3 DEF PlanInv, OrderInv, RoomLeft
    <3>2. \A i \in 1 .. plan.len : Layers(plan)[i].order % OrderStep \in Nat
      <4>1. \A i \in 1 .. plan.len : Layers(plan)[i] \in Layer
        BY PlanLayers DEF PlanInv
      <4>2. \A i \in 1 .. plan.len : Layers(plan)[i].order \in Nat
        BY <4>1 DEF Layer
      <4> QED BY <4>2, Split DEF OrderStep
    <3>3. MaxRequests \in Nat /\ OrderStep \in Nat /\ requests \in Nat
      BY PlanManagerAssumption DEF PlanManagerAssumption, OrderStep, PlanInv, Scalars
    <3>4. \A i \in 1 .. plan.len :
            (Layers(plan)[i].order % OrderStep) + (MaxRequests - (requests + 1)) < OrderStep
      BY <3>1, <3>2, <3>3
    <3> QED BY <3>4, <2>3, <1>3, <1>7 DEF RoomLeft
  <2> QED BY <2>1, <2>2, <2>3, <1>3 DEF OrderInv
<1>9. CallsInv'
  BY <1>3 DEF PlanInv, CallsInv, Calling
<1>10. Scalars'
  <2>1. shifted' \subseteq 1 .. Len(arrays')
    BY <1>3, <1>4, ShiftedType DEF PlanInv
  <2> QED BY <2>1, <1>3 DEF PlanInv, Scalars
<1> QED BY <1>5, <1>6, <1>8, <1>9, <1>10 DEF PlanInv

(***************************************************************************)
(* CombineLayer.                                                           *)
(***************************************************************************)
LEMMA MergeType ==
  ASSUME NEW old \in ServiceSaid, NEW new \in ServiceSaid
  PROVE  Merge(old, new) \in ServiceSaid
<1>1. old.parts \in Seq(STRING) /\ new.parts \in Seq(STRING)
  BY DEF ServiceSaid
<1>2. old.parts \o new.parts \in Seq(STRING)
  BY <1>1
<1>3. CASE new.override = "none"
  BY <1>3 DEF Merge
<1>4. CASE new.override = "merge" /\ old.override # "none"
  <2>1. Merge(old, new) = [old EXCEPT !.parts = @ \o new.parts]
    BY <1>4 DEF Merge
  <2> QED BY <2>1, <1>2 DEF ServiceSaid
<1>5. CASE new.override # "none" /\ ~(new.override = "merge" /\ old.override # "none")
  BY <1>5 DEF Merge
<1> QED BY <1>3, <1>4, <1>5

LEMMA CombinedType ==
  ASSUME NEW found \in Layer, NEW content \in Content
  PROVE  /\ CombinedLayer(found, content) \in Layer
         /\ CombinedLayer(found, content).label = found.label
         /\ CombinedLayer(found, content).order = found.order
<1>1. content.services \in [Service -> ServiceSaid] /\ content.workloads \in SUBSET STRING
  BY PlanManagerAssumption DEF PlanManagerAssumption
<1>2. found.services \in [Service -> ServiceSaid] /\ found.workloads \in SUBSET STRING
  BY DEF Layer
<1> DEFINE services == MergeLayer(found.services, content)
           workloads == found.workloads \cup content.workloads
<1>3. services \in [Service -> ServiceSaid]
  <2>1. \A s \in Service : Merge(found.services[s], content.services[s]) \in ServiceSaid
    BY <1>1, <1>2, MergeType
  <2> QED BY <2>1 DEF MergeLayer
<1>4. workloads \in SUBSET STRING
  BY <1>1, <1>2
<1>5. CombinedLayer(found, content) =
        [found EXCEPT !.services = services, !.workloads = workloads]
  BY DEF CombinedLayer
<1> HIDE DEF services, workloads
<1> QED BY <1>3, <1>4, <1>5 DEF Layer

\* A plan with layers in an array of its own.
LEMMA OwnArray ==
  ASSUME PlanInv, NEW layers \in Seq(Layer), NEW array \in Seq(Slot),
         Len(layers) <= Len(array), \A k \in 1 .. Len(layers) : array[k] = layers[k],
         arrays' = Append(arrays, array), Publish(NewPlan(Len(arrays) + 1, layers), layers),
         shifted' = shifted, seen' = seen
  PROVE  /\ ArraysInv' /\ HistoryInv' /\ PlanIsCombination' /\ CallsInv'
         /\ overlapped' \in BOOLEAN /\ shifted' \subseteq 1 .. Len(arrays')
         /\ Layers(plan)' = layers /\ plan'.len = Len(layers)
<1>1. PICK place : place = Len(arrays) + 1
  OBVIOUS
<1>2. arrays \in Seq(Seq(Slot)) /\ Len(arrays) \in Nat
  BY DEF PlanInv, ArraysInv
<1>3. arrays' \in Seq(Seq(Slot)) /\ Len(arrays') = Len(arrays) + 1 /\ arrays'[place] = array
  BY <1>1, <1>2, AppendProperties
<1>4. Holds(place, layers)'
  BY <1>1, <1>2, <1>3 DEF Holds
<1>5. Publish(NewPlan(place, layers), layers)
  BY <1>1
<1>6. \A i \in 1 .. Len(issued) : Stays(issued[i].plan, issued[i].layers)
  BY OldArraysStay DEF PlanInv
<1>7. \A i \in 1 .. Len(issued) :
        issued[i].plan.array = place => issued[i].plan.len <= Len(layers)
  BY <1>1, OldArraysStay DEF PlanInv
<1>8. HistoryInv'
  BY <1>4, <1>5, <1>6, <1>7, PlanIsIssued DEF PlanInv
<1>9. /\ ArraysInv' /\ PlanIsCombination' /\ Layers(plan)' = layers
      /\ plan'.len = Len(layers)
  BY <1>4, <1>5, NewPlanIs DEF Publish
<1>10. CallsInv' /\ overlapped' \in BOOLEAN
  BY <1>5, PlanIsCalled DEF PlanInv, Scalars
<1>11. shifted' \subseteq 1 .. Len(arrays')
  <2>1. 1 .. Len(arrays) \subseteq 1 .. Len(arrays')
    BY <1>2, <1>3
  <2> QED BY <2>1 DEF PlanInv, Scalars
<1> QED BY <1>8, <1>9, <1>10, <1>11

LEMMA Combined ==
  ASSUME PlanInv, NEW label \in Label, NEW content \in Content, CombineLayer(label, content),
         NEW i, i = Min(FindLayer(label)), NEW L, L = Layers(plan),
         NEW layer, layer = CombinedLayer(L[i], content),
         NEW layers, layers = [L EXCEPT ![i] = layer]
  PROVE  /\ L \in Seq(Layer) /\ Len(L) = plan.len /\ plan.len \in Nat /\ i \in 1 .. Len(L)
         /\ layer \in Layer /\ layer.label = L[i].label /\ layer.order = L[i].order
         /\ layers \in Seq(Layer) /\ Len(layers) = Len(L)
         /\ \A j \in 1 .. Len(L) : layers[j] = IF j = i THEN layer ELSE L[j]
         /\ arrays' = Append(arrays, layers)
         /\ Publish(NewPlan(Len(arrays) + 1, layers), layers)
         /\ shifted' = shifted /\ seen' = seen /\ phase' = phase /\ torn' = torn
         /\ phase = "serving" /\ requests < MaxRequests /\ requests' = requests + 1
         /\ ArraysInv' /\ HistoryInv' /\ PlanIsCombination' /\ CallsInv'
         /\ overlapped' \in BOOLEAN /\ shifted' \subseteq 1 .. Len(arrays')
         /\ Layers(plan)' = layers /\ plan'.len = Len(layers)
<1>1. L \in Seq(Layer) /\ Len(L) = plan.len /\ plan.len \in Nat
  BY PlanLayers DEF PlanInv
<1>2. i \in 1 .. Len(L)
  <2>1. FindLayer(label) \in SUBSET (1 .. plan.len) /\ FindLayer(label) # {}
    BY DEF FindLayer, CombineLayer
  <2> QED BY <2>1, <1>1, FirstOf
<1>3. layer \in Layer /\ layer.label = L[i].label /\ layer.order = L[i].order
  <2>1. L[i] \in Layer
    BY <1>1, <1>2
  <2> QED BY <2>1, CombinedType
<1>4. /\ layers \in Seq(Layer) /\ Len(layers) = Len(L)
      /\ \A j \in 1 .. Len(L) : layers[j] = IF j = i THEN layer ELSE L[j]
  BY <1>1, <1>2, <1>3, ExceptSeq
<1>5. /\ arrays' = Append(arrays, layers) /\ Publish(NewPlan(Len(arrays) + 1, layers), layers)
      /\ shifted' = shifted /\ seen' = seen /\ phase' = phase /\ torn' = torn
      /\ phase = "serving" /\ requests < MaxRequests /\ requests' = requests + 1
  BY DEF CombineLayer, Request
<1>6. layers \in Seq(Slot)
  BY <1>4, SlotLayers, SeqMonotonic
<1>7. /\ ArraysInv' /\ HistoryInv' /\ PlanIsCombination' /\ CallsInv'
      /\ overlapped' \in BOOLEAN /\ shifted' \subseteq 1 .. Len(arrays')
      /\ Layers(plan)' = layers /\ plan'.len = Len(layers)
  <2>1. Len(layers) <= Len(layers)
    BY <1>4, <1>1
  <2> QED BY <2>1, <1>4, <1>5, <1>6, OwnArray
<1> QED BY <1>1, <1>2, <1>3, <1>4, <1>5, <1>7

LEMMA CombineKept ==
  ASSUME PlanInv, NEW label \in Label, NEW content \in Content, CombineLayer(label, content)
  PROVE  PlanInv'
<1>1. PICK i, L : i = Min(FindLayer(label)) /\ L = Layers(plan)
  OBVIOUS
<1>2. PICK layer : layer = CombinedLayer(L[i], content)
  OBVIOUS
<1>3. PICK layers : layers = [L EXCEPT ![i] = layer]
  OBVIOUS
<1>4. Len(L) = plan.len /\ plan.len \in Nat /\ i \in 1 .. Len(L) /\ L \in Seq(Layer)
  BY <1>1, <1>2, <1>3, Combined
<1>5. layer \in Layer /\ layer.label = L[i].label /\ layer.order = L[i].order
  BY <1>1, <1>2, <1>3, Combined
<1>6. /\ layers \in Seq(Layer) /\ Len(layers) = Len(L)
      /\ \A j \in 1 .. Len(L) : layers[j] = IF j = i THEN layer ELSE L[j]
  BY <1>1, <1>2, <1>3, Combined
<1>7. /\ shifted' = shifted /\ seen' = seen /\ phase' = phase /\ torn' = torn
      /\ phase = "serving" /\ requests < MaxRequests /\ requests' = requests + 1
  BY <1>1, <1>2, <1>3, Combined
<1>8. /\ ArraysInv' /\ HistoryInv' /\ PlanIsCombination' /\ CallsInv'
       /\ overlapped' \in BOOLEAN /\ shifted' \subseteq 1 .. Len(arrays')
       /\ Layers(plan)' = layers /\ plan'.len = Len(layers)
  BY <1>1, <1>2, <1>3, Combined
<1>9. MaxRequests \in Nat /\ OrderStep \in Nat /\ requests \in Nat
  BY PlanManagerAssumption DEF PlanManagerAssumption, OrderStep, PlanInv, Scalars
<1>10. Scalars'
  BY <1>7, <1>8, <1>9 DEF PlanInv, Scalars
<1>11. \A j \in 1 .. Len(L) : layers[j].label = L[j].label /\ layers[j].order = L[j].order
  BY <1>5, <1>6
<1>12. DOMAIN layers = 1 .. Len(L) /\ DOMAIN L = 1 .. Len(L)
  BY <1>6
<1>13. OrderInv'
  <2>1. ASSUME ~torn PROVE Ascending(layers)
    <3>1. Ascending(L)
      BY <2>1, <1>1 DEF PlanInv, OrderInv, OrdersAscend
    <3> QED BY <3>1, <1>11, <1>12 DEF Ascending
  <2>2. ASSUME ~torn, NEW j \in 1 .. Len(L)
        PROVE (layers[j].order % OrderStep) + (MaxRequests - (requests + 1)) < OrderStep
    <3>1. (L[j].order % OrderStep) + (MaxRequests - requests) < OrderStep
      BY <2>2, <1>1, <1>4 DEF PlanInv, OrderInv, RoomLeft
    <3>2. L[j] \in Layer
      BY <1>4
    <3>3. L[j].order \in Nat
      BY <3>2 DEF Layer
    <3>4. L[j].order % OrderStep \in Nat
      BY <3>3, Split DEF OrderStep
    <3>5. (L[j].order % OrderStep) + (MaxRequests - (requests + 1)) < OrderStep
      BY <3>1, <3>4, <1>9
    <3> QED BY <3>5, <1>11
  <2>3. ~torn' => Ascending(Layers(plan))' /\ RoomLeft'
    BY <2>1, <2>2, <1>6, <1>7, <1>8 DEF RoomLeft
  <2> QED BY <2>3, <1>7 DEF OrderInv, OrdersAscend
<1> QED BY <1>8, <1>10, <1>13 DEF PlanInv

LEMMA LoadKept ==
  ASSUME PlanInv, NEW layers \in Directory, Load(layers)
  PROVE  PlanInv'
<1>1. layers \in Seq(Layer) /\ AsRead(layers)
  BY PlanManagerAssumption DEF PlanManagerAssumption
<1>2. Len(layers) \in Nat /\ DOMAIN layers = 1 .. Len(layers)
  BY <1>1
<1>3. AppendCap[Len(layers)] \in Nat
  BY <1>2, CapIsNat
<1>4. PICK array : array = Padded(layers, AppendCap[Len(layers)])
  OBVIOUS
<1>5. /\ array \in Seq(Slot) /\ Len(layers) <= Len(array)
      /\ \A k \in 1 .. Len(layers) : array[k] = layers[k]
  <2>1. /\ array \in Seq(Slot) /\ Len(array) >= Len(layers)
        /\ \A k \in 1 .. Len(layers) : array[k] = layers[k]
    BY <1>1, <1>3, <1>4, PaddedIs
  <2>2. Len(array) \in Nat
    BY <2>1
  <2> QED BY <2>1, <2>2, <1>2
<1>6. /\ arrays' = Append(arrays, array) /\ Publish(NewPlan(Len(arrays) + 1, layers), layers)
      /\ shifted' = shifted /\ seen' = seen /\ torn' = torn /\ requests' = requests
      /\ phase = "new" /\ phase' = "loaded"
  BY <1>4 DEF Load
<1>7. /\ ArraysInv' /\ HistoryInv' /\ PlanIsCombination' /\ CallsInv'
      /\ overlapped' \in BOOLEAN /\ shifted' \subseteq 1 .. Len(arrays')
      /\ Layers(plan)' = layers /\ plan'.len = Len(layers)
  BY <1>1, <1>5, <1>6, OwnArray
<1>8. Scalars'
  BY <1>6, <1>7 DEF PlanInv, Scalars
<1>9. OrderInv'
  <2>1. ~torn
    BY <1>6 DEF PlanInv, OrderInv
  <2>2. Ascending(layers)
    BY <1>1 DEF AsRead
  <2>3. ASSUME NEW i \in 1 .. Len(layers)
        PROVE /\ (layers[i].order % OrderStep) + (MaxRequests - requests) < OrderStep
              /\ SubLabel(layers[i].label) # SubLabel(ArgsLabel)
    <3>1. /\ (layers[i].order % OrderStep) + MaxRequests < OrderStep
          /\ SubLabel(layers[i].label) # SubLabel(ArgsLabel)
      BY <1>1, <1>2 DEF AsRead
    <3>2. layers[i] \in Layer
      BY <1>1
    <3>3. layers[i].order \in Nat
      BY <3>2 DEF Layer
    <3>4. layers[i].order % OrderStep \in Nat /\ OrderStep \in Nat
      BY <3>3, Split DEF OrderStep
    <3>5. MaxRequests \in Nat /\ requests \in Nat
      BY PlanManagerAssumption DEF PlanManagerAssumption, PlanInv, Scalars
    <3> QED BY <3>1, <3>4, <3>5
  <2> QED BY <2>1, <2>2, <2>3, <1>6, <1>7 DEF OrderInv, OrdersAscend, RoomLeft
<1> QED BY <1>7, <1>8, <1>9 DEF PlanInv

(***************************************************************************)
(* The calls of the listeners.                                             *)
(***************************************************************************)
PlanVars == <<arrays, plan, phase, issued, torn, shifted, overlapped, requests>>

LEMMA PlanRests ==
  ASSUME PlanInv, UNCHANGED PlanVars
  PROVE  /\ ArraysInv' /\ HistoryInv' /\ PlanIsCombination' /\ OrderInv' /\ Scalars'
<1> USE DEF PlanVars, PlanInv
<1>1. arrays' = arrays /\ plan' = plan /\ Layers(plan)' = Layers(plan)
  BY DEF Layers
<1>2. ArraysInv'
  BY <1>1 DEF ArraysInv
<1>3. HistoryInv'
  BY <1>1 DEF HistoryInv, IsSequence, Kept, PlansAreValues, Layers
<1>4. PlanIsCombination' /\ OrderInv'
  BY <1>1 DEF PlanIsCombination, OrderInv, OrdersAscend, RoomLeft
<1>5. Scalars'
  BY <1>1 DEF Scalars
<1> QED BY <1>2, <1>3, <1>4, <1>5

LEMMA CallKept ==
  ASSUME PlanInv, NEW c \in calls, CallListener(c)
  PROVE  PlanInv'
<1>1. /\ c.next <= Listeners /\ seen' = [seen EXCEPT ![c.next] = c.plan]
      /\ calls' = IF c.next = Listeners THEN calls \ {c}
                  ELSE (calls \ {c}) \cup {[c EXCEPT !.next = @ + 1]}
      /\ UNCHANGED PlanVars
  BY DEF CallListener, PlanVars
<1>2. c \in [plan: 1 .. Len(issued), next: 1 .. Listeners] /\ Listeners \in Nat \ {0}
  BY PlanManagerAssumption DEF PlanManagerAssumption, PlanInv, CallsInv
<1>3. Len(issued) \in Nat
  BY AppendedOne DEF PlanInv, HistoryInv
<1>4. PICK d : d = [c EXCEPT !.next = @ + 1]
  OBVIOUS
<1>5. /\ c.plan \in 1 .. Len(issued) /\ c.next \in 1 .. Listeners
      /\ d = [plan |-> c.plan, next |-> c.next + 1]
  BY <1>2, <1>4
<1>6. issued' = issued /\ overlapped' = overlapped
  BY <1>1 DEF PlanVars
<1>7. calls' \subseteq [plan: 1 .. Len(issued'), next: 1 .. Listeners]
  <2>1. CASE c.next = Listeners
    BY <2>1, <1>1, <1>6 DEF PlanInv, CallsInv
  <2>2. CASE c.next # Listeners
    <3>1. d \in [plan: 1 .. Len(issued), next: 1 .. Listeners]
      BY <2>2, <1>2, <1>5
    <3> QED BY <3>1, <2>2, <1>1, <1>4, <1>6 DEF PlanInv, CallsInv
  <2> QED BY <2>1, <2>2
<1>8. seen' \in [1 .. Listeners -> 0 .. Len(issued')]
  <2>1. c.plan \in 0 .. Len(issued)
    BY <1>3, <1>5
  <2> QED BY <2>1, <1>1, <1>5, <1>6 DEF PlanInv, CallsInv
<1>9. ASSUME ~overlapped'
      PROVE /\ calls' = {} => \A l \in 1 .. Listeners : seen'[l] = Len(issued')
            /\ calls' # {} => \E e \in calls' : calls' = {e} /\ Calling(e)'
  <2>1. calls = {c} /\ Calling(c)
    BY <1>6, <1>9 DEF PlanInv, CallsInv
  <2>2. \A l \in 1 .. c.next : seen'[l] = Len(issued')
    <3> SUFFICES ASSUME NEW l \in 1 .. c.next PROVE seen'[l] = Len(issued)
      BY <1>6
    <3>1. l \in 1 .. Listeners /\ seen'[l] = IF l = c.next THEN c.plan ELSE seen[l]
      BY <1>1, <1>2, <1>5 DEF PlanInv, CallsInv
    <3>2. l # c.next => l \in 1 .. c.next - 1
      BY <1>5
    <3> QED BY <3>1, <3>2, <2>1 DEF Calling
  <2>3. CASE c.next = Listeners
    <3>1. calls' = {}
      BY <2>1, <2>3, <1>1
    <3> QED BY <3>1, <2>2, <2>3
  <2>4. CASE c.next # Listeners
    <3>1. calls' = {d} /\ d \in calls'
      BY <2>1, <2>4, <1>1, <1>4
    <3>2. d.plan = Len(issued') /\ d.next - 1 = c.next
      BY <2>1, <1>5, <1>6 DEF Calling
    <3>3. \A l \in 1 .. d.next - 1 : seen'[l] = Len(issued')
      BY <2>2, <3>2
    <3>4. Calling(d)'
      BY <3>2, <3>3 DEF Calling
    <3> QED BY <3>1, <3>4
  <2> QED BY <2>3, <2>4
<1>10. CallsInv'
  BY <1>7, <1>8, <1>9 DEF CallsInv
<1> QED BY <1>1, <1>10, PlanRests DEF PlanInv

LEMMA StartKept ==
  ASSUME PlanInv, Start
  PROVE  PlanInv'
<1>1. /\ phase' = "serving"
      /\ UNCHANGED <<arrays, plan, issued, calls, seen, torn, shifted, overlapped, requests>>
  BY DEF Start
<1> USE <1>1 DEF PlanInv
<1>2. ArraysInv'
  BY DEF ArraysInv
<1>3. HistoryInv'
  BY DEF HistoryInv, IsSequence, Kept, PlansAreValues, Layers
<1>4. PlanIsCombination'
  BY DEF PlanIsCombination, Layers
<1>5. OrderInv'
  BY DEF OrderInv, OrdersAscend, RoomLeft, Layers
<1>6. CallsInv' /\ Scalars'
  BY DEF CallsInv, Calling, Scalars
<1> QED BY <1>2, <1>3, <1>4, <1>5, <1>6

(***************************************************************************)
(* Each step keeps the invariant.                                          *)
(***************************************************************************)
LEMMA RequestLayer ==
  ASSUME NEW label \in Label, NEW content \in Content
  PROVE  /\ NewLayer(label, content) \in Layer
         /\ NewLayer(label, content).label = label
         /\ NewLayer(label, content).services = content.services
<1>1. label \in Seq(STRING) /\ content.services \in [Service -> ServiceSaid]
        /\ content.workloads \in SUBSET STRING
  BY PlanManagerAssumption DEF PlanManagerAssumption
<1> QED BY <1>1 DEF NewLayer, Layer

LEMMA ArgsLayer ==
  ASSUME NEW S \in SUBSET Service
  PROVE  /\ NewLayer(ArgsLabel, ArgsContent(S)) \in Layer
         /\ NewLayer(ArgsLabel, ArgsContent(S)).label = ArgsLabel
         /\ NewLayer(ArgsLabel, ArgsContent(S)).services = ArgsContent(S).services
<1>1. <<ArgsText>> \in Seq(STRING) /\ <<>> \in Seq(STRING)
  <2>1. ArgsText \in STRING
    BY PlanManagerAssumption DEF PlanManagerAssumption
  <2> DEFINE T == STRING
  <2>2. ArgsText \in T
    BY <2>1
  <2> HIDE DEF T
  <2>3. <<ArgsText>> \in Seq(T) /\ <<>> \in Seq(T)
    BY <2>2
  <2> QED BY <2>3 DEF T
<1>2. \A s \in Service :
        (IF s \in S THEN [override |-> "merge", parts |-> <<ArgsText>>] ELSE NoService)
          \in ServiceSaid
  BY <1>1 DEF ServiceSaid, NoService
<1>3. ArgsContent(S).services \in [Service -> ServiceSaid] /\ ArgsContent(S).workloads = {}
  BY <1>2 DEF ArgsContent
<1> QED BY <1>1, <1>3 DEF NewLayer, Layer

LEMMA AppendKept ==
  ASSUME PlanInv, NEW label \in Label, NEW content \in Content, NEW inner \in BOOLEAN,
         AppendLayer(label, content, inner)
  PROVE  PlanInv'
<1>1. PICK new : new = NewLayer(label, content)
  OBVIOUS
<1>2. new \in Layer /\ new.label = label
  BY <1>1, RequestLayer
<1>3. /\ phase = "serving" /\ requests < MaxRequests /\ requests' = requests + 1
      /\ FindLayer(new.label) = {}
      /\ AddLayer(new) \/ RefuseLayer(new)
  BY <1>1, <1>2 DEF AppendLayer, Request
<1>4. requests' \in 0 .. MaxRequests /\ requests <= requests'
  BY <1>3, PlanManagerAssumption DEF PlanManagerAssumption, PlanInv, Scalars
<1>5. CASE AddLayer(new)
  BY <1>2, <1>3, <1>4, <1>5, AddKept
<1>6. CASE RefuseLayer(new)
  BY <1>2, <1>3, <1>4, <1>6, RefuseKept
<1> QED BY <1>3, <1>5, <1>6

LEMMA ArgsKept ==
  ASSUME PlanInv, NEW S \in SUBSET Service, SetServiceArgs(S)
  PROVE  PlanInv'
<1>1. PICK new : new = NewLayer(ArgsLabel, ArgsContent(S))
  OBVIOUS
<1>2. new \in Layer /\ new.label = ArgsLabel
  BY <1>1, ArgsLayer
<1>3. phase = "loaded" /\ FindLayer(new.label) = {} /\ AddLayer(new) /\ requests' = requests
  BY <1>1, <1>2 DEF SetServiceArgs
<1>4. SameDirectory(new.label) = {}
  <2> SUFFICES ASSUME NEW i \in SameDirectory(new.label) PROVE FALSE
    OBVIOUS
  <2>1. i \in 1 .. plan.len /\ SubLabel(Layers(plan)[i].label) = SubLabel(ArgsLabel)
    BY <1>2 DEF SameDirectory
  <2>2. Layers(plan)[i].label = ArgsLabel
    BY <2>1, <1>3 DEF PlanInv, OrderInv
  <2>3. i \in FindLayer(new.label)
    BY <2>1, <2>2, <1>2 DEF FindLayer
  <2> QED BY <2>3, <1>3
<1>5. requests' \in 0 .. MaxRequests /\ requests <= requests'
  BY <1>3, PlanManagerAssumption DEF PlanManagerAssumption, PlanInv, Scalars
<1> QED BY <1>2, <1>3, <1>4, <1>5, AddKept

LEMMA PlanStarts == Init => PlanInv
<1> SUFFICES ASSUME Init PROVE PlanInv
  OBVIOUS
<1> USE DEF Init
<1>1. arrays = << <<>> >> /\ plan = NewPlan(1, <<>>)
  OBVIOUS
<1>2. plan.array = 1 /\ plan.len = 0 /\ plan.services = CombineServices(<<>>)
  BY <1>1 DEF NewPlan
<1>3. <<>> \in Seq(Slot) /\ Len(<<>>) = 0
  BY EmptySeq
<1>4. arrays \in Seq(Seq(Slot)) /\ Len(arrays) = 1 /\ arrays[1] = <<>>
  <2> DEFINE T == Seq(Slot)
  <2>1. <<>> \in T
    BY <1>3
  <2> HIDE DEF T
  <2>2. << <<>> >> \in Seq(T) /\ Len(<< <<>> >>) = 1
    BY <2>1
  <2> QED BY <2>2, <1>1 DEF T
<1>5. ArraysInv
  BY <1>2, <1>3, <1>4 DEF ArraysInv
<1>6. Layers(plan) = <<>>
  <2>1. SubSeq(<<>>, 1, 0) = <<>>
    BY SubSeqEmpty
  <2> QED BY <2>1, <1>2, <1>4 DEF Layers
<1>7. PlanIsCombination
  BY <1>2, <1>6 DEF PlanIsCombination
<1>8. HistoryInv
  <2>1. issued = <<>> /\ DOMAIN issued = {} /\ Len(issued) = 0
    OBVIOUS
  <2>2. issued \in Seq({issued[i] : i \in DOMAIN issued})
    BY <2>1, EmptySeq
  <2> QED BY <2>1, <2>2 DEF HistoryInv, IsSequence, PlansAreValues
<1>9. OrderInv
  <2>1. DOMAIN <<>> = {} /\ 1 .. plan.len = {}
    BY <1>2
  <2>2. Ascending(<<>>)
    BY <2>1 DEF Ascending
  <2> QED BY <2>1, <2>2, <1>6 DEF OrderInv, OrdersAscend, RoomLeft
<1>10. CallsInv
  BY PlanManagerAssumption DEF PlanManagerAssumption, CallsInv
<1>11. Scalars
  <2>1. MaxRequests \in Nat /\ requests = 0 /\ requests \in 0 .. MaxRequests
    BY PlanManagerAssumption DEF PlanManagerAssumption
  <2>2. phase = "new" /\ torn = FALSE /\ shifted = {} /\ overlapped = FALSE
    OBVIOUS
  <2> QED BY <2>1, <2>2, <1>2 DEF Scalars
<1> QED BY <1>5, <1>7, <1>8, <1>9, <1>10, <1>11 DEF PlanInv

LEMMA PlanKept == PlanInv /\ [Next]_vars => PlanInv'
<1> SUFFICES ASSUME PlanInv, [Next]_vars PROVE PlanInv'
  OBVIOUS
<1>1. CASE \E d \in Directory : Load(d)
  BY <1>1, LoadKept
<1>2. CASE Start
  BY <1>2, StartKept
<1>3. CASE \E l \in Label, c \in Content, inner \in BOOLEAN : AppendLayer(l, c, inner)
  BY <1>3, AppendKept
<1>4. CASE \E l \in Label, c \in Content : CombineLayer(l, c)
  BY <1>4, CombineKept
<1>5. CASE \E S \in SUBSET Service : SetServiceArgs(S)
  BY <1>5, ArgsKept
<1>6. CASE \E c \in calls : CallListener(c)
  BY <1>6, CallKept
<1>7. CASE UNCHANGED vars
  <2>1. UNCHANGED PlanVars /\ calls' = calls /\ seen' = seen
    BY <1>7 DEF vars, PlanVars
  <2>2. CallsInv'
    BY <2>1 DEF PlanVars, PlanInv, CallsInv, Calling
  <2> QED BY <2>1, <2>2, PlanRests DEF PlanInv
<1> QED BY <1>1, <1>2, <1>3, <1>4, <1>5, <1>6, <1>7 DEF Next

(***************************************************************************)
(* The services of the plan are what its layers say, the orders grow, and  *)
(* the plans that were returned do not change, whatever requests come and  *)
(* however the arrays of the slices are shared: unless a layer was         *)
(* inserted before others in place (appendLayer, updatePlanLayers).        *)
(***************************************************************************)
THEOREM PlanCorrect == Spec => []PlanSound
<1>1. PlanInv => PlanSound
  <2>1. PlanInv => TypeOK
    BY DEF PlanInv, ArraysInv, CallsInv, Scalars, TypeOK
  <2> QED BY <2>1 DEF PlanInv, HistoryInv, OrderInv, PlanSound
<1> QED BY <1>1, PlanStarts, PlanKept, PTL DEF Spec

\* When all calls have been made, each listener has the newest plan, unless two updates
\* overlapped (callChangeListeners).
THEOREM ListenersTold == Spec => []ListenersCurrent
<1>1. PlanInv => ListenersCurrent
  BY DEF PlanInv, CallsInv, ListenersCurrent
<1> QED BY <1>1, PlanStarts, PlanKept, PTL DEF Spec

(***************************************************************************)
(* The services of a sequence of layers are those of all but the last,     *)
(* with the last merged into them.                                         *)
(***************************************************************************)
Services == [Service -> ServiceSaid]
NoServices == [s \in Service |-> NoService]

\* The function by which the layers are folded: what the layers at some places say
Folds(g, layers, n) ==
  g = [S \in SUBSET (1 .. n) |->
         IF S = {} THEN NoServices ELSE MergeLayer(g[S \ {Max(S)}], layers[Max(S)])]

LEMMA CombineFolds ==
  ASSUME NEW layers, NEW n, DOMAIN layers = 1 .. n
  PROVE  CombineServices(layers) = (CHOOSE g : Folds(g, layers, n))[1 .. n]
BY DEF CombineServices, FoldLeft, MapThenFoldSet, Folds, NoServices

LEMMA MergeLayerType ==
  ASSUME NEW services \in Services, NEW said, said.services \in Services
  PROVE  MergeLayer(services, said) \in Services
<1>1. \A s \in Service : Merge(services[s], said.services[s]) \in ServiceSaid
  BY MergeType DEF Services
<1> QED BY <1>1 DEF MergeLayer, Services

LEMMA NothingSaid == NoServices \in Services
<1>1. <<>> \in Seq(STRING)
  BY EmptySeq
<1>2. NoService \in ServiceSaid
  BY <1>1 DEF NoService, ServiceSaid
<1> QED BY <1>2 DEF NoServices, Services

LEMMA LastPlace ==
  ASSUME NEW n \in Nat, NEW S \in SUBSET (1 .. n + 1), n + 1 \in S
  PROVE  Max(S) = n + 1
<1>1. PICK m \in Nat : m = n + 1
  OBVIOUS
<1>2. S \in SUBSET (1 .. m) /\ m \in S
  BY <1>1
<1>3. Max(S) \in S /\ \A i \in S : i <= Max(S)
  BY <1>2, LastOf
<1>4. Max(S) \in 1 .. m /\ m <= Max(S)
  BY <1>2, <1>3
<1> QED BY <1>1, <1>4

LEMMA FoldExists ==
  ASSUME NEW layers \in Seq(Layer), NEW n \in 0 .. Len(layers)
  PROVE  \E g \in [SUBSET (1 .. n) -> Services] : Folds(g, layers, n)
<1> DEFINE Bad == {m \in 0 .. Len(layers) :
                     ~\E g \in [SUBSET (1 .. m) -> Services] : Folds(g, layers, m)}
<1> SUFFICES ASSUME Bad # {} PROVE FALSE
  OBVIOUS
<1>1. Bad \in SUBSET Nat
  OBVIOUS
<1>2. PICK m \in Bad : \A y \in Bad : m <= y
  BY <1>1, LeastNumber, Zenon
<1>3. CASE m = 0
  <2> DEFINE g == [S \in SUBSET (1 .. 0) |-> NoServices]
  <2>1. g \in [SUBSET (1 .. m) -> Services]
    BY <1>3, NothingSaid
  <2>2. \A S \in SUBSET (1 .. 0) : S = {}
    OBVIOUS
  <2>3. Folds(g, layers, 0)
    BY <2>2 DEF Folds
  <2> QED BY <2>1, <2>3, <1>2, <1>3
<1>4. CASE m # 0
  <2>1. PICK p : p = m - 1
    OBVIOUS
  <2>2. p \in 0 .. Len(layers) /\ p \notin Bad /\ m = p + 1 /\ p \in Nat /\ m \in 1 .. Len(layers)
    <3>1. m \in 0 .. Len(layers) /\ Len(layers) \in Nat
      OBVIOUS
    <3>2. p \in 0 .. Len(layers) /\ m = p + 1 /\ p \in Nat /\ m \in 1 .. Len(layers) /\ ~(m <= p)
      BY <3>1, <1>4, <2>1
    <3> HIDE DEF Bad
    <3> QED BY <3>2, <1>2
  <2>3. PICK g \in [SUBSET (1 .. p) -> Services] : Folds(g, layers, p)
    BY <2>2
  <2> DEFINE value(S) == IF m \in S THEN MergeLayer(g[S \ {m}], layers[m]) ELSE g[S]
             h == [S \in SUBSET (1 .. m) |-> value(S)]
  <2>4. ASSUME NEW S \in SUBSET (1 .. m) PROVE
          /\ m \notin S => S \in SUBSET (1 .. p)
          /\ S \ {m} \in SUBSET (1 .. p)
    BY <2>2
  <2>5. layers[m].services \in Services
    <3>1. layers[m] \in Layer
      BY <2>2
    <3> QED BY <3>1 DEF Layer, Services
  <2>6. ASSUME NEW S \in SUBSET (1 .. m) PROVE value(S) \in Services
    <3>1. CASE m \in S
      <4>1. g[S \ {m}] \in Services
        BY <2>4
      <4> QED BY <4>1, <3>1, <2>5, MergeLayerType
    <3>2. CASE m \notin S
      BY <3>2, <2>4
    <3> QED BY <3>1, <3>2
  <2>7. h \in [SUBSET (1 .. m) -> Services]
    BY <2>6
  <2>8. ASSUME NEW S \in SUBSET (1 .. m)
        PROVE value(S) = IF S = {} THEN NoServices
                         ELSE MergeLayer(h[S \ {Max(S)}], layers[Max(S)])
    <3>1. CASE m \in S
      <4>1. Max(S) = m
        BY <3>1, <2>2, LastPlace
      <4>2. S \ {m} \in SUBSET (1 .. m) /\ m \notin S \ {m}
        OBVIOUS
      <4>3. h[S \ {m}] = g[S \ {m}]
        BY <4>2
      <4> QED BY <4>1, <4>3, <3>1
    <3>2. CASE m \notin S /\ S # {}
      <4>1. S \in SUBSET (1 .. p)
        BY <3>2, <2>4
      <4>2. Max(S) \in S
        BY <4>1, <3>2, <2>2, LastOf
      <4>3. g[S] = MergeLayer(g[S \ {Max(S)}], layers[Max(S)])
        BY <4>1, <3>2, <2>3 DEF Folds
      <4>4. S \ {Max(S)} \in SUBSET (1 .. m) /\ m \notin S \ {Max(S)}
        BY <3>2
      <4>5. h[S \ {Max(S)}] = g[S \ {Max(S)}]
        BY <4>4
      <4> QED BY <4>3, <4>5, <3>2
    <3>3. CASE S = {}
      <4>1. S \in SUBSET (1 .. p) /\ m \notin S
        BY <3>3
      <4>2. g[S] = NoServices
        BY <4>1, <3>3, <2>3 DEF Folds
      <4> QED BY <4>1, <4>2, <3>3
    <3> QED BY <3>1, <3>2, <3>3
  <2> HIDE DEF value
  <2>9. h = [S \in SUBSET (1 .. m) |->
               IF S = {} THEN NoServices ELSE MergeLayer(h[S \ {Max(S)}], layers[Max(S)])]
    BY <2>8
  <2> HIDE DEF h
  <2>10. Folds(h, layers, m)
    BY <2>9 DEF Folds
  <2> QED BY <2>7, <2>10, <1>2
<1> QED BY <1>3, <1>4

\* What is folded depends on the places up to k only.
LEMMA FoldSteps ==
  ASSUME NEW layers, NEW n \in Nat, NEW g, Folds(g, layers, n), NEW k \in 0 .. n
  PROVE  g[1 .. k] = IF k = 0 THEN NoServices ELSE MergeLayer(g[1 .. k - 1], layers[k])
<1>1. 1 .. k \in SUBSET (1 .. n)
  OBVIOUS
<1>2. g[1 .. k] = IF 1 .. k = {} THEN NoServices
                  ELSE MergeLayer(g[(1 .. k) \ {Max(1 .. k)}], layers[Max(1 .. k)])
  BY <1>1 DEF Folds
<1>3. CASE k = 0
  BY <1>2, <1>3
<1>4. CASE k # 0
  <2>1. PICK p : p = k - 1
    OBVIOUS
  <2>2. p \in Nat /\ k = p + 1 /\ k \in 1 .. k
    BY <2>1, <1>4
  <2>3. Max(1 .. k) = k
    BY <2>2, LastPlace
  <2>4. (1 .. k) \ {k} = 1 .. k - 1 /\ 1 .. k # {}
    BY <2>2
  <2> QED BY <2>3, <2>4, <1>2, <1>4
<1> QED BY <1>3, <1>4

LEMMA FoldsAgree ==
  ASSUME NEW old \in Seq(Layer), NEW new \in Seq(Layer), Len(old) <= Len(new),
         \A k \in 1 .. Len(old) : new[k] = old[k],
         NEW g, Folds(g, old, Len(old)), NEW h, Folds(h, new, Len(new)),
         NEW k \in 0 .. Len(old)
  PROVE  h[1 .. k] = g[1 .. k] /\ g[1 .. k] \in Services
<1> DEFINE Bad == {j \in 0 .. Len(old) : ~(h[1 .. j] = g[1 .. j] /\ g[1 .. j] \in Services)}
<1> SUFFICES ASSUME Bad # {} PROVE FALSE
  OBVIOUS
<1>1. Bad \in SUBSET Nat
  OBVIOUS
<1>2. PICK j \in Bad : \A y \in Bad : j <= y
  BY <1>1, LeastNumber, Zenon
<1>3. Len(old) \in Nat /\ Len(new) \in Nat /\ j \in 0 .. Len(old) /\ j \in 0 .. Len(new)
  BY <1>2
<1>4. /\ g[1 .. j] = IF j = 0 THEN NoServices ELSE MergeLayer(g[1 .. j - 1], old[j])
      /\ h[1 .. j] = IF j = 0 THEN NoServices ELSE MergeLayer(h[1 .. j - 1], new[j])
  BY <1>3, FoldSteps
<1>5. CASE j = 0
  BY <1>2, <1>4, <1>5, NothingSaid
<1>6. CASE j # 0
  <2>1. j - 1 \in 0 .. Len(old) /\ j - 1 \notin Bad /\ j \in 1 .. Len(old)
    BY <1>2, <1>3, <1>6
  <2>2. h[1 .. j - 1] = g[1 .. j - 1] /\ g[1 .. j - 1] \in Services
    BY <2>1
  <2>3. old[j] \in Layer /\ new[j] = old[j]
    BY <2>1
  <2>4. old[j].services \in Services
    BY <2>3 DEF Layer, Services
  <2>5. MergeLayer(g[1 .. j - 1], old[j]) \in Services
    BY <2>2, <2>4, MergeLayerType
  <2> QED BY <2>2, <2>3, <2>5, <1>2, <1>4, <1>6
<1> QED BY <1>5, <1>6

LEMMA CombineLast ==
  ASSUME NEW old \in Seq(Layer), NEW new \in Seq(Layer), Len(new) = Len(old) + 1,
         \A k \in 1 .. Len(old) : new[k] = old[k]
  PROVE  /\ CombineServices(old) \in Services
         /\ CombineServices(new) = MergeLayer(CombineServices(old), new[Len(new)])
<1>1. /\ Len(old) \in Nat /\ Len(new) \in Nat /\ Len(old) <= Len(new)
      /\ DOMAIN old = 1 .. Len(old) /\ DOMAIN new = 1 .. Len(new)
  OBVIOUS
<1>2. PICK g : g = CHOOSE f : Folds(f, old, Len(old))
  OBVIOUS
<1>3. PICK h : h = CHOOSE f : Folds(f, new, Len(new))
  OBVIOUS
<1>4. Folds(g, old, Len(old)) /\ Folds(h, new, Len(new))
  <2>1. Len(old) \in 0 .. Len(old) /\ Len(new) \in 0 .. Len(new)
    BY <1>1
  <2>2. \E f : Folds(f, old, Len(old))
    BY <2>1, FoldExists, Zenon
  <2>3. \E f : Folds(f, new, Len(new))
    BY <2>1, FoldExists, Zenon
  <2> QED BY <2>2, <2>3, <1>2, <1>3
<1>5. CombineServices(old) = g[1 .. Len(old)] /\ CombineServices(new) = h[1 .. Len(new)]
  BY <1>1, <1>2, <1>3, CombineFolds
<1>6. h[1 .. Len(old)] = g[1 .. Len(old)] /\ g[1 .. Len(old)] \in Services
  BY <1>1, <1>4, FoldsAgree
<1>7. h[1 .. Len(new)] = MergeLayer(h[1 .. Len(new) - 1], new[Len(new)])
  <2>1. Len(new) \in 0 .. Len(new) /\ Len(new) # 0
    BY <1>1
  <2> QED BY <2>1, <1>1, <1>4, FoldSteps
<1>8. Len(new) - 1 = Len(old)
  BY <1>1
<1> QED BY <1>5, <1>6, <1>7, <1>8

(***************************************************************************)
(* To merge into a layer and then combine is to combine and then merge.    *)
(***************************************************************************)
LEMMA MergeAssociates ==
  ASSUME NEW o \in ServiceSaid, NEW a \in ServiceSaid, NEW c \in ServiceSaid
  PROVE  Merge(Merge(o, a), c) = Merge(o, Merge(a, c))
<1>1. PICK x \in Seq(STRING), y \in Seq(STRING), z \in Seq(STRING) :
        x = o.parts /\ y = a.parts /\ z = c.parts
  BY DEF ServiceSaid
<1>2. (x \o y) \o z = x \o (y \o z)
  <2> DEFINE T == STRING
  <2>1. x \in Seq(T) /\ y \in Seq(T) /\ z \in Seq(T)
    OBVIOUS
  <2> HIDE DEF T
  <2> QED BY <2>1, ConcatAssociative
<1>3. /\ a.override \in {"none", "merge", "replace"} /\ c.override \in {"none", "merge", "replace"}
      /\ o = [override |-> o.override, parts |-> x]
      /\ a = [override |-> a.override, parts |-> y]
      /\ c = [override |-> c.override, parts |-> z]
  BY <1>1 DEF ServiceSaid
<1>4. CASE c.override = "none"
  BY <1>4 DEF Merge
<1>5. CASE c.override = "replace"
  BY <1>5 DEF Merge
<1>6. CASE c.override = "merge"
  <2>1. CASE a.override = "none"
    BY <2>1, <1>6 DEF Merge
  <2>2. CASE a.override = "replace"
    <3>1. Merge(o, a) = a
      BY <2>2 DEF Merge
    <3>2. Merge(a, c).override = "replace"
      BY <2>2, <1>3, <1>6 DEF Merge
    <3>3. Merge(o, Merge(a, c)) = Merge(a, c)
      BY <3>2 DEF Merge
    <3> QED BY <3>1, <3>3
  <2>3. CASE a.override = "merge" /\ o.override = "none"
    <3>1. Merge(o, a) = a
      BY <2>3 DEF Merge
    <3>2. Merge(a, c).override = "merge"
      BY <2>3, <1>3, <1>6 DEF Merge
    <3>3. Merge(o, Merge(a, c)) = Merge(a, c)
      BY <2>3, <3>2 DEF Merge
    <3> QED BY <3>1, <3>3
  <2>4. CASE a.override = "merge" /\ o.override # "none"
    <3>1. PICK xy, yz : xy = x \o y /\ yz = y \o z
      OBVIOUS
    <3>2. Merge(o, a) = [override |-> o.override, parts |-> xy]
      BY <2>4, <1>1, <1>3, <3>1 DEF Merge
    <3>3. Merge(a, c) = [override |-> "merge", parts |-> yz]
      BY <2>4, <1>1, <1>3, <1>6, <3>1 DEF Merge
    <3>4. Merge(Merge(o, a), c) = [override |-> o.override, parts |-> xy \o z]
      BY <3>2, <2>4, <1>1, <1>6 DEF Merge
    <3>5. Merge(o, Merge(a, c)) = [override |-> o.override, parts |-> x \o yz]
      <4>1. PICK m : m = Merge(a, c)
        OBVIOUS
      <4>2. m.override = "merge" /\ m.parts = yz
        BY <3>3, <4>1
      <4>3. Merge(o, m) = [o EXCEPT !.parts = @ \o m.parts]
        BY <4>2, <2>4 DEF Merge
      <4> QED BY <4>1, <4>2, <4>3, <1>1, <1>3
    <3> QED BY <3>1, <3>4, <3>5, <1>2
  <2> QED BY <2>1, <2>2, <2>3, <2>4, <1>3
<1> QED BY <1>3, <1>4, <1>5, <1>6

(***************************************************************************)
(* A layer on top has the last word.                                       *)
(***************************************************************************)
LEMMA SamePlaces ==
  ASSUME NEW S, NEW a \in Seq(S), NEW b \in Seq(S), NEW n \in Nat, n <= Len(a), n <= Len(b),
         SubSeq(a, 1, n) = SubSeq(b, 1, n)
  PROVE  \A k \in 1 .. n : a[k] = b[k]
<1>1. n \in 0 .. Len(a) /\ n \in 0 .. Len(b) /\ \A k \in 1 .. n : a[k] \in S /\ b[k] \in S
  OBVIOUS
<1>2. \A k \in 1 .. n : SubSeq(a, 1, n)[k] = a[k]
  BY <1>1, Prefix
<1>3. \A k \in 1 .. n : SubSeq(b, 1, n)[k] = b[k]
  BY <1>1, Prefix
<1> QED BY <1>2, <1>3

LEMMA CombineType ==
  ASSUME NEW layers \in Seq(Layer)
  PROVE  CombineServices(layers) \in Services
<1>1. PICK g : g = CHOOSE f : Folds(f, layers, Len(layers))
  OBVIOUS
<1>2. Len(layers) \in Nat /\ Len(layers) \in 0 .. Len(layers) /\ Len(layers) <= Len(layers)
  OBVIOUS
<1>3. Folds(g, layers, Len(layers))
  <2>1. \E f : Folds(f, layers, Len(layers))
    BY <1>2, FoldExists, Zenon
  <2> QED BY <2>1, <1>1
<1>4. g[1 .. Len(layers)] \in Services
  BY <1>2, <1>3, FoldsAgree
<1> QED BY <1>1, <1>4, CombineFolds

LEMMA ArgsKnown ==
  ASSUME NEW services \in Services
  PROVE  MergeLayer(services, ArgsContent({})) = services
<1>1. \A s \in Service : ArgsContent({}).services[s] = NoService
  BY DEF ArgsContent
<1>2. \A s \in Service : Merge(services[s], NoService) = services[s]
  BY DEF Merge, NoService
<1>3. MergeLayer(services, ArgsContent({})) = [s \in Service |-> services[s]]
  BY <1>1, <1>2 DEF MergeLayer
<1> QED BY <1>3 DEF Services

\* As a new last layer
LEMMA PushedOnTop ==
  ASSUME PlanInv, NEW new \in Layer, FindLayer(new.label) = {}, AddLayer(new), PutOnTop
  PROVE  plan'.services = MergeLayer(plan.services, new)
<1>1. PICK layer, p, layers, array :
        /\ layer = [new EXCEPT !.order = NewOrder(new.label)]
        /\ p = NewIndex(new.label) /\ layers = WithLayer(layer) /\ array = Place
  OBVIOUS
<1>2. /\ layer \in Layer /\ layer.label = new.label /\ layer.services = new.services
      /\ p \in 0 .. plan.len /\ plan.len \in Nat
      /\ layers = InsertAt(Layers(plan), p + 1, layer)
      /\ layers \in Seq(Layer) /\ Len(layers) = plan.len + 1
      /\ Publish(NewPlan(array, layers), layers)
      /\ Holds(array, layers)'
  BY <1>1, Added
<1>3. /\ Layers(plan)' = layers /\ plan'.len = Len(layers)
      /\ plan'.services = CombineServices(layers)
  <2>1. plan' = NewPlan(array, layers)
    BY <1>2 DEF Publish
  <2> QED BY <2>1, <1>2, NewPlanIs DEF NewPlan
<1>4. PICK L \in Seq(Layer) : L = Layers(plan) /\ Len(L) = plan.len
  BY PlanLayers DEF PlanInv
<1>5. SubSeq(layers, 1, Len(L)) = SubSeq(L, 1, Len(L))
  <2>1. PICK n \in {plan.len - 1, plan.len} :
          plan'.len = n + 1 /\ SubSeq(Layers(plan)', 1, n) = SubSeq(Layers(plan), 1, n)
    BY DEF PutOnTop
  <2>2. n = Len(L)
    BY <2>1, <1>2, <1>3, <1>4
  <2> QED BY <2>1, <2>2, <1>3, <1>4
<1>6. \A k \in 1 .. Len(L) : layers[k] = L[k]
  BY <1>2, <1>4, <1>5, SamePlaces
<1>7. PICK place \in 1 .. Len(L) + 1 : place = p + 1
  BY <1>2, <1>4
<1>8. layers[place] = layer
  BY <1>2, <1>4, <1>7, Inserted
<1>9. place = Len(L) + 1
  <2> SUFFICES ASSUME place \in 1 .. Len(L) PROVE FALSE
    BY <1>7, <1>4
  <2>1. L[place] = layer
    BY <1>6, <1>8
  <2>2. place \in FindLayer(new.label)
    BY <2>1, <1>2, <1>4 DEF FindLayer
  <2> QED BY <2>2
<1>10. CombineServices(layers) = MergeLayer(CombineServices(L), layer)
  <2>1. layers[Len(layers)] = layer
    BY <1>2, <1>4, <1>8, <1>9
  <2>2. CombineServices(layers) = MergeLayer(CombineServices(L), layers[Len(layers)])
    BY <1>2, <1>4, <1>6, CombineLast
  <2> QED BY <2>1, <2>2
<1>11. plan.services = CombineServices(L)
  BY <1>4 DEF PlanInv, PlanIsCombination, PutOnTop
<1>12. MergeLayer(plan.services, layer) = MergeLayer(plan.services, new)
  BY <1>2 DEF MergeLayer
<1> QED BY <1>3, <1>10, <1>11, <1>12

\* Into the last layer
LEMMA MergedOnTop ==
  ASSUME NEW L \in Seq(Layer), NEW layers \in Seq(Layer), Len(layers) = Len(L), L # <<>>,
         \A k \in 1 .. Len(L) - 1 : layers[k] = L[k],
         NEW said, said.services \in Services,
         layers[Len(L)].services = MergeLayer(L[Len(L)].services, said)
  PROVE  CombineServices(layers) = MergeLayer(CombineServices(L), said)
<1>1. PICK m \in Nat : Len(L) = m + 1
  <2>1. Len(L) \in Nat /\ Len(L) # 0
    BY EmptySeq
  <2>2. Len(L) - 1 \in Nat /\ Len(L) = (Len(L) - 1) + 1
    BY <2>1
  <2> QED BY <2>2
<1>2. PICK below \in Seq(Layer) : Len(below) = m /\ \A k \in 1 .. m : below[k] = L[k]
  <2>1. m \in 0 .. Len(L)
    BY <1>1
  <2>2. \A k \in 1 .. m : L[k] \in Layer
    BY <2>1
  <2>3. /\ SubSeq(L, 1, m) \in Seq(Layer) /\ Len(SubSeq(L, 1, m)) = m
        /\ \A k \in 1 .. m : SubSeq(L, 1, m)[k] = L[k]
    BY <2>1, <2>2, Prefix
  <2> QED BY <2>3, Zenon
<1>3. PICK X \in Services : X = CombineServices(below)
  BY <1>1, <1>2, CombineLast
<1>4. CombineServices(L) = MergeLayer(X, L[m + 1])
  BY <1>1, <1>2, <1>3, CombineLast
<1>5. CombineServices(layers) = MergeLayer(X, layers[m + 1])
  BY <1>1, <1>2, <1>3, CombineLast
<1>6. PICK o \in Services, a \in Services, c \in Services :
        o = X /\ a = L[m + 1].services /\ c = said.services
  <2>1. m + 1 \in 1 .. Len(L)
    BY <1>1
  <2>2. L[m + 1] \in Layer
    BY <2>1
  <2> QED BY <2>2, <1>3 DEF Layer, Services
<1>7. layers[m + 1].services = [s \in Service |-> Merge(a[s], c[s])]
  BY <1>1, <1>6 DEF MergeLayer
<1>8. \A s \in Service : Merge(o[s], Merge(a[s], c[s])) = Merge(Merge(o[s], a[s]), c[s])
  BY MergeAssociates DEF Services
<1>9. CombineServices(layers) = [s \in Service |-> Merge(o[s], Merge(a[s], c[s]))]
  BY <1>5, <1>6, <1>7 DEF MergeLayer
<1>10. MergeLayer(CombineServices(L), said) = [s \in Service |-> Merge(Merge(o[s], a[s]), c[s])]
  BY <1>4, <1>6 DEF MergeLayer
<1> QED BY <1>8, <1>9, <1>10

LEMMA CombinedOnTop ==
  ASSUME PlanInv, NEW label \in Label, NEW content \in Content, CombineLayer(label, content),
         PutOnTop
  PROVE  MergesOnTop
<1>1. PICK i, L : i = Min(FindLayer(label)) /\ L = Layers(plan)
  OBVIOUS
<1>2. PICK layer : layer = CombinedLayer(L[i], content)
  OBVIOUS
<1>3. PICK layers : layers = [L EXCEPT ![i] = layer]
  OBVIOUS
<1>4. Len(L) = plan.len /\ plan.len \in Nat /\ i \in 1 .. Len(L) /\ L \in Seq(Layer)
  BY <1>1, <1>2, <1>3, Combined
<1>5. /\ layers \in Seq(Layer) /\ Len(layers) = Len(L)
      /\ \A j \in 1 .. Len(L) : layers[j] = IF j = i THEN layer ELSE L[j]
  BY <1>1, <1>2, <1>3, Combined
<1>6. Layers(plan)' = layers /\ plan'.len = Len(layers)
  BY <1>1, <1>2, <1>3, Combined
<1>7. plan'.services = CombineServices(layers)
  <2>1. plan' = NewPlan(Len(arrays) + 1, layers)
    BY <1>1, <1>2, <1>3 DEF CombineLayer, Publish
  <2> QED BY <2>1 DEF NewPlan
<1>8. plan.services = CombineServices(L)
  BY <1>1 DEF PlanInv, PlanIsCombination, PutOnTop
<1>9. content.services \in Services
  BY PlanManagerAssumption DEF PlanManagerAssumption, Services
<1>10. CASE i = Len(L)
  <2>1. \A k \in 1 .. Len(L) - 1 : layers[k] = L[k]
    BY <1>4, <1>5, <1>10
  <2>2. layers[Len(L)].services = MergeLayer(L[Len(L)].services, content)
    <3>1. layers[Len(L)] = layer
      BY <1>4, <1>5, <1>10
    <3>2. L[i] \in Layer
      BY <1>4
    <3>3. layer.services = MergeLayer(L[i].services, content)
      BY <1>2, <3>2 DEF CombinedLayer, Layer
    <3> QED BY <3>1, <3>3, <1>10
  <2>3. L # <<>>
    BY <1>4
  <2>4. CombineServices(layers) = MergeLayer(CombineServices(L), content)
    BY <2>1, <2>2, <2>3, <1>4, <1>5, <1>9, MergedOnTop
  <2> QED BY <2>4, <1>7, <1>8 DEF MergesOnTop
<1>11. CASE i # Len(L)
  <2>1. PICK n \in {plan.len - 1, plan.len} :
          plan'.len = n + 1 /\ SubSeq(Layers(plan)', 1, n) = SubSeq(Layers(plan), 1, n)
    BY DEF PutOnTop
  <2>2. n \in 0 .. Len(L) /\ i \in 1 .. n
    BY <2>1, <1>4, <1>5, <1>6, <1>11
  <2>3. SubSeq(layers, 1, n) = SubSeq(L, 1, n)
    BY <2>1, <1>1, <1>6
  <2>4. \A k \in 1 .. n : layers[k] = L[k]
    BY <2>2, <2>3, <1>4, <1>5, SamePlaces
  <2>5. \A k \in 1 .. Len(L) : layers[k] = L[k]
    BY <2>2, <2>4, <1>5
  <2>6. layers = L
    BY <2>5, <1>4, <1>5, SeqEqual
  <2>7. plan.services \in Services
    <3>1. CombineServices(L) \in Services
      BY <1>4, CombineType
    <3> QED BY <3>1, <1>8
  <2>8. plan'.services = MergeLayer(plan.services, ArgsContent({}))
    BY <2>6, <2>7, <1>7, <1>8, ArgsKnown
  <2> QED BY <2>8 DEF MergesOnTop
<1> QED BY <1>10, <1>11

\* A layer that is added at the end, or merged into the last one, replaces or completes what the
\* plan says of its services (CombineLayers, appendLayer, CombineLayer, SetServiceArgs).
THEOREM TopWins == Spec => TopLayerWins
<1>1. PlanInv /\ [Next]_vars => [PutOnTop => MergesOnTop]_vars
  <2> SUFFICES ASSUME PlanInv, Next, PutOnTop PROVE MergesOnTop
    OBVIOUS
  <2>1. CASE \E d \in Directory : Load(d)
    BY <2>1 DEF Load, PutOnTop, PlanInv, Scalars
  <2>2. CASE Start
    BY <2>2 DEF Start, PutOnTop
  <2>3. CASE \E l \in Label, c \in Content, inner \in BOOLEAN : AppendLayer(l, c, inner)
    <3>1. PICK label \in Label, content \in Content, inner \in BOOLEAN :
            AppendLayer(label, content, inner)
      BY <2>3
    <3>2. PICK new : new = NewLayer(label, content)
      OBVIOUS
    <3>3. new \in Layer /\ new.label = label /\ new.services = content.services
      BY <3>2, RequestLayer
    <3>4. FindLayer(new.label) = {} /\ (AddLayer(new) \/ RefuseLayer(new))
      BY <3>1, <3>2, <3>3 DEF AppendLayer
    <3>5. AddLayer(new)
      BY <3>4 DEF RefuseLayer, PutOnTop
    <3>6. plan'.services = MergeLayer(plan.services, new)
      BY <3>3, <3>4, <3>5, PushedOnTop
    <3>7. MergeLayer(plan.services, new) = MergeLayer(plan.services, content)
      BY <3>3 DEF MergeLayer
    <3> QED BY <3>6, <3>7 DEF MergesOnTop
  <2>4. CASE \E l \in Label, c \in Content : CombineLayer(l, c)
    BY <2>4, CombinedOnTop
  <2>5. CASE \E S \in SUBSET Service : SetServiceArgs(S)
    <3>1. PICK S \in SUBSET Service : SetServiceArgs(S)
      BY <2>5
    <3>2. PICK new : new = NewLayer(ArgsLabel, ArgsContent(S))
      OBVIOUS
    <3>3. new \in Layer /\ new.label = ArgsLabel /\ new.services = ArgsContent(S).services
      BY <3>2, ArgsLayer
    <3>4. FindLayer(new.label) = {} /\ AddLayer(new)
      BY <3>1, <3>2, <3>3 DEF SetServiceArgs
    <3>5. plan'.services = MergeLayer(plan.services, new)
      BY <3>3, <3>4, PushedOnTop
    <3>6. MergeLayer(plan.services, new) = MergeLayer(plan.services, ArgsContent(S))
      BY <3>3 DEF MergeLayer
    <3> QED BY <3>5, <3>6 DEF MergesOnTop
  <2>6. CASE \E c \in calls : CallListener(c)
    BY <2>6 DEF CallListener, PutOnTop
  <2> QED BY <2>1, <2>2, <2>3, <2>4, <2>5, <2>6 DEF Next
<1> QED BY <1>1, PlanStarts, PlanKept, PTL DEF Spec, TopLayerWins
=============================================================================
