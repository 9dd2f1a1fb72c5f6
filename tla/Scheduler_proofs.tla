-------------------------- MODULE Scheduler_proofs --------------------------
(***************************************************************************)
(* Proofs about the scheduler, for any hosts, batches and bounds.          *)
(***************************************************************************)
EXTENDS Scheduler, FiniteSetTheorems, WellFoundedInduction, TLAPS

----------------------------------------------------------------------------
(* Induction and recursion. *)

Descent == {x \in Nat \X Nat : x[1] < x[2]}

(* Nat has no infinite descent. *)
LEMMA DescentWF == IsWellFoundedOn(Descent, Nat)
  BY NatLessThanWellFounded, Zenon DEF OpToRel, Descent

(* A set of numbers has a least one. *)
LEMMA Least ==
    ASSUME NEW T \in SUBSET Nat, T # {}
    PROVE  \E x \in T : \A y \in T : x <= y
<1>1. PICK x \in T : \A y \in T : ~ (<<y, x>> \in Descent)
  BY DescentWF, WFMin
<1>2. ASSUME NEW y \in T PROVE x <= y
  <2>1. ~ (<<y, x>> \in Descent)
    BY <1>1
  <2>2. y \in Nat /\ x \in Nat
    OBVIOUS
  <2>3. y < x => <<y, x>> \in Descent
    BY <2>2 DEF Descent
  <2>4. QED
    BY <2>1, <2>2, <2>3
<1>3. QED
  BY <1>2

(* A set that has 0, and the successor of each of its numbers, has them    *)
(* all.                                                                    *)
LEMMA Induction ==
    ASSUME NEW T, 0 \in T, \A k \in Nat : k \in T => k + 1 \in T
    PROVE  \A k \in Nat : k \in T
<1>1. SUFFICES ASSUME Nat \ T # {} PROVE FALSE
  OBVIOUS
<1>2. PICK x \in Nat \ T : \A y \in Nat \ T : x <= y
  BY <1>1, Least
<1>3. x # 0 /\ x - 1 \in Nat /\ x - 1 \in T
  BY <1>2
<1>4. x - 1 + 1 \in T
  BY <1>3
<1>5. QED
  BY <1>2, <1>4

(* Where the steps from x end. *)
Ends(D, Done, step, x) ==
    {y \in Done : \E n \in Nat : \E g \in [Nat -> D] :
        /\ g[0] = x /\ g[n] = y
        /\ \A i \in Nat : i < n => g[i] \notin Done /\ g[i + 1] = step[g[i]]}

(* f calls itself last. *)
TailRecursive(f, D, Done, step, out) ==
    /\ f = [x \in D |-> f[x]]
    /\ \A x \in D : f[x] = IF x \in Done THEN out[x] ELSE f[step[x]]

(* A function that calls itself last exists, whether or not it ends.       *)
LEMMA TailRecursion ==
    ASSUME NEW D, NEW Done \in SUBSET D, NEW step \in [D -> D], NEW out
    PROVE  \E f : TailRecursive(f, D, Done, step, out)
<1> DEFINE f == [x \in D |-> out[CHOOSE y : y \in Ends(D, Done, step, x)]]
<1>1. ASSUME NEW x \in Done PROVE f[x] = out[x]
  <2>1. ASSUME NEW y \in Ends(D, Done, step, x) PROVE y = x
    BY <2>1 DEF Ends
  <2>2. x \in Ends(D, Done, step, x)
    <3> DEFINE g == [i \in Nat |-> x]
    <3>1. g \in [Nat -> D] /\ g[0] = x
      OBVIOUS
    <3>2. \A i \in Nat : i < 0 => g[i] \notin Done /\ g[i + 1] = step[g[i]]
      OBVIOUS
    <3> HIDE DEF g
    <3>3. QED
      BY <3>1, <3>2 DEF Ends
  <2>3. Ends(D, Done, step, x) = {x}
    BY <2>1, <2>2
  <2>4. (CHOOSE y : y \in Ends(D, Done, step, x)) = x
    BY <2>3
  <2>5. QED
    BY <2>4
<1>2. ASSUME NEW x \in D, x \notin Done PROVE f[x] = f[step[x]]
  <2>1. ASSUME NEW y \in Ends(D, Done, step, x)
        PROVE  y \in Ends(D, Done, step, step[x])
    <3>1. PICK n \in Nat, g \in [Nat -> D] :
            /\ g[0] = x /\ g[n] = y
            /\ \A i \in Nat : i < n => g[i] \notin Done /\ g[i + 1] = step[g[i]]
      BY <2>1 DEF Ends
    <3>2. n # 0
      BY <1>2, <2>1, <3>1 DEF Ends
    <3> DEFINE h == [i \in Nat |-> g[i + 1]]
    <3>3. n - 1 \in Nat /\ h \in [Nat -> D] /\ h[0] = step[x] /\ h[n - 1] = y
      BY <3>1, <3>2
    <3>4. ASSUME NEW i \in Nat, i < n - 1
          PROVE  h[i] \notin Done /\ h[i + 1] = step[h[i]]
      <4>1. i + 1 \in Nat /\ i + 1 < n
        BY <3>4
      <4>2. g[i + 1] \notin Done /\ g[i + 1 + 1] = step[g[i + 1]]
        BY <3>1, <4>1
      <4>3. QED
        BY <4>1, <4>2
    <3> HIDE DEF h
    <3>5. QED
      BY <2>1, <3>3, <3>4 DEF Ends
  <2>2. ASSUME NEW y \in Ends(D, Done, step, step[x])
        PROVE  y \in Ends(D, Done, step, x)
    <3>1. PICK n \in Nat, g \in [Nat -> D] :
            /\ g[0] = step[x] /\ g[n] = y
            /\ \A i \in Nat : i < n => g[i] \notin Done /\ g[i + 1] = step[g[i]]
      BY <2>2 DEF Ends
    <3> DEFINE h == [i \in Nat |-> IF i = 0 THEN x ELSE g[i - 1]]
    <3>2. h \in [Nat -> D] /\ h[0] = x
      BY <3>1
    <3>3. n + 1 \in Nat /\ h[n + 1] = y
      BY <3>1
    <3>4. ASSUME NEW i \in Nat, i < n + 1
          PROVE  h[i] \notin Done /\ h[i + 1] = step[h[i]]
      <4>1. CASE i = 0
        BY <1>2, <3>1, <4>1
      <4>2. CASE i # 0
        <5>1. i - 1 \in Nat /\ i - 1 < n
          BY <3>4, <4>2
        <5>2. g[i - 1] \notin Done /\ g[i - 1 + 1] = step[g[i - 1]]
          BY <3>1, <5>1
        <5>3. QED
          BY <4>2, <5>1, <5>2
      <4>3. QED
        BY <4>1, <4>2
    <3> HIDE DEF h
    <3>5. QED
      BY <2>2, <3>2, <3>3, <3>4 DEF Ends
  <2>3. Ends(D, Done, step, x) = Ends(D, Done, step, step[x])
    BY <2>1, <2>2
  <2>4. QED
    BY <2>3
<1>3. f = [x \in D |-> f[x]]
  OBVIOUS
<1> HIDE DEF f
<1>4. \A x \in D : f[x] = IF x \in Done THEN out[x] ELSE f[step[x]]
  BY <1>1, <1>2
<1>5. QED
  BY <1>3, <1>4 DEF TailRecursive

----------------------------------------------------------------------------
(* The order of hosts by load. *)

(* h1 is not more loaded than h2. *)
Le(h1, h2) == ~By(h2, h1)

LEMMA Monotone ==
    ASSUME NEW a \in Nat, NEW b \in Nat, NEW c \in Nat, a <= b
    PROVE  a * c <= b * c
<1>1. PICK d \in Nat : b = a + d
  BY b - a \in Nat
<1>2. (a + d) * c = a * c + d * c
  OBVIOUS
<1>3. a * c \in Nat /\ d * c \in Nat
  OBVIOUS
<1>4. QED
  BY <1>1, <1>2, <1>3

LEMMA Cancel ==
    ASSUME NEW a \in Nat, NEW b \in Nat, NEW c \in Nat \ {0}, a * c <= b * c
    PROVE  a <= b
<1>1. SUFFICES ASSUME b < a PROVE FALSE
  OBVIOUS
<1>2. PICK d \in Nat : a = b + d /\ d > 0
  BY <1>1, a - b \in Nat
<1>3. (b + d) * c = b * c + d * c
  OBVIOUS
<1>4. d * c \in Nat /\ d * c > 0 /\ b * c \in Nat
  BY <1>2
<1>5. QED
  BY <1>2, <1>3, <1>4

(* Fractions are compared by their cross products, which is transitive.    *)
LEMMA CrossTransitive ==
    ASSUME NEW x \in Nat, NEW y \in Nat, NEW z \in Nat,
           NEW p \in Nat \ {0}, NEW q \in Nat \ {0}, NEW r \in Nat \ {0},
           x * q <= y * p, y * r <= z * q
    PROVE  x * r <= z * p
<1>1. /\ x * q \in Nat /\ y * p \in Nat /\ y * r \in Nat /\ z * q \in Nat
      /\ x * r \in Nat /\ z * p \in Nat
  OBVIOUS
<1>2. (x * q) * r <= (y * p) * r
  BY <1>1, Monotone
<1>3. (y * r) * p <= (z * q) * p
  BY <1>1, Monotone
<1>4. (x * q) * r = (x * r) * q /\ (y * p) * r = (y * r) * p /\ (z * q) * p = (z * p) * q
  OBVIOUS
<1>5. /\ (x * r) * q \in Nat /\ (z * p) * q \in Nat /\ (y * r) * p \in Nat
  BY <1>1
<1>6. (x * r) * q <= (z * p) * q
  BY <1>2, <1>3, <1>4, <1>5
<1>7. QED
  BY <1>1, <1>6, Cancel

LEMMA ByCases ==
    ASSUME NEW a, NEW b
    PROVE  By(a, b) <=> \/ ~IsFull(a) /\ IsFull(b)
                        \/ /\ IsFull(a) <=> IsFull(b)
                           /\ a.commit * Capacity[b.name] < b.commit * Capacity[a.name]
<1>1. IsFull(a) \in BOOLEAN /\ IsFull(b) \in BOOLEAN
  BY DEF IsFull
<1>2. QED
  BY <1>1 DEF By

LEMMA LeCases ==
    ASSUME NEW a \in HostStats, NEW b \in HostStats
    PROVE  Le(a, b) <=> \/ ~IsFull(a) /\ IsFull(b)
                        \/ /\ IsFull(a) <=> IsFull(b)
                           /\ a.commit * Capacity[b.name] <= b.commit * Capacity[a.name]
<1>1. /\ a.commit \in Nat /\ b.commit \in Nat
      /\ Capacity[a.name] \in Nat /\ Capacity[b.name] \in Nat
  BY CapacityAssumption DEF HostStats
<1>2. a.commit * Capacity[b.name] \in Nat /\ b.commit * Capacity[a.name] \in Nat
  BY <1>1
<1> DEFINE ab == a.commit * Capacity[b.name]
           ba == b.commit * Capacity[a.name]
<1>3. By(b, a) <=> \/ ~IsFull(b) /\ IsFull(a)
                   \/ (IsFull(b) <=> IsFull(a)) /\ ba < ab
  BY ByCases
<1>4. ~(ba < ab) <=> ab <= ba
  BY <1>2
<1> HIDE DEF ab, ba
<1>5. Le(a, b) <=> \/ ~IsFull(a) /\ IsFull(b)
                   \/ (IsFull(a) <=> IsFull(b)) /\ ab <= ba
  BY <1>3, <1>4 DEF Le
<1>6. QED
  BY <1>5 DEF ab, ba

LEMMA LeTransitive ==
    ASSUME NEW a \in HostStats, NEW b \in HostStats, NEW c \in HostStats, Le(a, b), Le(b, c)
    PROVE  Le(a, c)
<1>1. /\ a.commit \in Nat /\ b.commit \in Nat /\ c.commit \in Nat
      /\ Capacity[a.name] \in Nat \ {0} /\ Capacity[b.name] \in Nat \ {0}
      /\ Capacity[c.name] \in Nat \ {0}
  BY CapacityAssumption DEF HostStats
<1>2. /\ a.commit * Capacity[b.name] <= b.commit * Capacity[a.name]
      /\ b.commit * Capacity[c.name] <= c.commit * Capacity[b.name]
      => a.commit * Capacity[c.name] <= c.commit * Capacity[a.name]
  BY <1>1, CrossTransitive
<1> DEFINE ab == a.commit * Capacity[b.name] <= b.commit * Capacity[a.name]
           bc == b.commit * Capacity[c.name] <= c.commit * Capacity[b.name]
           ac == a.commit * Capacity[c.name] <= c.commit * Capacity[a.name]
<1>3. ab /\ bc => ac
  BY <1>2
<1>4. Le(a, b) <=> (~IsFull(a) /\ IsFull(b)) \/ ((IsFull(a) <=> IsFull(b)) /\ ab)
  BY LeCases
<1>5. Le(b, c) <=> (~IsFull(b) /\ IsFull(c)) \/ ((IsFull(b) <=> IsFull(c)) /\ bc)
  BY LeCases
<1>6. Le(a, c) <=> (~IsFull(a) /\ IsFull(c)) \/ ((IsFull(a) <=> IsFull(c)) /\ ac)
  BY LeCases
<1> HIDE DEF ab, bc, ac
<1>7. QED
  BY <1>3, <1>4, <1>5, <1>6

LEMMA LeReflexive == ASSUME NEW a \in HostStats PROVE Le(a, a)
<1>1. a.commit * Capacity[a.name] \in Nat
  BY CapacityAssumption DEF HostStats
<1>2. QED
  BY <1>1, LeCases

LEMMA LeTotal ==
    ASSUME NEW a \in HostStats, NEW b \in HostStats, ~Le(a, b)
    PROVE  Le(b, a)
<1>1. /\ a.commit * Capacity[b.name] \in Nat
      /\ b.commit * Capacity[a.name] \in Nat
  BY CapacityAssumption DEF HostStats
<1> DEFINE ab == a.commit * Capacity[b.name]
           ba == b.commit * Capacity[a.name]
<1>2. Le(a, b) <=> (~IsFull(a) /\ IsFull(b)) \/ ((IsFull(a) <=> IsFull(b)) /\ ab <= ba)
  BY LeCases
<1>3. Le(b, a) <=> (~IsFull(b) /\ IsFull(a)) \/ ((IsFull(b) <=> IsFull(a)) /\ ba <= ab)
  BY LeCases
<1>4. ab <= ba \/ ba <= ab
  BY <1>1
<1> HIDE DEF ab, ba
<1>5. QED
  BY <1>2, <1>3, <1>4

(* A host that takes a VM does not become less loaded. *)
LEMMA IncrementHeavier ==
    ASSUME NEW h \in HostStats, NEW vm \in VM, h.limit \in (Nat \ {0}) \cup {-1}
    PROVE  /\ Increment(h, vm) \in HostStats
           /\ Increment(h, vm).limit \in (Nat \ {0}) \cup {-1}
           /\ Increment(h, vm).name = h.name
           /\ Le(h, Increment(h, vm))
<1> DEFINE k == Increment(h, vm)
           lim == IF vm.coschedule # -1 /\ (h.limit = -1 \/ vm.coschedule + 1 < h.limit)
                  THEN vm.coschedule + 1 ELSE h.limit
<1>1. /\ h.vms \in Nat /\ h.commit \in Nat /\ vm.load \in Nat /\ h.name \in HostNames
      /\ vm.coschedule \in Nat \cup {-1}
  BY DEF HostStats, VM
<1>2. lim \in (Nat \ {0}) \cup {-1}
  BY <1>1
<1>3. k = [name |-> h.name, limit |-> lim, vms |-> h.vms + 1, commit |-> h.commit + vm.load]
  <2>1. k = [h EXCEPT !.vms = h.vms + 1, !.commit = h.commit + vm.load, !.limit = lim]
    BY DEF Increment
  <2> HIDE DEF k, lim
  <2>2. h = [name |-> h.name, limit |-> h.limit, vms |-> h.vms, commit |-> h.commit]
    BY DEF HostStats
  <2>3. QED
    BY <2>1, <2>2
<1>4. k \in HostStats /\ k.limit = lim /\ k.name = h.name
  BY <1>1, <1>2, <1>3 DEF HostStats
<1>5. IsFull(h) => IsFull(k)
  BY <1>1, <1>3 DEF IsFull
<1>6. k.commit = h.commit + vm.load
  BY <1>3
<1>7. Capacity[h.name] \in Nat
  BY <1>1, CapacityAssumption
<1>8. h.commit * Capacity[h.name] <= (h.commit + vm.load) * Capacity[h.name]
  BY <1>1, <1>7, Monotone
<1> HIDE DEF k
<1>9. Le(h, k)
  BY <1>4, <1>5, <1>6, <1>8, LeCases
<1>10. QED
  BY <1>2, <1>4, <1>9 DEF k

----------------------------------------------------------------------------
(* The heap. *)

Children(p) == {2 * p, 2 * p + 1}

(* Below the places from `from' on nothing is less loaded than its parent. *)
Heap(hosts, from) ==
    \A p \in Nat : from <= p =>
        \A c \in Children(p) : c <= Len(hosts) => Le(hosts[p], hosts[c])

(* The same but for the host at r, which may have to sink: its children    *)
(* may take its place.                                                     *)
HeapBut(hosts, from, r) ==
    /\ \A p \in Nat : from <= p /\ p # r =>
          \A c \in Children(p) : c <= Len(hosts) => Le(hosts[p], hosts[c])
    /\ \A p \in Nat : from <= p /\ r \in Children(p) =>
          \A c \in Children(r) : c <= Len(hosts) => Le(hosts[p], hosts[c])

Distinct(hosts) == \A i, j \in 1 .. Len(hosts) : hosts[i].name = hosts[j].name => i = j

(* The same statistics in another order. *)
Rearranged(hosts, hosts2) ==
    /\ hosts2 \in Seq(HostStats) /\ Len(hosts2) = Len(hosts)
    /\ ToSet(hosts2) = ToSet(hosts)
    /\ Distinct(hosts) => Distinct(hosts2)

LEMMA SwapRearranges ==
    ASSUME NEW hosts \in Seq(HostStats), NEW i \in 1 .. Len(hosts), NEW j \in 1 .. Len(hosts)
    PROVE  /\ Rearranged(hosts, Swap(hosts, i, j))
           /\ \A k \in 1 .. Len(hosts) : Swap(hosts, i, j)[k] =
                  IF k = j THEN hosts[i] ELSE IF k = i THEN hosts[j] ELSE hosts[k]
<1> DEFINE s == Swap(hosts, i, j)
<1>1. /\ s \in [1 .. Len(hosts) -> HostStats] /\ DOMAIN s = 1 .. Len(hosts)
      /\ \A k \in 1 .. Len(hosts) :
             s[k] = IF k = j THEN hosts[i] ELSE IF k = i THEN hosts[j] ELSE hosts[k]
  BY DEF Swap
<1> HIDE DEF s
<1>2. s \in Seq(HostStats) /\ Len(s) = Len(hosts)
  BY <1>1
<1>3. ToSet(s) = ToSet(hosts)
  <2>1. ASSUME NEW k \in 1 .. Len(hosts) PROVE \E l \in 1 .. Len(hosts) : s[k] = hosts[l]
    BY <1>1
  <2>2. ASSUME NEW l \in 1 .. Len(hosts) PROVE \E k \in 1 .. Len(hosts) : s[k] = hosts[l]
    <3>1. CASE l = i
      BY <1>1, <3>1
    <3>2. CASE l = j
      BY <1>1, <3>2
    <3>3. CASE l # i /\ l # j
      BY <1>1, <3>3
    <3>4. QED
      BY <3>1, <3>2, <3>3
  <2>3. DOMAIN hosts = 1 .. Len(hosts)
    OBVIOUS
  <2>4. /\ ToSet(s) = {s[k] : k \in 1 .. Len(hosts)}
        /\ ToSet(hosts) = {hosts[k] : k \in 1 .. Len(hosts)}
    BY <1>1, <2>3 DEF ToSet
  <2>5. ASSUME NEW x \in ToSet(s) PROVE x \in ToSet(hosts)
    BY <2>1, <2>4
  <2>6. ASSUME NEW x \in ToSet(hosts) PROVE x \in ToSet(s)
    <3>1. PICK l \in 1 .. Len(hosts) : x = hosts[l]
      BY <2>4
    <3>2. QED
      BY <2>2, <2>4, <3>1
  <2>7. QED
    BY <2>5, <2>6
<1>4. Distinct(hosts) => Distinct(s)
  BY <1>1, <1>2 DEF Distinct
<1>5. QED
  BY <1>1, <1>2, <1>3, <1>4 DEF Rearranged, s

LEMMA RearrangedTransitive ==
    ASSUME NEW h, NEW k, NEW l, Rearranged(h, k), Rearranged(k, l)
    PROVE  Rearranged(h, l)
  BY DEF Rearranged

LEMMA RearrangedReflexive ==
    ASSUME NEW h \in Seq(HostStats)
    PROVE  Rearranged(h, h)
  BY DEF Rearranged

(* siftDown goes on with the smaller child. *)
LEMMA ChildIsSmaller ==
    ASSUME NEW hosts \in Seq(HostStats), NEW r \in Nat \ {0}, 2 * r <= Len(hosts)
    PROVE  /\ Child(hosts, r) \in Children(r)
           /\ Child(hosts, r) \in 1 .. Len(hosts)
           /\ \A c \in Children(r) : c <= Len(hosts) => Le(hosts[Child(hosts, r)], hosts[c])
<1>1. 2 * r \in 1 .. Len(hosts) /\ hosts[2 * r] \in HostStats
  OBVIOUS
<1>2. CASE 2 * r + 1 <= Len(hosts)
  <2>1. 2 * r + 1 \in 1 .. Len(hosts) /\ hosts[2 * r + 1] \in HostStats
    BY <1>2
  <2>2. CASE By(hosts[2 * r], hosts[2 * r + 1])
    <3>1. Child(hosts, r) = 2 * r
      BY <2>2 DEF Child
    <3>2. Le(hosts[2 * r], hosts[2 * r]) /\ Le(hosts[2 * r], hosts[2 * r + 1])
      BY <1>1, <2>1, <2>2, LeReflexive, LeTotal DEF Le
    <3>3. QED
      BY <1>1, <3>1, <3>2 DEF Children
  <2>3. CASE ~By(hosts[2 * r], hosts[2 * r + 1])
    <3>1. Child(hosts, r) = 2 * r + 1
      BY <1>2, <2>3 DEF Child
    <3>2. Le(hosts[2 * r + 1], hosts[2 * r + 1]) /\ Le(hosts[2 * r + 1], hosts[2 * r])
      BY <1>1, <2>1, <2>3, LeReflexive DEF Le
    <3>3. QED
      BY <2>1, <3>1, <3>2 DEF Children
  <2>4. QED
    BY <2>2, <2>3
<1>3. CASE ~(2 * r + 1 <= Len(hosts))
  <2>1. Child(hosts, r) = 2 * r
    BY <1>3 DEF Child
  <2>2. \A c \in Children(r) : c <= Len(hosts) => c = 2 * r
    BY <1>3 DEF Children
  <2>3. Le(hosts[2 * r], hosts[2 * r])
    BY <1>1, LeReflexive
  <2>4. QED
    BY <1>1, <2>1, <2>2, <2>3 DEF Children
<1>4. QED
  BY <1>2, <1>3

(* The loop of siftDown returns when the host at r has sunk far enough ... *)
LEMMA SunkIsHeap ==
    ASSUME NEW hosts \in Seq(HostStats), NEW r \in Nat \ {0}, NEW from \in Nat \ {0},
           HeapBut(hosts, from, r),
           2 * r > Len(hosts) \/ By(hosts[r], hosts[Child(hosts, r)])
    PROVE  Heap(hosts, from)
<1>1. SUFFICES ASSUME NEW c \in Children(r), c <= Len(hosts)
               PROVE  Le(hosts[r], hosts[c])
  BY DEF Heap, HeapBut
<1>2. 2 * r <= Len(hosts) /\ r \in 1 .. Len(hosts) /\ c \in 1 .. Len(hosts)
  BY <1>1 DEF Children
<1>3. /\ Child(hosts, r) \in 1 .. Len(hosts)
      /\ Le(hosts[Child(hosts, r)], hosts[c])
  BY <1>1, <1>2, ChildIsSmaller
<1>4. By(hosts[r], hosts[Child(hosts, r)])
  BY <1>2
<1>5. /\ hosts[r] \in HostStats /\ hosts[c] \in HostStats
      /\ hosts[Child(hosts, r)] \in HostStats
  BY <1>2, <1>3
<1>6. Le(hosts[r], hosts[Child(hosts, r)])
  BY <1>4, <1>5, LeTotal DEF Le
<1>7. QED
  BY <1>3, <1>5, <1>6, LeTransitive

(* ... and otherwise goes on one level down. *)
LEMMA SinkingKeepsHeap ==
    ASSUME NEW hosts \in Seq(HostStats), NEW r \in Nat \ {0}, NEW from \in Nat \ {0},
           from <= r, HeapBut(hosts, from, r), 2 * r <= Len(hosts),
           ~By(hosts[r], hosts[Child(hosts, r)])
    PROVE  HeapBut(Swap(hosts, r, Child(hosts, r)), from, Child(hosts, r))
<1>1. PICK d : d = Child(hosts, r)
  OBVIOUS
<1>2. PICK s : s = Swap(hosts, r, d)
  OBVIOUS
<1>3. /\ d \in Children(r) /\ d \in 1 .. Len(hosts) /\ r \in 1 .. Len(hosts)
      /\ \A c \in Children(r) : c <= Len(hosts) => Le(hosts[d], hosts[c])
  BY <1>1, ChildIsSmaller
<1>4. /\ s \in Seq(HostStats) /\ Len(s) = Len(hosts)
      /\ \A k \in 1 .. Len(hosts) :
             s[k] = IF k = d THEN hosts[r] ELSE IF k = r THEN hosts[d] ELSE hosts[k]
  <2>1. /\ Rearranged(hosts, s)
        /\ \A k \in 1 .. Len(hosts) :
               s[k] = IF k = d THEN hosts[r] ELSE IF k = r THEN hosts[d] ELSE hosts[k]
    BY <1>2, <1>3, SwapRearranges
  <2>2. QED
    BY <2>1 DEF Rearranged
<1>5. r < d /\ d \in Nat
  BY <1>3 DEF Children
<1>6. Le(hosts[d], hosts[r])
  BY <1>1 DEF Le
<1>7. ASSUME NEW p \in Nat, from <= p, p # d, NEW c \in Children(p), c <= Len(hosts)
      PROVE  Le(s[p], s[c])
  <2>1. p \in 1 .. Len(hosts) /\ c \in 1 .. Len(hosts) /\ p < c
    BY <1>7 DEF Children
  <2>2. CASE p = r
    <3>1. s[p] = hosts[d]
      BY <1>4, <1>5, <2>1, <2>2
    <3>2. CASE c = d
      BY <1>4, <1>6, <2>1, <3>1, <3>2
    <3>3. CASE c # d
      <4>1. s[c] = hosts[c]
        BY <1>4, <2>1, <2>2, <3>3
      <4>2. QED
        BY <1>3, <1>7, <2>2, <3>1, <4>1
    <3>4. QED
      BY <3>2, <3>3
  <2>3. CASE p # r /\ c = r
    <3>1. s[p] = hosts[p] /\ s[c] = hosts[d]
      BY <1>4, <1>5, <1>7, <2>1, <2>3
    <3>2. Le(hosts[p], hosts[d])
      BY <1>3, <1>7, <2>3 DEF HeapBut
    <3>3. QED
      BY <3>1, <3>2
  <2>4. CASE p # r /\ c # r
    <3>1. c # d
      BY <1>3, <1>7, <2>4 DEF Children
    <3>2. s[p] = hosts[p] /\ s[c] = hosts[c]
      BY <1>4, <1>7, <2>1, <2>4, <3>1
    <3>3. QED
      BY <1>7, <2>4, <3>2 DEF HeapBut
  <2>5. QED
    BY <2>2, <2>3, <2>4
<1>8. ASSUME NEW p \in Nat, from <= p, d \in Children(p), NEW c \in Children(d), c <= Len(hosts)
      PROVE  Le(s[p], s[c])
  <2>1. p = r
    BY <1>3, <1>8 DEF Children
  <2>2. c \in 1 .. Len(hosts) /\ c # d /\ c # r
    BY <1>5, <1>8 DEF Children
  <2>3. s[p] = hosts[d] /\ s[c] = hosts[c]
    BY <1>3, <1>4, <1>5, <2>1, <2>2
  <2>4. Le(hosts[d], hosts[c])
    <3>1. from <= d /\ d # r
      BY <1>5
    <3>2. QED
      BY <1>5, <1>8, <3>1 DEF HeapBut
  <2>5. QED
    BY <2>3, <2>4
<1>9. HeapBut(s, from, d)
  BY <1>4, <1>7, <1>8 DEF HeapBut
<1>10. QED
  BY <1>1, <1>2, <1>9

(* siftDown and Sort as loops. *)

Sunk == {s \in Sift : \/ 2 * s.root > Len(s.hosts)
                      \/ By(s.hosts[s.root], s.hosts[Child(s.hosts, s.root)])}

Below(s) ==
    [root |-> Child(s.hosts, s.root), hosts |-> Swap(s.hosts, s.root, Child(s.hosts, s.root))]

LEMMA BelowIsSift ==
    ASSUME NEW s \in Sift, s \notin Sunk
    PROVE  /\ Below(s) \in Sift /\ s.root < Below(s).root
           /\ Rearranged(s.hosts, Below(s).hosts)
<1>1. s.root \in Nat \ {0} /\ s.hosts \in Seq(HostStats) /\ 2 * s.root <= Len(s.hosts)
  BY DEF Sift, Sunk
<1>2. /\ Child(s.hosts, s.root) \in 1 .. Len(s.hosts) /\ s.root \in 1 .. Len(s.hosts)
      /\ Child(s.hosts, s.root) \in Children(s.root)
  BY <1>1, ChildIsSmaller
<1>3. Rearranged(s.hosts, Swap(s.hosts, s.root, Child(s.hosts, s.root)))
  BY <1>1, <1>2, SwapRearranges
<1>4. s.root < Child(s.hosts, s.root)
  BY <1>1, <1>2 DEF Children
<1>5. QED
  BY <1>2, <1>3, <1>4 DEF Below, Sift, Rearranged

LEMMA siftDownDef ==
    siftDown = [s \in Sift |-> IF s \in Sunk THEN s.hosts ELSE siftDown[Below(s)]]
<1> DEFINE step == [s \in Sift |-> IF s \in Sunk THEN s ELSE Below(s)]
           out == [s \in Sift |-> s.hosts]
<1>1. step \in [Sift -> Sift] /\ Sunk \in SUBSET Sift
  BY BelowIsSift DEF Sunk
<1> HIDE DEF step, out
<1>2. PICK f : TailRecursive(f, Sift, Sunk, step, out)
  BY <1>1, TailRecursion
<1>3. f = [s \in Sift |-> IF s \in Sunk THEN s.hosts ELSE f[Below(s)]]
  <2>1. \A s \in Sift : f[s] = IF s \in Sunk THEN s.hosts ELSE f[Below(s)]
    BY <1>2 DEF step, out, TailRecursive
  <2>2. QED
    BY <1>2, <2>1, Zenon DEF TailRecursive
<1>4. ASSUME NEW g
      PROVE  [s \in Sift |-> IF s \in Sunk THEN s.hosts ELSE g[Below(s)]]
             = [s \in Sift |->
                  IF 2 * s.root > Len(s.hosts) THEN s.hosts
                  ELSE IF By(s.hosts[s.root], s.hosts[Child(s.hosts, s.root)]) THEN s.hosts
                  ELSE g[[root |-> Child(s.hosts, s.root),
                          hosts |-> Swap(s.hosts, s.root, Child(s.hosts, s.root))]]]
  BY DEF Sunk, Below
<1>5. f = [s \in Sift |->
             IF 2 * s.root > Len(s.hosts) THEN s.hosts
             ELSE IF By(s.hosts[s.root], s.hosts[Child(s.hosts, s.root)]) THEN s.hosts
             ELSE f[[root |-> Child(s.hosts, s.root),
                     hosts |-> Swap(s.hosts, s.root, Child(s.hosts, s.root))]]]
  BY <1>3, <1>4
<1>6. siftDown = [s \in Sift |->
             IF 2 * s.root > Len(s.hosts) THEN s.hosts
             ELSE IF By(s.hosts[s.root], s.hosts[Child(s.hosts, s.root)]) THEN s.hosts
             ELSE siftDown[[root |-> Child(s.hosts, s.root),
                            hosts |-> Swap(s.hosts, s.root, Child(s.hosts, s.root))]]]
  BY <1>5, Zenon DEF siftDown
<1>7. QED
  BY <1>4, <1>6

(* A host that is too low in the heap sinks to its place. *)
LEMMA siftDownSorts ==
    ASSUME NEW hosts \in Seq(HostStats), NEW r \in Nat \ {0}
    PROVE  /\ Rearranged(hosts, siftDown[[root |-> r, hosts |-> hosts]])
           /\ \A from \in 1 .. r : HeapBut(hosts, from, r)
                 => Heap(siftDown[[root |-> r, hosts |-> hosts]], from)
<1> DEFINE Good(s) ==
             /\ Rearranged(s.hosts, siftDown[s])
             /\ \A from \in 1 .. s.root : HeapBut(s.hosts, from, s.root)
                   => Heap(siftDown[s], from)
           T == {k \in Nat : \A s \in Sift : Len(s.hosts) <= s.root + k => Good(s)}
<1>1. ASSUME NEW s \in Sunk PROVE Good(s)
  <2>1. s \in Sift /\ s.root \in Nat \ {0} /\ s.hosts \in Seq(HostStats)
    BY DEF Sunk, Sift
  <2>2. siftDown[s] = s.hosts
    BY <2>1, siftDownDef
  <2>3. Rearranged(s.hosts, siftDown[s])
    BY <2>1, <2>2, RearrangedReflexive
  <2>4. \/ 2 * s.root > Len(s.hosts)
        \/ By(s.hosts[s.root], s.hosts[Child(s.hosts, s.root)])
    BY DEF Sunk
  <2>5. ASSUME NEW from \in 1 .. s.root, HeapBut(s.hosts, from, s.root)
        PROVE  Heap(siftDown[s], from)
    <3>1. from \in Nat \ {0}
      BY <2>1
    <3>2. QED
      BY <2>1, <2>2, <2>4, <2>5, <3>1, SunkIsHeap
  <2>6. QED
    BY <2>3, <2>5
<1>2. ASSUME NEW s \in Sift, s \notin Sunk, Good(Below(s)) PROVE Good(s)
  <2>1. s.root \in Nat \ {0} /\ s.hosts \in Seq(HostStats)
    BY DEF Sift
  <2>2. siftDown[s] = siftDown[Below(s)]
    BY <1>2, siftDownDef
  <2>3. /\ Below(s) \in Sift /\ s.root < Below(s).root
        /\ Rearranged(s.hosts, Below(s).hosts)
    BY <1>2, BelowIsSift
  <2>4. Rearranged(s.hosts, siftDown[s])
    BY <1>2, <2>2, <2>3, RearrangedTransitive
  <2>5. ASSUME NEW from \in 1 .. s.root, HeapBut(s.hosts, from, s.root)
        PROVE  Heap(siftDown[s], from)
    <3>1. from \in Nat \ {0} /\ from <= s.root
      BY <2>1
    <3>2. 2 * s.root <= Len(s.hosts) /\ ~By(s.hosts[s.root], s.hosts[Child(s.hosts, s.root)])
      BY <1>2, <2>1 DEF Sunk
    <3>3. HeapBut(Below(s).hosts, from, Below(s).root)
      BY <2>1, <2>5, <3>1, <3>2, SinkingKeepsHeap DEF Below
    <3>4. from \in 1 .. Below(s).root
      BY <2>1, <2>3, <3>1 DEF Sift
    <3>5. QED
      BY <1>2, <2>2, <3>3, <3>4
  <2>6. QED
    BY <2>4, <2>5
<1> HIDE DEF Good
<1>3. 0 \in T
  <2>1. ASSUME NEW s \in Sift, Len(s.hosts) <= s.root + 0 PROVE s \in Sunk
    BY <2>1 DEF Sunk, Sift
  <2>2. QED
    BY <1>1, <2>1
<1>4. ASSUME NEW k \in Nat, k \in T PROVE k + 1 \in T
  <2>1. ASSUME NEW s \in Sift, Len(s.hosts) <= s.root + (k + 1) PROVE Good(s)
    <3>1. CASE s \in Sunk
      BY <1>1, <3>1
    <3>2. CASE s \notin Sunk
      <4>1. Below(s) \in Sift /\ s.root < Below(s).root /\ Rearranged(s.hosts, Below(s).hosts)
        BY <3>2, BelowIsSift
      <4>2. Len(Below(s).hosts) <= Below(s).root + k
        <5>1. /\ s.root \in Nat /\ Below(s).root \in Nat
              /\ Len(s.hosts) \in Nat /\ Len(Below(s).hosts) = Len(s.hosts)
          BY <4>1 DEF Sift, Rearranged
        <5>2. QED
          BY <2>1, <4>1, <5>1
      <4>3. Good(Below(s))
        BY <1>4, <4>1, <4>2
      <4>4. QED
        BY <1>2, <3>2, <4>3
    <3>3. QED
      BY <3>1, <3>2
  <2>2. QED
    BY <2>1
<1> HIDE DEF T
<1>5. \A k \in Nat : k \in T
  BY <1>3, <1>4, Induction
<1>6. PICK s : s = [root |-> r, hosts |-> hosts]
  OBVIOUS
<1>7. s \in Sift /\ Len(s.hosts) \in Nat /\ Len(s.hosts) <= s.root + Len(s.hosts)
  BY <1>6 DEF Sift
<1>8. Good(s)
  BY <1>5, <1>7 DEF T
<1>9. QED
  BY <1>6, <1>8 DEF Good

LEMMA floydDef ==
    floyd = [s \in Climb |-> IF s.root = 0 THEN s.hosts
                             ELSE floyd[[root |-> s.root - 1, hosts |-> siftDown[s]]]]
<1> DEFINE Done == {s \in Climb : s.root = 0}
           step == [s \in Climb |-> IF s \in Done THEN s
                                    ELSE [root |-> s.root - 1, hosts |-> siftDown[s]]]
           out == [s \in Climb |-> s.hosts]
<1>1. ASSUME NEW s \in Climb, s.root # 0
      PROVE  [root |-> s.root - 1, hosts |-> siftDown[s]] \in Climb
  <2>1. s.root \in Nat \ {0} /\ s.hosts \in Seq(HostStats)
    BY <1>1 DEF Climb
  <2>2. Rearranged(s.hosts, siftDown[[root |-> s.root, hosts |-> s.hosts]])
    BY <2>1, siftDownSorts
  <2>3. s = [root |-> s.root, hosts |-> s.hosts]
    BY DEF Climb
  <2>4. siftDown[s] \in Seq(HostStats)
    BY <2>2, <2>3 DEF Rearranged
  <2>5. QED
    BY <2>1, <2>4 DEF Climb
<1>2. step \in [Climb -> Climb] /\ Done \in SUBSET Climb
  BY <1>1
<1> HIDE DEF step, out, Done
<1>3. PICK f : TailRecursive(f, Climb, Done, step, out)
  BY <1>2, TailRecursion
<1>4. f = [s \in Climb |-> IF s.root = 0 THEN s.hosts
                           ELSE f[[root |-> s.root - 1, hosts |-> siftDown[s]]]]
  <2>1. \A s \in Climb : f[s] = IF s.root = 0 THEN s.hosts
                             ELSE f[[root |-> s.root - 1, hosts |-> siftDown[s]]]
    BY <1>3 DEF step, out, Done, TailRecursive
  <2>2. QED
    BY <1>3, <2>1, Zenon DEF TailRecursive
<1>5. QED
  BY <1>4, Zenon DEF floyd, Climb

(* Sort turns any sequence of hosts into a heap. *)
LEMMA HeapifySorts ==
    ASSUME NEW hosts \in Seq(HostStats)
    PROVE  Rearranged(hosts, Heapify(hosts)) /\ Heap(Heapify(hosts), 1)
<1> DEFINE Good(s) == /\ Rearranged(s.hosts, floyd[s])
                      /\ Heap(s.hosts, s.root + 1) => Heap(floyd[s], 1)
           T == {k \in Nat : \A s \in Climb : s.root = k => Good(s)}
<1>1. 0 \in T
  <2>1. ASSUME NEW s \in Climb, s.root = 0 PROVE Good(s)
    <3>1. floyd[s] = s.hosts
      BY <2>1, floydDef
    <3>2. s.hosts \in Seq(HostStats)
      BY DEF Climb
    <3>3. QED
      BY <2>1, <3>1, <3>2, RearrangedReflexive
  <2>2. QED
    BY <2>1
<1>2. ASSUME NEW k \in Nat, k \in T PROVE k + 1 \in T
  <2>1. ASSUME NEW s \in Climb, s.root = k + 1 PROVE Good(s)
    <3>1. s.root \in Nat \ {0} /\ s.hosts \in Seq(HostStats)
      BY <2>1 DEF Climb
    <3>2. PICK h : h = siftDown[s]
      OBVIOUS
    <3>3. PICK t : t = [root |-> s.root - 1, hosts |-> h]
      OBVIOUS
    <3>4. s = [root |-> s.root, hosts |-> s.hosts]
      BY DEF Climb
    <3>5. /\ Rearranged(s.hosts, h)
          /\ \A from \in 1 .. s.root : HeapBut(s.hosts, from, s.root) => Heap(h, from)
      BY <3>1, <3>2, <3>4, siftDownSorts
    <3>6. t \in Climb /\ t.root = k /\ t.hosts = h
      BY <2>1, <3>1, <3>3, <3>5 DEF Climb, Rearranged
    <3>7. floyd[s] = floyd[t]
      <4>1. s.root # 0
        BY <3>1
      <4>2. QED
        BY <3>2, <3>3, <4>1, floydDef
    <3>8. Good(t)
      BY <1>2, <3>6
    <3>9. Rearranged(s.hosts, floyd[s])
      BY <3>5, <3>6, <3>7, <3>8, RearrangedTransitive
    <3>10. ASSUME Heap(s.hosts, s.root + 1) PROVE Heap(floyd[s], 1)
      <4>1. HeapBut(s.hosts, s.root, s.root)
        BY <3>1, <3>10 DEF HeapBut, Heap, Children
      <4>2. Heap(h, s.root)
        BY <3>1, <3>5, <4>1
      <4>3. QED
        BY <2>1, <3>6, <3>7, <3>8, <4>2
    <3>11. QED
      BY <3>9, <3>10
  <2>2. QED
    BY <2>1
<1> HIDE DEF T
<1>3. \A k \in Nat : k \in T
  BY <1>1, <1>2, Induction
<1>4. PICK s : s = [root |-> (Len(hosts) + 1) \div 2, hosts |-> hosts]
  OBVIOUS
<1>5. Len(hosts) \in Nat /\ (Len(hosts) + 1) \div 2 \in Nat
  OBVIOUS
<1>6. s \in Climb /\ s.root = (Len(hosts) + 1) \div 2 /\ s.hosts = hosts
  BY <1>4, <1>5 DEF Climb
<1>7. Good(s)
  BY <1>3, <1>5, <1>6 DEF T
<1>8. Heap(hosts, s.root + 1)
  <2>1. ASSUME NEW p \in Nat, s.root + 1 <= p, NEW c \in Children(p) PROVE ~(c <= Len(hosts))
    BY <1>5, <1>6, <2>1 DEF Children
  <2>2. QED
    BY <2>1 DEF Heap
<1>9. QED
  BY <1>4, <1>6, <1>7, <1>8 DEF Heapify

(* The first host of a heap is not more loaded than any other. *)
LEMMA FirstIsLeast ==
    ASSUME NEW hosts \in Seq(HostStats), Heap(hosts, 1)
    PROVE  \A i \in 1 .. Len(hosts) : Le(hosts[1], hosts[i])
<1> DEFINE Bad == {i \in 1 .. Len(hosts) : ~Le(hosts[1], hosts[i])}
<1>1. SUFFICES ASSUME Bad # {} PROVE FALSE
  OBVIOUS
<1>2. Bad \in SUBSET Nat
  OBVIOUS
<1> HIDE DEF Bad
<1>3. PICK i \in Bad : \A j \in Bad : i <= j
  BY <1>1, <1>2, Least
<1>4. i \in 1 .. Len(hosts) /\ ~Le(hosts[1], hosts[i]) /\ 1 \in 1 .. Len(hosts)
  BY DEF Bad
<1>5. i # 1
  BY <1>4, LeReflexive
<1>6. PICK p \in Nat : i \in Children(p) /\ 1 <= p /\ p < i
  <2>1. i \div 2 \in Nat /\ i \in {2 * (i \div 2), 2 * (i \div 2) + 1} /\ 1 <= i \div 2 /\ i \div 2 < i
    BY <1>4, <1>5
  <2>2. QED
    BY <2>1 DEF Children
<1>7. p \in 1 .. Len(hosts) /\ p \notin Bad
  BY <1>3, <1>4, <1>6
<1>8. Le(hosts[1], hosts[p]) /\ Le(hosts[p], hosts[i])
  BY <1>4, <1>6, <1>7 DEF Bad, Heap
<1>9. QED
  BY <1>4, <1>7, <1>8, LeTransitive

----------------------------------------------------------------------------
(* Sums and sequences of sequences. *)

(* The load of finitely many VMs is a number. *)
LEMMA LoadIsNat ==
    ASSUME NEW S, IsFiniteSet(S), \A v \in S : v.load \in Nat
    PROVE  MapThenSumSet(LAMBDA v : v.load, S) \in Nat
<1> DEFINE Upto(k) == {s \in SUBSET S : Cardinality(s) <= k}
           First(s) == CHOOSE x \in s : TRUE
           Sums(f, D) == /\ f = [s \in D |-> f[s]]
                         /\ \A s \in D : f[s] = IF s = {} THEN 0
                                                ELSE First(s).load + f[s \ {First(s)}]
           T == {k \in Nat : \E f : Sums(f, Upto(k))}
<1>1. ASSUME NEW s \in SUBSET S
      PROVE  /\ IsFiniteSet(s) /\ Cardinality(s) \in Nat
             /\ Cardinality(s) = 0 <=> s = {}
    BY FS_Subset, FS_CardinalityType, FS_EmptySet
<1>2. ASSUME NEW s \in SUBSET S, s # {}
      PROVE  /\ First(s) \in s /\ s \ {First(s)} \in SUBSET S
             /\ Cardinality(s \ {First(s)}) = Cardinality(s) - 1
  <2>1. First(s) \in s
    BY <1>2
  <2> HIDE DEF First
  <2>2. QED
    BY <1>1, <2>1, FS_RemoveElement
<1> HIDE DEF First
<1>3. 0 \in T
  <2>1. Upto(0) = {{}}
    BY <1>1
  <2> DEFINE f == [s \in {{}} |-> 0]
  <2>2. Sums(f, {{}})
    OBVIOUS
  <2>3. QED
    BY <2>1, <2>2
<1>4. ASSUME NEW k \in Nat, k \in T PROVE k + 1 \in T
  <2>1. PICK f : Sums(f, Upto(k))
    BY <1>4
  <2> DEFINE g == [s \in Upto(k + 1) |-> IF s \in Upto(k) THEN f[s]
                                         ELSE First(s).load + f[s \ {First(s)}]]
  <2>2. ASSUME NEW s \in Upto(k + 1), s # {}
        PROVE  s \ {First(s)} \in Upto(k) /\ s \ {First(s)} \in Upto(k + 1)
    BY <1>1, <1>2, <2>2
  <2>3. {} \in Upto(k) /\ Upto(k) \subseteq Upto(k + 1)
    BY <1>1
  <2>4. ASSUME NEW s \in Upto(k + 1)
        PROVE  g[s] = IF s = {} THEN 0 ELSE First(s).load + g[s \ {First(s)}]
    <3>1. CASE s = {}
      BY <2>1, <2>3, <3>1
    <3>2. CASE s # {} /\ s \in Upto(k)
      <4>1. g[s] = f[s] /\ g[s \ {First(s)}] = f[s \ {First(s)}]
        BY <2>2, <3>2
      <4>2. QED
        BY <2>1, <3>2, <4>1
    <3>3. CASE s # {} /\ s \notin Upto(k)
      <4>1. /\ g[s] = First(s).load + f[s \ {First(s)}]
            /\ g[s \ {First(s)}] = f[s \ {First(s)}]
        BY <2>2, <3>3
      <4>2. QED
        BY <3>3, <4>1
    <3>4. QED
      BY <3>1, <3>2, <3>3
  <2>5. g = [s \in Upto(k + 1) |-> g[s]]
    OBVIOUS
  <2>6. Sums(g, Upto(k + 1))
    <3> HIDE DEF g, Upto
    <3>1. QED
      BY <2>4, <2>5
  <2> HIDE DEF Sums, g
  <2>7. \E h : Sums(h, Upto(k + 1))
    BY <2>6
  <2> HIDE DEF Upto
  <2>8. QED
    BY <2>7
<1> HIDE DEF T
<1>5. Cardinality(S) \in T
  BY <1>1, <1>3, <1>4, Induction
<1>6. Upto(Cardinality(S)) = SUBSET S
  BY FS_Subset
<1>7. PICK f : Sums(f, SUBSET S)
  BY <1>5, <1>6 DEF T
<1>8. f = [s \in SUBSET S |-> IF s = {} THEN 0 ELSE First(s).load + f[s \ {First(s)}]]
  BY <1>7, Zenon
<1> DEFINE iter == CHOOSE iter : iter =
             [s \in SUBSET S |-> IF s = {} THEN 0 ELSE First(s).load + iter[s \ {First(s)}]]
<1>9. iter = [s \in SUBSET S |-> IF s = {} THEN 0 ELSE First(s).load + iter[s \ {First(s)}]]
  BY <1>8, Zenon
<1>10. MapThenSumSet(LAMBDA v : v.load, S) = iter[S]
  BY DEF MapThenSumSet, MapThenFoldSet, First
<1> HIDE DEF iter
<1> DEFINE U == {k \in Nat : \A s \in SUBSET S : Cardinality(s) = k => iter[s] \in Nat}
<1>11. 0 \in U
  BY <1>1, <1>9
<1>12. ASSUME NEW k \in Nat, k \in U PROVE k + 1 \in U
  <2>1. ASSUME NEW s \in SUBSET S, Cardinality(s) = k + 1 PROVE iter[s] \in Nat
    <3>1. s # {}
      BY <1>1, <2>1
    <3>2. First(s) \in S /\ s \ {First(s)} \in SUBSET S /\ Cardinality(s \ {First(s)}) = k
      BY <1>2, <2>1, <3>1
    <3>3. iter[s \ {First(s)}] \in Nat
      BY <1>12, <3>2
    <3>4. iter[s] = First(s).load + iter[s \ {First(s)}]
      BY <1>9, <3>1
    <3>5. QED
      BY <3>2, <3>3, <3>4
  <2>2. QED
    BY <2>1
<1> HIDE DEF U
<1>13. Cardinality(S) \in U
  BY <1>1, <1>11, <1>12, Induction
<1>14. QED
  BY <1>10, <1>13 DEF U

(* The i-th element of f is the w[i]-th one of the u[i]-th of the first n  *)
(* sequences, and every element of those is in f once.                     *)
Places(seqs, n, f, u, w) ==
    /\ \A i \in 1 .. Len(f) :
          /\ u[i] \in 1 .. n /\ w[i] \in 1 .. Len(seqs[u[i]])
          /\ f[i] = seqs[u[i]][w[i]]
    /\ \A i, j \in 1 .. Len(f) : u[i] = u[j] /\ w[i] = w[j] => i = j
    /\ \A l \in 1 .. n : \A k \in 1 .. Len(seqs[l]) :
          \E i \in 1 .. Len(f) : u[i] = l /\ w[i] = k

LEMMA PlacesStep ==
    ASSUME NEW S, NEW seqs \in Seq(Seq(S)), NEW n \in Nat, n + 1 <= Len(seqs),
           NEW f \in Seq(S), NEW u, NEW w, Places(seqs, n, f, u, w)
    PROVE  /\ f \o seqs[n + 1] \in Seq(S)
           /\ \E u2, w2 : Places(seqs, n + 1, f \o seqs[n + 1], u2, w2)
<1>1. PICK t : t = seqs[n + 1]
  OBVIOUS
<1>2. t \in Seq(S) /\ n + 1 \in 1 .. Len(seqs) /\ Len(t) \in Nat /\ Len(f) \in Nat
  BY <1>1
<1>3. PICK g : g = f \o t
  OBVIOUS
<1>4. /\ g \in Seq(S) /\ Len(g) = Len(f) + Len(t)
      /\ \A i \in 1 .. Len(f) : g[i] = f[i]
      /\ \A i \in 1 .. Len(t) : g[Len(f) + i] = t[i]
  BY <1>2, <1>3
<1> DEFINE u2 == [i \in 1 .. Len(g) |-> IF i <= Len(f) THEN u[i] ELSE n + 1]
           w2 == [i \in 1 .. Len(g) |-> IF i <= Len(f) THEN w[i] ELSE i - Len(f)]
<1>5. ASSUME NEW i \in 1 .. Len(g), i <= Len(f)
      PROVE  /\ i \in 1 .. Len(f) /\ u2[i] = u[i] /\ w2[i] = w[i] /\ g[i] = f[i]
             /\ u2[i] \in 1 .. n
  BY <1>2, <1>4, <1>5 DEF Places
<1>6. ASSUME NEW i \in 1 .. Len(g), ~(i <= Len(f))
      PROVE  /\ u2[i] = n + 1 /\ w2[i] = i - Len(f) /\ w2[i] \in 1 .. Len(t)
             /\ g[i] = t[w2[i]]
  <2>1. i - Len(f) \in 1 .. Len(t) /\ Len(f) + (i - Len(f)) = i
    BY <1>2, <1>4, <1>6
  <2>2. QED
    BY <1>4, <1>6, <2>1
<1>7. ASSUME NEW i \in 1 .. Len(f) PROVE i \in 1 .. Len(g) /\ u2[i] = u[i] /\ w2[i] = w[i]
  BY <1>2, <1>4
<1>8. ASSUME NEW k \in 1 .. Len(t)
      PROVE  /\ Len(f) + k \in 1 .. Len(g)
             /\ u2[Len(f) + k] = n + 1 /\ w2[Len(f) + k] = k
  BY <1>2, <1>4
<1> HIDE DEF u2, w2
<1>9. ASSUME NEW i \in 1 .. Len(g)
      PROVE  /\ u2[i] \in 1 .. n + 1 /\ w2[i] \in 1 .. Len(seqs[u2[i]])
             /\ g[i] = seqs[u2[i]][w2[i]]
  <2>1. CASE i <= Len(f)
    <3>1. /\ i \in 1 .. Len(f) /\ u2[i] = u[i] /\ w2[i] = w[i] /\ g[i] = f[i]
          /\ u2[i] \in 1 .. n
      BY <1>5, <2>1
    <3>2. u[i] \in 1 .. n /\ w[i] \in 1 .. Len(seqs[u[i]]) /\ f[i] = seqs[u[i]][w[i]]
      BY <3>1 DEF Places
    <3>3. 1 .. n \subseteq 1 .. n + 1
      OBVIOUS
    <3>4. QED
      BY <3>1, <3>2, <3>3
  <2>2. CASE ~(i <= Len(f))
    <3>1. /\ u2[i] = n + 1 /\ w2[i] \in 1 .. Len(t) /\ g[i] = t[w2[i]]
      BY <1>6, <2>2
    <3>2. n + 1 \in 1 .. n + 1
      OBVIOUS
    <3>3. QED
      BY <1>1, <3>1, <3>2
  <2>3. QED
    BY <2>1, <2>2
<1>10. ASSUME NEW i \in 1 .. Len(g), NEW j \in 1 .. Len(g), u2[i] = u2[j], w2[i] = w2[j]
       PROVE  i = j
  <2>1. CASE i <= Len(f) /\ j <= Len(f)
    BY <1>5, <1>10, <2>1 DEF Places
  <2>2. CASE ~(i <= Len(f)) /\ ~(j <= Len(f))
    BY <1>2, <1>6, <1>10, <2>2
  <2>3. CASE (i <= Len(f)) # (j <= Len(f))
    BY <1>5, <1>6, <1>10, <2>3
  <2>4. QED
    BY <2>1, <2>2, <2>3
<1>11. ASSUME NEW l \in 1 .. n + 1, NEW k \in 1 .. Len(seqs[l])
       PROVE  \E i \in 1 .. Len(g) : u2[i] = l /\ w2[i] = k
  <2>1. CASE l = n + 1
    BY <1>1, <1>8, <1>11, <2>1
  <2>2. CASE l # n + 1
    <3>1. PICK i \in 1 .. Len(f) : u[i] = l /\ w[i] = k
      BY <1>11, <2>2 DEF Places
    <3>2. QED
      BY <1>7, <3>1
  <2>3. QED
    BY <2>1, <2>2
<1>12. Places(seqs, n + 1, g, u2, w2)
  BY <1>9, <1>10, <1>11 DEF Places
<1>13. QED
  BY <1>1, <1>3, <1>4, <1>12

(* FlattenSeq keeps every element of every sequence, once. *)
LEMMA FlattenSeqPlaces ==
    ASSUME NEW S, NEW seqs \in Seq(Seq(S))
    PROVE  /\ FlattenSeq(seqs) \in Seq(S)
           /\ \E u, w : Places(seqs, Len(seqs), FlattenSeq(seqs), u, w)
<1> DEFINE Nested(f, n) ==
             /\ f = [i \in 1 .. n |-> f[i]]
             /\ \A i \in 1 .. n : f[i] = IF i = 1 THEN seqs[i] ELSE f[i - 1] \o seqs[i]
           T == {n \in Nat : \E f : Nested(f, n)}
<1>1. 0 \in T
  <2> DEFINE f == [i \in 1 .. 0 |-> i]
  <2>1. Nested(f, 0)
    OBVIOUS
  <2> HIDE DEF Nested, f
  <2>2. QED
    BY <2>1
<1>2. ASSUME NEW n \in Nat, n \in T PROVE n + 1 \in T
  <2>1. PICK f : Nested(f, n)
    BY <1>2
  <2> DEFINE g == [i \in 1 .. n + 1 |-> IF i <= n THEN f[i]
                                        ELSE IF i = 1 THEN seqs[i] ELSE f[i - 1] \o seqs[i]]
  <2>2. g = [i \in 1 .. n + 1 |-> g[i]]
    OBVIOUS
  <2>3. \A i \in 1 .. n : g[i] = f[i]
    OBVIOUS
  <2>4. g[n + 1] = IF n + 1 = 1 THEN seqs[n + 1] ELSE f[n + 1 - 1] \o seqs[n + 1]
    BY ~(n + 1 <= n)
  <2>5. ASSUME NEW i \in 1 .. n + 1
        PROVE  g[i] = IF i = 1 THEN seqs[i] ELSE g[i - 1] \o seqs[i]
    <3> HIDE DEF g
    <3>1. CASE i = n + 1
      <4>1. i # 1 => i - 1 \in 1 .. n
        BY <3>1
      <4>2. QED
        BY <2>3, <2>4, <3>1, <4>1
    <3>2. CASE i # n + 1
      <4>1. i \in 1 .. n /\ (i # 1 => i - 1 \in 1 .. n)
        BY <3>2
      <4>2. QED
        BY <2>1, <2>3, <4>1
    <3>3. QED
      BY <3>1, <3>2
  <2>6. Nested(g, n + 1)
    <3> HIDE DEF g
    <3>1. QED
      BY <2>2, <2>5
  <2> HIDE DEF Nested, g
  <2>7. QED
    BY <2>6
<1> HIDE DEF T
<1>3. Len(seqs) \in T
  BY SMTT(40), <1>1, <1>2, Induction
<1>4. PICK f : Nested(f, Len(seqs))
  BY <1>3 DEF T
<1>5. f = [i \in 1 .. Len(seqs) |-> IF i = 1 THEN seqs[i] ELSE f[i - 1] \o seqs[i]]
  BY <1>4, Zenon
<1> DEFINE flatten == CHOOSE flatten : flatten =
             [i \in 1 .. Len(seqs) |-> IF i = 1 THEN seqs[i] ELSE flatten[i - 1] \o seqs[i]]
<1>6. flatten = [i \in 1 .. Len(seqs) |-> IF i = 1 THEN seqs[i] ELSE flatten[i - 1] \o seqs[i]]
  BY <1>5, Zenon
<1>7. FlattenSeq(seqs) = IF Len(seqs) = 0 THEN seqs ELSE flatten[Len(seqs)]
  BY DEF FlattenSeq
<1> HIDE DEF flatten
<1> DEFINE Done(n) == /\ flatten[n] \in Seq(S)
                      /\ \E u, w : Places(seqs, n, flatten[n], u, w)
           U == {n \in Nat : n + 1 <= Len(seqs) => Done(n + 1)}
<1>8. Places(seqs, 0, <<>>, <<>>, <<>>)
  BY DEF Places
<1>9. 0 \in U
  <2>1. ASSUME 0 + 1 <= Len(seqs) PROVE Done(0 + 1)
    <3>1. <<>> \in Seq(S) /\ <<>> \o seqs[0 + 1] = seqs[1] /\ flatten[0 + 1] = seqs[1]
      BY <1>6, <2>1
    <3>2. /\ <<>> \o seqs[0 + 1] \in Seq(S)
          /\ \E u2, w2 : Places(seqs, 0 + 1, <<>> \o seqs[0 + 1], u2, w2)
      BY <1>8, <2>1, <3>1, PlacesStep
    <3>3. QED
      BY <3>1, <3>2
  <2> HIDE DEF Done
  <2>2. QED
    BY <2>1
<1>10. ASSUME NEW n \in Nat, n \in U PROVE n + 1 \in U
  <2>1. ASSUME n + 1 + 1 <= Len(seqs) PROVE Done(n + 1 + 1)
    <3>1. Done(n + 1)
      BY <1>10, <2>1
    <3>2. PICK u, w : Places(seqs, n + 1, flatten[n + 1], u, w)
      BY <3>1
    <3>3. flatten[n + 1 + 1] = flatten[n + 1] \o seqs[n + 1 + 1]
      <4>1. PICK m : m = n + 1 + 1
        OBVIOUS
      <4>2. m \in 1 .. Len(seqs) /\ m # 1 /\ m - 1 = n + 1
        BY <2>1, <4>1
      <4>3. flatten[m] = flatten[m - 1] \o seqs[m]
        BY <1>6, <4>2, Zenon
      <4>4. QED
        BY <4>1, <4>2, <4>3
    <3>4. n + 1 \in Nat /\ flatten[n + 1] \in Seq(S)
      BY <3>1
    <3>5. /\ flatten[n + 1] \o seqs[n + 1 + 1] \in Seq(S)
          /\ \E u2, w2 : Places(seqs, n + 1 + 1, flatten[n + 1] \o seqs[n + 1 + 1], u2, w2)
      BY <2>1, <3>2, <3>4, PlacesStep
    <3>6. QED
      BY <3>3, <3>5
  <2> HIDE DEF Done
  <2>2. QED
    BY <2>1
<1> HIDE DEF U
<1>11. \A n \in Nat : n \in U
  BY <1>9, <1>10, Induction
<1>12. CASE Len(seqs) = 0
  <2>1. FlattenSeq(seqs) = <<>>
    BY <1>7, <1>12
  <2>2. QED
    BY <1>8, <1>12, <2>1
<1>13. CASE Len(seqs) # 0
  <2>1. Len(seqs) - 1 \in Nat /\ Len(seqs) - 1 + 1 = Len(seqs)
    BY <1>13
  <2>2. Len(seqs) - 1 \in U
    BY <1>11, <2>1
  <2>3. Done(Len(seqs))
    BY <2>1, <2>2 DEF U
  <2>4. QED
    BY <1>7, <1>13, <2>3
<1>14. QED
  BY <1>12, <1>13

----------------------------------------------------------------------------
(* What the helpers of the scheduler return. *)

Limits == (Nat \ {0}) \cup {-1}

Known(hosts) == {hosts[i].name : i \in 1 .. Len(hosts)}

LEMMA KnownOfRearranged ==
    ASSUME NEW h \in Seq(HostStats), NEW k, Rearranged(h, k)
    PROVE  /\ Known(k) = Known(h)
           /\ (\A i \in 1 .. Len(h) : h[i].limit \in Limits)
                 => \A i \in 1 .. Len(k) : k[i].limit \in Limits
           /\ \A i \in 1 .. Len(k) : \E j \in 1 .. Len(h) : h[j] = k[i]
<1>1. /\ ToSet(h) = {h[i] : i \in 1 .. Len(h)} /\ ToSet(k) = {k[i] : i \in 1 .. Len(k)}
      /\ ToSet(k) = ToSet(h)
  <2>1. DOMAIN h = 1 .. Len(h) /\ DOMAIN k = 1 .. Len(k)
    BY DEF Rearranged
  <2>2. QED
    BY <2>1 DEF ToSet, Rearranged
<1>2. ASSUME NEW i \in 1 .. Len(h) PROVE \E j \in 1 .. Len(k) : k[j] = h[i]
  <2>1. h[i] \in ToSet(k)
    BY <1>1
  <2>2. QED
    BY <1>1, <2>1
<1>3. ASSUME NEW i \in 1 .. Len(k) PROVE \E j \in 1 .. Len(h) : h[j] = k[i]
  <2>1. k[i] \in ToSet(h)
    BY <1>1
  <2>2. QED
    BY <1>1, <2>1
<1>4. Known(k) = Known(h)
  <2>1. ASSUME NEW x \in Known(h) PROVE x \in Known(k)
    <3>1. PICK i \in 1 .. Len(h) : x = h[i].name
      BY DEF Known
    <3>2. PICK j \in 1 .. Len(k) : k[j] = h[i]
      BY <1>2
    <3>3. QED
      BY <3>1, <3>2 DEF Known
  <2>2. ASSUME NEW x \in Known(k) PROVE x \in Known(h)
    <3>1. PICK i \in 1 .. Len(k) : x = k[i].name
      BY DEF Known
    <3>2. PICK j \in 1 .. Len(h) : h[j] = k[i]
      BY <1>3
    <3>3. QED
      BY <3>1, <3>2 DEF Known
  <2>3. QED
    BY <2>1, <2>2
<1>5. QED
  BY <1>3, <1>4

LEMMA IndexOfKnown ==
    ASSUME NEW hosts \in Seq(HostStats), NEW h \in Known(hosts)
    PROVE  /\ IndexOf(hosts, h) \in 1 .. Len(hosts)
           /\ hosts[IndexOf(hosts, h)].name = h
           /\ h \in HostNames
<1>1. \E i \in 1 .. Len(hosts) : hosts[i].name = h
  BY DEF Known
<1>2. IndexOf(hosts, h) \in 1 .. Len(hosts) /\ hosts[IndexOf(hosts, h)].name = h
  BY <1>1, Zenon DEF IndexOf
<1>3. hosts[IndexOf(hosts, h)] \in HostStats
  BY <1>2
<1>4. QED
  BY <1>2, <1>3 DEF HostStats

(* V holds the VMs of the queued ones at I, each of them once. *)
VMPlaces(qs, I, V, u, w) ==
    /\ \A x \in 1 .. Len(V) :
          /\ u[x] \in I \cap 1 .. Len(qs) /\ w[x] \in 1 .. Len(qs[u[x]].names)
          /\ V[x] = VMsOf(qs[u[x]])[w[x]]
    /\ \A x, y \in 1 .. Len(V) : u[x] = u[y] /\ w[x] = w[y] => x = y
    /\ \A i \in I \cap 1 .. Len(qs) : \A k \in 1 .. Len(qs[i].names) :
          \E x \in 1 .. Len(V) : u[x] = i /\ w[x] = k

LEMMA VMsAtPlaces ==
    ASSUME NEW qs \in Seq(QueuedVMs), NEW I
    PROVE  /\ VMsAt(qs, I) \in Seq(VM)
           /\ \E u, w : VMPlaces(qs, I, VMsAt(qs, I), u, w)
<1> DEFINE s == [i \in 1 .. Len(qs) |-> IF i \in I THEN VMsOf(qs[i]) ELSE <<>>]
<1>1. ASSUME NEW q \in QueuedVMs
      PROVE  VMsOf(q) \in Seq(VM) /\ Len(VMsOf(q)) = Len(q.names)
  <2>1. /\ q.names \in Seq(Names) /\ q.schedule \in HostNames \cup {Localhost, Unset}
        /\ q.colocate \in Names \cup {Unset} /\ q.coschedule \in Nat \cup {-1} /\ q.load \in Nat
    BY DEF QueuedVMs
  <2>2. ASSUME NEW i \in 1 .. Len(q.names)
        PROVE  [name |-> q.names[i], schedule |-> q.schedule, colocate |-> q.colocate,
                coschedule |-> q.coschedule, load |-> q.load] \in VM
    BY <2>1 DEF VM
  <2>3. VMsOf(q) \in [1 .. Len(q.names) -> VM] /\ Len(q.names) \in Nat
    BY <2>1, <2>2 DEF VMsOf
  <2>4. QED
    BY <2>3
<1>2. s \in [1 .. Len(qs) -> Seq(VM)] /\ Len(qs) \in Nat
  BY <1>1
<1>3. s \in Seq(Seq(VM)) /\ Len(s) = Len(qs)
  BY <1>2
<1>4. \A i \in 1 .. Len(qs) : s[i] = IF i \in I THEN VMsOf(qs[i]) ELSE <<>>
  OBVIOUS
<1>5. VMsAt(qs, I) = FlattenSeq(s)
  BY DEF VMsAt
<1> HIDE DEF s
<1>6. PICK V : V = VMsAt(qs, I)
  OBVIOUS
<1>7. V \in Seq(VM) /\ \E u, w : Places(s, Len(s), V, u, w)
  BY <1>3, <1>5, <1>6, FlattenSeqPlaces
<1>8. PICK u, w : Places(s, Len(s), V, u, w)
  BY <1>7
<1>9. ASSUME NEW x \in 1 .. Len(V)
      PROVE  /\ u[x] \in I \cap 1 .. Len(qs) /\ w[x] \in 1 .. Len(qs[u[x]].names)
             /\ V[x] = VMsOf(qs[u[x]])[w[x]]
  <2>1. u[x] \in 1 .. Len(qs) /\ w[x] \in 1 .. Len(s[u[x]]) /\ V[x] = s[u[x]][w[x]]
    BY <1>3, <1>8 DEF Places
  <2>2. u[x] \in I
    <3>1. SUFFICES ASSUME u[x] \notin I PROVE FALSE
      OBVIOUS
    <3>2. s[u[x]] = <<>>
      BY <1>4, <2>1, <3>1
    <3>3. QED
      BY <2>1, <3>2
  <2>3. s[u[x]] = VMsOf(qs[u[x]]) /\ Len(VMsOf(qs[u[x]])) = Len(qs[u[x]].names)
    BY <1>1, <1>4, <2>1, <2>2
  <2>4. QED
    BY <2>1, <2>2, <2>3
<1>10. \A x, y \in 1 .. Len(V) : u[x] = u[y] /\ w[x] = w[y] => x = y
  BY <1>8 DEF Places
<1>11. ASSUME NEW i \in I \cap 1 .. Len(qs), NEW k \in 1 .. Len(qs[i].names)
       PROVE  \E x \in 1 .. Len(V) : u[x] = i /\ w[x] = k
  <2>1. Len(s[i]) = Len(qs[i].names)
    BY <1>1, <1>4
  <2>2. i \in 1 .. Len(s) /\ k \in 1 .. Len(s[i])
    BY <1>3, <2>1
  <2>3. QED
    BY <1>8, <2>2 DEF Places
<1>12. VMPlaces(qs, I, V, u, w)
  BY <1>9, <1>10, <1>11 DEF VMPlaces
<1>13. QED
  BY <1>6, <1>7, <1>12

(* A VM of a queued one demands what that demands. *)
LEMMA VMsAtSchedule ==
    ASSUME NEW qs \in Seq(QueuedVMs), NEW I
    PROVE  \A x \in 1 .. Len(VMsAt(qs, I)) : \E i \in I \cap 1 .. Len(qs) :
                /\ VMsAt(qs, I)[x].schedule = qs[i].schedule
                /\ VMsAt(qs, I)[x].colocate = qs[i].colocate
<1>1. PICK u, w : VMPlaces(qs, I, VMsAt(qs, I), u, w)
  BY VMsAtPlaces
<1>2. ASSUME NEW q, NEW k \in 1 .. Len(q.names)
      PROVE  VMsOf(q)[k].schedule = q.schedule /\ VMsOf(q)[k].colocate = q.colocate
  BY DEF VMsOf
<1>3. ASSUME NEW x \in 1 .. Len(VMsAt(qs, I))
      PROVE  /\ u[x] \in I \cap 1 .. Len(qs)
             /\ VMsAt(qs, I)[x].schedule = qs[u[x]].schedule
             /\ VMsAt(qs, I)[x].colocate = qs[u[x]].colocate
  <2>1. /\ u[x] \in I \cap 1 .. Len(qs) /\ w[x] \in 1 .. Len(qs[u[x]].names)
        /\ VMsAt(qs, I)[x] = VMsOf(qs[u[x]])[w[x]]
    BY <1>1 DEF VMPlaces
  <2>2. QED
    BY <1>2, <2>1
<1>4. QED
  BY <1>3

Running == [name : Names, host : HostNames, coschedule : Nat \cup {-1}, load : Nat]

LEMMA LeastIsMin ==
    ASSUME NEW T \in SUBSET Nat, T # {}
    PROVE  Min(T) \in T /\ \A x \in T : Min(T) <= x
  BY Least DEF Min

(* The statistics that a host sends. *)
LEMMA NewHostStatsType ==
    ASSUME vms \subseteq Running, IsFiniteSet(vms), NEW h \in HostNames
    PROVE  /\ NewHostStats(h) \in HostStats /\ NewHostStats(h).name = h
           /\ NewHostStats(h).limit \in Limits
           /\ NewHostStats(h).vms = Cardinality(On(h))
           /\ \A v \in On(h) : v.coschedule # -1 =>
                 NewHostStats(h).limit # -1 /\ NewHostStats(h).limit <= v.coschedule + 1
           /\ NewHostStats(h).limit # -1 => \E v \in On(h) :
                 v.coschedule # -1 /\ NewHostStats(h).limit = v.coschedule + 1
<1>1. IsFiniteSet(On(h)) /\ Cardinality(On(h)) \in Nat /\ On(h) \subseteq Running
  <2>1. On(h) \in SUBSET vms
    BY DEF On
  <2>2. QED
    BY <2>1, FS_Subset, FS_CardinalityType
<1>2. MapThenSumSet(LAMBDA v : v.load, On(h)) \in Nat
  <2>1. \A v \in On(h) : v.load \in Nat
    BY <1>1 DEF Running
  <2>2. QED
    BY <1>1, <2>1, LoadIsNat
<1> DEFINE c == {v.coschedule : v \in On(h)} \ {-1}
<1>3. c \in SUBSET Nat
  BY <1>1 DEF Running
<1>4. /\ LimitOf(On(h)) \in Limits
      /\ \A v \in On(h) : v.coschedule # -1 =>
            LimitOf(On(h)) # -1 /\ LimitOf(On(h)) <= v.coschedule + 1
      /\ LimitOf(On(h)) # -1 => \E v \in On(h) :
            v.coschedule # -1 /\ LimitOf(On(h)) = v.coschedule + 1
  <2>1. LimitOf(On(h)) = IF c = {} THEN -1 ELSE Min(c) + 1
    BY DEF LimitOf
  <2>2. /\ \A v \in On(h) : v.coschedule # -1 => v.coschedule \in c
        /\ \A x \in c : x # -1 /\ \E v \in On(h) : v.coschedule = x
    OBVIOUS
  <2> HIDE DEF c
  <2>3. CASE c = {}
    BY <2>1, <2>2, <2>3 DEF Limits
  <2>4. CASE c # {}
    <3>1. Min(c) \in c /\ \A x \in c : Min(c) <= x
      BY <1>3, <2>4, LeastIsMin
    <3>2. Min(c) \in Nat
      BY <1>3, <3>1
    <3>3. LimitOf(On(h)) = Min(c) + 1 /\ Min(c) + 1 # -1
      BY <2>1, <2>4, <3>2
    <3>4. ASSUME NEW v \in On(h), v.coschedule # -1
          PROVE  Min(c) + 1 <= v.coschedule + 1
      <4>1. v.coschedule \in c /\ v.coschedule \in Nat
        BY <1>3, <2>2, <3>4
      <4>2. QED
        BY <3>1, <3>2, <4>1
    <3>5. PICK v \in On(h) : v.coschedule = Min(c) /\ Min(c) # -1
      BY <2>2, <3>1
    <3>6. QED
      BY <3>2, <3>3, <3>4, <3>5 DEF Limits
  <2>5. QED
    BY <2>3, <2>4
<1>5. LimitOf(On(h)) \in Int
  BY <1>4 DEF Limits
<1>6. QED
  BY <1>1, <1>2, <1>4, <1>5 DEF NewHostStats, HostStats

(* Every host that answers does so once. *)
LEMMA AnswersType ==
    ASSUME vms \subseteq Running, IsFiniteSet(vms), Hosts \subseteq HostNames,
           NEW hosts \in Answers
    PROVE  /\ hosts \in Seq(HostStats) /\ Distinct(hosts)
           /\ \A i \in 1 .. Len(hosts) : hosts[i].limit \in Limits
           /\ \A i \in 1 .. Len(hosts) :
                 hosts[i].name \in HostNames /\ hosts[i] = NewHostStats(hosts[i].name)
<1>1. PICK S \in SUBSET Hosts : \E order \in SetToSeqs(S) :
         hosts = [i \in 1 .. Len(order) |-> NewHostStats(order[i])]
  BY DEF Answers
<1> PICK order \in SetToSeqs(S) : hosts = [i \in 1 .. Len(order) |-> NewHostStats(order[i])]
  BY <1>1
<1>2. IsFiniteSet(S) /\ Cardinality(S) \in Nat
  BY HostsAssumption, FS_Subset, FS_CardinalityType
<1>3. /\ order \in [1 .. Cardinality(S) -> S]
      /\ \A i, j \in 1 .. Cardinality(S) : i # j => order[i] # order[j]
  BY DEF SetToSeqs
<1>4. order \in Seq(HostNames) /\ Len(order) = Cardinality(S)
  BY <1>2, <1>3
<1>5. /\ hosts \in [1 .. Len(order) -> HostStats]
      /\ \A i \in 1 .. Len(order) :
            /\ hosts[i] = NewHostStats(order[i]) /\ order[i] \in HostNames
            /\ hosts[i].name = order[i] /\ hosts[i].limit \in Limits
  BY <1>4, NewHostStatsType
<1>6. hosts \in Seq(HostStats) /\ Len(hosts) = Len(order)
  BY <1>4, <1>5
<1>7. QED
  BY <1>3, <1>4, <1>5, <1>6 DEF Distinct

(* What an assignment launches is finite. *)
LEMMA LaunchedType ==
    ASSUME NEW a \in Assignment, NEW h \in HostNames
    PROVE  /\ Launched(a, h) \subseteq Running /\ IsFiniteSet(Launched(a, h))
           /\ Cardinality(Launched(a, h)) <= Len(a[h])
           /\ \A v \in Launched(a, h) : v.host = h
<1>1. a[h] \in Seq(VM) /\ Len(a[h]) \in Nat
  BY DEF Assignment
<1> DEFINE f == [i \in 1 .. Len(a[h]) |->
                   [name |-> a[h][i].name, host |-> h, coschedule |-> a[h][i].coschedule,
                    load |-> a[h][i].load]]
<1>2. ToSet(a[h]) = {a[h][i] : i \in 1 .. Len(a[h])}
  BY <1>1 DEF ToSet
<1>3. ASSUME NEW v \in Launched(a, h)
      PROVE  v \in Running /\ v.host = h /\ \E i \in 1 .. Len(a[h]) : f[i] = v
  <2>1. PICK i \in 1 .. Len(a[h]) :
          v = [name |-> a[h][i].name, host |-> h, coschedule |-> a[h][i].coschedule,
               load |-> a[h][i].load]
    BY <1>2 DEF Launched
  <2>2. a[h][i] \in VM
    BY <1>1
  <2>3. QED
    BY <2>1, <2>2 DEF VM, Running
<1>4. ASSUME NEW i \in 1 .. Len(a[h]) PROVE f[i] \in Launched(a, h)
  BY <1>2 DEF Launched
<1>5. f \in Surjection(1 .. Len(a[h]), Launched(a, h))
  BY <1>3, <1>4 DEF Surjection
<1>6. IsFiniteSet(1 .. Len(a[h])) /\ Cardinality(1 .. Len(a[h])) = Len(a[h])
  BY <1>1, FS_Interval
<1> HIDE DEF f
<1>7. QED
  BY <1>3, <1>5, <1>6, FS_Surjection

(* Launching adds VMs that run. *)
LEMMA LaunchType ==
    ASSUME NEW a \in Assignment, NEW unchecked, Launch(a, unchecked),
           vms \subseteq Running, IsFiniteSet(vms)
    PROVE  vms' \subseteq Running /\ IsFiniteSet(vms')
<1> DEFINE All == {Launched(a, h) : h \in HostNames}
           f == [h \in HostNames |-> Launched(a, h)]
<1>1. IsFiniteSet(All)
  <2>1. f \in Surjection(HostNames, All)
    BY DEF Surjection
  <2> HIDE DEF f, All
  <2>2. QED
    BY <2>1, HostsAssumption, FS_Surjection
<1>2. IsFiniteSet(UNION All) /\ UNION All \subseteq Running
  <2>1. \A T \in All : IsFiniteSet(T) /\ T \subseteq Running
    BY LaunchedType
  <2> HIDE DEF All
  <2>2. QED
    BY <1>1, <2>1, FS_UNION
<1>3. PICK lost : vms' = vms \cup ((UNION All) \ lost)
  BY DEF Launch
<1> HIDE DEF All
<1>4. (UNION All) \ lost \in SUBSET (UNION All)
  OBVIOUS
<1>5. IsFiniteSet((UNION All) \ lost)
  BY <1>2, <1>4, FS_Subset
<1>6. QED
  BY <1>2, <1>3, <1>5, FS_Union

----------------------------------------------------------------------------
(* A run of the scheduler. *)

(* One host takes VMs at a time, and only that one may be in a wrong place *)
(* of the heap.                                                            *)
OneHost(r) ==
    /\ \A i \in 1 .. Len(r.left) : r.left[i].schedule \in Known(r.hosts) \cup {Unset}
    /\ \A i \in 1 .. Len(r.stack) :
          r.stack[i].host = r.stack[1].host /\ r.stack[i].host \in Known(r.hosts)

HeapInv(r) ==
    IF r.stack = <<>> THEN Heap(r.hosts, 1)
    ELSE HeapBut(r.hosts, 1, IndexOf(r.hosts, r.stack[1].host))

RunOK(r) ==
    /\ r \in Run /\ r.hosts # <<>> /\ Distinct(r.hosts)
    /\ \A i \in 1 .. Len(r.hosts) : r.hosts[i].limit \in Limits
    /\ OneHost(r) /\ HeapInv(r)

Frame == [host : HostNames, vm : VM, todo : Seq(VM)]

LEMMA EnterFields ==
    ASSUME NEW r \in Run, NEW vm \in VM, NEW h \in Known(r.hosts)
    PROVE  Enter(h, vm, r) =
             [dry |-> r.dry, left |-> r.left, res |-> r.res, colocated |-> r.colocated,
              hosts |-> [r.hosts EXCEPT ![IndexOf(r.hosts, h)] =
                           Increment(r.hosts[IndexOf(r.hosts, h)], vm)],
              stack |-> <<[host |-> h, vm |-> vm, todo |-> r.colocated[vm.name]]>> \o r.stack]
<1>1. r = [dry |-> r.dry, left |-> r.left, res |-> r.res, colocated |-> r.colocated,
           hosts |-> r.hosts, stack |-> r.stack]
  BY DEF Run
<1>2. PICK i : i = IndexOf(r.hosts, h)
  OBVIOUS
<1>3. PICK f : f = <<[host |-> h, vm |-> vm, todo |-> r.colocated[vm.name]]>>
  OBVIOUS
<1>4. Enter(h, vm, r) = [r EXCEPT !.hosts = [r.hosts EXCEPT ![i] = Increment(r.hosts[i], vm)],
                                  !.stack = f \o r.stack]
  BY <1>1, <1>2, <1>3 DEF Enter
<1>5. QED
  BY <1>1, <1>2, <1>3, <1>4

LEMMA EnterParts ==
    ASSUME NEW r \in Run, NEW vm \in VM, NEW h \in Known(r.hosts)
    PROVE  /\ Enter(h, vm, r).dry = r.dry /\ Enter(h, vm, r).left = r.left
           /\ Enter(h, vm, r).res = r.res /\ Enter(h, vm, r).colocated = r.colocated
           /\ Enter(h, vm, r).stack =
                <<[host |-> h, vm |-> vm, todo |-> r.colocated[vm.name]]>> \o r.stack
<1>1. PICK hosts : hosts = [r.hosts EXCEPT ![IndexOf(r.hosts, h)] =
                              Increment(r.hosts[IndexOf(r.hosts, h)], vm)]
  OBVIOUS
<1>2. PICK stack : stack = <<[host |-> h, vm |-> vm, todo |-> r.colocated[vm.name]]>> \o r.stack
  OBVIOUS
<1>3. PICK e : e = Enter(h, vm, r)
  OBVIOUS
<1>4. e = [dry |-> r.dry, left |-> r.left, res |-> r.res, colocated |-> r.colocated,
           hosts |-> hosts, stack |-> stack]
  BY <1>1, <1>2, <1>3, EnterFields
<1>5. e.dry = r.dry /\ e.left = r.left /\ e.res = r.res /\ e.colocated = r.colocated
      /\ e.stack = stack
  BY <1>4
<1>6. QED
  BY <1>2, <1>3, <1>5

LEMMA EnterOK ==
    ASSUME NEW r, RunOK(r), NEW vm \in VM, NEW h \in Known(r.hosts),
           r.stack # <<>> => h = r.stack[1].host
    PROVE  RunOK(Enter(h, vm, r))
<1>1. PICK i : i = IndexOf(r.hosts, h)
  OBVIOUS
<1>2. PICK k : k = Increment(r.hosts[i], vm)
  OBVIOUS
<1>3. PICK hosts : hosts = [r.hosts EXCEPT ![i] = k]
  OBVIOUS
<1>4. PICK f : f = [host |-> h, vm |-> vm, todo |-> r.colocated[vm.name]]
  OBVIOUS
<1>5. PICK e : e = Enter(h, vm, r)
  OBVIOUS
<1>6. /\ r \in Run /\ r.hosts \in Seq(HostStats) /\ r.stack \in Seq(Frame)
      /\ r.colocated \in [Names -> Seq(VM)]
  BY DEF RunOK, Run, Frame
<1>7. e = [dry |-> r.dry, left |-> r.left, res |-> r.res, colocated |-> r.colocated,
           hosts |-> hosts, stack |-> <<f>> \o r.stack]
  BY <1>1, <1>2, <1>3, <1>4, <1>5, <1>6, EnterFields
<1>8. /\ i \in 1 .. Len(r.hosts) /\ r.hosts[i].name = h /\ h \in HostNames
      /\ r.hosts[i] \in HostStats
  BY <1>1, <1>6, IndexOfKnown
<1>9. k \in HostStats /\ k.limit \in Limits /\ k.name = h /\ Le(r.hosts[i], k)
  BY <1>2, <1>8, IncrementHeavier DEF RunOK, Limits
<1>10. /\ hosts \in Seq(HostStats) /\ Len(hosts) = Len(r.hosts)
       /\ \A j \in 1 .. Len(r.hosts) : hosts[j] = IF j = i THEN k ELSE r.hosts[j]
  BY <1>3, <1>6, <1>8, <1>9
<1>11. \A j \in 1 .. Len(r.hosts) : hosts[j].name = r.hosts[j].name
  BY <1>8, <1>9, <1>10
<1>12. Known(hosts) = Known(r.hosts)
  BY <1>10, <1>11 DEF Known
<1>13. Distinct(hosts) /\ hosts # <<>> /\ \A j \in 1 .. Len(hosts) : hosts[j].limit \in Limits
  BY <1>6, <1>9, <1>10, <1>11 DEF Distinct, RunOK
<1>14. f \in Frame
  BY <1>4, <1>6, <1>8 DEF Frame, VM
<1>15. /\ <<f>> \o r.stack \in Seq(Frame) /\ Len(<<f>> \o r.stack) = Len(r.stack) + 1
       /\ (<<f>> \o r.stack)[1] = f
       /\ \A j \in 1 .. Len(r.stack) : (<<f>> \o r.stack)[j + 1] = r.stack[j]
  BY <1>6, <1>14
<1>16. PICK stack : stack = <<f>> \o r.stack
  OBVIOUS
<1>17. e \in Run
  BY <1>6, <1>7, <1>10, <1>15 DEF Run, Frame
<1>18. OneHost(e)
  <2>1. ASSUME NEW j \in 1 .. Len(stack) PROVE stack[j].host = h
    <3>1. CASE j = 1
      BY <1>4, <1>15, <1>16, <3>1
    <3>2. CASE j # 1
      <4>1. j - 1 \in 1 .. Len(r.stack) /\ j - 1 + 1 = j
        BY <1>6, <1>15, <1>16, <3>2
      <4>2. stack[j] = r.stack[j - 1] /\ r.stack # <<>>
        BY <1>6, <1>15, <1>16, <4>1
      <4>3. r.stack[j - 1].host = r.stack[1].host
        BY <4>1 DEF RunOK, OneHost
      <4>4. QED
        BY <4>2, <4>3
    <3>3. QED
      BY <3>1, <3>2
  <2>2. e.stack = stack /\ e.left = r.left /\ e.hosts = hosts /\ 1 \in 1 .. Len(stack)
    BY <1>6, <1>7, <1>15, <1>16
  <2>3. \A j \in 1 .. Len(r.left) : r.left[j].schedule \in Known(r.hosts) \cup {Unset}
    BY DEF RunOK, OneHost
  <2>4. QED
    BY <1>12, <2>1, <2>2, <2>3 DEF OneHost
<1>19. HeapInv(e)
  <2>1. /\ e.stack # <<>> /\ e.stack[1].host = h /\ e.hosts = hosts
    BY <1>4, <1>6, <1>7, <1>15
  <2>2. IndexOf(hosts, h) = i
    <3>1. h \in Known(hosts)
      BY <1>12
    <3>2. IndexOf(hosts, h) \in 1 .. Len(hosts) /\ hosts[IndexOf(hosts, h)].name = h
      BY <1>10, <3>1, IndexOfKnown
    <3>3. QED
      BY <1>8, <1>10, <1>11, <1>13, <3>2 DEF Distinct
  <2>3. HeapBut(r.hosts, 1, i)
    <3>1. CASE r.stack = <<>>
      <4>1. Heap(r.hosts, 1)
        BY <3>1 DEF RunOK, HeapInv
      <4>2. ASSUME NEW p \in Nat, 1 <= p, i \in Children(p),
                   NEW c \in Children(i), c <= Len(r.hosts)
            PROVE  Le(r.hosts[p], r.hosts[c])
        <5>1. p \in 1 .. Len(r.hosts) /\ c \in 1 .. Len(r.hosts) /\ i \in Nat /\ 1 <= i
          BY <1>6, <1>8, <4>2 DEF Children
        <5>2. Le(r.hosts[p], r.hosts[i]) /\ Le(r.hosts[i], r.hosts[c])
          BY <1>8, <4>1, <4>2, <5>1 DEF Heap
        <5>3. r.hosts[p] \in HostStats /\ r.hosts[c] \in HostStats
          BY <1>6, <5>1
        <5>4. QED
          BY <1>8, <5>2, <5>3, LeTransitive
      <4>3. QED
        BY <4>1, <4>2 DEF HeapBut, Heap
    <3>2. CASE r.stack # <<>>
      BY <1>1, <3>2 DEF RunOK, HeapInv
    <3>3. QED
      BY <3>1, <3>2
  <2>4. HeapBut(hosts, 1, i)
    <3>1. ASSUME NEW p \in Nat, 1 <= p, p # i, NEW c \in Children(p), c <= Len(hosts)
          PROVE  Le(hosts[p], hosts[c])
      <4>1. p \in 1 .. Len(r.hosts) /\ c \in 1 .. Len(r.hosts)
        BY <1>6, <1>10, <3>1 DEF Children
      <4>2. Le(r.hosts[p], r.hosts[c])
        BY <1>10, <2>3, <3>1 DEF HeapBut
      <4>3. hosts[p] = r.hosts[p] /\ r.hosts[p] \in HostStats
        BY <1>6, <1>10, <3>1, <4>1
      <4>4. CASE c = i
        BY <1>8, <1>9, <1>10, <4>1, <4>2, <4>3, <4>4, LeTransitive
      <4>5. CASE c # i
        BY <1>10, <4>1, <4>2, <4>3, <4>5
      <4>6. QED
        BY <4>4, <4>5
    <3>2. ASSUME NEW p \in Nat, 1 <= p, i \in Children(p), NEW c \in Children(i), c <= Len(hosts)
          PROVE  Le(hosts[p], hosts[c])
      <4>1. p \in 1 .. Len(r.hosts) /\ c \in 1 .. Len(r.hosts) /\ p # i /\ c # i
        BY <1>6, <1>8, <1>10, <3>2 DEF Children
      <4>2. Le(r.hosts[p], r.hosts[c])
        BY <1>10, <2>3, <3>2 DEF HeapBut
      <4>3. QED
        BY <1>10, <4>1, <4>2
    <3>3. QED
      BY <3>1, <3>2 DEF HeapBut
  <2>5. QED
    BY <2>1, <2>2, <2>4 DEF HeapInv
<1>20. RunOK(e)
  <2>1. e.hosts = hosts
    BY <1>7
  <2>2. QED
    BY <1>13, <1>17, <1>18, <1>19, <2>1 DEF RunOK
<1>21. QED
  BY <1>5, <1>20

(* What Added makes of a run *)
Leave(r, h) ==
    [r EXCEPT !.colocated[r.stack[1].vm.name] = <<>>,
              !.res[h] = Append(@, r.stack[1].vm),
              !.stack = Tail(@),
              !.hosts = IF Len(r.stack) = 1 THEN Update(@, h) ELSE @]

LEMMA LeaveFields ==
    ASSUME NEW r \in Run, NEW h
    PROVE  Leave(r, h) =
             [dry |-> r.dry, left |-> r.left,
              res |-> [r.res EXCEPT ![h] = Append(r.res[h], r.stack[1].vm)],
              colocated |-> [r.colocated EXCEPT ![r.stack[1].vm.name] = <<>>],
              hosts |-> IF Len(r.stack) = 1 THEN Update(r.hosts, h) ELSE r.hosts,
              stack |-> Tail(r.stack)]
<1>1. r = [dry |-> r.dry, left |-> r.left, res |-> r.res, colocated |-> r.colocated,
           hosts |-> r.hosts, stack |-> r.stack]
  BY DEF Run
<1>2. PICK res : res = [r.res EXCEPT ![h] = Append(r.res[h], r.stack[1].vm)]
  OBVIOUS
<1>3. PICK colocated : colocated = [r.colocated EXCEPT ![r.stack[1].vm.name] = <<>>]
  OBVIOUS
<1>4. PICK hosts : hosts = IF Len(r.stack) = 1 THEN Update(r.hosts, h) ELSE r.hosts
  OBVIOUS
<1>5. Leave(r, h) = [r EXCEPT !.colocated = colocated, !.res = res, !.stack = Tail(r.stack),
                              !.hosts = hosts]
  BY <1>1, <1>2, <1>3, <1>4, Zenon DEF Leave
<1>6. QED
  BY <1>1, <1>2, <1>3, <1>4, <1>5

(* The heap is restored when the loop goes on. *)
LEMMA LeaveOK ==
    ASSUME NEW r, RunOK(r), r.stack # <<>>, NEW h \in Known(r.hosts), h = r.stack[1].host
    PROVE  RunOK(Leave(r, h))
<1>1. PICK r2 : r2 = Leave(r, h)
  OBVIOUS
<1>2. PICK i : i = IndexOf(r.hosts, h)
  OBVIOUS
<1>3. PICK top : top = r.stack[1]
  OBVIOUS
<1>4. /\ r \in Run /\ r.hosts \in Seq(HostStats) /\ r.stack \in Seq(Frame)
      /\ r.colocated \in [Names -> Seq(VM)] /\ r.res \in [HostNames -> Seq(VM)]
      /\ r.left \in Seq(VM) /\ r.dry \in BOOLEAN
  BY DEF RunOK, Run, Frame, Assignment
<1>5. top \in Frame /\ top.vm \in VM /\ top.vm.name \in Names /\ top.host = h
  <2>1. 1 \in 1 .. Len(r.stack)
    BY <1>4
  <2>2. top \in Frame
    BY <1>3, <1>4, <2>1
  <2>3. QED
    BY <1>3, <2>2 DEF Frame, VM
<1>6. PICK hosts : hosts = IF Len(r.stack) = 1 THEN Update(r.hosts, h) ELSE r.hosts
  OBVIOUS
<1>7. PICK res : res = [r.res EXCEPT ![h] = Append(r.res[h], top.vm)]
  OBVIOUS
<1>8. PICK colocated : colocated = [r.colocated EXCEPT ![top.vm.name] = <<>>]
  OBVIOUS
<1>9. r2 = [dry |-> r.dry, left |-> r.left, res |-> res, colocated |-> colocated,
            hosts |-> hosts, stack |-> Tail(r.stack)]
  BY <1>3, <1>4, <1>6, <1>7, <1>1, <1>8, LeaveFields
<1>10. i \in 1 .. Len(r.hosts) /\ i \in Nat \ {0} /\ h \in HostNames
  BY <1>2, <1>4, IndexOfKnown
<1>11. Rearranged(r.hosts, hosts) /\ (Len(r.stack) = 1 => Heap(hosts, 1))
  <2>1. CASE Len(r.stack) = 1
    <3>1. hosts = siftDown[[root |-> i, hosts |-> r.hosts]]
      BY <1>2, <1>6, <2>1 DEF Update
    <3>2. HeapBut(r.hosts, 1, i) /\ 1 \in 1 .. i
      BY <1>2, <1>10 DEF RunOK, HeapInv
    <3>3. QED
      BY <1>4, <1>10, <3>1, <3>2, siftDownSorts
  <2>2. CASE Len(r.stack) # 1
    BY <1>4, <1>6, <2>2, RearrangedReflexive
  <2>3. QED
    BY <2>1, <2>2
<1>12. /\ hosts \in Seq(HostStats) /\ Len(hosts) = Len(r.hosts) /\ Distinct(hosts)
       /\ Known(hosts) = Known(r.hosts) /\ hosts # <<>>
       /\ \A j \in 1 .. Len(hosts) : hosts[j].limit \in Limits
  <2>1. /\ Known(hosts) = Known(r.hosts)
        /\ \A j \in 1 .. Len(hosts) : hosts[j].limit \in Limits
    BY <1>4, <1>11, KnownOfRearranged DEF RunOK
  <2>2. hosts \in Seq(HostStats) /\ Len(hosts) = Len(r.hosts) /\ Distinct(hosts)
    BY <1>11 DEF Rearranged, RunOK
  <2>3. hosts # <<>>
    BY <1>10, <2>2
  <2>4. QED
    BY <2>1, <2>2, <2>3
<1>13. PICK stack : stack = Tail(r.stack)
  OBVIOUS
<1>14. /\ stack \in Seq(Frame) /\ Len(stack) = Len(r.stack) - 1
       /\ \A j \in 1 .. Len(stack) : j + 1 \in 1 .. Len(r.stack) /\ stack[j] = r.stack[j + 1]
  BY <1>4, <1>13
<1>15. r2 \in Run
  <2>1. res \in [HostNames -> Seq(VM)]
    BY <1>4, <1>5, <1>7, <1>10
  <2>2. colocated \in [Names -> Seq(VM)]
    BY <1>4, <1>5, <1>8
  <2>3. r2 = [dry |-> r.dry, left |-> r.left, res |-> res, colocated |-> colocated,
              hosts |-> hosts, stack |-> stack]
    BY <1>9, <1>13
  <2>4. QED
    BY <1>4, <1>12, <1>14, <2>1, <2>2, <2>3 DEF Run, Frame, Assignment
<1>16. \A j \in 1 .. Len(stack) : stack[j].host = h
  BY <1>14 DEF RunOK, OneHost
<1>17. r2.stack = stack /\ r2.hosts = hosts /\ r2.left = r.left
  <2>1. r2 = [dry |-> r.dry, left |-> r.left, res |-> res, colocated |-> colocated,
              hosts |-> hosts, stack |-> stack]
    BY <1>9, <1>13
  <2>2. QED
    BY <2>1
<1>18. OneHost(r2)
  <2>1. \A j \in 1 .. Len(r.left) : r.left[j].schedule \in Known(r.hosts) \cup {Unset}
    BY DEF RunOK, OneHost
  <2>2. ASSUME NEW j \in 1 .. Len(stack) PROVE 1 \in 1 .. Len(stack)
    BY <1>14, <2>2
  <2>3. QED
    BY <1>12, <1>16, <1>17, <2>1, <2>2 DEF OneHost
<1>19. HeapInv(r2)
  <2>1. CASE Len(r.stack) = 1
    BY <1>11, <1>14, <1>17, <2>1 DEF HeapInv
  <2>2. CASE Len(r.stack) # 1
    <3>1. Len(r.stack) \in Nat /\ Len(r.stack) # 0
      BY <1>4
    <3>2. stack # <<>> /\ 1 \in 1 .. Len(stack)
      <4>1. Len(stack) \in Nat /\ Len(stack) # 0
        BY <1>14, <2>2, <3>1
      <4>2. QED
        BY <4>1
    <3>3. stack[1].host = h /\ hosts = r.hosts
      BY <1>6, <1>16, <2>2, <3>2
    <3>4. HeapBut(r.hosts, 1, IndexOf(r.hosts, h))
      BY DEF RunOK, HeapInv
    <3>5. QED
      BY <1>17, <3>2, <3>3, <3>4 DEF HeapInv
  <2>3. QED
    BY <2>1, <2>2
<1>20. QED
  BY <1>12, <1>15, <1>17, <1>18, <1>19, <1>1 DEF RunOK

----------------------------------------------------------------------------
(* The beginning of a run. *)

Schedules == HostNames \cup {Localhost, Unset}

(* q2 is q but for the host it is to be scheduled on. *)
SameButSchedule(q, q2) == \E t \in Schedules : q2 = [q EXCEPT !.schedule = t]

LEMMA SameButScheduleType ==
    ASSUME NEW q \in QueuedVMs, NEW q2, SameButSchedule(q, q2)
    PROVE  /\ q2 \in QueuedVMs
           /\ q2.names = q.names /\ q2.colocate = q.colocate
           /\ q2.coschedule = q.coschedule /\ q2.load = q.load
<1>1. PICK t \in Schedules : q2 = [q EXCEPT !.schedule = t]
  BY DEF SameButSchedule
<1>2. q = [names |-> q.names, schedule |-> q.schedule, colocate |-> q.colocate,
           coschedule |-> q.coschedule, load |-> q.load]
  BY DEF QueuedVMs
<1>3. q2 = [names |-> q.names, schedule |-> t, colocate |-> q.colocate,
            coschedule |-> q.coschedule, load |-> q.load]
  BY <1>1, <1>2
<1>4. QED
  BY <1>3 DEF QueuedVMs, Schedules

LEMMA SameReflexive ==
    ASSUME NEW q \in QueuedVMs
    PROVE  SameButSchedule(q, q)
<1>1. q.schedule \in Schedules /\ q = [q EXCEPT !.schedule = q.schedule]
  BY DEF QueuedVMs, Schedules
<1>2. QED
  BY <1>1 DEF SameButSchedule

LEMMA SameTransitive ==
    ASSUME NEW q \in QueuedVMs, NEW q2, NEW q3, SameButSchedule(q, q2), SameButSchedule(q2, q3)
    PROVE  SameButSchedule(q, q3)
  BY DEF SameButSchedule, QueuedVMs

(* Resolving and localising change nothing but hosts. *)
LEMMA ResolvedSame ==
    ASSUME queue \in Seq(QueuedVMs), vms \subseteq Running, NEW S \in LastListed
    PROVE  /\ Resolved(S) \in Seq(QueuedVMs) /\ Len(Resolved(S)) = Len(queue)
           /\ \A i \in 1 .. Len(queue) : SameButSchedule(queue[i], Resolved(S)[i])
<1>1. S \subseteq vms
  BY DEF LastListed, GlobalVMs
<1>2. PICK rs : rs = Resolved(S)
  OBVIOUS
<1>3. ASSUME NEW i \in 1 .. Len(queue) PROVE SameButSchedule(queue[i], rs[i])
  <2>1. PICK hosts : hosts = {v.host : v \in {w \in S : w.name = queue[i].colocate}}
    OBVIOUS
  <2>2. rs[i] = IF hosts = {} THEN queue[i]
                ELSE [queue[i] EXCEPT !.schedule = CHOOSE h \in hosts : TRUE]
    BY <1>2, <2>1 DEF Resolved
  <2>3. hosts \subseteq HostNames
    BY <1>1, <2>1 DEF Running
  <2>4. CASE hosts = {}
    BY <2>2, <2>4, SameReflexive
  <2>5. CASE hosts # {}
    <3>1. PICK t : t = CHOOSE h \in hosts : TRUE
      OBVIOUS
    <3>2. t \in hosts
      BY <2>5, <3>1
    <3>3. t \in Schedules /\ rs[i] = [queue[i] EXCEPT !.schedule = t]
      BY <2>2, <2>3, <2>5, <3>1, <3>2 DEF Schedules
    <3>4. QED
      BY <3>3 DEF SameButSchedule
  <2>6. QED
    BY <2>4, <2>5
<1>4. rs = [i \in 1 .. Len(queue) |-> rs[i]]
  BY <1>2 DEF Resolved
<1>5. \A i \in 1 .. Len(queue) : rs[i] \in QueuedVMs
  BY <1>3, SameButScheduleType
<1>6. rs \in [1 .. Len(queue) -> QueuedVMs] /\ Len(queue) \in Nat
  BY <1>4, <1>5
<1>7. rs \in Seq(QueuedVMs) /\ Len(rs) = Len(queue)
  BY <1>6
<1>8. QED
  BY <1>2, <1>3, <1>7

LEMMA LocalisedSame ==
    ASSUME NEW q \in QueuedVMs
    PROVE  SameButSchedule(q, Localised(q))
<1>1. CASE q.schedule = Localhost
  BY <1>1, HereAssumption DEF Localised, SameButSchedule, Schedules
<1>2. CASE q.schedule # Localhost
  BY <1>2, SameReflexive DEF Localised
<1>3. QED
  BY <1>1, <1>2

(* The queue as the scheduler sees it *)
LocalQueue(S) == [i \in 1 .. Len(queue) |-> Localised(Resolved(S)[i])]

LEMMA LocalQueueSame ==
    ASSUME queue \in Seq(QueuedVMs), vms \subseteq Running, NEW S \in LastListed
    PROVE  /\ LocalQueue(S) \in Seq(QueuedVMs) /\ Len(LocalQueue(S)) = Len(queue)
           /\ \A i \in 1 .. Len(queue) : SameButSchedule(queue[i], LocalQueue(S)[i])
<1>1. /\ Resolved(S) \in Seq(QueuedVMs) /\ Len(Resolved(S)) = Len(queue)
      /\ \A i \in 1 .. Len(queue) : SameButSchedule(queue[i], Resolved(S)[i])
  BY ResolvedSame
<1>2. PICK rs : rs = Resolved(S)
  OBVIOUS
<1>3. PICK qs : qs = LocalQueue(S)
  OBVIOUS
<1>4. qs = [i \in 1 .. Len(queue) |-> Localised(rs[i])]
  BY <1>2, <1>3 DEF LocalQueue
<1>5. ASSUME NEW i \in 1 .. Len(queue) PROVE SameButSchedule(queue[i], qs[i])
  <2>1. rs[i] \in QueuedVMs /\ SameButSchedule(queue[i], rs[i]) /\ qs[i] = Localised(rs[i])
    BY <1>1, <1>2, <1>4
  <2>2. QED
    BY <2>1, LocalisedSame, SameTransitive
<1>6. \A i \in 1 .. Len(queue) : qs[i] \in QueuedVMs
  BY <1>5, SameButScheduleType
<1>7. qs \in [1 .. Len(queue) -> QueuedVMs] /\ Len(queue) \in Nat
  BY <1>4, <1>6
<1>8. qs \in Seq(QueuedVMs) /\ Len(qs) = Len(queue)
  BY <1>7
<1>9. QED
  BY <1>3, <1>5, <1>8

(* sort.Slice permutes. *)
Permutes(p, qs, sorted) ==
    /\ p \in [1 .. Len(qs) -> 1 .. Len(qs)]
    /\ \A i, j \in 1 .. Len(qs) : p[i] = p[j] => i = j
    /\ \A i \in 1 .. Len(qs) : sorted[i] = qs[p[i]]

LEMMA SortedPermutes ==
    ASSUME NEW qs \in Seq(QueuedVMs), NEW sorted \in Sorted(qs)
    PROVE  /\ sorted \in Seq(QueuedVMs) /\ Len(sorted) = Len(qs)
           /\ \E p : Permutes(p, qs, sorted)
<1>1. PICK p \in [1 .. Len(qs) -> 1 .. Len(qs)] :
         /\ \A i, j \in 1 .. Len(qs) : i < j => p[i] # p[j]
         /\ sorted = [i \in 1 .. Len(qs) |-> qs[p[i]]]
  BY DEF Sorted
<1>2. \A i, j \in 1 .. Len(qs) : p[i] = p[j] => i = j
  <2>1. ASSUME NEW i \in 1 .. Len(qs), NEW j \in 1 .. Len(qs), p[i] = p[j] PROVE i = j
    <3>1. ~(i < j) /\ ~(j < i)
      BY <1>1, <2>1
    <3>2. QED
      BY <3>1
  <2>2. QED
    BY <2>1
<1>3. /\ sorted \in [1 .. Len(qs) -> QueuedVMs] /\ Len(qs) \in Nat
      /\ \A i \in 1 .. Len(qs) : sorted[i] = qs[p[i]]
  BY <1>1
<1>4. sorted \in Seq(QueuedVMs) /\ Len(sorted) = Len(qs)
  BY <1>3
<1>5. Permutes(p, qs, sorted)
  BY <1>2, <1>3 DEF Permutes
<1>6. QED
  BY <1>4, <1>5

(* The loop begins with a heap of the hosts that answered. *)
LEMMA BeginOK ==
    ASSUME vms \subseteq Running, IsFiniteSet(vms), Hosts \subseteq HostNames,
           NEW hosts \in Answers, NEW qs \in Seq(QueuedVMs), NEW sorted \in Sorted(qs),
           \A i \in 1 .. Len(qs) : qs[i].schedule \in Known(hosts) \cup {Unset},
           Len(hosts) > 1, NEW dry \in BOOLEAN, NEW I
    PROVE  RunOK([dry |-> dry, hosts |-> Heapify(hosts), colocated |-> ColocatedIn(qs),
                  left |-> VMsAt(sorted, I), res |-> NoVMs, stack |-> <<>>])
<1>1. PICK r : r = [dry |-> dry, hosts |-> Heapify(hosts), colocated |-> ColocatedIn(qs),
                    left |-> VMsAt(sorted, I), res |-> NoVMs, stack |-> <<>>]
  OBVIOUS
<1>2. /\ hosts \in Seq(HostStats) /\ Distinct(hosts)
      /\ \A i \in 1 .. Len(hosts) : hosts[i].limit \in Limits
  BY AnswersType
<1>3. PICK heap : heap = Heapify(hosts)
  OBVIOUS
<1>4. Rearranged(hosts, heap) /\ Heap(heap, 1)
  BY <1>2, <1>3, HeapifySorts
<1>5. /\ Known(heap) = Known(hosts)
      /\ \A i \in 1 .. Len(heap) : heap[i].limit \in Limits
  BY <1>2, <1>4, KnownOfRearranged
<1>6. heap \in Seq(HostStats) /\ Len(heap) = Len(hosts) /\ Distinct(heap)
  BY <1>2, <1>4 DEF Rearranged
<1>7. heap # <<>>
  BY <1>6
<1>8. sorted \in Seq(QueuedVMs) /\ Len(sorted) = Len(qs)
  BY SortedPermutes
<1>9. \A i \in 1 .. Len(sorted) : sorted[i].schedule \in Known(hosts) \cup {Unset}
  <2>1. PICK p : Permutes(p, qs, sorted)
    BY SortedPermutes
  <2>2. QED
    BY <1>8, <2>1 DEF Permutes
<1>10. PICK left : left = VMsAt(sorted, I)
  OBVIOUS
<1>11. left \in Seq(VM)
  BY <1>8, <1>10, VMsAtPlaces
<1>12. \A x \in 1 .. Len(left) : left[x].schedule \in Known(hosts) \cup {Unset}
  <2>1. \A x \in 1 .. Len(left) : \E i \in 1 .. Len(sorted) :
            left[x].schedule = sorted[i].schedule
    BY <1>8, <1>10, VMsAtSchedule
  <2>2. QED
    BY <1>9, <2>1
<1>13. PICK colocated : colocated = ColocatedIn(qs)
  OBVIOUS
<1>14. colocated \in [Names -> Seq(VM)]
  <2>1. \A J : VMsAt(qs, J) \in Seq(VM)
    BY VMsAtPlaces
  <2>2. QED
    BY <1>13, <2>1 DEF ColocatedIn
<1>15. NoVMs \in [HostNames -> Seq(VM)]
  BY DEF NoVMs
<1>16. r = [dry |-> dry, hosts |-> heap, colocated |-> colocated, left |-> left,
            res |-> NoVMs, stack |-> <<>>]
  BY <1>1, <1>3, <1>10, <1>13
<1>17. r \in Run
  BY <1>6, <1>11, <1>14, <1>15, <1>16 DEF Run, Assignment
<1>18. OneHost(r) /\ HeapInv(r)
  BY <1>4, <1>5, <1>12, <1>16 DEF OneHost, HeapInv
<1>19. RunOK(r)
  BY <1>5, <1>6, <1>7, <1>16, <1>17, <1>18 DEF RunOK
<1>20. QED
  BY <1>1, <1>19

(* The three ways in which Schedule goes on after the host statistics *)
Unknown(hosts, S) ==
    {i \in 1 .. Len(queue) : LocalQueue(S)[i].schedule \notin Known(hosts) \cup {Unset}}

BeginFails(hosts, S) ==
    /\ \A i \in 1 .. Len(queue) : queue'[i] \in {Resolved(S)[i], LocalQueue(S)[i]}
    /\ queue' = [i \in 1 .. Len(queue) |-> queue'[i]]
    /\ UNCHANGED <<Hosts, assignment, vms, forced, moved, aliased, run>>

Everything(hosts, S) ==
    [NoVMs EXCEPT ![hosts[1].name] = VMsAt(Resolved(S), 1 .. Len(queue))]

BeginSingle(dry, hosts, S) ==
    /\ Len(hosts) = 1
    /\ IF dry
       THEN /\ assignment' = Everything(hosts, S) /\ aliased' = TRUE /\ moved' = FALSE
            /\ queue' = Resolved(S) /\ UNCHANGED <<Hosts, vms, forced>>
       ELSE Launch(Everything(hosts, S), TRUE) /\ UNCHANGED <<assignment, moved, aliased>>
    /\ UNCHANGED run

BeginRun(dry, hosts, S) ==
    /\ Len(hosts) > 1 /\ Unknown(hosts, S) = {}
    /\ queue' \in Sorted(LocalQueue(S))
    /\ run' = [dry |-> dry, hosts |-> Heapify(hosts), colocated |-> ColocatedIn(LocalQueue(S)),
               left |-> VMsAt(queue', {i \in 1 .. Len(queue) : ~Floating(queue'[i])}),
               res |-> NoVMs, stack |-> <<>>]
    /\ UNCHANGED <<Hosts, assignment, vms, forced, moved, aliased>>

LEMMA BeginCases ==
    ASSUME queue \in Seq(QueuedVMs), NEW dry \in BOOLEAN, BeginSchedule(dry)
    PROVE  \E hosts \in Answers, S \in LastListed :
              \/ BeginFails(hosts, S) \/ BeginSingle(dry, hosts, S) \/ BeginRun(dry, hosts, S)
<1>1. PICK hosts \in Answers, S \in LastListed :
         LET resolved == Resolved(S)
             qs == [i \in 1 .. Len(queue) |-> Localised(resolved[i])]
             known == {hosts[i].name : i \in 1 .. Len(hosts)}
             unknown == {i \in 1 .. Len(qs) : qs[i].schedule \notin known \cup {Unset}}
         IN
         \/ /\ Len(hosts) = 0 \/ (Len(hosts) > 1 /\ unknown # {})
            /\ queue' = [i \in 1 .. Len(qs) |->
                            IF Len(hosts) > 1 /\ i < Min(unknown) THEN qs[i] ELSE resolved[i]]
            /\ UNCHANGED <<Hosts, assignment, vms, forced, moved, aliased, run>>
         \/ /\ Len(hosts) = 1
            /\ LET all == [NoVMs EXCEPT ![hosts[1].name] = VMsAt(resolved, 1 .. Len(queue))] IN
               IF dry
               THEN /\ assignment' = all /\ aliased' = TRUE /\ moved' = FALSE
                    /\ queue' = resolved /\ UNCHANGED <<Hosts, vms, forced>>
               ELSE Launch(all, TRUE) /\ UNCHANGED <<assignment, moved, aliased>>
            /\ UNCHANGED run
         \/ /\ Len(hosts) > 1
            /\ unknown = {}
            /\ queue' \in Sorted(qs)
            /\ run' = [dry |-> dry, hosts |-> Heapify(hosts), colocated |-> ColocatedIn(qs),
                       left |-> VMsAt(queue', {i \in 1 .. Len(queue) : ~Floating(queue'[i])}),
                       res |-> NoVMs, stack |-> <<>>]
            /\ UNCHANGED <<Hosts, assignment, vms, forced, moved, aliased>>
  BY Zenon DEF BeginSchedule
<1> DEFINE resolved == Resolved(S)
           qs == [i \in 1 .. Len(queue) |-> Localised(resolved[i])]
           known == {hosts[i].name : i \in 1 .. Len(hosts)}
           unknown == {i \in 1 .. Len(qs) : qs[i].schedule \notin known \cup {Unset}}
<1>2. qs = LocalQueue(S) /\ known = Known(hosts)
  BY DEF LocalQueue, Known
<1>3. Len(qs) = Len(queue)
  OBVIOUS
<1>4. unknown = Unknown(hosts, S)
  <2>1. unknown = {i \in 1 .. Len(queue) : LocalQueue(S)[i].schedule \notin Known(hosts) \cup {Unset}}
    BY <1>2, <1>3, Zenon
  <2>2. QED
    BY <2>1 DEF Unknown
<1>5. CASE /\ Len(hosts) = 0 \/ (Len(hosts) > 1 /\ unknown # {})
           /\ queue' = [i \in 1 .. Len(qs) |->
                            IF Len(hosts) > 1 /\ i < Min(unknown) THEN qs[i] ELSE resolved[i]]
           /\ UNCHANGED <<Hosts, assignment, vms, forced, moved, aliased, run>>
  <2> HIDE DEF resolved, qs, known, unknown
  <2>1. /\ queue' = [i \in 1 .. Len(queue) |->
                        IF Len(hosts) > 1 /\ i < Min(unknown) THEN qs[i] ELSE resolved[i]]
    BY <1>3, <1>5
  <2>2. /\ \A i \in 1 .. Len(queue) : queue'[i] \in {resolved[i], qs[i]}
        /\ queue' = [i \in 1 .. Len(queue) |-> queue'[i]]
    BY <2>1
  <2>3. QED
    BY <1>2, <1>5, <2>2 DEF BeginFails, resolved
<1>6. CASE /\ Len(hosts) = 1
           /\ IF dry
              THEN /\ assignment' = Everything(hosts, S) /\ aliased' = TRUE /\ moved' = FALSE
                   /\ queue' = resolved /\ UNCHANGED <<Hosts, vms, forced>>
              ELSE Launch(Everything(hosts, S), TRUE) /\ UNCHANGED <<assignment, moved, aliased>>
           /\ UNCHANGED run
  BY <1>6, Zenon DEF BeginSingle
<1>7. CASE /\ Len(hosts) > 1
           /\ unknown = {}
           /\ queue' \in Sorted(qs)
           /\ run' = [dry |-> dry, hosts |-> Heapify(hosts), colocated |-> ColocatedIn(qs),
                      left |-> VMsAt(queue', {i \in 1 .. Len(queue) : ~Floating(queue'[i])}),
                      res |-> NoVMs, stack |-> <<>>]
           /\ UNCHANGED <<Hosts, assignment, vms, forced, moved, aliased>>
  <2> HIDE DEF resolved, qs, known, unknown
  <2>1. QED
    BY <1>2, <1>4, <1>7, Zenon DEF BeginRun
<1>8. QED
  BY <1>1, <1>5, <1>6, <1>7, Zenon DEF Everything

----------------------------------------------------------------------------
(* The types of the variables, with what a run of the scheduler keeps. *)

TypeInv ==
    /\ Hosts \subseteq HostNames
    /\ moved \in BOOLEAN /\ forced \in BOOLEAN /\ aliased \in BOOLEAN
    /\ queue \in Seq(QueuedVMs)
    /\ \A i \in 1 .. Len(queue) : \E b \in Batches : SameButSchedule(b, queue[i])
    /\ assignment = Absent \/ assignment \in Assignment
    /\ vms \subseteq Running /\ IsFiniteSet(vms)
    /\ run = Absent \/ RunOK(run)

LEMMA TypeInit == Init => TypeInv
<1> SUFFICES ASSUME Init PROVE TypeInv
  OBVIOUS
<1>1. queue = <<>> /\ queue \in Seq(QueuedVMs) /\ Len(queue) = 0
  BY DEF Init
<1>2. \A i \in 1 .. Len(queue) : \E b \in Batches : SameButSchedule(b, queue[i])
  BY <1>1
<1>3. vms \subseteq Running /\ IsFiniteSet(vms)
  BY FS_EmptySet DEF Init
<1>4. QED
  BY <1>1, <1>2, <1>3 DEF Init, TypeInv

(* A queue of the queued VMs, in any order and with any hosts *)
LEMMA QueueKeepsType ==
    ASSUME TypeInv, NEW q, q = [i \in 1 .. Len(queue) |-> q[i]],
           \A i \in 1 .. Len(queue) : \E j \in 1 .. Len(queue) : SameButSchedule(queue[j], q[i])
    PROVE  /\ q \in Seq(QueuedVMs) /\ Len(q) = Len(queue)
           /\ \A i \in 1 .. Len(q) : \E b \in Batches : SameButSchedule(b, q[i])
<1>1. queue \in Seq(QueuedVMs) /\ Len(queue) \in Nat
  BY DEF TypeInv
<1>2. ASSUME NEW i \in 1 .. Len(queue)
      PROVE  q[i] \in QueuedVMs /\ \E b \in Batches : SameButSchedule(b, q[i])
  <2>1. PICK j \in 1 .. Len(queue) : SameButSchedule(queue[j], q[i])
    OBVIOUS
  <2>2. PICK b \in Batches : SameButSchedule(b, queue[j])
    BY DEF TypeInv
  <2>3. queue[j] \in QueuedVMs /\ b \in QueuedVMs
    BY <1>1, BatchAssumption
  <2>4. QED
    BY <2>1, <2>2, <2>3, SameButScheduleType, SameTransitive
<1>3. q \in [1 .. Len(queue) -> QueuedVMs]
  BY <1>2
<1>4. q \in Seq(QueuedVMs) /\ Len(q) = Len(queue)
  BY <1>1, <1>3
<1>5. QED
  BY <1>2, <1>4

LEMMA BeginTypes ==
    ASSUME TypeInv, NEW dry \in BOOLEAN, BeginSchedule(dry)
    PROVE  TypeInv'
<1>1. PICK hosts \in Answers, S \in LastListed :
         BeginFails(hosts, S) \/ BeginSingle(dry, hosts, S) \/ BeginRun(dry, hosts, S)
  BY BeginCases DEF TypeInv
<1>2. /\ queue \in Seq(QueuedVMs) /\ vms \subseteq Running /\ IsFiniteSet(vms)
      /\ Hosts \subseteq HostNames
  BY DEF TypeInv
<1>3. PICK rs : rs = Resolved(S)
  OBVIOUS
<1>4. PICK qs : qs = LocalQueue(S)
  OBVIOUS
<1>5. /\ rs \in Seq(QueuedVMs) /\ Len(rs) = Len(queue)
      /\ \A i \in 1 .. Len(queue) : SameButSchedule(queue[i], rs[i])
  BY <1>2, <1>3, ResolvedSame
<1>6. /\ qs \in Seq(QueuedVMs) /\ Len(qs) = Len(queue)
      /\ \A i \in 1 .. Len(queue) : SameButSchedule(queue[i], qs[i])
  BY <1>2, <1>4, LocalQueueSame
<1>7. CASE BeginFails(hosts, S)
  <2>1. PICK q : q = queue'
    OBVIOUS
  <2>2. /\ q = [i \in 1 .. Len(queue) |-> q[i]]
        /\ \A i \in 1 .. Len(queue) : q[i] \in {rs[i], qs[i]}
    BY <1>3, <1>4, <1>7, <2>1 DEF BeginFails
  <2>3. \A i \in 1 .. Len(queue) : SameButSchedule(queue[i], q[i])
    BY <1>5, <1>6, <2>2
  <2>4. /\ q \in Seq(QueuedVMs)
        /\ \A i \in 1 .. Len(q) : \E b \in Batches : SameButSchedule(b, q[i])
    BY <2>2, <2>3, QueueKeepsType
  <2>5. QED
    BY <1>7, <2>1, <2>4 DEF BeginFails, TypeInv
<1>8. CASE BeginSingle(dry, hosts, S)
  <2>1. PICK a : a = Everything(hosts, S)
    OBVIOUS
  <2>2. a \in Assignment
    <3>1. VMsAt(rs, 1 .. Len(queue)) \in Seq(VM)
      BY <1>5, VMsAtPlaces
    <3>2. NoVMs \in [HostNames -> Seq(VM)]
      BY DEF NoVMs
    <3>3. QED
      BY <1>3, <2>1, <3>1, <3>2 DEF Everything, Assignment
  <2>3. CASE dry
    <3>1. /\ assignment' = a /\ aliased' = TRUE /\ moved' = FALSE
          /\ queue' = rs /\ UNCHANGED <<Hosts, vms, forced, run>>
      BY <1>3, <1>8, <2>1, <2>3 DEF BeginSingle
    <3>2. rs = [i \in 1 .. Len(queue) |-> rs[i]]
      BY <1>5
    <3>3. \A i \in 1 .. Len(rs) : \E b \in Batches : SameButSchedule(b, rs[i])
      BY <1>5, <3>2, QueueKeepsType
    <3>4. QED
      BY <1>5, <2>2, <3>1, <3>3 DEF TypeInv
  <2>4. CASE ~dry
    <3>1. Launch(a, TRUE) /\ UNCHANGED <<assignment, moved, aliased, run>>
      BY <1>8, <2>1, <2>4 DEF BeginSingle
    <3>2. vms' \subseteq Running /\ IsFiniteSet(vms')
      BY <1>2, <2>2, <3>1, LaunchType
    <3>3. queue' = <<>> /\ forced' \in BOOLEAN /\ UNCHANGED Hosts
      BY <3>1 DEF Launch
    <3>4. QED
      BY <3>1, <3>2, <3>3 DEF TypeInv
  <2>5. QED
    BY <2>3, <2>4
<1>9. CASE BeginRun(dry, hosts, S)
  <2>1. PICK q : q = queue'
    OBVIOUS
  <2>2. q \in Sorted(qs) /\ Len(hosts) > 1 /\ Unknown(hosts, S) = {}
    BY <1>4, <1>9, <2>1 DEF BeginRun
  <2>3. /\ q \in Seq(QueuedVMs) /\ Len(q) = Len(queue)
        /\ \A i \in 1 .. Len(q) : \E b \in Batches : SameButSchedule(b, q[i])
    <3>1. PICK p : Permutes(p, qs, q) /\ q \in Seq(QueuedVMs) /\ Len(q) = Len(qs)
      BY <1>6, <2>2, SortedPermutes
    <3>2. q = [i \in 1 .. Len(queue) |-> q[i]]
      BY <1>6, <3>1
    <3>3. ASSUME NEW i \in 1 .. Len(queue)
          PROVE  p[i] \in 1 .. Len(queue) /\ SameButSchedule(queue[p[i]], q[i])
      BY <1>6, <3>1 DEF Permutes
    <3>4. \A i \in 1 .. Len(q) : \E b \in Batches : SameButSchedule(b, q[i])
      BY <3>2, <3>3, QueueKeepsType
    <3>5. QED
      BY <1>6, <3>1, <3>4
  <2>4. \A i \in 1 .. Len(qs) : qs[i].schedule \in Known(hosts) \cup {Unset}
    BY <1>4, <1>6, <2>2 DEF Unknown
  <2>5. RunOK(run')
    <3>1. run' = [dry |-> dry, hosts |-> Heapify(hosts), colocated |-> ColocatedIn(qs),
                  left |-> VMsAt(q, {i \in 1 .. Len(queue) : ~Floating(q[i])}),
                  res |-> NoVMs, stack |-> <<>>]
      BY <1>4, <1>9, <2>1 DEF BeginRun
    <3>2. PICK I : I = {i \in 1 .. Len(queue) : ~Floating(q[i])}
      OBVIOUS
    <3>3. RunOK([dry |-> dry, hosts |-> Heapify(hosts), colocated |-> ColocatedIn(qs),
                 left |-> VMsAt(q, I), res |-> NoVMs, stack |-> <<>>])
      BY <1>2, <1>6, <2>2, <2>4, BeginOK
    <3>4. QED
      BY <3>1, <3>2, <3>3
  <2>6. UNCHANGED <<Hosts, assignment, vms, forced, moved, aliased>>
    BY <1>9 DEF BeginRun
  <2>7. QED
    BY <2>1, <2>3, <2>5, <2>6 DEF TypeInv
<1>10. QED
  BY <1>1, <1>7, <1>8, <1>9

----------------------------------------------------------------------------
(* The loop. *)

(* Place takes the next VM off the queue. *)
Popped(r) == [r EXCEPT !.left = Tail(@)]

LEMMA PoppedOK ==
    ASSUME NEW r, RunOK(r), r.left # <<>>
    PROVE  /\ RunOK(Popped(r)) /\ Head(r.left) \in VM
           /\ Popped(r) = [dry |-> r.dry, left |-> Tail(r.left), res |-> r.res,
                           colocated |-> r.colocated, hosts |-> r.hosts, stack |-> r.stack]
           /\ Head(r.left).schedule \in Known(r.hosts) \cup {Unset}
<1>1. /\ r \in Run /\ r.left \in Seq(VM)
      /\ r = [dry |-> r.dry, left |-> r.left, res |-> r.res, colocated |-> r.colocated,
              hosts |-> r.hosts, stack |-> r.stack]
  BY DEF RunOK, Run
<1>2. PICK left : left = Tail(r.left)
  OBVIOUS
<1>3. /\ left \in Seq(VM) /\ Head(r.left) = r.left[1] /\ 1 \in 1 .. Len(r.left)
      /\ \A i \in 1 .. Len(left) : i + 1 \in 1 .. Len(r.left) /\ left[i] = r.left[i + 1]
  BY <1>1, <1>2
<1>4. PICK p : p = Popped(r)
  OBVIOUS
<1>5. p = [dry |-> r.dry, left |-> left, res |-> r.res, colocated |-> r.colocated,
           hosts |-> r.hosts, stack |-> r.stack]
  BY <1>1, <1>2, <1>4 DEF Popped
<1>6. p \in Run
  BY <1>1, <1>3, <1>5 DEF Run
<1>7. OneHost(p) /\ HeapInv(p)
  BY <1>3, <1>5 DEF RunOK, OneHost, HeapInv
<1>8. RunOK(p)
  BY <1>5, <1>6, <1>7 DEF RunOK
<1>9. Head(r.left) \in VM /\ Head(r.left).schedule \in Known(r.hosts) \cup {Unset}
  BY <1>1, <1>3 DEF RunOK, OneHost
<1>10. QED
  BY <1>2, <1>4, <1>5, <1>8, <1>9

(* AddColocated takes the next VM off the ones that follow. *)
Followed(r) == [r EXCEPT !.stack[1].todo = Tail(@)]

LEMMA FollowedOK ==
    ASSUME NEW r, RunOK(r), r.stack # <<>>, r.stack[1].todo # <<>>
    PROVE  /\ RunOK(Followed(r)) /\ Head(r.stack[1].todo) \in VM
           /\ r.stack[1].host \in Known(r.hosts)
           /\ Followed(r) = [dry |-> r.dry, left |-> r.left, res |-> r.res,
                             colocated |-> r.colocated, hosts |-> r.hosts,
                             stack |-> [r.stack EXCEPT ![1] =
                                          [host |-> r.stack[1].host, vm |-> r.stack[1].vm,
                                           todo |-> Tail(r.stack[1].todo)]]]
           /\ Followed(r).stack # <<>> /\ Followed(r).stack[1].host = r.stack[1].host
<1>1. /\ r \in Run /\ r.stack \in Seq(Frame)
      /\ r = [dry |-> r.dry, left |-> r.left, res |-> r.res, colocated |-> r.colocated,
              hosts |-> r.hosts, stack |-> r.stack]
  BY DEF RunOK, Run, Frame
<1>2. PICK top : top = r.stack[1]
  OBVIOUS
<1>3. /\ 1 \in 1 .. Len(r.stack) /\ top \in Frame /\ top.todo \in Seq(VM)
      /\ top = [host |-> top.host, vm |-> top.vm, todo |-> top.todo]
  <2>1. 1 \in 1 .. Len(r.stack) /\ top \in Frame
    BY <1>1, <1>2
  <2>2. QED
    BY <2>1 DEF Frame
<1>4. PICK top2 : top2 = [host |-> top.host, vm |-> top.vm, todo |-> Tail(top.todo)]
  OBVIOUS
<1>5. top2 \in Frame /\ top2.host = top.host /\ Head(top.todo) \in VM
  BY <1>2, <1>3, <1>4 DEF Frame
<1>6. PICK stack : stack = [r.stack EXCEPT ![1] = top2]
  OBVIOUS
<1>7. /\ stack \in Seq(Frame) /\ Len(stack) = Len(r.stack) /\ stack # <<>>
      /\ \A i \in 1 .. Len(stack) : stack[i].host = r.stack[i].host
  BY <1>1, <1>2, <1>3, <1>5, <1>6
<1>8. PICK p : p = Followed(r)
  OBVIOUS
<1>9. p = [dry |-> r.dry, left |-> r.left, res |-> r.res, colocated |-> r.colocated,
           hosts |-> r.hosts, stack |-> stack]
  <2>1. top2 = [top EXCEPT !.todo = Tail(top.todo)]
    <3>1. PICK t : t = Tail(top.todo)
      OBVIOUS
    <3>2. [top EXCEPT !.todo = t] = [host |-> top.host, vm |-> top.vm, todo |-> t]
      BY <1>3 DEF Frame
    <3>3. QED
      BY <1>4, <3>1, <3>2
  <2>2. p = [r EXCEPT !.stack = [r.stack EXCEPT ![1] = [top EXCEPT !.todo = Tail(top.todo)]]]
    BY <1>2, <1>8, Zenon DEF Followed
  <2>3. p = [r EXCEPT !.stack = stack]
    BY <1>6, <2>1, <2>2
  <2>4. QED
    BY <1>1, <2>3
<1>10. p \in Run
  BY <1>1, <1>7, <1>9 DEF Run, Frame
<1>11. OneHost(p)
  BY <1>3, <1>7, <1>9 DEF RunOK, OneHost
<1>12. HeapInv(p)
  BY <1>3, <1>7, <1>9 DEF RunOK, HeapInv
<1>13. RunOK(p)
  BY <1>9, <1>10, <1>11, <1>12 DEF RunOK
<1>14. r.stack[1].host \in Known(r.hosts)
  BY <1>3 DEF RunOK, OneHost
<1>15. p.stack # <<>> /\ p.stack[1].host = r.stack[1].host
  BY <1>3, <1>7, <1>9
<1>16. QED
  BY <1>2, <1>4, <1>5, <1>6, <1>8, <1>9, <1>13, <1>14, <1>15

(* The next VM has a host that answered. *)
Choice(r) == IF Head(r.left).schedule # Unset THEN Head(r.left).schedule ELSE r.hosts[1].name

LEMMA PlaceOK ==
    ASSUME NEW r, RunOK(r), r.left # <<>>, r.stack = <<>>
    PROVE  Choice(r) \in Known(r.hosts) /\ RunOK(Enter(Choice(r), Head(r.left), Popped(r)))
<1>1. PICK p : p = Popped(r)
  OBVIOUS
<1>2. /\ RunOK(p) /\ Head(r.left) \in VM /\ p.stack = <<>> /\ p.hosts = r.hosts
      /\ Head(r.left).schedule \in Known(r.hosts) \cup {Unset}
  BY <1>1, PoppedOK
<1>3. r.hosts \in Seq(HostStats) /\ r.hosts # <<>>
  BY DEF RunOK, Run
<1>4. 1 \in 1 .. Len(r.hosts)
  BY <1>3
<1>5. Choice(r) \in Known(r.hosts)
  BY <1>2, <1>4 DEF Choice, Known
<1>6. QED
  BY <1>1, <1>2, <1>5, EnterOK

LEMMA FollowOK ==
    ASSUME NEW r, RunOK(r), r.stack # <<>>, r.stack[1].todo # <<>>
    PROVE  RunOK(Enter(r.stack[1].host, Head(r.stack[1].todo), Followed(r)))
<1>1. PICK p : p = Followed(r)
  OBVIOUS
<1>2. /\ RunOK(p) /\ Head(r.stack[1].todo) \in VM /\ p.hosts = r.hosts
      /\ r.stack[1].host \in Known(r.hosts) /\ p.stack[1].host = r.stack[1].host
  BY <1>1, FollowedOK
<1>3. QED
  BY <1>1, <1>2, EnterOK

(* Reschedule keeps a sequence of VMs. *)
LEMMA RemoveAtType ==
    ASSUME NEW T, NEW s \in Seq(T), NEW i \in 1 .. Len(s)
    PROVE  /\ RemoveAt(s, i) \in Seq(T) /\ Len(RemoveAt(s, i)) = Len(s) - 1
           /\ \A j \in 1 .. Len(s) - 1 : RemoveAt(s, i)[j] = IF j < i THEN s[j] ELSE s[j + 1]
<1>1. /\ SubSeq(s, 1, i - 1) \in Seq(T) /\ Len(SubSeq(s, 1, i - 1)) = i - 1
      /\ \A j \in 1 .. i - 1 : SubSeq(s, 1, i - 1)[j] = s[j]
  OBVIOUS
<1>2. /\ SubSeq(s, i + 1, Len(s)) \in Seq(T) /\ Len(SubSeq(s, i + 1, Len(s))) = Len(s) - i
      /\ \A j \in 1 .. Len(s) - i : SubSeq(s, i + 1, Len(s))[j] = s[i + j]
  OBVIOUS
<1>3. PICK a : a = SubSeq(s, 1, i - 1)
  OBVIOUS
<1>4. PICK b : b = SubSeq(s, i + 1, Len(s))
  OBVIOUS
<1>5. PICK c : c = RemoveAt(s, i)
  OBVIOUS
<1>6. c = a \o b
  BY <1>3, <1>4, <1>5 DEF RemoveAt
<1>7. /\ a \in Seq(T) /\ Len(a) = i - 1 /\ \A j \in 1 .. i - 1 : a[j] = s[j]
      /\ b \in Seq(T) /\ Len(b) = Len(s) - i /\ \A j \in 1 .. Len(s) - i : b[j] = s[i + j]
  BY <1>1, <1>2, <1>3, <1>4
<1>8. /\ c \in Seq(T) /\ Len(c) = Len(a) + Len(b)
      /\ \A j \in 1 .. Len(c) : c[j] = IF j <= Len(a) THEN a[j] ELSE b[j - Len(a)]
  <2>1. a \in Seq(T) /\ b \in Seq(T)
    BY <1>7
  <2>2. QED
    BY <1>6, <2>1
<1>9. c \in Seq(T) /\ Len(c) = Len(s) - 1
  BY <1>7, <1>8
<1>10. ASSUME NEW j \in 1 .. Len(s) - 1 PROVE c[j] = IF j < i THEN s[j] ELSE s[j + 1]
  <2>1. CASE j < i
    BY <1>9, <1>7, <1>8, <2>1
  <2>2. CASE ~(j < i)
    <3>1. j - (i - 1) \in 1 .. Len(s) - i
      BY <2>2
    <3>2. c[j] = b[j - (i - 1)]
      BY <1>9, <1>7, <1>8, <2>2
    <3>3. QED
      BY <1>7, <2>2, <3>1, <3>2
  <2>3. QED
    BY <2>1, <2>2
<1>11. QED
  BY <1>5, <1>9, <1>10

LEMMA LoopSteps ==
    ASSUME run # Absent, RunOK(run)
    PROVE  /\ Place => run' = Enter(Choice(run), Head(run.left), Popped(run))
                       /\ run.left # <<>> /\ run.stack = <<>>
           /\ AddColocated => /\ run' = Enter(run.stack[1].host, Head(run.stack[1].todo), Followed(run))
                              /\ run.stack # <<>> /\ run.stack[1].todo # <<>>
           /\ Added => /\ run.stack # <<>> /\ run.stack[1].todo = <<>>
                       /\ run.stack[1].host \in Known(run.hosts)
                       /\ UNCHANGED <<Hosts, queue, assignment, vms, forced, moved, aliased>>
                       /\ \/ run' = Absent
                          \/ /\ run' = Leave(run, run.stack[1].host)
                             /\ \/ run.hosts[IndexOf(run.hosts, run.stack[1].host)].limit = -1
                                \/ ~(run.hosts[IndexOf(run.hosts, run.stack[1].host)].vms
                                       > run.hosts[IndexOf(run.hosts, run.stack[1].host)].limit)
<1>1. Place => run' = Enter(Choice(run), Head(run.left), Popped(run))
               /\ run.left # <<>> /\ run.stack = <<>>
  BY Zenon DEF Place, Choice, Popped
<1>2. AddColocated => /\ run' = Enter(run.stack[1].host, Head(run.stack[1].todo), Followed(run))
                      /\ run.stack # <<>> /\ run.stack[1].todo # <<>>
  BY Zenon DEF AddColocated, Top, Followed
<1>3. ASSUME Added
      PROVE  /\ run.stack # <<>> /\ run.stack[1].todo = <<>>
             /\ run.stack[1].host \in Known(run.hosts)
             /\ UNCHANGED <<Hosts, queue, assignment, vms, forced, moved, aliased>>
             /\ \/ run' = Absent
                \/ /\ run' = Leave(run, run.stack[1].host)
                   /\ \/ run.hosts[IndexOf(run.hosts, run.stack[1].host)].limit = -1
                      \/ ~(run.hosts[IndexOf(run.hosts, run.stack[1].host)].vms
                             > run.hosts[IndexOf(run.hosts, run.stack[1].host)].limit)
  <2>1. PICK x : x = run.stack[1].host
    OBVIOUS
  <2>2. PICK h : h = run.hosts[IndexOf(run.hosts, x)]
    OBVIOUS
  <2>3. /\ run.stack # <<>> /\ run.stack[1].todo = <<>>
        /\ IF h.limit # -1 /\ h.vms > h.limit THEN Fail
           ELSE /\ run' = [run EXCEPT
                      !.colocated[run.stack[1].vm.name] = <<>>,
                      !.res[h.name] = Append(@, run.stack[1].vm),
                      !.stack = Tail(@),
                      !.hosts = IF Len(run.stack) = 1 THEN Update(@, h.name) ELSE @]
                /\ UNCHANGED <<Hosts, queue, assignment, vms, forced, moved, aliased>>
    BY <1>3, <2>1, <2>2, Zenon DEF Added, Top
  <2>4. run.stack \in Seq(Frame) /\ run.hosts \in Seq(HostStats)
    BY DEF RunOK, Run, Frame
  <2>5. 1 \in 1 .. Len(run.stack)
    BY <2>3, <2>4
  <2>6. x \in Known(run.hosts)
    BY <2>1, <2>5 DEF RunOK, OneHost
  <2>7. h.name = x
    BY <2>2, <2>4, <2>6, IndexOfKnown
  <2>8. CASE h.limit # -1 /\ h.vms > h.limit
    BY <2>1, <2>3, <2>6, <2>8 DEF Fail
  <2>9. CASE ~(h.limit # -1 /\ h.vms > h.limit)
    <3>1. /\ run' = [run EXCEPT
                      !.colocated[run.stack[1].vm.name] = <<>>,
                      !.res[h.name] = Append(@, run.stack[1].vm),
                      !.stack = Tail(@),
                      !.hosts = IF Len(run.stack) = 1 THEN Update(@, h.name) ELSE @]
          /\ UNCHANGED <<Hosts, queue, assignment, vms, forced, moved, aliased>>
      BY <2>3, <2>9
    <3>2. run' = Leave(run, x)
      BY <2>7, <3>1, Zenon DEF Leave
    <3>3. QED
      BY <2>1, <2>2, <2>3, <2>6, <2>9, <3>1, <3>2
  <2>10. QED
    BY <2>8, <2>9
<1>4. QED
  BY <1>1, <1>2, <1>3

LEMMA TypeStep == TypeInv /\ [Next]_vars => TypeInv'
<1> SUFFICES ASSUME TypeInv, [Next]_vars PROVE TypeInv'
  OBVIOUS
<1>1. /\ queue \in Seq(QueuedVMs) /\ vms \subseteq Running /\ IsFiniteSet(vms)
      /\ Hosts \subseteq HostNames
      /\ \A i \in 1 .. Len(queue) : \E b \in Batches : SameButSchedule(b, queue[i])
  BY DEF TypeInv
<1>2. ASSUME NEW b \in Batches, Queue(b) PROVE TypeInv'
  <2>1. PICK q : q = queue'
    OBVIOUS
  <2>2. b \in QueuedVMs /\ SameButSchedule(b, b)
    BY BatchAssumption, SameReflexive
  <2>3. q = queue \/ q = Append(queue, b)
    BY <1>2, <2>1 DEF Queue
  <2>4. q \in Seq(QueuedVMs) /\ \A i \in 1 .. Len(q) : \E c \in Batches : SameButSchedule(c, q[i])
    <3>1. CASE q = queue
      BY <1>1, <3>1
    <3>2. CASE q = Append(queue, b)
      <4>1. /\ q \in Seq(QueuedVMs) /\ Len(q) = Len(queue) + 1 /\ q[Len(queue) + 1] = b
            /\ \A i \in 1 .. Len(queue) : q[i] = queue[i]
        BY <1>1, <2>2, <3>2
      <4>2. \A i \in 1 .. Len(q) : i \in 1 .. Len(queue) \/ i = Len(queue) + 1
        BY <1>1, <4>1
      <4>3. QED
        BY <1>1, <2>2, <4>1, <4>2
    <3>3. QED
      BY <2>3, <3>1, <3>2
  <2>5. QED
    BY <1>2, <2>1, <2>4 DEF Queue, TypeInv
<1>3. CASE FlushQueue
  <2>1. queue' = <<>> /\ queue' \in Seq(QueuedVMs) /\ 1 .. Len(queue') = {}
    BY <1>3 DEF FlushQueue
  <2>2. QED
    BY <1>3, <2>1 DEF FlushQueue, TypeInv
<1>4. ASSUME NEW h \in HostNames, DelHost(h) \/ AddHost(h) PROVE TypeInv'
  BY <1>4 DEF DelHost, AddHost, TypeInv
<1>5. ASSUME NEW v \in vms, Gone(v) PROVE TypeInv'
  <2>1. vms' = vms \ {v} /\ UNCHANGED <<Hosts, queue, assignment, moved, forced, aliased, run>>
    BY <1>5 DEF Gone
  <2>2. vms \ {v} \in SUBSET vms
    OBVIOUS
  <2>3. IsFiniteSet(vms') /\ vms' \subseteq Running
    BY <1>1, <2>1, <2>2, FS_Subset
  <2>4. QED
    BY <2>1, <2>3 DEF TypeInv
<1>6. CASE LaunchAssigned
  <2>1. PICK a : a = assignment
    OBVIOUS
  <2>2. a \in Assignment /\ Launch(a, moved \/ aliased)
    BY <1>6, <2>1 DEF LaunchAssigned, TypeInv
  <2>3. vms' \subseteq Running /\ IsFiniteSet(vms')
    BY <1>1, <2>2, LaunchType
  <2>4. /\ queue' = <<>> /\ queue' \in Seq(QueuedVMs) /\ 1 .. Len(queue') = {}
        /\ forced' \in BOOLEAN /\ UNCHANGED Hosts
    BY <2>2 DEF Launch
  <2>5. QED
    BY <1>6, <2>3, <2>4 DEF LaunchAssigned, TypeInv
<1>7. ASSUME NEW h \in HostNames, NEW dst \in HostNames, NEW i \in 1 .. Cardinality(Names),
             Reschedule(h, i, dst)
      PROVE  TypeInv'
  <2>1. assignment \in [HostNames -> Seq(VM)] /\ i \in 1 .. Len(assignment[h])
    BY <1>7 DEF Reschedule, TypeInv, Assignment
  <2>2. PICK left : left = RemoveAt(assignment[h], i)
    OBVIOUS
  <2>3. left \in Seq(VM)
    <3>1. assignment[h] \in Seq(VM)
      BY <2>1
    <3>2. RemoveAt(assignment[h], i) \in Seq(VM)
      BY <2>1, <3>1, RemoveAtType, Zenon
    <3>3. QED
      BY <2>2, <3>2
  <2>4. PICK vm : vm = assignment[h][i]
    OBVIOUS
  <2>5. vm \in VM
    BY <2>1, <2>4
  <2>6. PICK removed : removed = [assignment EXCEPT ![h] = left]
    OBVIOUS
  <2>7. removed \in [HostNames -> Seq(VM)]
    BY <2>1, <2>3, <2>6
  <2>8. assignment' = [removed EXCEPT ![dst] = Append(removed[dst], vm)]
    BY <1>7, <2>2, <2>4, <2>6, Zenon DEF Reschedule
  <2>9. assignment' \in Assignment
    BY <2>5, <2>7, <2>8 DEF Assignment
  <2>10. QED
    BY <1>7, <2>9 DEF Reschedule, TypeInv
<1>8. ASSUME NEW dry \in BOOLEAN, BeginSchedule(dry) PROVE TypeInv'
  BY <1>8, BeginTypes
<1>9. CASE Place
  <2>1. run # Absent /\ RunOK(run)
    BY <1>9 DEF Place, Idle, TypeInv
  <2>2. RunOK(run')
    BY <1>9, <2>1, LoopSteps, PlaceOK
  <2>3. QED
    BY <1>9, <2>2 DEF Place, TypeInv
<1>10. CASE AddColocated
  <2>1. run # Absent /\ RunOK(run)
    BY <1>10 DEF AddColocated, Idle, TypeInv
  <2>2. RunOK(run')
    BY <1>10, <2>1, LoopSteps, FollowOK
  <2>3. QED
    BY <1>10, <2>2 DEF AddColocated, TypeInv
<1>11. CASE Added
  <2>1. run # Absent /\ RunOK(run)
    BY <1>11 DEF Added, Idle, TypeInv
  <2>2. run' = Absent \/ RunOK(run')
    BY <1>11, <2>1, LoopSteps, LeaveOK
  <2>3. UNCHANGED <<Hosts, queue, assignment, vms, forced, moved, aliased>>
    BY <1>11, <2>1, LoopSteps
  <2>4. QED
    BY <2>2, <2>3 DEF TypeInv
<1>12. CASE EndSchedule
  <2>1. run # Absent /\ RunOK(run)
    BY <1>12 DEF EndSchedule, Idle, TypeInv
  <2>2. PICK a : a = run.res
    OBVIOUS
  <2>3. a \in Assignment
    BY <2>1, <2>2 DEF RunOK, Run
  <2>4. CASE Fail
    BY <2>4 DEF Fail, TypeInv
  <2>5. CASE /\ run' = Absent
             /\ assignment' = run.res /\ moved' = FALSE /\ aliased' = FALSE
             /\ UNCHANGED <<Hosts, queue, vms, forced>>
    BY <2>2, <2>3, <2>5 DEF TypeInv
  <2>6. CASE run' = Absent /\ Launch(run.res, FALSE) /\ UNCHANGED <<assignment, moved, aliased>>
    <3>1. vms' \subseteq Running /\ IsFiniteSet(vms')
      BY <1>1, <2>2, <2>3, <2>6, LaunchType
    <3>2. /\ queue' = <<>> /\ queue' \in Seq(QueuedVMs) /\ 1 .. Len(queue') = {}
          /\ forced' \in BOOLEAN /\ UNCHANGED Hosts
      BY <2>6 DEF Launch
    <3>3. QED
      BY <2>6, <3>1, <3>2 DEF TypeInv
  <2>7. QED
    BY <1>12, <2>4, <2>5, <2>6, Zenon DEF EndSchedule
<1>13. CASE UNCHANGED vars
  BY <1>13 DEF vars, TypeInv
<1>14. QED
  BY <1>2, <1>3, <1>4, <1>5, <1>6, <1>7, <1>8, <1>9, <1>10, <1>11, <1>12, <1>13
     DEF Next, Commands, Loop

(* Commands and the loop of the scheduler keep the types of what they share: the *)
(* queue holds what users queued but for the hosts that Schedule filled in, and  *)
(* a run has the statistics of hosts with a positive limit or none.              *)
THEOREM TypeCorrect == Spec => []TypeOK
<1>1. Spec => []TypeInv
  BY TypeInit, TypeStep, PTL DEF Spec
<1>2. TypeInv => TypeOK
  <2> SUFFICES ASSUME TypeInv PROVE TypeOK
    OBVIOUS
  <2>1. ASSUME NEW i \in 1 .. Len(queue)
        PROVE  \E b \in Batches : queue[i] = [b EXCEPT !.schedule = queue[i].schedule]
    <3>1. PICK b \in Batches : SameButSchedule(b, queue[i])
      BY DEF TypeInv
    <3>2. b \in QueuedVMs
      BY BatchAssumption
    <3>3. QED
      BY <3>1, <3>2 DEF SameButSchedule, QueuedVMs
  <2>2. run = Absent \/ (run \in Run /\ \A i \in 1 .. Len(run.hosts) :
                                           run.hosts[i].limit \in (Nat \ {0}) \cup {-1})
    BY DEF TypeInv, RunOK, Limits
  <2>3. QED
    BY <2>1, <2>2 DEF TypeOK, TypeInv, Running
<1>3. QED
  BY <1>1, <1>2, PTL

(* The first host of the heap is the least loaded whenever the loop chooses *)
(* one, however many VMs were added, one below another, since it was sorted *)
(* (hostSortBy.Update, called once per VM of the loop).                     *)
THEOREM LeastLoaded == Spec => []LeastLoadedFirst
<1>1. TypeInv => LeastLoadedFirst
  <2>1. SUFFICES ASSUME TypeInv, run # Absent, run.stack = <<>>,
                        NEW i \in 1 .. Len(run.hosts)
                 PROVE  ~By(run.hosts[i], run.hosts[1])
    BY DEF LeastLoadedFirst, Idle
  <2>2. run.hosts \in Seq(HostStats) /\ Heap(run.hosts, 1)
    BY <2>1 DEF TypeInv, RunOK, HeapInv, Run
  <2>3. QED
    BY <2>2, FirstIsLeast DEF Le
<1>2. QED
  BY <1>1, TypeInit, TypeStep, PTL DEF Spec

----------------------------------------------------------------------------
(* Coscheduling. *)

There(V, h) == {v \in V : v.host = h}

(* The limit of a host has been lowered for v. *)
Caps(s, v) == v.coschedule # -1 => s.limit # -1 /\ s.limit <= v.coschedule + 1

(* The statistics of a host count the VMs that run there, the ones it was given *)
(* and the ones that add is about to give it, and its limit is one that all of  *)
(* them allow.  Only while add is at it may there be more VMs than that.        *)
HostCounted(V, r, s) ==
    /\ s.vms = Cardinality(There(V, s.name)) + Len(r.res[s.name])
                 + (IF r.stack # <<>> /\ r.stack[1].host = s.name THEN Len(r.stack) ELSE 0)
    /\ \A v \in There(V, s.name) : Caps(s, v)
    /\ \A i \in 1 .. Len(r.res[s.name]) : Caps(s, r.res[s.name][i])
    /\ \A i \in 1 .. Len(r.stack) : r.stack[i].host = s.name => Caps(s, r.stack[i].vm)
    /\ r.stack = <<>> \/ r.stack[1].host # s.name => s.limit = -1 \/ s.vms <= s.limit

Counted(V, r) ==
    /\ \A i \in 1 .. Len(r.hosts) : HostCounted(V, r, r.hosts[i])
    /\ \A h \in HostNames \ Known(r.hosts) : r.res[h] = <<>>

Held(V) == \A v \in V : v.coschedule # -1 => Cardinality(There(V, v.host)) - 1 <= v.coschedule

(* An assignment that may be launched *)
Fits(V, a) ==
    \A h \in HostNames : \A v \in There(V, h) \cup Launched(a, h) :
        v.coschedule # -1 => Cardinality(There(V, h) \cup Launched(a, h)) - 1 <= v.coschedule

(* A run that is not dry has no assignment to overwrite. *)
CoscheduleInv ==
    /\ run # Absent => run.dry \/ assignment = Absent
    /\ ~forced =>
          /\ Held(vms)
          /\ run # Absent => Counted(vms, run)
          /\ assignment # Absent /\ ~moved /\ ~aliased => Fits(vms, assignment)

LEMMA ThereFinite ==
    ASSUME NEW V, IsFiniteSet(V), NEW h
    PROVE  IsFiniteSet(There(V, h)) /\ Cardinality(There(V, h)) \in Nat
<1>1. There(V, h) \in SUBSET V
  BY DEF There
<1>2. QED
  BY <1>1, FS_Subset, FS_CardinalityType

LEMMA IncrementCaps ==
    ASSUME NEW s \in HostStats, NEW vm \in VM, s.limit \in Limits
    PROVE  /\ Increment(s, vm).vms = s.vms + 1 /\ Caps(Increment(s, vm), vm)
           /\ \A v : v.coschedule \in Nat \cup {-1} /\ Caps(s, v) => Caps(Increment(s, vm), v)
<1> DEFINE lim == IF vm.coschedule # -1 /\ (s.limit = -1 \/ vm.coschedule + 1 < s.limit)
                  THEN vm.coschedule + 1 ELSE s.limit
<1>1. PICK k : k = Increment(s, vm)
  OBVIOUS
<1>2. k = [s EXCEPT !.vms = s.vms + 1, !.commit = s.commit + vm.load, !.limit = lim]
  BY <1>1 DEF Increment
<1>3. s = [name |-> s.name, limit |-> s.limit, vms |-> s.vms, commit |-> s.commit]
  BY DEF HostStats
<1>4. k.vms = s.vms + 1 /\ k.limit = lim
  <2> HIDE DEF lim
  <2>1. QED
    BY <1>2, <1>3
<1>5. vm.coschedule \in Nat \cup {-1}
  BY DEF VM
<1>6. s.limit \in Int /\ s.limit \in (Nat \ {0}) \cup {-1}
  BY DEF Limits
<1>7. lim # -1 \/ lim = s.limit
  BY <1>5
<1>8. vm.coschedule # -1 => lim # -1 /\ lim <= vm.coschedule + 1
  BY <1>5, <1>6
<1>9. s.limit # -1 => lim # -1 /\ lim <= s.limit
  BY <1>5, <1>6
<1>10. lim \in Int
  BY <1>5, <1>6
<1> HIDE DEF lim
<1>11. ASSUME NEW v, v.coschedule \in Nat \cup {-1}, Caps(s, v) PROVE Caps(k, v)
  BY <1>4, <1>6, <1>9, <1>10, <1>11 DEF Caps
<1>12. QED
  BY <1>1, <1>4, <1>8, <1>11 DEF Caps

(* With fewer VMs an assignment still fits. *)
LEMMA FewerFit ==
    ASSUME NEW V, V \subseteq Running, IsFiniteSet(V), NEW W \in SUBSET V
    PROVE  /\ Held(V) => Held(W)
           /\ \A a \in Assignment : Fits(V, a) => Fits(W, a)
<1>1. \A h : There(W, h) \in SUBSET There(V, h)
  BY DEF There
<1>2. ASSUME NEW T, IsFiniteSet(T), NEW U \in SUBSET T, NEW c \in Nat,
             Cardinality(T) - 1 <= c
      PROVE  Cardinality(U) - 1 <= c
  <2>1. IsFiniteSet(U) /\ Cardinality(U) <= Cardinality(T)
    BY <1>2, FS_Subset
  <2>2. Cardinality(T) \in Nat /\ Cardinality(U) \in Nat
    BY <1>2, <2>1, FS_CardinalityType
  <2>3. QED
    BY <1>2, <2>1, <2>2
<1>3. ASSUME Held(V) PROVE Held(W)
  <2>1. SUFFICES ASSUME NEW v \in W, v.coschedule # -1
                 PROVE  Cardinality(There(W, v.host)) - 1 <= v.coschedule
    BY DEF Held
  <2>2. v.coschedule \in Nat
    BY <2>1 DEF Running
  <2>3. Cardinality(There(V, v.host)) - 1 <= v.coschedule
    BY <1>3, <2>1 DEF Held
  <2>4. QED
    BY <1>1, <1>2, <2>2, <2>3, ThereFinite
<1>4. ASSUME NEW a \in Assignment, Fits(V, a) PROVE Fits(W, a)
  <2>1. SUFFICES ASSUME NEW h \in HostNames, NEW v \in There(W, h) \cup Launched(a, h),
                        v.coschedule # -1
                 PROVE  Cardinality(There(W, h) \cup Launched(a, h)) - 1 <= v.coschedule
    BY DEF Fits
  <2>2. v \in There(V, h) \cup Launched(a, h)
    BY <1>1
  <2>3. Cardinality(There(V, h) \cup Launched(a, h)) - 1 <= v.coschedule
    BY <1>4, <2>1, <2>2 DEF Fits
  <2>4. Launched(a, h) \subseteq Running /\ IsFiniteSet(Launched(a, h))
    BY LaunchedType
  <2>5. v \in Running
    BY <2>2, <2>4 DEF There
  <2>6. v.coschedule \in Nat
    BY <2>1, <2>5 DEF Running
  <2>7. IsFiniteSet(There(V, h) \cup Launched(a, h))
    BY <2>4, ThereFinite, FS_Union
  <2>8. There(W, h) \cup Launched(a, h) \in SUBSET (There(V, h) \cup Launched(a, h))
    BY <1>1
  <2>9. QED
    BY <1>2, <2>3, <2>6, <2>7, <2>8
<1>5. QED
  BY <1>3, <1>4

(* What an assignment that fits launches, in full or in part, keeps the limits. *)
LEMMA LaunchHeld ==
    ASSUME NEW a \in Assignment, NEW unchecked, Launch(a, unchecked),
           vms \subseteq Running, IsFiniteSet(vms), Fits(vms, a)
    PROVE  Held(vms')
<1>1. PICK lost : vms' = vms \cup ((UNION {Launched(a, h) : h \in HostNames}) \ lost)
  BY DEF Launch
<1>2. vms' \subseteq Running
  BY LaunchType
<1>3. PICK W : W = vms'
  OBVIOUS
<1>4. SUFFICES ASSUME NEW v \in W, v.coschedule # -1
               PROVE  Cardinality(There(W, v.host)) - 1 <= v.coschedule
  BY <1>3 DEF Held
<1>5. v \in Running /\ v.host \in HostNames /\ v.coschedule \in Nat
  <2>1. v \in Running
    BY <1>2, <1>3
  <2>2. QED
    BY <1>4, <2>1 DEF Running
<1>6. PICK h : h = v.host
  OBVIOUS
<1>7. \A k \in HostNames : \A w \in Launched(a, k) : w.host = k
  BY LaunchedType
<1>8. ASSUME NEW w \in W PROVE w \in There(vms, w.host) \cup Launched(a, w.host)
  <2>1. w \in vms \/ \E k \in HostNames : w \in Launched(a, k)
    BY <1>1, <1>3
  <2>2. QED
    BY <1>7, <2>1 DEF There
<1>9. There(W, h) \in SUBSET (There(vms, h) \cup Launched(a, h))
  BY <1>8 DEF There
<1>10. IsFiniteSet(There(vms, h) \cup Launched(a, h))
  BY <1>5, <1>6, LaunchedType, ThereFinite, FS_Union
<1>11. /\ IsFiniteSet(There(W, h))
       /\ Cardinality(There(W, h)) <= Cardinality(There(vms, h) \cup Launched(a, h))
  BY <1>9, <1>10, FS_Subset
<1>12. Cardinality(There(vms, h) \cup Launched(a, h)) \in Nat /\ Cardinality(There(W, h)) \in Nat
  BY <1>10, <1>11, FS_CardinalityType
<1>13. v \in There(vms, h) \cup Launched(a, h)
  BY <1>6, <1>8
<1>14. Cardinality(There(vms, h) \cup Launched(a, h)) - 1 <= v.coschedule
  BY <1>4, <1>5, <1>6, <1>13 DEF Fits
<1>15. QED
  BY <1>5, <1>6, <1>11, <1>12, <1>14

(* Every host that answers keeps its limit. *)
LEMMA BeginCounted ==
    ASSUME vms \subseteq Running, IsFiniteSet(vms), Hosts \subseteq HostNames, Held(vms),
           NEW hosts \in Answers, NEW r, Rearranged(hosts, r.hosts),
           r.res = NoVMs, r.stack = <<>>
    PROVE  Counted(vms, r)
<1>1. /\ hosts \in Seq(HostStats)
      /\ \A i \in 1 .. Len(hosts) :
            hosts[i].name \in HostNames /\ hosts[i] = NewHostStats(hosts[i].name)
  BY AnswersType
<1>2. \A h \in HostNames : r.res[h] = <<>> /\ Len(r.res[h]) = 0
  BY DEF NoVMs
<1>3. ASSUME NEW i \in 1 .. Len(r.hosts) PROVE HostCounted(vms, r, r.hosts[i])
  <2>1. PICK j \in 1 .. Len(hosts) : r.hosts[i] = hosts[j]
    <3>1. \A x \in 1 .. Len(r.hosts) : \E j \in 1 .. Len(hosts) : hosts[j] = r.hosts[x]
      BY <1>1, KnownOfRearranged
    <3>2. QED
      BY <3>1
  <2>2. PICK h \in HostNames : h = hosts[j].name
    BY <1>1
  <2>3. PICK s : s = r.hosts[i]
    OBVIOUS
  <2>4. s = NewHostStats(h) /\ s.name = h
    BY <1>1, <2>1, <2>2, <2>3
  <2>5. On(h) = There(vms, h)
    BY DEF On, There
  <2>6. /\ s.limit \in Limits /\ s.vms = Cardinality(There(vms, h))
        /\ \A v \in There(vms, h) : Caps(s, v)
        /\ s.limit # -1 => \E v \in There(vms, h) : v.coschedule # -1 /\ s.limit = v.coschedule + 1
    BY <2>4, <2>5, NewHostStatsType DEF Caps
  <2>7. Cardinality(There(vms, h)) \in Nat
    BY ThereFinite
  <2>8. s.limit = -1 \/ s.vms <= s.limit
    <3>1. SUFFICES ASSUME s.limit # -1 PROVE s.vms <= s.limit
      OBVIOUS
    <3>2. PICK v \in There(vms, h) : v.coschedule # -1 /\ s.limit = v.coschedule + 1
      BY <2>6, <3>1
    <3>3. v \in vms /\ v.host = h /\ v.coschedule \in Nat
      BY <3>2 DEF There, Running
    <3>4. Cardinality(There(vms, h)) - 1 <= v.coschedule
      BY <3>2, <3>3 DEF Held
    <3>5. QED
      BY <2>6, <2>7, <3>2, <3>3, <3>4
  <2>9. Len(r.res[h]) = 0 /\ Len(r.stack) = 0
    BY <1>2
  <2>10. HostCounted(vms, r, s)
    BY <2>4, <2>6, <2>7, <2>8, <2>9 DEF HostCounted
  <2>11. QED
    BY <2>3, <2>10
<1>4. QED
  BY <1>2, <1>3 DEF Counted

(* Counted reads the hosts of the frames and their VMs. *)
LEMMA CountedSame ==
    ASSUME NEW V, NEW r, NEW r2, Counted(V, r), r2.hosts = r.hosts, r2.res = r.res,
           r.stack \in Seq(Frame), r2.stack \in Seq(Frame), Len(r2.stack) = Len(r.stack),
           \A i \in 1 .. Len(r.stack) :
               r2.stack[i].host = r.stack[i].host /\ r2.stack[i].vm = r.stack[i].vm
    PROVE  Counted(V, r2)
<1>1. (r2.stack = <<>>) <=> (r.stack = <<>>)
  <2>1. (r.stack = <<>>) <=> (Len(r.stack) = 0)
    OBVIOUS
  <2>2. (r2.stack = <<>>) <=> (Len(r2.stack) = 0)
    OBVIOUS
  <2>3. QED
    BY <2>1, <2>2
<1>2. r.stack # <<>> => r2.stack[1].host = r.stack[1].host
  <2>1. SUFFICES ASSUME r.stack # <<>> PROVE 1 \in 1 .. Len(r.stack)
    OBVIOUS
  <2>2. QED
    BY <2>1
<1>3. ASSUME NEW s, HostCounted(V, r, s) PROVE HostCounted(V, r2, s)
  <2>1. \A i \in 1 .. Len(r.stack) : r2.stack[i].host = s.name => Caps(s, r2.stack[i].vm)
    BY <1>3 DEF HostCounted
  <2>2. QED
    BY <1>1, <1>2, <1>3, <2>1 DEF HostCounted
<1>4. QED
  BY <1>3 DEF Counted

LEMMA EnterCounted ==
    ASSUME NEW V, V \subseteq Running, IsFiniteSet(V),
           NEW r, RunOK(r), Counted(V, r), NEW vm \in VM, NEW h \in Known(r.hosts),
           r.stack # <<>> => h = r.stack[1].host
    PROVE  Counted(V, Enter(h, vm, r))
<1>1. PICK i : i = IndexOf(r.hosts, h)
  OBVIOUS
<1>2. PICK k : k = Increment(r.hosts[i], vm)
  OBVIOUS
<1>3. PICK hosts : hosts = [r.hosts EXCEPT ![i] = k]
  OBVIOUS
<1>4. PICK f : f = [host |-> h, vm |-> vm, todo |-> r.colocated[vm.name]]
  OBVIOUS
<1>5. PICK e : e = Enter(h, vm, r)
  OBVIOUS
<1>6. /\ r \in Run /\ r.hosts \in Seq(HostStats) /\ r.stack \in Seq(Frame)
      /\ r.colocated \in [Names -> Seq(VM)] /\ r.res \in [HostNames -> Seq(VM)]
  BY DEF RunOK, Run, Frame, Assignment
<1>7. PICK stack : stack = <<f>> \o r.stack
  OBVIOUS
<1>8. e = [dry |-> r.dry, left |-> r.left, res |-> r.res, colocated |-> r.colocated,
           hosts |-> hosts, stack |-> stack]
  BY <1>1, <1>2, <1>3, <1>4, <1>5, <1>6, <1>7, EnterFields
<1>9. /\ i \in 1 .. Len(r.hosts) /\ r.hosts[i].name = h /\ h \in HostNames
      /\ r.hosts[i] \in HostStats /\ r.hosts[i].limit \in Limits
  BY <1>1, <1>6, IndexOfKnown DEF RunOK
<1>10. k.name = h
  BY <1>2, <1>9, IncrementHeavier DEF Limits
<1>11. k.vms = r.hosts[i].vms + 1 /\ Caps(k, vm)
       /\ \A v : v.coschedule \in Nat \cup {-1} /\ Caps(r.hosts[i], v) => Caps(k, v)
  BY <1>2, <1>9, IncrementCaps
<1>12. /\ Len(hosts) = Len(r.hosts)
       /\ \A j \in 1 .. Len(r.hosts) : hosts[j] = IF j = i THEN k ELSE r.hosts[j]
  BY <1>3, <1>6, <1>9
<1>13. Known(hosts) = Known(r.hosts)
  BY <1>9, <1>10, <1>12 DEF Known
<1>14. f \in Frame /\ f.host = h /\ f.vm = vm
  BY <1>4, <1>6, <1>9 DEF Frame, VM
<1>15. /\ stack \in Seq(Frame) /\ Len(stack) = Len(r.stack) + 1 /\ stack # <<>>
       /\ stack[1] = f
       /\ \A j \in 1 .. Len(r.stack) : stack[j + 1] = r.stack[j]
  BY <1>6, <1>7, <1>14
<1>16. e.hosts = hosts /\ e.stack = stack /\ e.res = r.res
  BY <1>8
<1>17. \A j \in 1 .. Len(r.stack) : r.stack[j].host = h
  <2>1. SUFFICES ASSUME NEW j \in 1 .. Len(r.stack) PROVE r.stack[j].host = h
    OBVIOUS
  <2>2. r.stack # <<>>
    BY <1>6, <2>1
  <2>3. QED
    BY <2>1, <2>2 DEF RunOK, OneHost
<1>18. \A j \in 1 .. Len(stack) :
          stack[j].host = h /\ (j = 1 \/ (j - 1 \in 1 .. Len(r.stack) /\ stack[j] = r.stack[j - 1]))
  <2>1. SUFFICES ASSUME NEW j \in 1 .. Len(stack), j # 1
                 PROVE  /\ j - 1 \in 1 .. Len(r.stack) /\ stack[j] = r.stack[j - 1]
                        /\ stack[j].host = h
    BY <1>14, <1>15
  <2>2. j - 1 \in 1 .. Len(r.stack) /\ (j - 1) + 1 = j
    BY <1>6, <1>15, <2>1
  <2>3. QED
    BY <1>15, <1>17, <2>2
<1>19. ASSUME NEW j \in 1 .. Len(hosts) PROVE HostCounted(V, e, hosts[j])
  <2>1. j \in 1 .. Len(r.hosts) /\ HostCounted(V, r, r.hosts[j])
    BY <1>12 DEF Counted
  <2>2. CASE j = i
    <3>1. hosts[j] = k
      BY <1>12, <2>1, <2>2
    <3>2. Len(r.res[h]) \in Nat /\ Len(r.stack) \in Nat /\ Cardinality(There(V, h)) \in Nat
      BY <1>6, <1>9, ThereFinite
    <3>3. k.vms = Cardinality(There(V, h)) + Len(r.res[h]) + Len(stack)
      <4>1. r.hosts[i].vms = Cardinality(There(V, h)) + Len(r.res[h]) + Len(r.stack)
        <5>1. CASE r.stack = <<>>
          <6>1. Len(r.stack) = 0
            BY <5>1
          <6>2. QED
            BY <1>9, <2>1, <2>2, <5>1, <6>1 DEF HostCounted
        <5>2. CASE r.stack # <<>>
          BY <1>9, <2>1, <2>2, <5>2 DEF HostCounted
        <5>3. QED
          BY <5>1, <5>2
      <4>2. k.vms = r.hosts[i].vms + 1 /\ Len(stack) = Len(r.stack) + 1
        BY <1>11, <1>15
      <4>3. PICK c \in Nat, l \in Nat, d \in Nat :
               c = Cardinality(There(V, h)) /\ l = Len(r.res[h]) /\ d = Len(r.stack)
        BY <3>2
      <4>4. k.vms = c + l + d + 1 /\ Len(stack) = d + 1
        BY <4>1, <4>2, <4>3
      <4>5. k.vms = c + l + Len(stack)
        BY <4>4
      <4>6. QED
        BY <4>3, <4>5
    <3>4. \A v \in There(V, h) : Caps(k, v)
      <4>1. \A v \in There(V, h) : v.coschedule \in Nat \cup {-1}
        BY DEF There, Running
      <4>2. QED
        BY <1>9, <1>11, <2>1, <2>2, <4>1 DEF HostCounted
    <3>5. \A x \in 1 .. Len(r.res[h]) : Caps(k, r.res[h][x])
      <4>1. \A x \in 1 .. Len(r.res[h]) : r.res[h][x] \in VM
        BY <1>6, <1>9
      <4>2. \A x \in 1 .. Len(r.res[h]) : r.res[h][x].coschedule \in Nat \cup {-1}
        BY <4>1 DEF VM
      <4>3. QED
        BY <1>9, <1>11, <2>1, <2>2, <4>2 DEF HostCounted
    <3>6. ASSUME NEW x \in 1 .. Len(stack) PROVE Caps(k, stack[x].vm)
      <4>1. CASE x = 1
        BY <1>11, <1>14, <1>15, <4>1
      <4>2. CASE x # 1
        <5>1. x - 1 \in 1 .. Len(r.stack) /\ stack[x] = r.stack[x - 1]
          BY <1>18, <4>2
        <5>2. r.stack[x - 1] \in Frame /\ r.stack[x - 1].host = h
          BY <1>6, <1>17, <5>1
        <5>3. r.stack[x - 1].vm.coschedule \in Nat \cup {-1}
          BY <5>2 DEF Frame, VM
        <5>4. Caps(r.hosts[i], r.stack[x - 1].vm)
          BY <1>9, <2>1, <2>2, <5>1, <5>2 DEF HostCounted
        <5>5. QED
          BY <1>11, <5>1, <5>3, <5>4
      <4>3. QED
        BY <4>1, <4>2
    <3>7. QED
      BY <1>10, <1>14, <1>15, <1>16, <3>1, <3>3, <3>4, <3>5, <3>6 DEF HostCounted
  <2>3. CASE j # i
    <3>1. hosts[j] = r.hosts[j] /\ r.hosts[j].name # h
      BY <1>9, <1>12, <2>1, <2>3 DEF RunOK, Distinct
    <3>2. r.stack = <<>> \/ r.stack[1].host # r.hosts[j].name
      BY <3>1
    <3>3. stack[1].host = h /\ \A x \in 1 .. Len(stack) : stack[x].host # r.hosts[j].name
      BY <1>14, <1>15, <1>18, <3>1
    <3>4. QED
      BY <1>16, <2>1, <3>1, <3>2, <3>3 DEF HostCounted
  <2>4. QED
    BY <2>2, <2>3
<1>20. \A x \in HostNames \ Known(hosts) : r.res[x] = <<>>
  BY <1>13 DEF Counted
<1>21. QED
  BY <1>5, <1>16, <1>19, <1>20 DEF Counted

(* Update only moves hosts. *)
LEMMA UpdateRearranges ==
    ASSUME NEW r, RunOK(r), r.stack # <<>>, NEW h \in Known(r.hosts), h = r.stack[1].host
    PROVE  Rearranged(r.hosts, IF Len(r.stack) = 1 THEN Update(r.hosts, h) ELSE r.hosts)
<1>1. r.hosts \in Seq(HostStats)
  BY DEF RunOK, Run
<1>2. PICK i : i = IndexOf(r.hosts, h)
  OBVIOUS
<1>3. i \in 1 .. Len(r.hosts) /\ i \in Nat \ {0}
  BY <1>1, <1>2, IndexOfKnown
<1>4. HeapBut(r.hosts, 1, i) /\ 1 \in 1 .. i
  BY <1>2, <1>3 DEF RunOK, HeapInv
<1>5. Rearranged(r.hosts, siftDown[[root |-> i, hosts |-> r.hosts]])
  BY <1>1, <1>3, <1>4, siftDownSorts
<1>6. QED
  BY <1>1, <1>2, <1>5, RearrangedReflexive DEF Update

LEMMA LeaveCounted ==
    ASSUME NEW V, V \subseteq Running, IsFiniteSet(V),
           NEW r, RunOK(r), Counted(V, r), r.stack # <<>>,
           NEW h \in Known(r.hosts), h = r.stack[1].host,
           NEW top \in HostStats, top = r.hosts[IndexOf(r.hosts, h)],
           top.limit = -1 \/ ~(top.vms > top.limit)
    PROVE  Counted(V, Leave(r, h))
<1>1. PICK r2 : r2 = Leave(r, h)
  OBVIOUS
<1>2. PICK vm : vm = r.stack[1].vm
  OBVIOUS
<1>3. /\ r \in Run /\ r.hosts \in Seq(HostStats) /\ r.stack \in Seq(Frame)
      /\ r.res \in [HostNames -> Seq(VM)]
  BY DEF RunOK, Run, Frame, Assignment
<1>4. RunOK(r2)
  BY <1>1, LeaveOK
<1>5. PICK hosts : hosts = IF Len(r.stack) = 1 THEN Update(r.hosts, h) ELSE r.hosts
  OBVIOUS
<1>6. PICK res : res = [r.res EXCEPT ![h] = Append(r.res[h], vm)]
  OBVIOUS
<1>7. PICK stack : stack = Tail(r.stack)
  OBVIOUS
<1>8. r2.hosts = hosts /\ r2.res = res /\ r2.stack = stack
  <2>1. r2 = [dry |-> r.dry, left |-> r.left, res |-> res,
              colocated |-> [r.colocated EXCEPT ![vm.name] = <<>>],
              hosts |-> hosts, stack |-> stack]
    BY <1>1, <1>2, <1>3, <1>5, <1>6, <1>7, LeaveFields
  <2>2. QED
    BY <2>1
<1>9. h \in HostNames /\ top.name = h
  BY <1>3, IndexOfKnown
<1>10. vm \in VM
  <2>1. 1 \in 1 .. Len(r.stack)
    BY <1>3
  <2>2. r.stack[1] \in Frame
    BY <1>3, <2>1
  <2>3. QED
    BY <1>2, <2>2 DEF Frame
<1>11. /\ \A k \in HostNames : k # h => res[k] = r.res[k]
       /\ Len(res[h]) = Len(r.res[h]) + 1
       /\ \A i \in 1 .. Len(r.res[h]) : res[h][i] = r.res[h][i]
       /\ res[h][Len(r.res[h]) + 1] = vm
       /\ Len(r.res[h]) \in Nat
  <2>1. \A k \in HostNames : k # h => res[k] = r.res[k]
    BY <1>3, <1>6, <1>9
  <2>2. PICK q : q = r.res[h]
    OBVIOUS
  <2>3. q \in Seq(VM)
    BY <1>3, <1>9, <2>2
  <2>4. PICK a : a = Append(q, vm)
    OBVIOUS
  <2>5. res[h] = a
    BY <1>3, <1>6, <1>9, <2>2, <2>4
  <2>6. /\ Len(a) = Len(q) + 1 /\ a[Len(q) + 1] = vm /\ Len(q) \in Nat
        /\ \A i \in 1 .. Len(q) : a[i] = q[i]
    BY <1>10, <2>3, <2>4
  <2>7. QED
    BY <2>1, <2>2, <2>5, <2>6
<1>12. /\ Len(stack) = Len(r.stack) - 1 /\ Len(r.stack) \in Nat /\ stack \in Seq(Frame)
       /\ \A j \in 1 .. Len(stack) : j + 1 \in 1 .. Len(r.stack) /\ stack[j] = r.stack[j + 1]
  BY <1>3, <1>7
<1>13. \A j \in 1 .. Len(stack) : stack[j].host = h
  BY <1>12 DEF RunOK, OneHost
<1>14. Rearranged(r.hosts, hosts)
  BY <1>1, <1>3, <1>5, UpdateRearranges
<1>15. /\ Known(hosts) = Known(r.hosts)
       /\ \A i \in 1 .. Len(hosts) : \E j \in 1 .. Len(r.hosts) : r.hosts[j] = hosts[i]
  BY <1>3, <1>14, KnownOfRearranged
<1>16. (stack = <<>>) <=> (Len(stack) = 0)
  <2>1. stack \in Seq(Frame)
    BY <1>12
  <2>2. QED
    BY <2>1
<1>17. stack # <<>> => stack[1].host = h
  <2>1. SUFFICES ASSUME stack # <<>> PROVE 1 \in 1 .. Len(stack)
    BY <1>13
  <2>2. QED
    BY <1>12, <2>1
<1>18. ASSUME NEW j \in 1 .. Len(r.hosts) PROVE HostCounted(V, r2, r.hosts[j])
  <2>1. HostCounted(V, r, r.hosts[j]) /\ r.hosts[j] \in HostStats
    BY <1>3 DEF Counted
  <2>2. CASE r.hosts[j].name = h
    <3>1. r.hosts[j] = top
      <4>1. IndexOf(r.hosts, h) \in 1 .. Len(r.hosts) /\ r.hosts[IndexOf(r.hosts, h)].name = h
        BY <1>3, IndexOfKnown
      <4>2. QED
        BY <2>2, <4>1 DEF RunOK, Distinct
    <3>2. top.vms \in Nat /\ top.limit \in Int /\ Cardinality(There(V, h)) \in Nat
      BY ThereFinite DEF HostStats
    <3>3. top.vms = Cardinality(There(V, h)) + Len(r.res[h]) + Len(r.stack)
      BY <1>9, <2>1, <3>1 DEF HostCounted
    <3>4. top.vms = Cardinality(There(V, h)) + Len(res[h]) + Len(stack)
      <4>1. PICK c \in Nat, l \in Nat, d \in Nat :
               c = Cardinality(There(V, h)) /\ l = Len(r.res[h]) /\ d = Len(r.stack)
        BY <1>11, <1>12, <3>2
      <4>2. top.vms = c + l + d /\ Len(res[h]) = l + 1 /\ Len(stack) = d - 1
        BY <1>11, <1>12, <3>3, <4>1
      <4>3. top.vms = c + Len(res[h]) + Len(stack)
        BY <4>2
      <4>4. QED
        BY <4>1, <4>3
    <3>5. top.vms = Cardinality(There(V, h)) + Len(res[h])
                      + (IF stack # <<>> /\ stack[1].host = h THEN Len(stack) ELSE 0)
      BY <1>16, <1>17, <3>4
    <3>6. \A i \in 1 .. Len(r.stack) : Caps(top, r.stack[i].vm)
      BY <1>9, <2>1, <3>1 DEF HostCounted, RunOK, OneHost
    <3>7. 1 \in 1 .. Len(r.stack)
      BY <1>3
    <3>8. ASSUME NEW i \in 1 .. Len(res[h]) PROVE Caps(top, res[h][i])
      <4>1. i \in 1 .. Len(r.res[h]) \/ i = Len(r.res[h]) + 1
        BY <1>11
      <4>2. CASE i \in 1 .. Len(r.res[h])
        BY <1>9, <1>11, <2>1, <3>1, <4>2 DEF HostCounted
      <4>3. CASE i = Len(r.res[h]) + 1
        BY <1>2, <1>11, <3>6, <3>7, <4>3
      <4>4. QED
        BY <4>1, <4>2, <4>3
    <3>9. \A i \in 1 .. Len(stack) : Caps(top, stack[i].vm)
      BY <1>12, <3>6
    <3>10. \A v \in There(V, h) : Caps(top, v)
      BY <1>9, <2>1, <3>1 DEF HostCounted
    <3>11. top.limit = -1 \/ top.vms <= top.limit
      BY <3>2
    <3>12. QED
      BY <1>8, <1>9, <3>1, <3>5, <3>8, <3>9, <3>10, <3>11 DEF HostCounted
  <2>3. CASE r.hosts[j].name # h
    <3>1. res[r.hosts[j].name] = r.res[r.hosts[j].name]
      BY <1>11, <2>1, <2>3 DEF HostStats
    <3>2. QED
      BY <1>8, <1>13, <1>17, <2>1, <2>3, <3>1 DEF HostCounted
  <2>4. QED
    BY <2>2, <2>3
<1>19. \A i \in 1 .. Len(hosts) : HostCounted(V, r2, hosts[i])
  BY <1>15, <1>18
<1>20. \A k \in HostNames \ Known(hosts) : res[k] = <<>>
  BY <1>11, <1>15 DEF Counted
<1>21. QED
  BY <1>1, <1>8, <1>19, <1>20 DEF Counted

(* What the loop leaves fits. *)
LEMMA CountedFits ==
    ASSUME NEW V, V \subseteq Running, IsFiniteSet(V), Held(V),
           NEW r, RunOK(r), Counted(V, r), r.stack = <<>>
    PROVE  Fits(V, r.res)
<1>1. /\ r.hosts \in Seq(HostStats) /\ r.res \in Assignment
      /\ r.res \in [HostNames -> Seq(VM)]
  BY DEF RunOK, Run, Assignment
<1>2. PICK a : a = r.res
  OBVIOUS
<1>3. SUFFICES ASSUME NEW h \in HostNames, NEW v \in There(V, h) \cup Launched(a, h),
                      v.coschedule # -1
               PROVE  Cardinality(There(V, h) \cup Launched(a, h)) - 1 <= v.coschedule
  BY <1>2 DEF Fits
<1>4. /\ IsFiniteSet(There(V, h)) /\ Cardinality(There(V, h)) \in Nat
      /\ There(V, h) \subseteq Running
  BY ThereFinite DEF There
<1>5. /\ IsFiniteSet(Launched(a, h)) /\ Cardinality(Launched(a, h)) <= Len(a[h])
      /\ Launched(a, h) \subseteq Running
  BY <1>1, <1>2, LaunchedType
<1>6. v \in Running /\ v.coschedule \in Nat
  BY <1>3, <1>4, <1>5 DEF Running
<1>7. PICK U : U = There(V, h) \cup Launched(a, h)
  OBVIOUS
<1>8. /\ IsFiniteSet(U) /\ Cardinality(U) \in Nat
      /\ Cardinality(U) <= Cardinality(There(V, h)) + Len(a[h])
  <2>1. /\ IsFiniteSet(U)
        /\ Cardinality(U) = Cardinality(There(V, h)) + Cardinality(Launched(a, h))
                              - Cardinality(There(V, h) \cap Launched(a, h))
    BY <1>4, <1>5, <1>7, FS_Union
  <2>2. There(V, h) \cap Launched(a, h) \in SUBSET There(V, h)
    OBVIOUS
  <2>3. Cardinality(There(V, h) \cap Launched(a, h)) \in Nat
    BY <1>4, <2>2, FS_Subset, FS_CardinalityType
  <2>4. /\ Cardinality(Launched(a, h)) \in Nat /\ Cardinality(U) \in Nat /\ Len(a[h]) \in Nat
    BY <1>1, <1>2, <1>5, <2>1, FS_CardinalityType
  <2>5. QED
    BY <1>4, <1>5, <2>1, <2>3, <2>4
<1>9. CASE h \in Known(r.hosts)
  <2>1. PICK i \in 1 .. Len(r.hosts) : r.hosts[i].name = h
    BY <1>9 DEF Known
  <2>2. PICK s : s = r.hosts[i]
    OBVIOUS
  <2>3. s \in HostStats /\ s.name = h /\ HostCounted(V, r, s)
    BY <1>1, <2>1, <2>2 DEF Counted
  <2>4. s.vms \in Nat /\ s.limit \in Int
    BY <2>3 DEF HostStats
  <2>5. /\ s.vms = Cardinality(There(V, h)) + Len(a[h]) /\ (s.limit = -1 \/ s.vms <= s.limit)
    <3>1. Len(a[h]) \in Nat
      BY <1>1, <1>2
    <3>2. QED
      BY <1>2, <1>4, <2>3, <3>1 DEF HostCounted
  <2>6. s.limit # -1 /\ s.limit <= v.coschedule + 1
    <3>1. CASE v \in There(V, h)
      BY <1>3, <2>3, <3>1 DEF HostCounted, Caps
    <3>2. CASE v \in Launched(a, h)
      <4>1. PICK w \in ToSet(a[h]) : v.coschedule = w.coschedule
        BY <3>2 DEF Launched
      <4>2. a[h] \in Seq(VM)
        BY <1>1, <1>2
      <4>3. PICK j \in 1 .. Len(a[h]) : w = a[h][j]
        BY <4>1, <4>2 DEF ToSet
      <4>4. Caps(s, w)
        BY <1>2, <2>3, <4>3 DEF HostCounted
      <4>5. QED
        BY <1>3, <4>1, <4>4 DEF Caps
    <3>3. QED
      BY <3>1, <3>2
  <2>7. QED
    BY <1>6, <1>7, <1>8, <2>4, <2>5, <2>6
<1>10. CASE h \notin Known(r.hosts)
  <2>1. a[h] = <<>>
    BY <1>2, <1>10 DEF Counted
  <2>2. Launched(a, h) = {}
    <3>1. ToSet(a[h]) = {}
      BY <2>1 DEF ToSet
    <3>2. QED
      BY <3>1 DEF Launched
  <2>3. v \in V /\ v.host = h
    BY <2>2 DEF There
  <2>4. There(V, h) \cup Launched(a, h) = There(V, h)
    BY <2>2
  <2>5. QED
    BY <1>3, <2>3, <2>4 DEF Held
<1>11. QED
  BY <1>9, <1>10

LEMMA CoscheduleInit == Init => CoscheduleInv
  BY DEF Init, CoscheduleInv, Held

LEMMA CoscheduleBegin ==
    ASSUME TypeInv, CoscheduleInv, NEW dry \in BOOLEAN, BeginSchedule(dry)
    PROVE  CoscheduleInv'
<1>1. PICK hosts \in Answers, S \in LastListed :
         BeginFails(hosts, S) \/ BeginSingle(dry, hosts, S) \/ BeginRun(dry, hosts, S)
  BY BeginCases DEF TypeInv
<1>2. run = Absent /\ (dry \/ assignment = Absent)
  BY DEF BeginSchedule, Idle
<1>3. vms \subseteq Running /\ IsFiniteSet(vms) /\ Hosts \subseteq HostNames
  BY DEF TypeInv
<1>4. CASE BeginFails(hosts, S)
  BY <1>4 DEF BeginFails, CoscheduleInv
<1>5. CASE BeginSingle(dry, hosts, S)
  <2>1. CASE dry
    BY <1>2, <1>5, <2>1 DEF BeginSingle, CoscheduleInv
  <2>2. CASE ~dry
    BY <1>2, <1>5, <2>2 DEF BeginSingle, CoscheduleInv, Launch
  <2>3. QED
    BY <2>1, <2>2
<1>6. CASE BeginRun(dry, hosts, S)
  <2>1. PICK r : r = run'
    OBVIOUS
  <2>2. /\ r.dry = dry /\ r.hosts = Heapify(hosts) /\ r.res = NoVMs /\ r.stack = <<>>
        /\ UNCHANGED <<Hosts, assignment, vms, forced, moved, aliased>>
    BY <1>6, <2>1 DEF BeginRun
  <2>3. hosts \in Seq(HostStats)
    BY <1>3, AnswersType
  <2>4. Rearranged(hosts, r.hosts)
    BY <2>2, <2>3, HeapifySorts
  <2>5. Held(vms) => Counted(vms, r)
    BY <1>3, <2>2, <2>4, BeginCounted
  <2>6. QED
    BY <1>2, <2>1, <2>2, <2>5 DEF CoscheduleInv
<1>7. QED
  BY <1>1, <1>4, <1>5, <1>6

LEMMA CoscheduleStep == TypeInv /\ CoscheduleInv /\ [Next]_vars => CoscheduleInv'
<1> SUFFICES ASSUME TypeInv, CoscheduleInv, [Next]_vars PROVE CoscheduleInv'
  OBVIOUS
<1>1. vms \subseteq Running /\ IsFiniteSet(vms)
  BY DEF TypeInv
<1>2. ASSUME NEW b \in Batches, Queue(b) PROVE CoscheduleInv'
  BY <1>2 DEF Queue, Idle, CoscheduleInv
<1>3. CASE FlushQueue
  BY <1>3 DEF FlushQueue, CoscheduleInv
<1>4. ASSUME NEW h \in HostNames, DelHost(h) \/ AddHost(h) PROVE CoscheduleInv'
  BY <1>4 DEF DelHost, AddHost, CoscheduleInv
<1>5. ASSUME NEW v \in vms, Gone(v) PROVE CoscheduleInv'
  <2>1. /\ vms' = vms \ {v} /\ run = Absent
        /\ UNCHANGED <<Hosts, queue, assignment, moved, forced, aliased, run>>
    BY <1>5 DEF Gone, Idle
  <2>2. vms \ {v} \in SUBSET vms
    OBVIOUS
  <2>3. /\ Held(vms) => Held(vms')
        /\ assignment # Absent /\ Fits(vms, assignment) => Fits(vms', assignment)
    BY <1>1, <2>1, <2>2, FewerFit DEF TypeInv
  <2>4. QED
    BY <2>1, <2>3 DEF CoscheduleInv
<1>6. CASE LaunchAssigned
  <2>1. PICK a : a = assignment
    OBVIOUS
  <2>2. /\ a \in Assignment /\ Launch(a, moved \/ aliased) /\ run = Absent /\ run' = run
        /\ assignment' = Absent /\ assignment # Absent
    BY <1>6, <2>1 DEF LaunchAssigned, TypeInv, Idle
  <2>3. forced' = (forced \/ (moved \/ aliased))
    BY <2>2 DEF Launch
  <2>4. ~forced' => Fits(vms, a)
    BY <2>1, <2>2, <2>3 DEF CoscheduleInv
  <2>5. ~forced' => Held(vms')
    BY <1>1, <2>2, <2>4, LaunchHeld
  <2>6. QED
    BY <2>2, <2>5 DEF CoscheduleInv
<1>7. ASSUME NEW h \in HostNames, NEW dst \in HostNames, NEW i \in 1 .. Cardinality(Names),
             Reschedule(h, i, dst)
      PROVE  CoscheduleInv'
  <2>1. run = Absent /\ moved' = TRUE /\ UNCHANGED <<Hosts, queue, vms, forced, aliased, run>>
    BY <1>7 DEF Reschedule, Idle
  <2>2. QED
    BY <2>1 DEF CoscheduleInv
<1>8. ASSUME NEW dry \in BOOLEAN, BeginSchedule(dry) PROVE CoscheduleInv'
  BY <1>8, CoscheduleBegin
<1>9. CASE Place
  <2>1. run # Absent /\ RunOK(run)
    BY <1>9 DEF Place, Idle, TypeInv
  <2>2. PICK r : r = Popped(run)
    OBVIOUS
  <2>3. PICK h : h = Choice(run)
    OBVIOUS
  <2>4. run' = Enter(h, Head(run.left), r) /\ run.left # <<>> /\ run.stack = <<>>
    BY <1>9, <2>1, <2>2, <2>3, LoopSteps
  <2>5. /\ RunOK(r) /\ Head(run.left) \in VM
        /\ r = [dry |-> run.dry, left |-> Tail(run.left), res |-> run.res,
                colocated |-> run.colocated, hosts |-> run.hosts, stack |-> run.stack]
    BY <2>1, <2>2, <2>4, PoppedOK
  <2>6. h \in Known(r.hosts) /\ r.stack = <<>>
    BY <2>1, <2>3, <2>4, <2>5, PlaceOK
  <2>7. Counted(vms, run) => Counted(vms, r)
    <3>1. r.hosts = run.hosts /\ r.res = run.res /\ r.stack = run.stack /\ run.stack \in Seq(Frame)
      BY <2>4, <2>5
    <3>2. QED
      BY <3>1, CountedSame
  <2>8. Counted(vms, run) => Counted(vms, run')
    BY <1>1, <2>4, <2>5, <2>6, <2>7, EnterCounted
  <2>9. run'.dry = run.dry
    <3>1. r \in Run /\ r.dry = run.dry
      BY <2>5 DEF RunOK
    <3>2. Enter(h, Head(run.left), r).dry = r.dry
      BY <2>5, <2>6, <3>1, EnterParts
    <3>3. QED
      BY <2>4, <3>1, <3>2
  <2>10. QED
    BY <1>9, <2>1, <2>8, <2>9 DEF Place, CoscheduleInv
<1>10. CASE AddColocated
  <2>1. run # Absent /\ RunOK(run)
    BY <1>10 DEF AddColocated, Idle, TypeInv
  <2>2. PICK r : r = Followed(run)
    OBVIOUS
  <2>3. PICK h : h = run.stack[1].host
    OBVIOUS
  <2>4. PICK vm : vm = Head(run.stack[1].todo)
    OBVIOUS
  <2>5. run' = Enter(h, vm, r) /\ run.stack # <<>> /\ run.stack[1].todo # <<>>
    BY <1>10, <2>1, <2>2, <2>3, <2>4, LoopSteps
  <2>6. PICK f : f = [host |-> run.stack[1].host, vm |-> run.stack[1].vm,
                      todo |-> Tail(run.stack[1].todo)]
    OBVIOUS
  <2>7. /\ RunOK(r) /\ vm \in VM /\ h \in Known(run.hosts)
        /\ r = [dry |-> run.dry, left |-> run.left, res |-> run.res,
                colocated |-> run.colocated, hosts |-> run.hosts,
                stack |-> [run.stack EXCEPT ![1] = f]]
        /\ r.stack # <<>> /\ r.stack[1].host = h
    BY <2>1, <2>2, <2>3, <2>4, <2>5, <2>6, FollowedOK
  <2>8. Counted(vms, run) => Counted(vms, r)
    <3>1. r.hosts = run.hosts /\ r.res = run.res /\ r.stack = [run.stack EXCEPT ![1] = f]
      BY <2>7
    <3>2. run.stack \in Seq(Frame) /\ r.stack \in Seq(Frame)
      BY <2>1, <2>7 DEF RunOK, Run, Frame
    <3>3. /\ Len(r.stack) = Len(run.stack)
          /\ \A i \in 1 .. Len(run.stack) : r.stack[i] = IF i = 1 THEN f ELSE run.stack[i]
      BY <3>1, <3>2
    <3>4. \A i \in 1 .. Len(run.stack) :
             r.stack[i].host = run.stack[i].host /\ r.stack[i].vm = run.stack[i].vm
      BY <2>6, <3>3
    <3>5. QED
      BY <3>1, <3>2, <3>3, <3>4, CountedSame
  <2>9. h \in Known(r.hosts)
    BY <2>7
  <2>10. Counted(vms, run) => Counted(vms, run')
    BY <1>1, <2>5, <2>7, <2>8, <2>9, EnterCounted
  <2>11. run'.dry = run.dry
    <3>1. r \in Run /\ r.dry = run.dry /\ vm \in VM
      BY <2>7 DEF RunOK
    <3>2. Enter(h, vm, r).dry = r.dry
      BY <2>9, <3>1, EnterParts
    <3>3. QED
      BY <2>5, <3>1, <3>2
  <2>12. QED
    BY <1>10, <2>1, <2>10, <2>11 DEF AddColocated, CoscheduleInv
<1>11. CASE Added
  <2>1. run # Absent /\ RunOK(run)
    BY <1>11 DEF Added, Idle, TypeInv
  <2>2. PICK h : h = run.stack[1].host
    OBVIOUS
  <2>3. PICK top : top = run.hosts[IndexOf(run.hosts, h)]
    OBVIOUS
  <2>4. /\ run.stack # <<>> /\ h \in Known(run.hosts)
        /\ UNCHANGED <<Hosts, queue, assignment, vms, forced, moved, aliased>>
        /\ \/ run' = Absent
           \/ run' = Leave(run, h) /\ (top.limit = -1 \/ ~(top.vms > top.limit))
    BY <1>11, <2>1, <2>2, <2>3, LoopSteps
  <2>5. top \in HostStats /\ run \in Run
    <3>1. run.hosts \in Seq(HostStats)
      BY <2>1 DEF RunOK, Run
    <3>2. IndexOf(run.hosts, h) \in 1 .. Len(run.hosts)
      BY <2>4, <3>1, IndexOfKnown
    <3>3. QED
      BY <2>1, <2>3, <3>1, <3>2 DEF RunOK
  <2>6. CASE run' = Absent
    BY <2>4, <2>6 DEF CoscheduleInv
  <2>7. CASE run' = Leave(run, h) /\ (top.limit = -1 \/ ~(top.vms > top.limit))
    <3>1. Counted(vms, run) => Counted(vms, run')
      BY <1>1, <2>1, <2>2, <2>3, <2>4, <2>5, <2>7, LeaveCounted
    <3>2. Leave(run, h).dry = run.dry
      BY <2>5, LeaveFields
    <3>3. QED
      BY <2>1, <2>4, <2>7, <3>1, <3>2 DEF CoscheduleInv
  <2>8. QED
    BY <2>4, <2>6, <2>7
<1>12. CASE EndSchedule
  <2>1. run # Absent /\ RunOK(run) /\ run.stack = <<>>
    BY <1>12 DEF EndSchedule, Idle, TypeInv
  <2>2. PICK a : a = run.res
    OBVIOUS
  <2>3. a \in Assignment
    BY <2>1, <2>2 DEF RunOK, Run
  <2>4. ~forced => Fits(vms, a)
    BY <1>1, <2>1, <2>2, CountedFits DEF CoscheduleInv
  <2>5. CASE Fail
    BY <2>5 DEF Fail, CoscheduleInv
  <2>6. CASE /\ run' = Absent
             /\ assignment' = run.res /\ moved' = FALSE /\ aliased' = FALSE
             /\ UNCHANGED <<Hosts, queue, vms, forced>>
    BY <2>2, <2>4, <2>6 DEF CoscheduleInv
  <2>7. CASE /\ run' = Absent /\ ~run.dry
             /\ Launch(run.res, FALSE) /\ UNCHANGED <<assignment, moved, aliased>>
    <3>1. assignment' = Absent
      BY <2>1, <2>7 DEF CoscheduleInv
    <3>2. ~forced' => ~forced
      BY <2>7 DEF Launch
    <3>3. ~forced' => Held(vms')
      BY <1>1, <2>2, <2>3, <2>4, <2>7, <3>2, LaunchHeld
    <3>4. QED
      BY <2>7, <3>1, <3>3 DEF CoscheduleInv
  <2>8. QED
    BY <1>12, <2>5, <2>6, <2>7, Zenon DEF EndSchedule
<1>13. CASE UNCHANGED vars
  BY <1>13 DEF vars, CoscheduleInv
<1>14. QED
  BY <1>2, <1>3, <1>4, <1>5, <1>6, <1>7, <1>8, <1>9, <1>10, <1>11, <1>12, <1>13
     DEF Next, Commands, Loop

(* VMs with a coschedule limit never run with more peers than that, over any  *)
(* number of launches, unless the user moved VMs or the namespace had a       *)
(* single host: the count that add checks includes the VMs that run and the   *)
(* ones that follow, and the limit is the lowest of all of theirs.            *)
THEOREM CoscheduleIsHeld == Spec => []CoscheduleHeld
<1>1. CoscheduleInv => CoscheduleHeld
  BY DEF CoscheduleInv, CoscheduleHeld, Held, There, On
<1>2. QED
  BY <1>1, TypeInit, TypeStep, CoscheduleInit, CoscheduleStep, PTL DEF Spec

----------------------------------------------------------------------------
(* The hosts of an assignment. *)

Follows(v, x) == v.schedule = Unset /\ v.colocate = x

LeftAsked(left) == \A i \in 1 .. Len(left) : ~Floating(left[i])

ColocatedAsked(c) == \A x \in Names : \A i \in 1 .. Len(c[x]) : Follows(c[x][i], x)

(* A frame stands on the one of the VM that its own is colocated with. *)
StackAsked(stack) ==
    \A d \in 1 .. Len(stack) :
        /\ \A i \in 1 .. Len(stack[d].todo) : Follows(stack[d].todo[i], stack[d].vm.name)
        /\ stack[d].vm.schedule \in {Unset, stack[d].host}
        /\ Floating(stack[d].vm) =>
              d < Len(stack) /\ stack[d + 1].vm.name = stack[d].vm.colocate

(* A VM that follows another is on its host, or will be. *)
ResAsked(res, stack) ==
    \A h \in HostNames : \A i \in 1 .. Len(res[h]) :
        /\ res[h][i].schedule \in {Unset, h}
        /\ Floating(res[h][i]) =>
              \/ \E j \in 1 .. Len(res[h]) : res[h][j].name = res[h][i].colocate
              \/ \E d \in 1 .. Len(stack) :
                    stack[d].host = h /\ stack[d].vm.name = res[h][i].colocate

AskedRun(r) ==
    /\ LeftAsked(r.left) /\ ColocatedAsked(r.colocated)
    /\ StackAsked(r.stack) /\ ResAsked(r.res, r.stack)

AskedInv ==
    /\ run # Absent => AskedRun(run)
    /\ assignment # Absent /\ ~moved /\ ~aliased => ResAsked(assignment, <<>>)

LEMMA AskedBegin ==
    ASSUME NEW qs \in Seq(QueuedVMs), NEW q \in Seq(QueuedVMs), NEW r,
           r.left = VMsAt(q, {i \in 1 .. Len(q) : ~Floating(q[i])}),
           r.colocated = ColocatedIn(qs), r.res = NoVMs, r.stack = <<>>
    PROVE  AskedRun(r)
<1>1. LeftAsked(r.left)
  <2>1. PICK I : I = {i \in 1 .. Len(q) : ~Floating(q[i])}
    OBVIOUS
  <2>2. SUFFICES ASSUME NEW x \in 1 .. Len(VMsAt(q, I)) PROVE ~Floating(VMsAt(q, I)[x])
    BY <2>1 DEF LeftAsked
  <2>3. PICK i \in I \cap 1 .. Len(q) :
           /\ VMsAt(q, I)[x].schedule = q[i].schedule
           /\ VMsAt(q, I)[x].colocate = q[i].colocate
    BY VMsAtSchedule
  <2>4. ~Floating(q[i])
    BY <2>1, <2>3
  <2>5. QED
    BY <2>3, <2>4 DEF Floating
<1>2. ColocatedAsked(r.colocated)
  <2>1. SUFFICES ASSUME NEW x \in Names, NEW i \in 1 .. Len(ColocatedIn(qs)[x])
                 PROVE  Follows(ColocatedIn(qs)[x][i], x)
    BY DEF ColocatedAsked
  <2>2. PICK I : I = {j \in 1 .. Len(qs) : Floating(qs[j]) /\ qs[j].colocate = x}
    OBVIOUS
  <2>3. ColocatedIn(qs)[x] = VMsAt(qs, I)
    BY <2>2 DEF ColocatedIn
  <2>4. PICK j \in I \cap 1 .. Len(qs) :
           /\ VMsAt(qs, I)[i].schedule = qs[j].schedule
           /\ VMsAt(qs, I)[i].colocate = qs[j].colocate
    BY <2>1, <2>3, VMsAtSchedule
  <2>5. Floating(qs[j]) /\ qs[j].colocate = x
    BY <2>2, <2>4
  <2>6. QED
    BY <2>3, <2>4, <2>5 DEF Floating, Follows
<1>3. StackAsked(r.stack)
  BY DEF StackAsked
<1>4. ResAsked(r.res, r.stack)
  <2>1. \A h \in HostNames : 1 .. Len(r.res[h]) = {}
    BY DEF NoVMs
  <2>2. QED
    BY <2>1 DEF ResAsked
<1>5. QED
  BY <1>1, <1>2, <1>3, <1>4 DEF AskedRun

(* A VM enters with its followers. *)
LEMMA AskedEnter ==
    ASSUME NEW r, RunOK(r), AskedRun(r), NEW vm \in VM, NEW h \in Known(r.hosts),
           vm.schedule \in {Unset, h},
           Floating(vm) => r.stack # <<>> /\ r.stack[1].vm.name = vm.colocate
    PROVE  AskedRun(Enter(h, vm, r))
<1>1. PICK e : e = Enter(h, vm, r)
  OBVIOUS
<1>2. PICK f : f = [host |-> h, vm |-> vm, todo |-> r.colocated[vm.name]]
  OBVIOUS
<1>3. /\ r \in Run /\ r.stack \in Seq(Frame) /\ r.colocated \in [Names -> Seq(VM)]
      /\ r.hosts \in Seq(HostStats)
  BY DEF RunOK, Run, Frame
<1>4. /\ e.left = r.left /\ e.res = r.res /\ e.colocated = r.colocated
      /\ e.stack = <<f>> \o r.stack
  BY <1>1, <1>2, <1>3, EnterParts
<1>5. vm.name \in Names /\ h \in HostNames
  BY <1>3, IndexOfKnown DEF VM
<1>6. f \in Frame /\ f.host = h /\ f.vm = vm /\ f.todo = r.colocated[vm.name]
  BY <1>2, <1>3, <1>5 DEF Frame
<1>7. PICK stack : stack = <<f>> \o r.stack
  OBVIOUS
<1>8. /\ stack \in Seq(Frame) /\ Len(stack) = Len(r.stack) + 1 /\ Len(r.stack) \in Nat
      /\ stack[1] = f
      /\ \A d \in 1 .. Len(r.stack) : stack[d + 1] = r.stack[d]
  BY <1>3, <1>6, <1>7
<1>9. \A d \in 1 .. Len(stack) : d # 1 =>
         d - 1 \in 1 .. Len(r.stack) /\ (d - 1) + 1 = d /\ stack[d] = r.stack[d - 1]
  <2>1. SUFFICES ASSUME NEW d \in 1 .. Len(stack), d # 1
                 PROVE  d - 1 \in 1 .. Len(r.stack) /\ (d - 1) + 1 = d /\ stack[d] = r.stack[d - 1]
    OBVIOUS
  <2>2. d - 1 \in 1 .. Len(r.stack) /\ (d - 1) + 1 = d
    BY <1>8, <2>1
  <2>3. QED
    BY <1>8, <2>2
<1>10. ASSUME NEW d \in 1 .. Len(stack)
       PROVE  /\ \A i \in 1 .. Len(stack[d].todo) : Follows(stack[d].todo[i], stack[d].vm.name)
              /\ stack[d].vm.schedule \in {Unset, stack[d].host}
              /\ Floating(stack[d].vm) =>
                    d < Len(stack) /\ stack[d + 1].vm.name = stack[d].vm.colocate
  <2>1. CASE d = 1
    <3>1. stack[d] = f /\ \A i \in 1 .. Len(f.todo) : Follows(f.todo[i], vm.name)
      BY <1>5, <1>6, <1>8, <2>1 DEF AskedRun, ColocatedAsked
    <3>2. ASSUME Floating(vm) PROVE 1 < Len(stack) /\ stack[2].vm.name = vm.colocate
      <4>1. r.stack # <<>> /\ r.stack[1].vm.name = vm.colocate
        BY <3>2
      <4>2. 1 \in 1 .. Len(r.stack)
        BY <1>3, <4>1
      <4>3. stack[1 + 1] = r.stack[1] /\ 1 + 1 = 2 /\ 1 < Len(stack)
        BY <1>8, <4>2
      <4>4. QED
        BY <4>1, <4>3
    <3>3. QED
      BY <1>6, <2>1, <3>1, <3>2
  <2>2. CASE d # 1
    <3>1. PICK c \in 1 .. Len(r.stack) : d = c + 1 /\ stack[d] = r.stack[c]
      BY <1>9, <2>2
    <3>2. /\ \A i \in 1 .. Len(r.stack[c].todo) : Follows(r.stack[c].todo[i], r.stack[c].vm.name)
          /\ r.stack[c].vm.schedule \in {Unset, r.stack[c].host}
          /\ Floating(r.stack[c].vm) =>
                c < Len(r.stack) /\ r.stack[c + 1].vm.name = r.stack[c].vm.colocate
      BY <3>1 DEF AskedRun, StackAsked
    <3>3. ASSUME c < Len(r.stack) PROVE d < Len(stack) /\ stack[d + 1] = r.stack[c + 1]
      <4>1. c + 1 \in 1 .. Len(r.stack) /\ d + 1 = (c + 1) + 1 /\ d < Len(stack)
        BY <1>8, <3>1, <3>3
      <4>2. QED
        BY <1>8, <4>1
    <3>4. QED
      BY <3>1, <3>2, <3>3
  <2>3. QED
    BY <2>1, <2>2
<1>11. StackAsked(stack)
  BY <1>10 DEF StackAsked
<1>12. ResAsked(r.res, stack)
  <2>1. SUFFICES ASSUME NEW k \in HostNames, NEW i \in 1 .. Len(r.res[k])
                 PROVE  /\ r.res[k][i].schedule \in {Unset, k}
                        /\ Floating(r.res[k][i]) =>
                            \/ \E j \in 1 .. Len(r.res[k]) : r.res[k][j].name = r.res[k][i].colocate
                            \/ \E d \in 1 .. Len(stack) :
                                  stack[d].host = k /\ stack[d].vm.name = r.res[k][i].colocate
    BY DEF ResAsked
  <2>2. /\ r.res[k][i].schedule \in {Unset, k}
        /\ Floating(r.res[k][i]) =>
              \/ \E j \in 1 .. Len(r.res[k]) : r.res[k][j].name = r.res[k][i].colocate
              \/ \E d \in 1 .. Len(r.stack) :
                    r.stack[d].host = k /\ r.stack[d].vm.name = r.res[k][i].colocate
    BY <2>1 DEF AskedRun, ResAsked
  <2>3. ASSUME NEW d \in 1 .. Len(r.stack)
        PROVE  d + 1 \in 1 .. Len(stack) /\ stack[d + 1] = r.stack[d]
    BY <1>8
  <2>4. QED
    BY <2>2, <2>3
<1>13. QED
  BY <1>1, <1>4, <1>7, <1>11, <1>12 DEF AskedRun

(* A VM leaves the stack for its host, where those that follow it are. *)
LEMMA AskedLeave ==
    ASSUME NEW r, RunOK(r), AskedRun(r), r.stack # <<>>,
           NEW h \in Known(r.hosts), h = r.stack[1].host
    PROVE  AskedRun(Leave(r, h))
<1>1. PICK r2 : r2 = Leave(r, h)
  OBVIOUS
<1>2. PICK vm : vm = r.stack[1].vm
  OBVIOUS
<1>3. /\ r \in Run /\ r.hosts \in Seq(HostStats) /\ r.stack \in Seq(Frame)
      /\ r.res \in [HostNames -> Seq(VM)] /\ r.colocated \in [Names -> Seq(VM)]
  BY DEF RunOK, Run, Frame, Assignment
<1>4. PICK res : res = [r.res EXCEPT ![h] = Append(r.res[h], vm)]
  OBVIOUS
<1>5. PICK stack : stack = Tail(r.stack)
  OBVIOUS
<1>6. PICK colocated : colocated = [r.colocated EXCEPT ![vm.name] = <<>>]
  OBVIOUS
<1>7. r2.left = r.left /\ r2.res = res /\ r2.stack = stack /\ r2.colocated = colocated
  <2>1. PICK hosts : hosts = IF Len(r.stack) = 1 THEN Update(r.hosts, h) ELSE r.hosts
    OBVIOUS
  <2>2. r2 = [dry |-> r.dry, left |-> r.left, res |-> res, colocated |-> colocated,
              hosts |-> hosts, stack |-> stack]
    BY <1>1, <1>2, <1>3, <1>4, <1>5, <1>6, <2>1, LeaveFields
  <2>3. QED
    BY <2>2
<1>8. h \in HostNames
  BY <1>3, IndexOfKnown
<1>9. vm \in VM /\ 1 \in 1 .. Len(r.stack)
  <2>1. 1 \in 1 .. Len(r.stack)
    BY <1>3
  <2>2. r.stack[1] \in Frame
    BY <1>3, <2>1
  <2>3. QED
    BY <1>2, <2>1, <2>2 DEF Frame
<1>10. /\ \A k \in HostNames : k # h => res[k] = r.res[k]
       /\ Len(res[h]) = Len(r.res[h]) + 1 /\ Len(r.res[h]) \in Nat
       /\ \A i \in 1 .. Len(r.res[h]) : res[h][i] = r.res[h][i]
       /\ res[h][Len(r.res[h]) + 1] = vm
  BY <1>3, <1>4, <1>8, <1>9
<1>11. /\ Len(stack) = Len(r.stack) - 1 /\ Len(r.stack) \in Nat /\ stack \in Seq(Frame)
       /\ \A d \in 1 .. Len(stack) : d + 1 \in 1 .. Len(r.stack) /\ stack[d] = r.stack[d + 1]
  BY <1>3, <1>5
<1>12. \A d \in 1 .. Len(r.stack) : r.stack[d].host = h
  BY DEF RunOK, OneHost
<1>13. StackAsked(stack)
  <2>1. SUFFICES ASSUME NEW d \in 1 .. Len(stack)
        PROVE  /\ \A i \in 1 .. Len(stack[d].todo) : Follows(stack[d].todo[i], stack[d].vm.name)
               /\ stack[d].vm.schedule \in {Unset, stack[d].host}
               /\ Floating(stack[d].vm) =>
                    d < Len(stack) /\ stack[d + 1].vm.name = stack[d].vm.colocate
    BY DEF StackAsked
  <2>2. PICK c \in 1 .. Len(r.stack) : c = d + 1 /\ stack[d] = r.stack[c]
    BY <1>11
  <2>3. /\ \A i \in 1 .. Len(r.stack[c].todo) : Follows(r.stack[c].todo[i], r.stack[c].vm.name)
        /\ r.stack[c].vm.schedule \in {Unset, r.stack[c].host}
        /\ Floating(r.stack[c].vm) =>
              c < Len(r.stack) /\ r.stack[c + 1].vm.name = r.stack[c].vm.colocate
    BY <2>2 DEF AskedRun, StackAsked
  <2>4. ASSUME c < Len(r.stack) PROVE d < Len(stack) /\ stack[d + 1] = r.stack[c + 1]
    <3>1. d < Len(stack) /\ d + 1 \in 1 .. Len(stack) /\ (d + 1) + 1 = c + 1
      BY <1>11, <2>2, <2>4
    <3>2. QED
      BY <1>11, <3>1
  <2>5. QED
    BY <2>2, <2>3, <2>4
<1>14. ColocatedAsked(colocated)
  <2>1. \A x \in Names : colocated[x] = r.colocated[x] \/ colocated[x] = <<>>
    BY <1>3, <1>6
  <2>2. QED
    BY <2>1 DEF AskedRun, ColocatedAsked
<1>15. \A d \in 1 .. Len(r.stack) : d = 1 \/ \E c \in 1 .. Len(stack) : r.stack[d] = stack[c]
  <2>1. SUFFICES ASSUME NEW d \in 1 .. Len(r.stack), d # 1
                 PROVE  d - 1 \in 1 .. Len(stack) /\ r.stack[d] = stack[d - 1]
    OBVIOUS
  <2>2. d - 1 \in 1 .. Len(stack) /\ (d - 1) + 1 = d
    BY <1>11, <2>1
  <2>3. QED
    BY <1>11, <2>2
<1>16. Len(r.res[h]) + 1 \in 1 .. Len(res[h])
  BY <1>10
<1>17. ASSUME NEW k \in HostNames, NEW v, v.schedule \in {Unset, k},
              Floating(v) => \/ \E j \in 1 .. Len(r.res[k]) : r.res[k][j].name = v.colocate
                             \/ \E d \in 1 .. Len(r.stack) :
                                   r.stack[d].host = k /\ r.stack[d].vm.name = v.colocate
       PROVE  Floating(v) => \/ \E j \in 1 .. Len(res[k]) : res[k][j].name = v.colocate
                             \/ \E d \in 1 .. Len(stack) :
                                   stack[d].host = k /\ stack[d].vm.name = v.colocate
  <2>1. SUFFICES ASSUME Floating(v)
                 PROVE  \/ \E j \in 1 .. Len(res[k]) : res[k][j].name = v.colocate
                        \/ \E d \in 1 .. Len(stack) :
                              stack[d].host = k /\ stack[d].vm.name = v.colocate
    OBVIOUS
  <2>2. CASE \E j \in 1 .. Len(r.res[k]) : r.res[k][j].name = v.colocate
    <3>1. PICK j \in 1 .. Len(r.res[k]) : r.res[k][j].name = v.colocate
      BY <2>2
    <3>2. j \in 1 .. Len(res[k]) /\ res[k][j] = r.res[k][j]
      BY SMTT(40), <1>10
    <3>3. QED
      BY <3>1, <3>2
  <2>3. CASE \E d \in 1 .. Len(r.stack) : r.stack[d].host = k /\ r.stack[d].vm.name = v.colocate
    <3>1. PICK d \in 1 .. Len(r.stack) : r.stack[d].host = k /\ r.stack[d].vm.name = v.colocate
      BY <2>3
    <3>2. CASE d = 1
      <4>1. k = h /\ vm.name = v.colocate
        BY <1>2, <3>1, <3>2
      <4>2. QED
        BY <1>10, <1>16, <4>1
    <3>3. CASE d # 1
      BY <1>15, <3>1, <3>3
    <3>4. QED
      BY <3>2, <3>3
  <2>4. QED
    BY <1>17, <2>1, <2>2, <2>3
<1>18. ResAsked(res, stack)
  <2>1. SUFFICES ASSUME NEW k \in HostNames, NEW i \in 1 .. Len(res[k])
                 PROVE  /\ res[k][i].schedule \in {Unset, k}
                        /\ Floating(res[k][i]) =>
                            \/ \E j \in 1 .. Len(res[k]) : res[k][j].name = res[k][i].colocate
                            \/ \E d \in 1 .. Len(stack) :
                                  stack[d].host = k /\ stack[d].vm.name = res[k][i].colocate
    BY DEF ResAsked
  <2>2. (i \in 1 .. Len(r.res[k]) /\ res[k][i] = r.res[k][i]) \/ (k = h /\ res[k][i] = vm)
    <3>1. CASE k # h
      BY <1>10, <3>1
    <3>2. CASE k = h
      <4>1. i \in 1 .. Len(r.res[h]) \/ i = Len(r.res[h]) + 1
        BY <1>10, <3>2
      <4>2. QED
        BY <1>10, <3>2, <4>1
    <3>3. QED
      BY <3>1, <3>2
  <2>3. CASE i \in 1 .. Len(r.res[k]) /\ res[k][i] = r.res[k][i]
    <3>1. PICK v : v = r.res[k][i]
      OBVIOUS
    <3>2. /\ v.schedule \in {Unset, k}
          /\ Floating(v) => \/ \E j \in 1 .. Len(r.res[k]) : r.res[k][j].name = v.colocate
                            \/ \E d \in 1 .. Len(r.stack) :
                                  r.stack[d].host = k /\ r.stack[d].vm.name = v.colocate
      BY <2>3, <3>1 DEF AskedRun, ResAsked
    <3>3. Floating(v) => \/ \E j \in 1 .. Len(res[k]) : res[k][j].name = v.colocate
                         \/ \E d \in 1 .. Len(stack) :
                               stack[d].host = k /\ stack[d].vm.name = v.colocate
      BY <1>17, <3>2
    <3>4. QED
      BY <2>3, <3>1, <3>2, <3>3
  <2>4. CASE k = h /\ res[k][i] = vm
    <3>1. /\ vm.schedule \in {Unset, h}
          /\ Floating(vm) => 1 < Len(r.stack) /\ r.stack[1 + 1].vm.name = vm.colocate
      BY <1>2, <1>9, <1>12 DEF AskedRun, StackAsked
    <3>2. ASSUME Floating(vm)
          PROVE  1 \in 1 .. Len(stack) /\ stack[1].host = h /\ stack[1].vm.name = vm.colocate
      <4>1. 1 \in 1 .. Len(stack)
        BY <1>11, <3>1, <3>2
      <4>2. QED
        BY <1>11, <1>12, <3>1, <3>2, <4>1
    <3>3. QED
      BY <2>4, <3>1, <3>2
  <2>5. QED
    BY <2>2, <2>3, <2>4
<1>19. QED
  BY <1>1, <1>7, <1>13, <1>14, <1>18 DEF AskedRun

LEMMA AskedInit == Init => AskedInv
  BY DEF Init, AskedInv

LEMMA AskedStep == TypeInv /\ AskedInv /\ [Next]_vars => AskedInv'
<1> SUFFICES ASSUME TypeInv, AskedInv, [Next]_vars PROVE AskedInv'
  OBVIOUS
<1>1. ASSUME NEW b \in Batches, Queue(b) PROVE AskedInv'
  BY <1>1 DEF Queue, Idle, AskedInv
<1>2. CASE FlushQueue
  BY <1>2 DEF FlushQueue, AskedInv
<1>3. ASSUME NEW h \in HostNames, DelHost(h) \/ AddHost(h) PROVE AskedInv'
  BY <1>3 DEF DelHost, AddHost, AskedInv
<1>4. ASSUME NEW v \in vms, Gone(v) PROVE AskedInv'
  BY <1>4 DEF Gone, AskedInv
<1>5. CASE LaunchAssigned
  BY <1>5 DEF LaunchAssigned, Idle, AskedInv
<1>6. ASSUME NEW h \in HostNames, NEW dst \in HostNames, NEW i \in 1 .. Cardinality(Names),
             Reschedule(h, i, dst)
      PROVE  AskedInv'
  <2>1. run = Absent /\ moved' = TRUE /\ UNCHANGED run
    BY <1>6 DEF Reschedule, Idle
  <2>2. QED
    BY <2>1 DEF AskedInv
<1>7. ASSUME NEW dry \in BOOLEAN, BeginSchedule(dry) PROVE AskedInv'
  <2>1. PICK hosts \in Answers, S \in LastListed :
           BeginFails(hosts, S) \/ BeginSingle(dry, hosts, S) \/ BeginRun(dry, hosts, S)
    BY <1>7, BeginCases DEF TypeInv
  <2>2. run = Absent /\ (dry \/ assignment = Absent)
    BY <1>7 DEF BeginSchedule, Idle
  <2>3. CASE BeginFails(hosts, S)
    BY <2>3 DEF BeginFails, AskedInv
  <2>4. CASE BeginSingle(dry, hosts, S)
    BY <2>2, <2>4 DEF BeginSingle, AskedInv
  <2>5. CASE BeginRun(dry, hosts, S)
    <3>1. PICK q : q = queue'
      OBVIOUS
    <3>2. PICK qs : qs = LocalQueue(S)
      OBVIOUS
    <3>3. qs \in Seq(QueuedVMs) /\ Len(qs) = Len(queue)
      BY <3>2, LocalQueueSame DEF TypeInv
    <3>4. q \in Sorted(qs)
      BY <2>5, <3>1, <3>2 DEF BeginRun
    <3>5. q \in Seq(QueuedVMs) /\ Len(q) = Len(queue)
      BY <3>3, <3>4, SortedPermutes
    <3>6. PICK r : r = run'
      OBVIOUS
    <3>7. /\ r.left = VMsAt(q, {i \in 1 .. Len(q) : ~Floating(q[i])})
          /\ r.colocated = ColocatedIn(qs) /\ r.res = NoVMs /\ r.stack = <<>>
      BY <2>5, <3>1, <3>2, <3>5, <3>6 DEF BeginRun
    <3>8. AskedRun(r)
      BY <3>3, <3>5, <3>7, AskedBegin
    <3>9. QED
      BY <2>5, <3>6, <3>8 DEF BeginRun, AskedInv
  <2>6. QED
    BY <2>1, <2>3, <2>4, <2>5
<1>8. CASE Place
  <2>1. run # Absent /\ RunOK(run) /\ AskedRun(run)
    BY <1>8 DEF Place, Idle, TypeInv, AskedInv
  <2>2. PICK r : r = Popped(run)
    OBVIOUS
  <2>3. PICK h : h = Choice(run)
    OBVIOUS
  <2>4. PICK vm : vm = Head(run.left)
    OBVIOUS
  <2>5. run' = Enter(h, vm, r) /\ run.left # <<>> /\ run.stack = <<>>
    BY <1>8, <2>1, <2>2, <2>3, <2>4, LoopSteps
  <2>6. /\ RunOK(r) /\ vm \in VM
        /\ r = [dry |-> run.dry, left |-> Tail(run.left), res |-> run.res,
                colocated |-> run.colocated, hosts |-> run.hosts, stack |-> run.stack]
    BY <2>1, <2>2, <2>4, <2>5, PoppedOK
  <2>7. h \in Known(r.hosts)
    BY <2>1, <2>3, <2>5, <2>6, PlaceOK
  <2>8. run.left \in Seq(VM)
    BY <2>1 DEF RunOK, Run
  <2>9. ~Floating(vm) /\ LeftAsked(r.left)
    <3>1. r.left = Tail(run.left) /\ 1 \in 1 .. Len(run.left) /\ vm = run.left[1]
      BY <2>4, <2>5, <2>6, <2>8
    <3>2. \A i \in 1 .. Len(r.left) : i + 1 \in 1 .. Len(run.left) /\ r.left[i] = run.left[i + 1]
      BY <2>8, <3>1
    <3>3. QED
      BY <2>1, <3>1, <3>2 DEF AskedRun, LeftAsked
  <2>10. AskedRun(r)
    BY <2>1, <2>6, <2>9 DEF AskedRun
  <2>11. vm.schedule \in {Unset, h}
    BY <2>3, <2>4 DEF Choice
  <2>12. AskedRun(run')
    BY <2>5, <2>6, <2>7, <2>9, <2>10, <2>11, AskedEnter
  <2>13. QED
    BY <1>8, <2>12 DEF Place, AskedInv
<1>9. CASE AddColocated
  <2>1. run # Absent /\ RunOK(run) /\ AskedRun(run)
    BY <1>9 DEF AddColocated, Idle, TypeInv, AskedInv
  <2>2. PICK r : r = Followed(run)
    OBVIOUS
  <2>3. PICK h : h = run.stack[1].host
    OBVIOUS
  <2>4. PICK vm : vm = Head(run.stack[1].todo)
    OBVIOUS
  <2>5. run' = Enter(h, vm, r) /\ run.stack # <<>> /\ run.stack[1].todo # <<>>
    BY <1>9, <2>1, <2>2, <2>3, <2>4, LoopSteps
  <2>6. PICK f : f = [host |-> run.stack[1].host, vm |-> run.stack[1].vm,
                      todo |-> Tail(run.stack[1].todo)]
    OBVIOUS
  <2>7. /\ RunOK(r) /\ vm \in VM /\ h \in Known(run.hosts)
        /\ r = [dry |-> run.dry, left |-> run.left, res |-> run.res,
                colocated |-> run.colocated, hosts |-> run.hosts,
                stack |-> [run.stack EXCEPT ![1] = f]]
    BY <2>1, <2>2, <2>3, <2>4, <2>5, <2>6, FollowedOK
  <2>8. /\ r.stack = [run.stack EXCEPT ![1] = f] /\ r.hosts = run.hosts
        /\ r.left = run.left /\ r.res = run.res /\ r.colocated = run.colocated
    BY <2>7
  <2>9. run.stack \in Seq(Frame) /\ 1 \in 1 .. Len(run.stack)
    <3>1. run.stack \in Seq(Frame)
      BY <2>1 DEF RunOK, Run, Frame
    <3>2. QED
      BY <2>5, <3>1
  <2>10. /\ Len(r.stack) = Len(run.stack) /\ r.stack # <<>>
         /\ \A d \in 1 .. Len(run.stack) : r.stack[d] = IF d = 1 THEN f ELSE run.stack[d]
    BY <2>8, <2>9
  <2>11. \A d \in 1 .. Len(run.stack) :
            r.stack[d].host = run.stack[d].host /\ r.stack[d].vm = run.stack[d].vm
    BY <2>6, <2>10
  <2>12. run.stack[1].todo \in Seq(VM)
    <3>1. run.stack[1] \in Frame
      BY <2>9
    <3>2. QED
      BY <3>1 DEF Frame
  <2>13. /\ Follows(vm, run.stack[1].vm.name)
         /\ \A i \in 1 .. Len(f.todo) : Follows(f.todo[i], run.stack[1].vm.name)
    <3>1. \A i \in 1 .. Len(run.stack[1].todo) :
              Follows(run.stack[1].todo[i], run.stack[1].vm.name)
      BY <2>1, <2>9 DEF AskedRun, StackAsked
    <3>2. 1 \in 1 .. Len(run.stack[1].todo) /\ vm = run.stack[1].todo[1]
      BY <2>4, <2>5, <2>12
    <3>3. f.todo = Tail(run.stack[1].todo)
      BY <2>6
    <3>4. \A i \in 1 .. Len(f.todo) :
              i + 1 \in 1 .. Len(run.stack[1].todo) /\ f.todo[i] = run.stack[1].todo[i + 1]
      BY <2>12, <3>3
    <3>5. QED
      BY <3>1, <3>2, <3>4
  <2>14. StackAsked(r.stack)
    <3>1. SUFFICES ASSUME NEW d \in 1 .. Len(run.stack)
          PROVE  /\ \A i \in 1 .. Len(r.stack[d].todo) :
                        Follows(r.stack[d].todo[i], r.stack[d].vm.name)
                 /\ r.stack[d].vm.schedule \in {Unset, r.stack[d].host}
                 /\ Floating(r.stack[d].vm) =>
                      d < Len(r.stack) /\ r.stack[d + 1].vm.name = r.stack[d].vm.colocate
      BY <2>10 DEF StackAsked
    <3>2. /\ \A i \in 1 .. Len(run.stack[d].todo) :
                 Follows(run.stack[d].todo[i], run.stack[d].vm.name)
          /\ run.stack[d].vm.schedule \in {Unset, run.stack[d].host}
          /\ Floating(run.stack[d].vm) =>
                d < Len(run.stack) /\ run.stack[d + 1].vm.name = run.stack[d].vm.colocate
      BY <2>1, <3>1 DEF AskedRun, StackAsked
    <3>3. \A i \in 1 .. Len(r.stack[d].todo) : Follows(r.stack[d].todo[i], run.stack[d].vm.name)
      BY <2>10, <2>13, <3>2
    <3>4. d < Len(run.stack) => d + 1 \in 1 .. Len(run.stack)
      BY <2>9
    <3>5. QED
      BY <2>10, <2>11, <3>2, <3>3, <3>4
  <2>15. ResAsked(r.res, r.stack)
    BY SMTT(40), <2>1, <2>8, <2>10, <2>11 DEF AskedRun, ResAsked
  <2>16. AskedRun(r)
    BY <2>1, <2>8, <2>14, <2>15 DEF AskedRun
  <2>17. AskedRun(run')
    <3>1. vm.schedule \in {Unset, h} /\ r.stack # <<>> /\ r.stack[1].vm.name = vm.colocate
      BY <2>9, <2>10, <2>11, <2>13 DEF Follows
    <3>2. RunOK(r) /\ vm \in VM /\ h \in Known(r.hosts)
      BY <2>7, <2>8
    <3>3. QED
      BY <2>5, <2>16, <3>1, <3>2, AskedEnter
  <2>18. QED
    BY <1>9, <2>17 DEF AddColocated, AskedInv
<1>10. CASE Added
  <2>1. run # Absent /\ RunOK(run) /\ AskedRun(run)
    BY <1>10 DEF Added, Idle, TypeInv, AskedInv
  <2>2. PICK h : h = run.stack[1].host
    OBVIOUS
  <2>3. /\ run.stack # <<>> /\ h \in Known(run.hosts)
        /\ UNCHANGED <<Hosts, queue, assignment, vms, forced, moved, aliased>>
        /\ run' = Absent \/ run' = Leave(run, h)
    BY <1>10, <2>1, <2>2, LoopSteps
  <2>4. run' = Absent \/ AskedRun(run')
    BY <2>1, <2>2, <2>3, AskedLeave
  <2>5. QED
    BY <2>3, <2>4 DEF AskedInv
<1>11. CASE EndSchedule
  <2>1. AskedRun(run) /\ run.stack = <<>>
    BY <1>11 DEF EndSchedule, Idle, AskedInv
  <2>2. CASE Fail
    BY <2>2 DEF Fail, AskedInv
  <2>3. CASE run' = Absent /\ assignment' = run.res
    BY <2>1, <2>3 DEF AskedInv, AskedRun
  <2>4. CASE run' = Absent /\ UNCHANGED <<assignment, moved, aliased>>
    BY <2>4 DEF AskedInv
  <2>5. QED
    BY <1>11, <2>2, <2>3, <2>4, Zenon DEF EndSchedule
<1>12. CASE UNCHANGED vars
  BY <1>12 DEF vars, AskedInv
<1>13. QED
  BY <1>1, <1>2, <1>3, <1>4, <1>5, <1>6, <1>7, <1>8, <1>9, <1>10, <1>11, <1>12
     DEF Next, Commands, Loop

(* An assignment that no one edited puts every VM where it is to be: on the  *)
(* host it names, or with the VM that it follows.                            *)
LEMMA AskedIsPlaced == TypeInv /\ AskedInv => PlacedAsAsked
<1> SUFFICES ASSUME TypeInv, AskedInv, assignment # Absent, ~moved, ~aliased,
                    NEW h \in HostNames, NEW v \in Assigned(h)
             PROVE  /\ v.schedule \in {Unset, h}
                    /\ v.schedule = Unset /\ v.colocate # Unset =>
                           \E w \in Assigned(h) : w.name = v.colocate
  BY DEF PlacedAsAsked
<1>1. assignment[h] \in Seq(VM)
  BY DEF TypeInv, Assignment
<1>2. Assigned(h) = {assignment[h][i] : i \in 1 .. Len(assignment[h])}
  BY <1>1 DEF Assigned, ToSet
<1>3. PICK i \in 1 .. Len(assignment[h]) : v = assignment[h][i]
  BY <1>2
<1>4. /\ v.schedule \in {Unset, h}
      /\ Floating(v) => \E j \in 1 .. Len(assignment[h]) : assignment[h][j].name = v.colocate
  BY <1>3 DEF AskedInv, ResAsked
<1>5. QED
  BY <1>2, <1>4 DEF Floating

----------------------------------------------------------------------------
(* Every VM of the queue is in one place. *)

(* x is in s, with b more behind it. *)
At(s, b, x) == \E i \in 1 .. Len(s) : b = Len(s) - i /\ x = s[i]

LEMMA AtFunction ==
    ASSUME NEW T, NEW s \in Seq(T), NEW b, NEW x, NEW y, At(s, b, x), At(s, b, y)
    PROVE  x = y /\ x \in T /\ b \in Nat
<1>1. PICK i \in 1 .. Len(s) : b = Len(s) - i /\ x = s[i]
  BY DEF At
<1>2. PICK j \in 1 .. Len(s) : b = Len(s) - j /\ y = s[j]
  BY DEF At
<1>3. Len(s) \in Nat
  OBVIOUS
<1>4. i = j
  BY <1>1, <1>2, <1>3
<1>5. QED
  BY <1>1, <1>2, <1>3, <1>4

LEMMA AtTail ==
    ASSUME NEW T, NEW s \in Seq(T), s # <<>>
    PROVE  /\ At(s, Len(s) - 1, Head(s))
           /\ \A b, x : At(Tail(s), b, x) <=> At(s, b, x) /\ b # Len(s) - 1
<1>1. Len(s) \in Nat /\ 1 \in 1 .. Len(s) /\ Head(s) = s[1]
  OBVIOUS
<1>2. PICK t : t = Tail(s)
  OBVIOUS
<1>3. Len(t) = Len(s) - 1 /\ \A i \in 1 .. Len(t) : i + 1 \in 1 .. Len(s) /\ t[i] = s[i + 1]
  BY <1>2
<1>4. ASSUME NEW b, NEW x, At(t, b, x) PROVE At(s, b, x) /\ b # Len(s) - 1
  <2>1. PICK i \in 1 .. Len(t) : b = Len(t) - i /\ x = t[i]
    BY <1>4 DEF At
  <2>2. PICK j \in 1 .. Len(s) : j = i + 1 /\ x = s[j]
    BY <1>3, <2>1
  <2>3. b = Len(s) - j /\ b # Len(s) - 1
    BY <1>1, <1>3, <2>1, <2>2
  <2>4. QED
    BY <2>2, <2>3 DEF At
<1>5. ASSUME NEW b, NEW x, At(s, b, x), b # Len(s) - 1 PROVE At(t, b, x)
  <2>1. PICK j \in 1 .. Len(s) : b = Len(s) - j /\ x = s[j]
    BY <1>5 DEF At
  <2>2. PICK i \in 1 .. Len(t) : j = i + 1
    <3>1. j # 1
      BY <1>5, <2>1
    <3>2. j - 1 \in 1 .. Len(t) /\ j = (j - 1) + 1
      BY <1>1, <1>3, <3>1
    <3>3. QED
      BY <3>2
  <2>3. b = Len(t) - i /\ x = t[i]
    BY <1>1, <1>3, <2>1, <2>2
  <2>4. QED
    BY <2>3 DEF At
<1>6. At(s, Len(s) - 1, Head(s))
  BY <1>1 DEF At
<1>7. QED
  BY <1>2, <1>4, <1>5, <1>6

LEMMA AtPush ==
    ASSUME NEW T, NEW s \in Seq(T), NEW f \in T
    PROVE  \A b, x : At(<<f>> \o s, b, x) <=> At(s, b, x) \/ (b = Len(s) /\ x = f)
<1>1. PICK t : t = <<f>> \o s
  OBVIOUS
<1>2. t \in Seq(T) /\ t # <<>> /\ Len(t) = Len(s) + 1 /\ Len(s) \in Nat /\ t[1] = f
  BY <1>1
<1>3. Head(t) = f /\ Len(t) - 1 = Len(s)
  BY <1>2
<1>4. Tail(t) = s
  BY <1>1
<1>5. /\ At(t, Len(s), f)
      /\ \A b, x : At(s, b, x) <=> At(t, b, x) /\ b # Len(s)
  BY ZenonT(40), <1>2, <1>3, <1>4, AtTail
<1>6. \A x : At(t, Len(s), x) => x = f
  BY <1>2, <1>5, AtFunction
<1>7. QED
  BY <1>1, <1>5, <1>6

LEMMA AtReplace ==
    ASSUME NEW T, NEW s \in Seq(T), s # <<>>, NEW f \in T
    PROVE  \A b, x : At([s EXCEPT ![1] = f], b, x) <=>
               (At(s, b, x) /\ b # Len(s) - 1) \/ (b = Len(s) - 1 /\ x = f)
<1>1. PICK t : t = [s EXCEPT ![1] = f]
  OBVIOUS
<1>2. 1 \in 1 .. Len(s)
  OBVIOUS
<1>3. /\ t \in Seq(T) /\ Len(t) = Len(s) /\ Head(t) = f /\ t # <<>>
      /\ \A i \in 1 .. Len(s) : t[i] = IF i = 1 THEN f ELSE s[i]
  BY <1>1, <1>2
<1>4. ASSUME NEW b, NEW x, b # Len(s) - 1 PROVE At(t, b, x) <=> At(s, b, x)
  <2>1. \A i \in 1 .. Len(s) : b = Len(s) - i => t[i] = s[i]
    BY <1>3, <1>4
  <2>2. QED
    BY <1>3, <2>1 DEF At
<1>5. At(t, Len(s) - 1, f)
  BY <1>3, AtTail
<1>6. \A x : At(t, Len(s) - 1, x) => x = f
  BY <1>3, <1>5, AtFunction
<1>7. QED
  BY <1>1, <1>4, <1>5, <1>6

OnStack(stack) == {stack[d].vm.name : d \in 1 .. Len(stack)}

LEMMA OnStackAt ==
    ASSUME NEW stack \in Seq(Frame)
    PROVE  \A x : x \in OnStack(stack) <=> \E b, f : At(stack, b, f) /\ x = f.vm.name
<1>1. ASSUME NEW x \in OnStack(stack) PROVE \E b, f : At(stack, b, f) /\ x = f.vm.name
  <2>1. PICK d \in 1 .. Len(stack) : x = stack[d].vm.name
    BY DEF OnStack
  <2>2. At(stack, Len(stack) - d, stack[d])
    BY DEF At
  <2>3. QED
    BY <2>1, <2>2
<1>2. ASSUME NEW x, NEW b, NEW f, At(stack, b, f), x = f.vm.name PROVE x \in OnStack(stack)
  BY <1>2 DEF At, OnStack
<1>3. QED
  BY <1>1, <1>2

(* The VM n is in a place of a run: in the queue that is left, with the VM it  *)
(* follows (unless that is on the stack, which then has what follows), on the  *)
(* stack, about to be added, or placed.                                        *)
Holds(r, k, a, b, n) ==
    \/ k = "left" /\ a = 0 /\ \E v : At(r.left, b, v) /\ n = v.name
    \/ k = "colocated" /\ a \in Names \ OnStack(r.stack)
         /\ \E v : At(r.colocated[a], b, v) /\ n = v.name
    \/ k = "stack" /\ a = 0 /\ \E f : At(r.stack, b, f) /\ n = f.vm.name
    \/ k = "todo" /\ \E f : At(r.stack, a, f) /\ \E v : At(f.todo, b, v) /\ n = v.name
    \/ k = "res" /\ a \in HostNames /\ b \in 1 .. Len(r.res[a]) /\ n = r.res[a][b].name

(* The VMs of N are in the run, each of them once. *)
Once(r, N) ==
    /\ \A k, a, b, l, c, d, n :
          Holds(r, k, a, b, n) /\ Holds(r, l, c, d, n) => k = l /\ a = c /\ b = d
    /\ \A n : n \in N <=> \E k, a, b : Holds(r, k, a, b, n)

LEMMA HoldsFunction ==
    ASSUME NEW r \in Run, NEW k, NEW a, NEW b, NEW n, NEW m,
           Holds(r, k, a, b, n), Holds(r, k, a, b, m)
    PROVE  n = m
<1>1. /\ r.left \in Seq(VM) /\ r.stack \in Seq(Frame) /\ r.colocated \in [Names -> Seq(VM)]
  BY DEF Run, Frame
<1>2. CASE k = "left"
  BY <1>1, <1>2, AtFunction DEF Holds
<1>3. CASE k = "colocated"
  <2>1. r.colocated[a] \in Seq(VM)
    BY <1>1, <1>3 DEF Holds
  <2>2. QED
    BY <1>3, <2>1, AtFunction DEF Holds
<1>4. CASE k = "stack"
  BY <1>1, <1>4, AtFunction DEF Holds
<1>5. CASE k = "todo"
  <2>1. PICK f : At(r.stack, a, f) /\ \E v : At(f.todo, b, v) /\ n = v.name
    BY <1>5 DEF Holds
  <2>2. PICK g : At(r.stack, a, g) /\ \E v : At(g.todo, b, v) /\ m = v.name
    BY <1>5 DEF Holds
  <2>3. f = g /\ f \in Frame
    BY <1>1, <2>1, <2>2, AtFunction
  <2>4. f.todo \in Seq(VM)
    BY <2>3 DEF Frame
  <2>5. QED
    BY <2>1, <2>2, <2>3, <2>4, AtFunction
<1>6. CASE k = "res"
  BY <1>6 DEF Holds
<1>7. QED
  BY <1>2, <1>3, <1>4, <1>5, <1>6 DEF Holds

(* A VM is taken from a place. *)
LEMMA OnceLess ==
    ASSUME NEW r \in Run, NEW N, Once(r, N), NEW r2,
           NEW k0, NEW a0, NEW b0, NEW n0, Holds(r, k0, a0, b0, n0),
           \A k, a, b, n : Holds(r2, k, a, b, n) <=>
               Holds(r, k, a, b, n) /\ ~(k = k0 /\ a = a0 /\ b = b0)
    PROVE  Once(r2, N \ {n0}) /\ n0 \in N
<1>1. n0 \in N
  BY DEF Once
<1>2. ASSUME NEW n \in N \ {n0} PROVE \E k, a, b : Holds(r2, k, a, b, n)
  <2>1. PICK k, a, b : Holds(r, k, a, b, n)
    BY DEF Once
  <2>2. ~(k = k0 /\ a = a0 /\ b = b0)
    BY <2>1, HoldsFunction
  <2>3. QED
    BY <2>1, <2>2
<1>3. ASSUME NEW n, NEW k, NEW a, NEW b, Holds(r2, k, a, b, n) PROVE n \in N \ {n0}
  <2>1. Holds(r, k, a, b, n) /\ ~(k = k0 /\ a = a0 /\ b = b0)
    BY <1>3
  <2>2. n \in N
    BY <2>1 DEF Once
  <2>3. n # n0
    BY <2>1 DEF Once
  <2>4. QED
    BY <2>2, <2>3
<1>4. \A k, a, b, l, c, d, n :
         Holds(r2, k, a, b, n) /\ Holds(r2, l, c, d, n) => k = l /\ a = c /\ b = d
  BY DEF Once
<1>5. QED
  BY <1>1, <1>2, <1>3, <1>4 DEF Once

(* A VM goes from one place to another. *)
Moves(r, r2, k0, a0, b0, k1, a1, b1, n0) ==
    \A k, a, b, n : Holds(r2, k, a, b, n) <=>
        \/ Holds(r, k, a, b, n) /\ ~(k = k0 /\ a = a0 /\ b = b0)
        \/ k = k1 /\ a = a1 /\ b = b1 /\ n = n0

LEMMA OnceMoved ==
    ASSUME NEW r \in Run, NEW N, Once(r, N), NEW r2,
           NEW k0, NEW a0, NEW b0, NEW n0, Holds(r, k0, a0, b0, n0), NEW k1, NEW a1, NEW b1,
           Moves(r, r2, k0, a0, b0, k1, a1, b1, n0)
    PROVE  Once(r2, N)
<1> USE DEF Moves
<1>1. \A k, a, b : Holds(r, k, a, b, n0) => k = k0 /\ a = a0 /\ b = b0
  BY DEF Once
<1>2. \A k, a, b, l, c, d, n :
         Holds(r2, k, a, b, n) /\ Holds(r2, l, c, d, n) => k = l /\ a = c /\ b = d
  BY <1>1 DEF Once
<1>3. ASSUME NEW n \in N PROVE \E k, a, b : Holds(r2, k, a, b, n)
  <2>1. PICK k, a, b : Holds(r, k, a, b, n)
    BY DEF Once
  <2>2. CASE n = n0
    BY <2>2
  <2>3. CASE n # n0
    <3>1. ~(k = k0 /\ a = a0 /\ b = b0)
      BY <2>1, <2>3, HoldsFunction
    <3>2. QED
      BY <2>1, <3>1
  <2>4. QED
    BY <2>2, <2>3
<1>4. ASSUME NEW k, NEW a, NEW b, NEW n, Holds(r2, k, a, b, n) PROVE n \in N
  BY <1>4 DEF Once
<1>5. QED
  BY <1>2, <1>3, <1>4 DEF Once

LEMMA PoppedOnce ==
    ASSUME NEW r, RunOK(r), r.left # <<>>, NEW N, Once(r, N)
    PROVE  Once(Popped(r), N \ {Head(r.left).name}) /\ Head(r.left).name \in N
<1>1. PICK r2 : r2 = Popped(r)
  OBVIOUS
<1>2. r2 = [dry |-> r.dry, left |-> Tail(r.left), res |-> r.res, colocated |-> r.colocated,
            hosts |-> r.hosts, stack |-> r.stack]
  BY <1>1, PoppedOK
<1>3. /\ r2.left = Tail(r.left) /\ r2.res = r.res /\ r2.colocated = r.colocated
      /\ r2.stack = r.stack
  BY <1>2
<1>4. r \in Run /\ r.left \in Seq(VM)
  BY DEF RunOK, Run
<1>5. /\ At(r.left, Len(r.left) - 1, Head(r.left))
      /\ \A b, x : At(r2.left, b, x) <=> At(r.left, b, x) /\ b # Len(r.left) - 1
  BY <1>3, <1>4, AtTail
<1>6. PICK b0 : b0 = Len(r.left) - 1
  OBVIOUS
<1>7. PICK n0 : n0 = Head(r.left).name
  OBVIOUS
<1>8. Holds(r, "left", 0, b0, n0)
  BY <1>5, <1>6, <1>7 DEF Holds
<1>9. ASSUME NEW k, NEW a, NEW b, NEW n
      PROVE  Holds(r2, k, a, b, n) <=>
                Holds(r, k, a, b, n) /\ ~(k = "left" /\ a = 0 /\ b = b0)
  BY <1>3, <1>5, <1>6 DEF Holds
<1>10. Once(r2, N \ {n0}) /\ n0 \in N
  BY <1>4, <1>8, <1>9, OnceLess
<1>11. QED
  BY <1>1, <1>7, <1>10

LEMMA FollowedOnce ==
    ASSUME NEW r, RunOK(r), r.stack # <<>>, r.stack[1].todo # <<>>, NEW N, Once(r, N)
    PROVE  /\ Once(Followed(r), N \ {Head(r.stack[1].todo).name})
           /\ Head(r.stack[1].todo).name \in N
<1>1. PICK r2 : r2 = Followed(r)
  OBVIOUS
<1>2. PICK f : f = r.stack[1]
  OBVIOUS
<1>3. PICK g : g = [host |-> f.host, vm |-> f.vm, todo |-> Tail(f.todo)]
  OBVIOUS
<1>4. r2 = [dry |-> r.dry, left |-> r.left, res |-> r.res, colocated |-> r.colocated,
            hosts |-> r.hosts, stack |-> [r.stack EXCEPT ![1] = g]]
  BY <1>1, <1>2, <1>3, FollowedOK
<1>5. /\ r2.left = r.left /\ r2.res = r.res /\ r2.colocated = r.colocated
      /\ r2.stack = [r.stack EXCEPT ![1] = g]
  BY <1>4
<1>6. r \in Run /\ r.stack \in Seq(Frame) /\ r2.stack \in Seq(Frame)
  BY <1>1, FollowedOK DEF RunOK, Run, Frame
<1>7. f \in Frame /\ f.todo \in Seq(VM) /\ f.todo # <<>> /\ Head(r.stack) = f
  <2>1. 1 \in 1 .. Len(r.stack)
    BY <1>6
  <2>2. f \in Frame /\ Head(r.stack) = f
    BY <1>2, <1>6, <2>1
  <2>3. QED
    BY <1>2, <2>2 DEF Frame
<1>8. g \in Frame /\ g.vm = f.vm /\ g.todo = Tail(f.todo)
  BY <1>3, <1>7 DEF Frame
<1>9. PICK a0 : a0 = Len(r.stack) - 1
  OBVIOUS
<1>10. PICK b0 : b0 = Len(f.todo) - 1
  OBVIOUS
<1>11. PICK n0 : n0 = Head(f.todo).name
  OBVIOUS
<1>12. At(r.stack, a0, f) /\ \A x : At(r.stack, a0, x) => x = f
  <2>1. At(r.stack, a0, f)
    BY <1>6, <1>7, <1>9, AtTail
  <2>2. QED
    BY <1>6, <2>1, AtFunction
<1>13. \A b, x : At(r2.stack, b, x) <=> (At(r.stack, b, x) /\ b # a0) \/ (b = a0 /\ x = g)
  BY <1>5, <1>6, <1>8, <1>9, AtReplace
<1>14. /\ At(f.todo, b0, Head(f.todo))
       /\ \A b, x : At(g.todo, b, x) <=> At(f.todo, b, x) /\ b # b0
  BY <1>7, <1>8, <1>10, AtTail
<1>15. OnStack(r2.stack) = OnStack(r.stack)
  <2>1. \A x : x \in OnStack(r2.stack) <=> \E b, y : At(r2.stack, b, y) /\ x = y.vm.name
    BY <1>6, OnStackAt
  <2>2. \A x : x \in OnStack(r.stack) <=> \E b, y : At(r.stack, b, y) /\ x = y.vm.name
    BY <1>6, OnStackAt
  <2>3. ASSUME NEW x \in OnStack(r2.stack) PROVE x \in OnStack(r.stack)
    BY <1>8, <1>12, <1>13, <2>1, <2>2
  <2>4. ASSUME NEW x \in OnStack(r.stack) PROVE x \in OnStack(r2.stack)
    <3>1. PICK b, y : At(r.stack, b, y) /\ x = y.vm.name
      BY <2>2
    <3>2. CASE b = a0
      BY <1>8, <1>12, <1>13, <2>1, <3>1, <3>2
    <3>3. CASE b # a0
      BY <1>13, <2>1, <3>1, <3>3
    <3>4. QED
      BY <3>2, <3>3
  <2>5. QED
    BY <2>3, <2>4
<1>16. Holds(r, "todo", a0, b0, n0)
  BY <1>11, <1>12, <1>14 DEF Holds
<1>17. ASSUME NEW k, NEW a, NEW b, NEW n
       PROVE  Holds(r2, k, a, b, n) <=>
                 Holds(r, k, a, b, n) /\ ~(k = "todo" /\ a = a0 /\ b = b0)
  <2>1. CASE k = "todo"
    <3>1. CASE a = a0
      <4>1. Holds(r2, k, a, b, n) <=> \E v : At(g.todo, b, v) /\ n = v.name
        BY <1>13, <2>1, <3>1 DEF Holds
      <4>2. Holds(r, k, a, b, n) <=> \E v : At(f.todo, b, v) /\ n = v.name
        BY <1>12, <2>1, <3>1 DEF Holds
      <4>3. QED
        BY <1>14, <2>1, <3>1, <4>1, <4>2
    <3>2. CASE a # a0
      BY <1>13, <2>1, <3>2 DEF Holds
    <3>3. QED
      BY <3>1, <3>2
  <2>2. CASE k = "stack"
    <3>1. (\E x : At(r2.stack, b, x) /\ n = x.vm.name) <=> (\E x : At(r.stack, b, x) /\ n = x.vm.name)
      BY <1>8, <1>12, <1>13
    <3>2. QED
      BY <2>2, <3>1 DEF Holds
  <2>3. CASE k # "todo" /\ k # "stack"
    BY <1>5, <1>15, <2>3 DEF Holds
  <2>4. QED
    BY <2>1, <2>2, <2>3
<1>18. Once(r2, N \ {n0}) /\ n0 \in N
  BY <1>6, <1>16, <1>17, OnceLess
<1>19. QED
  BY <1>1, <1>2, <1>11, <1>18

(* A VM enters with those that follow it, whose places are new. *)
LEMMA EnterOnce ==
    ASSUME NEW r \in Run, NEW vm \in VM, NEW h \in Known(r.hosts),
           NEW N, Once(r, N), vm.name \notin N
    PROVE  Once(Enter(h, vm, r), N \cup {vm.name})
<1>1. PICK e : e = Enter(h, vm, r)
  OBVIOUS
<1>2. PICK x : x = vm.name
  OBVIOUS
<1>3. PICK f : f = [host |-> h, vm |-> vm, todo |-> r.colocated[x]]
  OBVIOUS
<1>4. /\ r.stack \in Seq(Frame) /\ r.colocated \in [Names -> Seq(VM)] /\ r.hosts \in Seq(HostStats)
      /\ x \in Names
  BY <1>2 DEF Run, Frame, VM
<1>5. f \in Frame /\ f.vm = vm /\ f.todo = r.colocated[x]
  BY <1>3, <1>4, IndexOfKnown DEF Frame
<1>6. /\ e.left = r.left /\ e.res = r.res /\ e.colocated = r.colocated
      /\ e.stack = <<f>> \o r.stack
  BY <1>1, <1>2, <1>3, EnterParts
<1>7. PICK c : c = Len(r.stack)
  OBVIOUS
<1>8. \A b, g : At(e.stack, b, g) <=> At(r.stack, b, g) \/ (b = c /\ g = f)
  BY <1>4, <1>5, <1>6, <1>7, AtPush
<1>9. e.stack \in Seq(Frame)
  BY <1>4, <1>5, <1>6
<1>10. x \notin OnStack(r.stack)
  <2>1. SUFFICES ASSUME x \in OnStack(r.stack) PROVE FALSE
    OBVIOUS
  <2>2. PICK b, g : At(r.stack, b, g) /\ x = g.vm.name
    BY <1>4, <2>1, OnStackAt
  <2>3. Holds(r, "stack", 0, b, x)
    BY <2>2 DEF Holds
  <2>4. QED
    BY <1>2, <2>3 DEF Once
<1>11. OnStack(e.stack) = OnStack(r.stack) \cup {x}
  <2>1. \A y : y \in OnStack(e.stack) <=> \E b, g : At(e.stack, b, g) /\ y = g.vm.name
    BY <1>9, OnStackAt
  <2>2. \A y : y \in OnStack(r.stack) <=> \E b, g : At(r.stack, b, g) /\ y = g.vm.name
    BY <1>4, OnStackAt
  <2>3. x \in OnStack(e.stack)
    BY <1>2, <1>5, <1>8, <2>1
  <2>4. \A y : y \in OnStack(r.stack) => y \in OnStack(e.stack)
    BY <1>8, <2>1, <2>2
  <2>5. \A y : y \in OnStack(e.stack) => y \in OnStack(r.stack) \/ y = x
    BY <1>2, <1>5, <1>8, <2>1, <2>2
  <2>6. QED
    BY <2>3, <2>4, <2>5
<1>12. ~At(r.stack, c, f) /\ \A g : ~At(r.stack, c, g)
  BY <1>4, <1>7 DEF At
<1>13. \A b, n : Holds(r, "colocated", x, b, n) <=> \E v : At(f.todo, b, v) /\ n = v.name
  BY <1>4, <1>5, <1>10 DEF Holds
<1>14. ASSUME NEW k, NEW a, NEW b, NEW n
       PROVE  Holds(e, k, a, b, n) <=>
                 \/ Holds(r, k, a, b, n) /\ ~(k = "colocated" /\ a = x)
                 \/ k = "stack" /\ a = 0 /\ b = c /\ n = x
                 \/ k = "todo" /\ a = c /\ Holds(r, "colocated", x, b, n)
  <2>1. CASE k = "colocated"
    BY <1>6, <1>11, <2>1 DEF Holds
  <2>2. CASE k = "stack"
    <3>1. (\E g : At(e.stack, b, g) /\ n = g.vm.name)
             <=> (\E g : At(r.stack, b, g) /\ n = g.vm.name) \/ (b = c /\ n = x)
      BY <1>2, <1>5, <1>8
    <3>2. QED
      BY <2>2, <3>1 DEF Holds
  <2>3. CASE k = "todo"
    <3>1. (\E g : At(e.stack, a, g) /\ \E v : At(g.todo, b, v) /\ n = v.name)
             <=> \/ \E g : At(r.stack, a, g) /\ \E v : At(g.todo, b, v) /\ n = v.name
                 \/ a = c /\ \E v : At(f.todo, b, v) /\ n = v.name
      BY <1>8
    <3>2. Holds(e, k, a, b, n) <=>
             \E g : At(e.stack, a, g) /\ \E v : At(g.todo, b, v) /\ n = v.name
      BY <2>3 DEF Holds
    <3>3. Holds(r, k, a, b, n) <=>
             \E g : At(r.stack, a, g) /\ \E v : At(g.todo, b, v) /\ n = v.name
      BY <2>3 DEF Holds
    <3>4. QED
      BY <1>13, <2>3, <3>1, <3>2, <3>3
  <2>4. CASE k # "colocated" /\ k # "stack" /\ k # "todo"
    BY <1>6, <2>4 DEF Holds
  <2>5. QED
    BY <2>1, <2>2, <2>3, <2>4
<1>15. \A k, a, b, n : Holds(r, k, a, b, n) => n # x
  BY <1>2 DEF Once
<1>16. ASSUME NEW k, NEW a, NEW b, NEW l, NEW u, NEW d, NEW n,
              Holds(e, k, a, b, n), Holds(e, l, u, d, n)
       PROVE  k = l /\ a = u /\ b = d
  <2>1. CASE n = x
    BY <1>14, <1>15, <1>16, <2>1
  <2>2. CASE n # x
    <3>1. \/ Holds(r, k, a, b, n) /\ ~(k = "colocated" /\ a = x)
          \/ k = "todo" /\ a = c /\ Holds(r, "colocated", x, b, n)
      BY <1>14, <1>16, <2>2
    <3>2. \/ Holds(r, l, u, d, n) /\ ~(l = "colocated" /\ u = x)
          \/ l = "todo" /\ u = c /\ Holds(r, "colocated", x, d, n)
      BY <1>14, <1>16, <2>2
    <3>3. \A k1, a1, b1, k2, a2, b2 :
             Holds(r, k1, a1, b1, n) /\ Holds(r, k2, a2, b2, n) => k1 = k2 /\ a1 = a2 /\ b1 = b2
      BY DEF Once
    <3>4. QED
      BY <3>1, <3>2, <3>3
  <2>3. QED
    BY <2>1, <2>2
<1>17. ASSUME NEW n \in N PROVE \E k, a, b : Holds(e, k, a, b, n)
  <2>1. PICK k, a, b : Holds(r, k, a, b, n)
    BY DEF Once
  <2>2. CASE k = "colocated" /\ a = x
    <3>1. Holds(e, "todo", c, b, n)
      BY <1>14, <2>1, <2>2
    <3>2. QED
      BY <3>1
  <2>3. CASE ~(k = "colocated" /\ a = x)
    BY <1>14, <2>1, <2>3
  <2>4. QED
    BY <2>2, <2>3
<1>18. Holds(e, "stack", 0, c, x)
  BY <1>14
<1>19. ASSUME NEW k, NEW a, NEW b, NEW n, Holds(e, k, a, b, n) PROVE n \in N \cup {x}
  BY <1>14, <1>19 DEF Once
<1>20. Once(e, N \cup {x})
  BY <1>16, <1>17, <1>18, <1>19 DEF Once
<1>21. QED
  BY <1>1, <1>2, <1>20

(* The VM on top goes to its host. *)
LEMMA LeaveOnce ==
    ASSUME NEW r, RunOK(r), r.stack # <<>>, r.stack[1].todo = <<>>,
           NEW h \in Known(r.hosts), NEW N, Once(r, N)
    PROVE  Once(Leave(r, h), N)
<1>1. PICK r2 : r2 = Leave(r, h)
  OBVIOUS
<1>2. PICK f : f = r.stack[1]
  OBVIOUS
<1>3. PICK x : x = f.vm.name
  OBVIOUS
<1>4. /\ r \in Run /\ r.hosts \in Seq(HostStats) /\ r.stack \in Seq(Frame)
      /\ r.res \in [HostNames -> Seq(VM)] /\ r.colocated \in [Names -> Seq(VM)]
  BY DEF RunOK, Run, Frame, Assignment
<1>5. PICK res : res = [r.res EXCEPT ![h] = Append(r.res[h], f.vm)]
  OBVIOUS
<1>6. PICK stack : stack = Tail(r.stack)
  OBVIOUS
<1>7. PICK colocated : colocated = [r.colocated EXCEPT ![x] = <<>>]
  OBVIOUS
<1>8. r2.left = r.left /\ r2.res = res /\ r2.stack = stack /\ r2.colocated = colocated
  <2>1. PICK hosts : hosts = IF Len(r.stack) = 1 THEN Update(r.hosts, h) ELSE r.hosts
    OBVIOUS
  <2>2. r2 = [dry |-> r.dry, left |-> r.left, res |-> res, colocated |-> colocated,
              hosts |-> hosts, stack |-> stack]
    BY <1>1, <1>2, <1>3, <1>4, <1>5, <1>6, <1>7, <2>1, LeaveFields
  <2>3. QED
    BY <2>2
<1>9. h \in HostNames
  BY <1>4, IndexOfKnown
<1>10. f \in Frame /\ f.vm \in VM /\ x \in Names /\ Head(r.stack) = f
  <2>1. 1 \in 1 .. Len(r.stack)
    BY <1>4
  <2>2. f \in Frame /\ Head(r.stack) = f
    BY <1>2, <1>4, <2>1
  <2>3. QED
    BY <1>3, <2>2 DEF Frame, VM
<1>11. PICK b0 : b0 = Len(r.stack) - 1
  OBVIOUS
<1>12. /\ At(r.stack, b0, f) /\ \A g : At(r.stack, b0, g) => g = f
       /\ \A b, g : At(stack, b, g) <=> At(r.stack, b, g) /\ b # b0
  <2>1. At(r.stack, b0, f) /\ \A b, g : At(stack, b, g) <=> At(r.stack, b, g) /\ b # b0
    BY <1>4, <1>6, <1>10, <1>11, AtTail
  <2>2. QED
    BY <1>4, <2>1, AtFunction
<1>13. \A y : y \in OnStack(r.stack) <=> y \in OnStack(stack) \/ y = x
  <2>1. stack \in Seq(Frame)
    BY <1>4, <1>6
  <2>2. QED
    BY <1>3, <1>4, <1>12, <2>1, OnStackAt
<1>14. PICK b1 : b1 = Len(r.res[h]) + 1
  OBVIOUS
<1>15. /\ \A k \in HostNames : k # h => res[k] = r.res[k]
       /\ Len(res[h]) = b1 /\ Len(r.res[h]) \in Nat
       /\ \A i \in 1 .. Len(r.res[h]) : res[h][i] = r.res[h][i]
       /\ res[h][b1] = f.vm
  BY <1>4, <1>5, <1>9, <1>10, <1>14
<1>16. \A b : b \in 1 .. Len(res[h]) <=> b \in 1 .. Len(r.res[h]) \/ b = b1
  BY <1>14, <1>15
<1>17. Holds(r, "stack", 0, b0, x)
  BY <1>3, <1>12 DEF Holds
<1>18. \A b, v : ~At(f.todo, b, v)
  BY <1>2 DEF At
<1>19. ASSUME NEW k, NEW a, NEW b, NEW n
       PROVE  Holds(r2, k, a, b, n) <=>
                 \/ Holds(r, k, a, b, n) /\ ~(k = "stack" /\ a = 0 /\ b = b0)
                 \/ k = "res" /\ a = h /\ b = b1 /\ n = x
  <2>1. CASE k = "colocated"
    <3>1. CASE a = x
      <4>1. colocated[x] = <<>>
        BY <1>4, <1>7, <1>10
      <4>2. \A v : ~At(colocated[x], b, v)
        BY <4>1 DEF At
      <4>3. QED
        BY <1>8, <1>13, <2>1, <3>1, <4>2 DEF Holds
    <3>2. CASE a # x
      <4>1. a \in Names => colocated[a] = r.colocated[a]
        BY <1>4, <1>7, <3>2
      <4>2. QED
        BY <1>8, <1>13, <2>1, <3>2, <4>1 DEF Holds
    <3>3. QED
      BY <3>1, <3>2
  <2>2. CASE k = "stack"
    BY <1>8, <1>12, <2>2 DEF Holds
  <2>3. CASE k = "todo"
    <3>1. (\E g : At(stack, a, g) /\ \E v : At(g.todo, b, v) /\ n = v.name)
             <=> (\E g : At(r.stack, a, g) /\ \E v : At(g.todo, b, v) /\ n = v.name)
      BY <1>12, <1>18
    <3>2. QED
      BY <1>8, <2>3, <3>1 DEF Holds
  <2>4. CASE k = "res"
    <3>1. CASE a = h
      <4>1. b \in 1 .. Len(res[h]) /\ n = res[h][b].name <=>
               \/ b \in 1 .. Len(r.res[h]) /\ n = r.res[h][b].name
               \/ b = b1 /\ n = x
        BY <1>3, <1>15, <1>16
      <4>2. QED
        BY <1>8, <1>9, <2>4, <3>1, <4>1 DEF Holds
    <3>2. CASE a # h
      BY <1>8, <1>15, <2>4, <3>2 DEF Holds
    <3>3. QED
      BY <3>1, <3>2
  <2>5. CASE k = "left"
    BY <1>8, <2>5 DEF Holds
  <2>6. QED
    BY <2>1, <2>2, <2>3, <2>4, <2>5 DEF Holds
<1>20. Once(r2, N)
  <2>1. Moves(r, r2, "stack", 0, b0, "res", h, b1, x)
    BY <1>19 DEF Moves
  <2>2. r \in Run
    BY <1>4
  <2>3. QED
    BY <1>17, <2>1, <2>2, OnceMoved
<1>21. QED
  BY <1>1, <1>20

(* The VM with the place k among those of the queued ones at i is named n. *)
Named(q, i, k, n) == i \in 1 .. Len(q) /\ k \in 1 .. Len(q[i].names) /\ n = q[i].names[k]

(* The queue holds a name once. *)
QueuedOnce(q) == \A i, j, k, l, n : Named(q, i, k, n) /\ Named(q, j, l, n) => i = j /\ k = l

NamesIn(q) == UNION {ToSet(q[i].names) : i \in 1 .. Len(q)}

LEMMA NamesInPlaces ==
    ASSUME NEW q \in Seq(QueuedVMs)
    PROVE  \A n : n \in NamesIn(q) <=> \E i, k : Named(q, i, k, n)
<1>1. \A i \in 1 .. Len(q) : q[i].names \in Seq(Names)
  <2>1. \A i \in 1 .. Len(q) : q[i] \in QueuedVMs
    OBVIOUS
  <2>2. QED
    BY <2>1 DEF QueuedVMs
<1>2. ASSUME NEW i \in 1 .. Len(q), NEW n
      PROVE  n \in ToSet(q[i].names) <=> \E k : Named(q, i, k, n)
  <2>1. DOMAIN q[i].names = 1 .. Len(q[i].names)
    BY <1>1
  <2>2. QED
    BY <2>1 DEF ToSet, Named
<1>3. ASSUME NEW n \in NamesIn(q) PROVE \E i, k : Named(q, i, k, n)
  <2>1. PICK i \in 1 .. Len(q) : n \in ToSet(q[i].names)
    BY DEF NamesIn
  <2>2. QED
    BY <1>2, <2>1
<1>4. ASSUME NEW n, NEW i, NEW k, Named(q, i, k, n) PROVE n \in NamesIn(q)
  <2>1. i \in 1 .. Len(q)
    BY <1>4 DEF Named
  <2>2. n \in ToSet(q[i].names)
    BY <1>2, <1>4, <2>1
  <2>3. QED
    BY <2>1, <2>2 DEF NamesIn
<1>5. QED
  BY <1>3, <1>4

(* q has the names of qs, in another order. *)
Renames(p, q, qs) ==
    /\ \A i \in 1 .. Len(q) : p[i] \in 1 .. Len(qs) /\ q[i].names = qs[p[i]].names
    /\ \A i, j \in 1 .. Len(q) : p[i] = p[j] => i = j
    /\ \A j \in 1 .. Len(qs) : \E i \in 1 .. Len(q) : p[i] = j

LEMMA SameNames ==
    ASSUME NEW q \in Seq(QueuedVMs), NEW qs \in Seq(QueuedVMs), NEW p, Renames(p, q, qs)
    PROVE  /\ NamesIn(q) = NamesIn(qs)
           /\ QueuedOnce(qs) => QueuedOnce(q)
<1>1. ASSUME NEW i, NEW k, NEW n, Named(q, i, k, n) PROVE Named(qs, p[i], k, n) /\ i \in 1 .. Len(q)
  BY <1>1 DEF Named, Renames
<1>2. ASSUME NEW j, NEW k, NEW n, Named(qs, j, k, n) PROVE \E i : Named(q, i, k, n)
  <2>1. PICK i \in 1 .. Len(q) : p[i] = j
    BY <1>2 DEF Named, Renames
  <2>2. q[i].names = qs[j].names
    BY <2>1 DEF Renames
  <2>3. Named(q, i, k, n)
    BY <1>2, <2>2 DEF Named
  <2>4. QED
    BY <2>3
<1>3. NamesIn(q) = NamesIn(qs)
  BY <1>1, <1>2, NamesInPlaces
<1>4. ASSUME QueuedOnce(qs), NEW i, NEW j, NEW k, NEW l, NEW n, Named(q, i, k, n), Named(q, j, l, n)
      PROVE  i = j /\ k = l
  <2>1. p[i] = p[j] /\ k = l /\ i \in 1 .. Len(q) /\ j \in 1 .. Len(q)
    BY <1>1, <1>4 DEF QueuedOnce
  <2>2. QED
    BY <2>1 DEF Renames
<1>5. QED
  BY <1>3, <1>4 DEF QueuedOnce

LEMMA PermutesRenames ==
    ASSUME NEW qs \in Seq(QueuedVMs), NEW q, NEW p, Permutes(p, qs, q), Len(q) = Len(qs)
    PROVE  Renames(p, q, qs)
<1>1. PICK S : S = 1 .. Len(qs)
  OBVIOUS
<1>2. IsFiniteSet(S)
  <2>1. Len(qs) \in Nat
    OBVIOUS
  <2>2. QED
    BY <1>1, <2>1, FS_Interval
<1>3. p \in Injection(S, S)
  BY <1>1 DEF Permutes, Injection, IsInjective
<1>4. p \in Surjection(S, S)
  BY <1>2, <1>3, FS_Injection
<1>5. \A j \in 1 .. Len(qs) : \E i \in 1 .. Len(q) : p[i] = j
  BY <1>1, <1>4 DEF Surjection
<1>6. \A i \in 1 .. Len(q) : p[i] \in 1 .. Len(qs) /\ q[i].names = qs[p[i]].names
  BY DEF Permutes
<1>7. \A i, j \in 1 .. Len(q) : p[i] = p[j] => i = j
  BY DEF Permutes
<1>8. QED
  BY <1>5, <1>6, <1>7 DEF Renames

HasName(V, b, n) == \E v : At(V, b, v) /\ n = v.name

(* The VMs of V are those of the queued ones at I, each of them once. *)
OnceAt(V, qs, I) ==
    /\ \A b, c, n : HasName(V, b, n) /\ HasName(V, c, n) => b = c
    /\ \A b, n : HasName(V, b, n) => \E i \in I : \E k : Named(qs, i, k, n)
    /\ \A i \in I : \A k, n : Named(qs, i, k, n) => \E b : HasName(V, b, n)

LEMMA VMsAtOnce ==
    ASSUME NEW qs \in Seq(QueuedVMs), QueuedOnce(qs), NEW I
    PROVE  OnceAt(VMsAt(qs, I), qs, I)
<1>1. PICK V : V = VMsAt(qs, I)
  OBVIOUS
<1>2. V \in Seq(VM) /\ \E u, w : VMPlaces(qs, I, V, u, w)
  BY <1>1, VMsAtPlaces
<1>3. PICK u, w : VMPlaces(qs, I, V, u, w)
  BY <1>2
<1>4. ASSUME NEW q, NEW k \in 1 .. Len(q.names) PROVE VMsOf(q)[k].name = q.names[k]
  BY DEF VMsOf
<1>5. ASSUME NEW x \in 1 .. Len(V) PROVE u[x] \in I /\ Named(qs, u[x], w[x], V[x].name)
  <2>1. PICK i, k : i = u[x] /\ k = w[x]
    OBVIOUS
  <2>2. i \in I \cap 1 .. Len(qs) /\ k \in 1 .. Len(qs[i].names) /\ V[x] = VMsOf(qs[i])[k]
    BY <1>3, <2>1 DEF VMPlaces
  <2>3. V[x].name = qs[i].names[k]
    BY <1>4, <2>2
  <2>4. QED
    BY <2>1, <2>2, <2>3 DEF Named
<1>6. ASSUME NEW b, NEW n, HasName(V, b, n)
      PROVE  \E x \in 1 .. Len(V) : b = Len(V) - x /\ n = V[x].name
  BY <1>6 DEF At, HasName
<1>7. ASSUME NEW b, NEW c, NEW n, HasName(V, b, n), HasName(V, c, n) PROVE b = c
  <2>1. PICK x \in 1 .. Len(V) : b = Len(V) - x /\ n = V[x].name
    BY <1>6, <1>7
  <2>2. PICK y \in 1 .. Len(V) : c = Len(V) - y /\ n = V[y].name
    BY <1>6, <1>7
  <2>3. Named(qs, u[x], w[x], n) /\ Named(qs, u[y], w[y], n)
    BY <1>5, <2>1, <2>2
  <2>4. u[x] = u[y] /\ w[x] = w[y]
    BY <2>3 DEF QueuedOnce
  <2>5. x = y
    BY <1>3, <2>4 DEF VMPlaces
  <2>6. QED
    BY <2>1, <2>2, <2>5
<1>8. ASSUME NEW b, NEW n, HasName(V, b, n) PROVE \E i \in I : \E k : Named(qs, i, k, n)
  BY <1>5, <1>6, <1>8
<1>9. ASSUME NEW i \in I, NEW k, NEW n, Named(qs, i, k, n) PROVE \E b : HasName(V, b, n)
  <2>1. i \in I \cap 1 .. Len(qs) /\ k \in 1 .. Len(qs[i].names)
    BY <1>9 DEF Named
  <2>2. PICK x \in 1 .. Len(V) : u[x] = i /\ w[x] = k
    BY <1>3, <2>1 DEF VMPlaces
  <2>3. Named(qs, i, k, V[x].name)
    BY <1>5, <2>2
  <2>4. n = V[x].name
    BY <1>9, <2>3 DEF Named
  <2>5. At(V, Len(V) - x, V[x])
    BY DEF At
  <2>6. HasName(V, Len(V) - x, n)
    BY <2>4, <2>5 DEF HasName
  <2>7. QED
    BY <2>6
<1>10. OnceAt(V, qs, I)
  BY <1>7, <1>8, <1>9 DEF OnceAt
<1>11. QED
  BY <1>1, <1>10

(* What is to be placed is what is queued. *)
LEMMA BeginOnce ==
    ASSUME NEW qs \in Seq(QueuedVMs), NEW q \in Sorted(qs), QueuedOnce(qs), NEW r,
           r.left = VMsAt(q, {i \in 1 .. Len(q) : ~Floating(q[i])}),
           r.colocated = ColocatedIn(qs), r.res = NoVMs, r.stack = <<>>
    PROVE  QueuedOnce(q) /\ NamesIn(q) = NamesIn(qs) /\ Once(r, NamesIn(q))
<1>1. q \in Seq(QueuedVMs) /\ Len(q) = Len(qs)
  BY SortedPermutes
<1>2. PICK p : Permutes(p, qs, q)
  BY SortedPermutes
<1>3. Renames(p, q, qs)
  BY <1>1, <1>2, PermutesRenames
<1>4. QueuedOnce(q) /\ NamesIn(q) = NamesIn(qs)
  BY <1>1, <1>3, SameNames
<1>5. \A i \in 1 .. Len(q) : p[i] \in 1 .. Len(qs) /\ q[i] = qs[p[i]]
  BY <1>1, <1>2 DEF Permutes
<1>6. ASSUME NEW i, NEW k, NEW n, Named(q, i, k, n)
      PROVE  i \in 1 .. Len(q) /\ p[i] \in 1 .. Len(qs) /\ q[i] = qs[p[i]] /\ Named(qs, p[i], k, n)
  BY <1>5, <1>6 DEF Named
<1>7. PICK I : I = {i \in 1 .. Len(q) : ~Floating(q[i])}
  OBVIOUS
<1>8. OnceAt(r.left, q, I)
  BY <1>1, <1>4, <1>7, VMsAtOnce
<1>9. ASSUME NEW b, NEW n, HasName(r.left, b, n) PROVE \E j, k : Named(qs, j, k, n) /\ ~Floating(qs[j])
  <2>1. PICK i \in I : \E k : Named(q, i, k, n)
    BY <1>8, <1>9 DEF OnceAt
  <2>2. \E k : Named(qs, p[i], k, n) /\ ~Floating(qs[p[i]])
    BY <1>6, <1>7, <2>1
  <2>3. QED
    BY <2>2
<1>10. ASSUME NEW x \in Names
       PROVE  /\ \A b, c, n : HasName(r.colocated[x], b, n) /\ HasName(r.colocated[x], c, n) => b = c
              /\ \A b, n : HasName(r.colocated[x], b, n) =>
                    \E j, k : Named(qs, j, k, n) /\ Floating(qs[j]) /\ qs[j].colocate = x
              /\ \A j, k, n : Named(qs, j, k, n) /\ Floating(qs[j]) /\ qs[j].colocate = x =>
                    \E b : HasName(r.colocated[x], b, n)
  <2>1. PICK J : J = {j \in 1 .. Len(qs) : Floating(qs[j]) /\ qs[j].colocate = x}
    OBVIOUS
  <2>2. PICK V : V = r.colocated[x]
    OBVIOUS
  <2>3. V = VMsAt(qs, J)
    BY <2>1, <2>2 DEF ColocatedIn
  <2>4. OnceAt(V, qs, J)
    BY <2>3, VMsAtOnce
  <2>5. \A b, c, n : HasName(V, b, n) /\ HasName(V, c, n) => b = c
    BY <2>4 DEF OnceAt
  <2>6. ASSUME NEW b, NEW n, HasName(V, b, n)
        PROVE  \E j, k : Named(qs, j, k, n) /\ Floating(qs[j]) /\ qs[j].colocate = x
    <3>1. PICK j \in J : \E k : Named(qs, j, k, n)
      BY <2>4, <2>6 DEF OnceAt
    <3>2. QED
      BY <2>1, <3>1
  <2>7. ASSUME NEW j, NEW k, NEW n, Named(qs, j, k, n), Floating(qs[j]), qs[j].colocate = x
        PROVE  \E b : HasName(V, b, n)
    <3>1. j \in J
      BY <2>1, <2>7 DEF Named
    <3>2. QED
      BY <2>4, <2>7, <3>1 DEF OnceAt
  <2>8. QED
    BY <2>2, <2>5, <2>6, <2>7
<1>11. OnStack(r.stack) = {} /\ \A b, f : ~At(r.stack, b, f)
  BY DEF OnStack, At
<1>12. \A h \in HostNames : 1 .. Len(r.res[h]) = {}
  BY DEF NoVMs
<1>13. ASSUME NEW k, NEW a, NEW b, NEW n
       PROVE  Holds(r, k, a, b, n) <=>
                \/ k = "left" /\ a = 0 /\ HasName(r.left, b, n)
                \/ k = "colocated" /\ a \in Names /\ HasName(r.colocated[a], b, n)
  BY <1>11, <1>12 DEF Holds, HasName
<1>14. ASSUME NEW a, NEW b, NEW n, Holds(r, "left", a, b, n)
       PROVE  a = 0 /\ HasName(r.left, b, n) /\ \E j, k : Named(qs, j, k, n) /\ ~Floating(qs[j])
  <2>1. a = 0 /\ HasName(r.left, b, n)
    BY <1>13, <1>14
  <2>2. QED
    BY <1>9, <2>1
<1>15. ASSUME NEW a, NEW b, NEW n, Holds(r, "colocated", a, b, n)
       PROVE  /\ a \in Names /\ HasName(r.colocated[a], b, n)
              /\ \E j, k : Named(qs, j, k, n) /\ Floating(qs[j]) /\ qs[j].colocate = a
  <2>1. a \in Names /\ HasName(r.colocated[a], b, n)
    BY <1>15, <1>11 DEF Holds, HasName
  <2>2. QED
    BY <1>10, <2>1
<1>16. \A i, j, k, l, n : Named(qs, i, k, n) /\ Named(qs, j, l, n) => i = j
  BY DEF QueuedOnce
<1>17. ASSUME NEW k, NEW a, NEW b, NEW l, NEW c, NEW d, NEW n,
              Holds(r, k, a, b, n), Holds(r, l, c, d, n)
       PROVE  k = l /\ a = c /\ b = d
  <2>1. k \in {"left", "colocated"} /\ l \in {"left", "colocated"}
    BY <1>13, <1>17
  <2>2. CASE k = "left" /\ l = "left"
    <3>1. a = 0 /\ HasName(r.left, b, n) /\ c = 0 /\ HasName(r.left, d, n)
      BY <1>14, <1>17, <2>2
    <3>2. b = d
      BY <1>8, <3>1 DEF OnceAt
    <3>3. QED
      BY <2>2, <3>1, <3>2
  <2>3. CASE k = "colocated" /\ l = "colocated"
    <3>1. /\ a \in Names /\ HasName(r.colocated[a], b, n)
          /\ \E j, i : Named(qs, j, i, n) /\ Floating(qs[j]) /\ qs[j].colocate = a
      BY <1>15, <1>17, <2>3
    <3>2. /\ c \in Names /\ HasName(r.colocated[c], d, n)
          /\ \E j, i : Named(qs, j, i, n) /\ Floating(qs[j]) /\ qs[j].colocate = c
      BY <1>15, <1>17, <2>3
    <3>3. a = c
      BY <1>16, <3>1, <3>2
    <3>4. b = d
      BY <1>10, <3>1, <3>2, <3>3
    <3>5. QED
      BY <2>3, <3>3, <3>4
  <2>4. CASE k = "left" /\ l = "colocated"
    <3>1. \E j, i : Named(qs, j, i, n) /\ ~Floating(qs[j])
      BY <1>14, <1>17, <2>4
    <3>2. \E j, i : Named(qs, j, i, n) /\ Floating(qs[j])
      BY <1>15, <1>17, <2>4
    <3>3. QED
      BY <1>16, <3>1, <3>2
  <2>5. CASE k = "colocated" /\ l = "left"
    <3>1. \E j, i : Named(qs, j, i, n) /\ ~Floating(qs[j])
      BY <1>14, <1>17, <2>5
    <3>2. \E j, i : Named(qs, j, i, n) /\ Floating(qs[j])
      BY <1>15, <1>17, <2>5
    <3>3. QED
      BY <1>16, <3>1, <3>2
  <2>6. QED
    BY <2>1, <2>2, <2>3, <2>4, <2>5
<1>18. ASSUME NEW n \in NamesIn(q) PROVE \E k, a, b : Holds(r, k, a, b, n)
  <2>1. PICK i, k : Named(q, i, k, n)
    BY <1>1, NamesInPlaces
  <2>2. CASE ~Floating(q[i])
    <3>1. i \in I
      BY <1>6, <1>7, <2>1, <2>2
    <3>2. PICK b : HasName(r.left, b, n)
      BY <1>8, <2>1, <3>1 DEF OnceAt
    <3>3. Holds(r, "left", 0, b, n)
      BY <1>13, <3>2
    <3>4. QED
      BY <3>3
  <2>3. CASE Floating(q[i])
    <3>1. /\ i \in 1 .. Len(q) /\ p[i] \in 1 .. Len(qs) /\ q[i] = qs[p[i]]
          /\ Named(qs, p[i], k, n)
      BY <1>6, <2>1
    <3>2. q[i] \in QueuedVMs
      BY <1>1, <3>1
    <3>3. PICK x \in Names : x = q[i].colocate
      BY <2>3, <3>2 DEF Floating, QueuedVMs
    <3>4. Floating(qs[p[i]]) /\ qs[p[i]].colocate = x
      BY <2>3, <3>1, <3>3
    <3>5. PICK b : HasName(r.colocated[x], b, n)
      BY <1>10, <3>1, <3>4
    <3>6. Holds(r, "colocated", x, b, n)
      BY <1>13, <3>5
    <3>7. QED
      BY <3>6
  <2>4. QED
    BY <2>2, <2>3
<1>19. ASSUME NEW n, NEW k, NEW a, NEW b, Holds(r, k, a, b, n) PROVE n \in NamesIn(q)
  <2>1. k = "left" \/ k = "colocated"
    BY <1>13, <1>19
  <2>2. \E j, i : Named(qs, j, i, n)
    BY <1>14, <1>15, <1>19, <2>1
  <2>3. QED
    BY <1>4, <2>2, NamesInPlaces
<1>20. Once(r, NamesIn(q))
  BY <1>17, <1>18, <1>19 DEF Once
<1>21. QED
  BY <1>4, <1>20

(* The assignment has the VM n on h. *)
Puts(a, h, i, n) == h \in HostNames /\ i \in 1 .. Len(a[h]) /\ n = a[h][i].name

(* The VMs of N are assigned, each of them once. *)
AssignedOnce(a, N) ==
    /\ \A h, i, k, j, n : Puts(a, h, i, n) /\ Puts(a, k, j, n) => h = k /\ i = j
    /\ \A n : n \in N <=> \E h, i : Puts(a, h, i, n)

LEMMA EndOnce ==
    ASSUME NEW r, NEW N, Once(r, N), r.left = <<>>, r.stack = <<>>,
           \A x \in Names : r.colocated[x] = <<>>
    PROVE  AssignedOnce(r.res, N)
<1>1. \A b, x : ~At(<<>>, b, x)
  BY DEF At
<1>2. ASSUME NEW k, NEW a, NEW b, NEW n, Holds(r, k, a, b, n) PROVE k = "res" /\ Puts(r.res, a, b, n)
  BY <1>1, <1>2 DEF Holds, Puts
<1>3. ASSUME NEW a, NEW b, NEW n, Puts(r.res, a, b, n) PROVE Holds(r, "res", a, b, n)
  BY <1>3 DEF Holds, Puts
<1>4. \A h, i, k, j, n : Puts(r.res, h, i, n) /\ Puts(r.res, k, j, n) => h = k /\ i = j
  BY <1>3 DEF Once
<1>5. ASSUME NEW n \in N PROVE \E h, i : Puts(r.res, h, i, n)
  <2>1. PICK k, a, b : Holds(r, k, a, b, n)
    BY DEF Once
  <2>2. QED
    BY <1>2, <2>1
<1>6. ASSUME NEW n, NEW h, NEW i, Puts(r.res, h, i, n) PROVE n \in N
  <2>1. Holds(r, "res", h, i, n)
    BY <1>3, <1>6
  <2>2. QED
    BY <2>1 DEF Once
<1>7. QED
  BY <1>4, <1>5, <1>6 DEF AssignedOnce

(* One host gets everything. *)
LEMMA SingleOnce ==
    ASSUME NEW qs \in Seq(QueuedVMs), QueuedOnce(qs), NEW h \in HostNames, NEW a,
           a = [NoVMs EXCEPT ![h] = VMsAt(qs, 1 .. Len(qs))]
    PROVE  AssignedOnce(a, NamesIn(qs))
<1>1. PICK V : V = VMsAt(qs, 1 .. Len(qs))
  OBVIOUS
<1>2. V \in Seq(VM) /\ Len(V) \in Nat
  BY <1>1, VMsAtPlaces
<1>3. OnceAt(V, qs, 1 .. Len(qs))
  BY <1>1, VMsAtOnce
<1>4. \A k \in HostNames : a[k] = IF k = h THEN V ELSE <<>>
  BY <1>1 DEF NoVMs
<1>5. ASSUME NEW k, NEW i, NEW n
      PROVE  Puts(a, k, i, n) <=> k = h /\ i \in 1 .. Len(V) /\ n = V[i].name
  BY <1>4 DEF Puts
<1>6. ASSUME NEW i \in 1 .. Len(V) PROVE HasName(V, Len(V) - i, V[i].name)
  BY DEF HasName, At
<1>7. ASSUME NEW b, NEW n, HasName(V, b, n) PROVE \E i \in 1 .. Len(V) : n = V[i].name
  BY <1>7 DEF HasName, At
<1>8. ASSUME NEW k, NEW i, NEW l, NEW j, NEW n, Puts(a, k, i, n), Puts(a, l, j, n)
      PROVE  k = l /\ i = j
  <2>1. k = h /\ l = h /\ i \in 1 .. Len(V) /\ j \in 1 .. Len(V) /\ n = V[i].name /\ n = V[j].name
    BY <1>5, <1>8
  <2>2. HasName(V, Len(V) - i, n) /\ HasName(V, Len(V) - j, n)
    BY <1>6, <2>1
  <2>3. Len(V) - i = Len(V) - j
    BY <1>3, <2>2 DEF OnceAt
  <2>4. QED
    BY <1>2, <2>1, <2>3
<1>9. ASSUME NEW n \in NamesIn(qs) PROVE \E k, i : Puts(a, k, i, n)
  <2>1. PICK i, k : Named(qs, i, k, n)
    BY NamesInPlaces
  <2>2. i \in 1 .. Len(qs)
    BY <2>1 DEF Named
  <2>3. PICK b : HasName(V, b, n)
    BY <1>3, <2>1, <2>2 DEF OnceAt
  <2>4. PICK x \in 1 .. Len(V) : n = V[x].name
    BY <1>7, <2>3
  <2>5. Puts(a, h, x, n)
    BY <1>5, <2>4
  <2>6. QED
    BY <2>5
<1>10. ASSUME NEW n, NEW k, NEW i, Puts(a, k, i, n) PROVE n \in NamesIn(qs)
  <2>1. i \in 1 .. Len(V) /\ n = V[i].name
    BY <1>5, <1>10
  <2>2. HasName(V, Len(V) - i, n)
    BY <1>6, <2>1
  <2>3. PICK j \in 1 .. Len(qs) : \E l : Named(qs, j, l, n)
    BY <1>3, <2>2 DEF OnceAt
  <2>4. QED
    BY <2>3, NamesInPlaces
<1>11. QED
  BY <1>8, <1>9, <1>10 DEF AssignedOnce

(* Reschedule takes a VM from one host ... *)
LEMMA RemovedOnce ==
    ASSUME NEW a \in Assignment, NEW N, AssignedOnce(a, N),
           NEW h \in HostNames, NEW i \in 1 .. Len(a[h]), NEW a2,
           a2 = [a EXCEPT ![h] = RemoveAt(a[h], i)]
    PROVE  AssignedOnce(a2, N \ {a[h][i].name}) /\ a[h][i].name \in N /\ a2 \in Assignment
<1>1. a \in [HostNames -> Seq(VM)] /\ a[h] \in Seq(VM) /\ Len(a[h]) \in Nat
  BY DEF Assignment
<1>2. PICK t : t = RemoveAt(a[h], i)
  OBVIOUS
<1>3. PICK s : s = a[h]
  OBVIOUS
<1>4. /\ t \in Seq(VM) /\ Len(t) = Len(s) - 1
      /\ \A j \in 1 .. Len(s) - 1 : t[j] = IF j < i THEN s[j] ELSE s[j + 1]
  BY <1>1, <1>2, <1>3, RemoveAtType
<1>5. \A k \in HostNames : a2[k] = IF k = h THEN t ELSE a[k]
  BY <1>1, <1>2
<1>6. a2 \in Assignment
  BY <1>1, <1>2, <1>4 DEF Assignment
<1>7. PICK n0 : n0 = a[h][i].name
  OBVIOUS
<1>8. Puts(a, h, i, n0)
  BY <1>7 DEF Puts
<1>9. n0 \in N
  BY <1>8 DEF AssignedOnce
<1> DEFINE From(k, j) == IF k = h /\ ~(j < i) THEN j + 1 ELSE j
<1>10. ASSUME NEW k, NEW j, NEW n, Puts(a2, k, j, n)
       PROVE  Puts(a, k, From(k, j), n) /\ ~(k = h /\ From(k, j) = i) /\ (k = h => j \in Nat)
  <2>1. CASE k = h
    <3>1. j \in 1 .. Len(s) - 1 /\ n = t[j].name
      BY <1>4, <1>5, <1>10, <2>1 DEF Puts
    <3>2. From(k, j) \in 1 .. Len(s) /\ t[j] = s[From(k, j)] /\ From(k, j) # i
      BY <1>1, <1>3, <1>4, <2>1, <3>1
    <3>3. j \in Nat
      BY <3>1
    <3>4. Puts(a, k, From(k, j), n)
      BY <1>3, <2>1, <3>1, <3>2 DEF Puts
    <3>5. QED
      BY <3>2, <3>3, <3>4
  <2>2. CASE k # h
    BY <1>5, <1>10, <2>2 DEF Puts
  <2>3. QED
    BY <2>1, <2>2
<1>11. ASSUME NEW k, NEW j, NEW n, Puts(a, k, j, n), ~(k = h /\ j = i)
       PROVE  \E l : Puts(a2, k, l, n)
  <2>1. CASE k = h
    <3>1. j \in 1 .. Len(s) /\ n = s[j].name /\ j # i
      BY <1>3, <1>11, <2>1 DEF Puts
    <3>2. CASE j < i
      <4>1. j \in 1 .. Len(s) - 1 /\ t[j] = s[j]
        BY <1>1, <1>3, <1>4, <3>1, <3>2
      <4>2. Puts(a2, k, j, n)
        BY <1>4, <1>5, <2>1, <3>1, <4>1 DEF Puts
      <4>3. QED
        BY <4>2
    <3>3. CASE ~(j < i)
      <4>1. j - 1 \in 1 .. Len(s) - 1 /\ t[j - 1] = s[j]
        BY <1>1, <1>3, <1>4, <3>1, <3>3
      <4>2. Puts(a2, k, j - 1, n)
        BY <1>4, <1>5, <2>1, <3>1, <4>1 DEF Puts
      <4>3. QED
        BY <4>2
    <3>4. QED
      BY <3>2, <3>3
  <2>2. CASE k # h
    BY <1>5, <1>11, <2>2 DEF Puts
  <2>3. QED
    BY <2>1, <2>2
<1>12. ASSUME NEW k, NEW j, NEW l, NEW m, NEW n, Puts(a2, k, j, n), Puts(a2, l, m, n)
       PROVE  k = l /\ j = m
  <2>1. /\ Puts(a, k, From(k, j), n) /\ Puts(a, l, From(l, m), n)
        /\ k = h => j \in Nat
        /\ l = h => m \in Nat
    BY <1>10, <1>12
  <2>2. k = l /\ From(k, j) = From(l, m)
    BY <2>1 DEF AssignedOnce
  <2>3. QED
    BY <2>1, <2>2
<1>13. ASSUME NEW n \in N \ {n0} PROVE \E k, j : Puts(a2, k, j, n)
  <2>1. PICK k, j : Puts(a, k, j, n)
    BY DEF AssignedOnce
  <2>2. ~(k = h /\ j = i)
    BY <1>7, <2>1 DEF Puts
  <2>3. QED
    BY <1>11, <2>1, <2>2
<1>14. ASSUME NEW n, NEW k, NEW j, Puts(a2, k, j, n) PROVE n \in N \ {n0}
  <2>1. Puts(a, k, From(k, j), n) /\ ~(k = h /\ From(k, j) = i)
    BY <1>10, <1>14
  <2>2. n \in N
    BY <2>1 DEF AssignedOnce
  <2>3. n # n0
    BY <1>8, <2>1 DEF AssignedOnce
  <2>4. QED
    BY <2>2, <2>3
<1>15. AssignedOnce(a2, N \ {n0})
  BY <1>12, <1>13, <1>14 DEF AssignedOnce
<1>16. QED
  BY <1>6, <1>7, <1>9, <1>15

(* ... and gives it to another. *)
LEMMA AppendedOnce ==
    ASSUME NEW a \in Assignment, NEW N, AssignedOnce(a, N),
           NEW h \in HostNames, NEW vm \in VM, vm.name \notin N, NEW a2,
           a2 = [a EXCEPT ![h] = Append(a[h], vm)]
    PROVE  AssignedOnce(a2, N \cup {vm.name})
<1>1. a \in [HostNames -> Seq(VM)] /\ a[h] \in Seq(VM) /\ Len(a[h]) \in Nat
  BY DEF Assignment
<1>2. PICK t : t = Append(a[h], vm)
  OBVIOUS
<1>3. PICK c : c = Len(a[h]) + 1
  OBVIOUS
<1>4. \A j : j \in 1 .. Len(t) <=> j \in 1 .. Len(a[h]) \/ j = c
  BY <1>1, <1>2, <1>3
<1>5. t[c] = vm /\ \A j \in 1 .. Len(a[h]) : t[j] = a[h][j] /\ j # c
  BY <1>1, <1>2, <1>3
<1>6. \A k \in HostNames : a2[k] = IF k = h THEN t ELSE a[k]
  BY <1>1, <1>2
<1>7. ASSUME NEW k, NEW j, NEW n
      PROVE  Puts(a2, k, j, n) <=> Puts(a, k, j, n) \/ (k = h /\ j = c /\ n = vm.name)
  <2>1. CASE k = h
    BY <1>4, <1>5, <1>6, <2>1 DEF Puts
  <2>2. CASE k # h
    BY <1>6, <2>2 DEF Puts
  <2>3. QED
    BY <2>1, <2>2
<1>8. \A k, j, n : Puts(a, k, j, n) => n # vm.name
  BY DEF AssignedOnce
<1>9. \A k, i, l, j, n : Puts(a2, k, i, n) /\ Puts(a2, l, j, n) => k = l /\ i = j
  BY <1>7, <1>8 DEF AssignedOnce
<1>10. \A n : n \in N \cup {vm.name} <=> \E k, j : Puts(a2, k, j, n)
  BY <1>7 DEF AssignedOnce
<1>11. QED
  BY <1>9, <1>10 DEF AssignedOnce

(* A launch queues names that are not queued, and each of them once. *)
LEMMA AppendQueued ==
    ASSUME NEW q \in Seq(QueuedVMs), QueuedOnce(q), NEW b \in Batches,
           ToSet(b.names) \cap NamesIn(q) = {}
    PROVE  QueuedOnce(Append(q, b))
<1>1. b \in QueuedVMs /\ IsInjective(b.names)
  BY BatchAssumption
<1>2. DOMAIN b.names = 1 .. Len(b.names)
  BY <1>1 DEF QueuedVMs
<1>3. PICK t : t = Append(q, b)
  OBVIOUS
<1>4. PICK c : c = Len(q) + 1
  OBVIOUS
<1>5. Len(q) \in Nat
  OBVIOUS
<1>6. \A i : i \in 1 .. Len(t) <=> i \in 1 .. Len(q) \/ i = c
  BY <1>1, <1>3, <1>4, <1>5
<1>7. t[c] = b /\ \A i \in 1 .. Len(q) : t[i] = q[i] /\ i # c
  BY <1>1, <1>3, <1>4, <1>5
<1>8. ASSUME NEW i, NEW k, NEW n, Named(t, i, k, n)
      PROVE  Named(q, i, k, n) \/ (i = c /\ k \in DOMAIN b.names /\ n = b.names[k])
  BY <1>2, <1>6, <1>7, <1>8 DEF Named
<1>9. ASSUME NEW k \in DOMAIN b.names, NEW i, NEW l PROVE ~Named(q, i, l, b.names[k])
  <2>1. b.names[k] \notin NamesIn(q)
    BY DEF ToSet
  <2>2. QED
    BY <2>1, NamesInPlaces
<1>10. ASSUME NEW i, NEW j, NEW k, NEW l, NEW n, Named(t, i, k, n), Named(t, j, l, n)
       PROVE  i = j /\ k = l
  <2>1. CASE Named(q, i, k, n) /\ Named(q, j, l, n)
    BY <2>1 DEF QueuedOnce
  <2>2. CASE /\ i = c /\ k \in DOMAIN b.names /\ n = b.names[k]
             /\ j = c /\ l \in DOMAIN b.names /\ n = b.names[l]
    BY <1>1, <2>2 DEF IsInjective
  <2>3. QED
    BY ZenonT(40), <1>8, <1>9, <1>10, <2>1, <2>2
<1>11. QED
  BY <1>3, <1>10 DEF QueuedOnce

(* Nothing but the hosts of the queued VMs changes. *)
LEMMA SameQueue ==
    ASSUME NEW q \in Seq(QueuedVMs), NEW q2 \in Seq(QueuedVMs), Len(q2) = Len(q),
           \A i \in 1 .. Len(q) : SameButSchedule(q[i], q2[i])
    PROVE  NamesIn(q2) = NamesIn(q) /\ (QueuedOnce(q) => QueuedOnce(q2))
<1>1. PICK p : p = [i \in 1 .. Len(q) |-> i]
  OBVIOUS
<1>2. \A i \in 1 .. Len(q) : q[i] \in QueuedVMs /\ p[i] = i
  BY <1>1
<1>3. \A i \in 1 .. Len(q) : q2[i].names = q[i].names
  BY <1>2, SameButScheduleType
<1>4. Renames(p, q2, q)
  BY <1>2, <1>3 DEF Renames
<1>5. QED
  BY <1>4, SameNames

(* Every VM of the queue is once in a run, and once in an assignment that can *)
(* be launched.                                                               *)
OnceInv ==
    /\ QueuedOnce(queue)
    /\ run # Absent => Once(run, NamesIn(queue))
    /\ assignment # Absent /\ queue # <<>> => AssignedOnce(assignment, NamesIn(queue))

LEMMA OnceInit == Init => OnceInv
<1>1. QueuedOnce(<<>>)
  BY DEF QueuedOnce, Named
<1>2. QED
  BY <1>1 DEF Init, OnceInv

LEMMA OnceBegin ==
    ASSUME TypeInv, OnceInv, NEW dry \in BOOLEAN, BeginSchedule(dry)
    PROVE  OnceInv'
<1>1. PICK hosts \in Answers, S \in LastListed :
         BeginFails(hosts, S) \/ BeginSingle(dry, hosts, S) \/ BeginRun(dry, hosts, S)
  BY BeginCases DEF TypeInv
<1>2. run = Absent /\ (dry \/ assignment = Absent) /\ queue # <<>>
  BY DEF BeginSchedule, Idle
<1>3. /\ queue \in Seq(QueuedVMs) /\ QueuedOnce(queue)
      /\ assignment # Absent => AssignedOnce(assignment, NamesIn(queue))
  BY <1>2 DEF TypeInv, OnceInv
<1>4. PICK rs : rs = Resolved(S)
  OBVIOUS
<1>5. PICK qs : qs = LocalQueue(S)
  OBVIOUS
<1>6. /\ rs \in Seq(QueuedVMs) /\ Len(rs) = Len(queue)
      /\ \A i \in 1 .. Len(queue) : SameButSchedule(queue[i], rs[i])
  BY <1>4, ResolvedSame DEF TypeInv
<1>7. /\ qs \in Seq(QueuedVMs) /\ Len(qs) = Len(queue)
      /\ \A i \in 1 .. Len(queue) : SameButSchedule(queue[i], qs[i])
  BY <1>5, LocalQueueSame DEF TypeInv
<1>8. NamesIn(rs) = NamesIn(queue) /\ QueuedOnce(rs) /\ NamesIn(qs) = NamesIn(queue) /\ QueuedOnce(qs)
  BY <1>3, <1>6, <1>7, SameQueue
<1>9. PICK q : q = queue'
  OBVIOUS
<1>10. CASE BeginFails(hosts, S)
  <2>1. /\ \A i \in 1 .. Len(queue) : q[i] \in {rs[i], qs[i]}
        /\ q = [i \in 1 .. Len(queue) |-> q[i]]
        /\ UNCHANGED <<assignment, run>>
    BY <1>4, <1>5, <1>9, <1>10 DEF BeginFails
  <2>2. \A i \in 1 .. Len(queue) : SameButSchedule(queue[i], q[i]) /\ q[i] \in QueuedVMs
    BY <1>6, <1>7, <2>1
  <2>3. q \in [1 .. Len(queue) -> QueuedVMs] /\ Len(queue) \in Nat
    BY <1>3, <2>1, <2>2
  <2>4. q \in Seq(QueuedVMs) /\ Len(q) = Len(queue)
    BY <2>3
  <2>5. NamesIn(q) = NamesIn(queue) /\ QueuedOnce(q)
    BY <1>3, <2>2, <2>4, SameQueue
  <2>6. QED
    BY <1>2, <1>3, <1>9, <2>1, <2>5 DEF OnceInv
<1>11. CASE BeginSingle(dry, hosts, S)
  <2>1. CASE dry
    <3>1. assignment' = Everything(hosts, S) /\ q = rs /\ UNCHANGED run
      BY <1>4, <1>9, <1>11, <2>1 DEF BeginSingle
    <3>2. PICK h : h = hosts[1].name
      OBVIOUS
    <3>3. h \in HostNames
      <4>1. \A i \in 1 .. Len(hosts) : hosts[i].name \in HostNames
        BY AnswersType DEF TypeInv
      <4>2. 1 \in 1 .. Len(hosts)
        BY <1>11 DEF BeginSingle
      <4>3. QED
        BY <3>2, <4>1, <4>2
    <3>4. PICK a : a = Everything(hosts, S)
      OBVIOUS
    <3>5. a = [NoVMs EXCEPT ![h] = VMsAt(rs, 1 .. Len(rs))]
      BY <1>4, <1>6, <3>2, <3>4 DEF Everything
    <3>6. AssignedOnce(a, NamesIn(rs))
      BY <1>6, <1>8, <3>3, <3>5, SingleOnce
    <3>7. QED
      BY <1>2, <1>8, <1>9, <3>1, <3>4, <3>6 DEF OnceInv
  <2>2. CASE ~dry
    <3>1. /\ Launch(Everything(hosts, S), TRUE)
          /\ UNCHANGED <<assignment, run>>
      BY <1>11, <2>2 DEF BeginSingle
    <3>2. queue' = <<>>
      BY <3>1 DEF Launch
    <3>3. QueuedOnce(<<>>)
      BY DEF QueuedOnce, Named
    <3>4. QED
      BY <1>2, <3>1, <3>2, <3>3 DEF OnceInv
  <2>3. QED
    BY <2>1, <2>2
<1>12. CASE BeginRun(dry, hosts, S)
  <2>1. q \in Sorted(qs) /\ UNCHANGED assignment
    BY <1>5, <1>9, <1>12 DEF BeginRun
  <2>2. q \in Seq(QueuedVMs) /\ Len(q) = Len(queue)
    BY <1>7, <2>1, SortedPermutes
  <2>3. PICK r : r = run'
    OBVIOUS
  <2>4. /\ r.left = VMsAt(q, {i \in 1 .. Len(q) : ~Floating(q[i])})
        /\ r.colocated = ColocatedIn(qs) /\ r.res = NoVMs /\ r.stack = <<>>
    BY <1>5, <1>9, <1>12, <2>2, <2>3 DEF BeginRun
  <2>5. QueuedOnce(q) /\ NamesIn(q) = NamesIn(qs) /\ Once(r, NamesIn(q))
    BY <1>7, <1>8, <2>1, <2>4, BeginOnce
  <2>6. QED
    BY <1>3, <1>8, <1>9, <2>1, <2>3, <2>5 DEF OnceInv
<1>13. QED
  BY <1>1, <1>10, <1>11, <1>12

LEMMA OnceStep == TypeInv /\ OnceInv /\ [Next]_vars => OnceInv'
<1> SUFFICES ASSUME TypeInv, OnceInv, [Next]_vars PROVE OnceInv'
  OBVIOUS
<1>1. QueuedOnce(<<>>)
  BY DEF QueuedOnce, Named
<1>2. ASSUME NEW b \in Batches, Queue(b) PROVE OnceInv'
  <2>1. PICK q : q = queue'
    OBVIOUS
  <2>2. /\ assignment' = Absent /\ run = Absent /\ UNCHANGED run
        /\ q = IF ToSet(b.names) \cap Taken = {} THEN Append(queue, b) ELSE queue
    BY <1>2, <2>1 DEF Queue, Idle
  <2>3. QueuedOnce(q)
    <3>1. CASE ToSet(b.names) \cap Taken = {}
      <4>1. ToSet(b.names) \cap NamesIn(queue) = {}
        BY <3>1 DEF Taken, InQueue, NamesIn
      <4>2. q = Append(queue, b) /\ queue \in Seq(QueuedVMs) /\ QueuedOnce(queue)
        BY <2>2, <3>1 DEF TypeInv, OnceInv
      <4>3. QED
        BY <4>1, <4>2, AppendQueued
    <3>2. CASE ~(ToSet(b.names) \cap Taken = {})
      BY <2>2, <3>2 DEF OnceInv
    <3>3. QED
      BY <3>1, <3>2
  <2>4. QED
    BY <2>1, <2>2, <2>3 DEF OnceInv
<1>3. CASE FlushQueue
  BY <1>1, <1>3 DEF FlushQueue, Idle, OnceInv
<1>4. ASSUME NEW h \in HostNames, DelHost(h) \/ AddHost(h) PROVE OnceInv'
  BY <1>4 DEF DelHost, AddHost, OnceInv
<1>5. ASSUME NEW v \in vms, Gone(v) PROVE OnceInv'
  BY <1>5 DEF Gone, OnceInv
<1>6. CASE LaunchAssigned
  BY <1>1, <1>6 DEF LaunchAssigned, Launch, Idle, OnceInv
<1>7. ASSUME NEW h \in HostNames, NEW dst \in HostNames, NEW i \in 1 .. Cardinality(Names),
             Reschedule(h, i, dst)
      PROVE  OnceInv'
  <2>1. run = Absent /\ UNCHANGED <<queue, run>> /\ assignment # Absent
    BY <1>7 DEF Reschedule, Idle
  <2>2. PICK a : a = assignment
    OBVIOUS
  <2>3. PICK N : N = NamesIn(queue)
    OBVIOUS
  <2>4. a \in Assignment /\ i \in 1 .. Len(a[h])
    BY <1>7, <2>2 DEF Reschedule, TypeInv
  <2>5. PICK vm : vm = a[h][i]
    OBVIOUS
  <2>6. vm \in VM
    BY <2>4, <2>5 DEF Assignment
  <2>7. PICK removed : removed = [a EXCEPT ![h] = RemoveAt(a[h], i)]
    OBVIOUS
  <2>8. assignment' = [removed EXCEPT ![dst] = Append(removed[dst], vm)]
    BY <1>7, <2>2, <2>5, <2>7, Zenon DEF Reschedule
  <2>9. CASE queue = <<>>
    BY <2>1, <2>9 DEF OnceInv
  <2>10. CASE queue # <<>>
    <3>1. AssignedOnce(a, N)
      BY <2>1, <2>2, <2>3, <2>10 DEF OnceInv
    <3>2. AssignedOnce(removed, N \ {vm.name}) /\ vm.name \in N /\ removed \in Assignment
      BY <2>4, <2>5, <2>7, <3>1, RemovedOnce
    <3>3. PICK a2 : a2 = [removed EXCEPT ![dst] = Append(removed[dst], vm)]
      OBVIOUS
    <3>4. vm.name \notin N \ {vm.name}
      OBVIOUS
    <3>5. AssignedOnce(a2, (N \ {vm.name}) \cup {vm.name})
      BY <2>6, <3>2, <3>3, <3>4, AppendedOnce
    <3>6. (N \ {vm.name}) \cup {vm.name} = N
      BY <3>2
    <3>7. AssignedOnce(a2, N)
      BY <3>5, <3>6
    <3>8. QED
      BY <2>1, <2>3, <2>8, <3>3, <3>7 DEF OnceInv
  <2>11. QED
    BY <2>9, <2>10
<1>8. ASSUME NEW dry \in BOOLEAN, BeginSchedule(dry) PROVE OnceInv'
  BY <1>8, OnceBegin
<1>9. CASE Place
  <2>1. run # Absent /\ RunOK(run) /\ Once(run, NamesIn(queue))
    BY <1>9 DEF Place, Idle, TypeInv, OnceInv
  <2>2. PICK r : r = Popped(run)
    OBVIOUS
  <2>3. PICK h : h = Choice(run)
    OBVIOUS
  <2>4. PICK vm : vm = Head(run.left)
    OBVIOUS
  <2>5. PICK N : N = NamesIn(queue)
    OBVIOUS
  <2>6. run' = Enter(h, vm, r) /\ run.left # <<>> /\ run.stack = <<>>
    BY <1>9, <2>1, <2>2, <2>3, <2>4, LoopSteps
  <2>7. /\ RunOK(r) /\ vm \in VM
        /\ r = [dry |-> run.dry, left |-> Tail(run.left), res |-> run.res,
                colocated |-> run.colocated, hosts |-> run.hosts, stack |-> run.stack]
    BY <2>1, <2>2, <2>4, <2>6, PoppedOK
  <2>8. h \in Known(r.hosts)
    BY <2>1, <2>3, <2>6, <2>7, PlaceOK
  <2>9. Once(r, N \ {vm.name}) /\ vm.name \in N
    BY <2>1, <2>2, <2>4, <2>5, <2>6, PoppedOnce
  <2>10. Once(Enter(h, vm, r), (N \ {vm.name}) \cup {vm.name})
    <3>1. r \in Run /\ vm.name \notin N \ {vm.name}
      BY <2>7 DEF RunOK
    <3>2. QED
      BY <2>7, <2>8, <2>9, <3>1, EnterOnce
  <2>11. (N \ {vm.name}) \cup {vm.name} = N
    BY <2>9
  <2>12. Once(run', N)
    BY <2>6, <2>10, <2>11
  <2>13. QED
    BY <1>9, <2>5, <2>12 DEF Place, OnceInv
<1>10. CASE AddColocated
  <2>1. run # Absent /\ RunOK(run) /\ Once(run, NamesIn(queue))
    BY <1>10 DEF AddColocated, Idle, TypeInv, OnceInv
  <2>2. PICK r : r = Followed(run)
    OBVIOUS
  <2>3. PICK h : h = run.stack[1].host
    OBVIOUS
  <2>4. PICK vm : vm = Head(run.stack[1].todo)
    OBVIOUS
  <2>5. PICK N : N = NamesIn(queue)
    OBVIOUS
  <2>6. run' = Enter(h, vm, r) /\ run.stack # <<>> /\ run.stack[1].todo # <<>>
    BY <1>10, <2>1, <2>2, <2>3, <2>4, LoopSteps
  <2>7. PICK f : f = [host |-> run.stack[1].host, vm |-> run.stack[1].vm,
                      todo |-> Tail(run.stack[1].todo)]
    OBVIOUS
  <2>8. /\ RunOK(r) /\ vm \in VM /\ h \in Known(run.hosts)
        /\ r = [dry |-> run.dry, left |-> run.left, res |-> run.res,
                colocated |-> run.colocated, hosts |-> run.hosts,
                stack |-> [run.stack EXCEPT ![1] = f]]
    BY <2>1, <2>2, <2>3, <2>4, <2>6, <2>7, FollowedOK
  <2>9. Once(r, N \ {vm.name}) /\ vm.name \in N
    BY <2>1, <2>2, <2>4, <2>5, <2>6, FollowedOnce
  <2>10. Once(Enter(h, vm, r), (N \ {vm.name}) \cup {vm.name})
    <3>1. r \in Run /\ vm.name \notin N \ {vm.name} /\ h \in Known(r.hosts)
      BY <2>8 DEF RunOK
    <3>2. QED
      BY <2>8, <2>9, <3>1, EnterOnce
  <2>11. (N \ {vm.name}) \cup {vm.name} = N
    BY <2>9
  <2>12. Once(run', N)
    BY <2>6, <2>10, <2>11
  <2>13. QED
    BY <1>10, <2>5, <2>12 DEF AddColocated, OnceInv
<1>11. CASE Added
  <2>1. run # Absent /\ RunOK(run) /\ Once(run, NamesIn(queue))
    BY <1>11 DEF Added, Idle, TypeInv, OnceInv
  <2>2. PICK h : h = run.stack[1].host
    OBVIOUS
  <2>3. /\ run.stack # <<>> /\ run.stack[1].todo = <<>> /\ h \in Known(run.hosts)
        /\ UNCHANGED <<Hosts, queue, assignment, vms, forced, moved, aliased>>
        /\ run' = Absent \/ run' = Leave(run, h)
    BY <1>11, <2>1, <2>2, LoopSteps
  <2>4. PICK N : N = NamesIn(queue)
    OBVIOUS
  <2>5. run' = Absent \/ Once(run', N)
    BY <2>1, <2>3, <2>4, LeaveOnce
  <2>6. QED
    BY <2>3, <2>4, <2>5 DEF OnceInv
<1>12. CASE EndSchedule
  <2>1. /\ run # Absent /\ Once(run, NamesIn(queue))
        /\ run.stack = <<>> /\ run.left = <<>>
    BY <1>12 DEF EndSchedule, Idle, OnceInv
  <2>2. CASE Fail
    BY <2>2 DEF Fail, OnceInv
  <2>3. CASE /\ \A x \in Names : run.colocated[x] = <<>>
             /\ run' = Absent /\ assignment' = run.res /\ UNCHANGED queue
    <3>1. PICK N : N = NamesIn(queue)
      OBVIOUS
    <3>2. PICK r : r = run
      OBVIOUS
    <3>3. AssignedOnce(r.res, N)
      BY <2>1, <2>3, <3>1, <3>2, EndOnce
    <3>4. QED
      BY <2>3, <3>1, <3>2, <3>3 DEF OnceInv
  <2>4. CASE run' = Absent /\ queue' = <<>>
    BY <1>1, <2>4 DEF OnceInv
  <2>5. QED
    BY <1>12, <2>2, <2>3, <2>4, Zenon DEF EndSchedule, Launch
<1>13. CASE UNCHANGED vars
  BY <1>13 DEF vars, OnceInv
<1>14. QED
  BY <1>2, <1>3, <1>4, <1>5, <1>6, <1>7, <1>8, <1>9, <1>10, <1>11, <1>12, <1>13
     DEF Next, Commands, Loop

LEMMA OnceIsPlaced == TypeInv /\ OnceInv => PlacedOnce
<1> SUFFICES ASSUME TypeInv, OnceInv, assignment # Absent, queue # <<>>
             PROVE  /\ {v.name : v \in UNION {Assigned(h) : h \in HostNames}} = InQueue
                    /\ \A h, k \in HostNames :
                          \A i \in 1 .. Len(assignment[h]), j \in 1 .. Len(assignment[k]) :
                              assignment[h][i].name = assignment[k][j].name => h = k /\ i = j
  BY DEF PlacedOnce
<1>1. PICK a : a = assignment
  OBVIOUS
<1>2. AssignedOnce(a, InQueue) /\ a \in [HostNames -> Seq(VM)]
  BY <1>1 DEF OnceInv, TypeInv, Assignment, InQueue, NamesIn
<1>3. ASSUME NEW h \in HostNames PROVE Assigned(h) = {a[h][i] : i \in 1 .. Len(a[h])}
  <2>1. a[h] \in Seq(VM)
    BY <1>2
  <2>2. QED
    BY <1>1, <2>1 DEF Assigned, ToSet
<1>4. ASSUME NEW h \in HostNames, NEW v \in Assigned(h) PROVE v.name \in InQueue
  <2>1. PICK i \in 1 .. Len(a[h]) : v = a[h][i]
    BY <1>3
  <2>2. Puts(a, h, i, v.name)
    BY <2>1 DEF Puts
  <2>3. QED
    BY <1>2, <2>2 DEF AssignedOnce
<1>5. ASSUME NEW n \in InQueue PROVE \E h \in HostNames : \E v \in Assigned(h) : n = v.name
  <2>1. PICK h, i : Puts(a, h, i, n)
    BY <1>2 DEF AssignedOnce
  <2>2. h \in HostNames /\ a[h][i] \in Assigned(h) /\ n = a[h][i].name
    BY <1>3, <2>1 DEF Puts
  <2>3. QED
    BY <2>2
<1>6. {v.name : v \in UNION {Assigned(h) : h \in HostNames}} = InQueue
  BY <1>4, <1>5
<1>7. ASSUME NEW h \in HostNames, NEW k \in HostNames,
             NEW i \in 1 .. Len(a[h]), NEW j \in 1 .. Len(a[k]), a[h][i].name = a[k][j].name
      PROVE  h = k /\ i = j
  <2>1. PICK n : n = a[h][i].name
    OBVIOUS
  <2>2. Puts(a, h, i, n) /\ Puts(a, k, j, n)
    BY <1>7, <2>1 DEF Puts
  <2>3. QED
    BY <1>2, <2>2 DEF AssignedOnce
<1>8. QED
  BY <1>1, <1>6, <1>7

(* An assignment that can still be launched holds every VM of the queue once *)
(* and nothing else, whatever was queued, flushed or moved since the dry run *)
(* that left it; unless it was edited, it has every VM on the host it names  *)
(* or with the VM it follows (Scheduler.Schedule, add, Reschedule, Queue).   *)
THEOREM AssignmentIsSound == Spec => []AssignmentSound
<1>1. Spec => [](TypeInv /\ AskedInv)
  BY TypeInit, TypeStep, AskedInit, AskedStep, PTL DEF Spec
<1>2. Spec => [](TypeInv /\ OnceInv)
  BY TypeInit, TypeStep, OnceInit, OnceStep, PTL DEF Spec
<1>3. TypeInv /\ AskedInv /\ OnceInv => PlacedOnce /\ PlacedAsAsked
  BY AskedIsPlaced, OnceIsPlaced
<1>4. QED
  BY <1>1, <1>2, <1>3, TypeCorrect, PTL DEF AssignmentSound
=============================================================================
