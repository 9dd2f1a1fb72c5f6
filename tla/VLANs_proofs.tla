---------------------------- MODULE VLANs_proofs ----------------------------
(***************************************************************************)
(* Invariants of the VLAN allocator, proved for every set of namespaces,   *)
(* names and ids.  TypeOK, MapsInverse and RangesDisjoint /\ RangesSane    *)
(* are each inductive relative to TypeOK.                                  *)
(***************************************************************************)
EXTENDS VLANs, TLAPS

LEMMA BlacklistedIsAlias == Blacklisted \in Alias
  BY DEF Blacklisted, Alias, Keys

LEMMA InitTypeOK == Init => TypeOK
  BY BoundsAssumption, GlobalAssumption, NoneAssumption
  DEF Init, NewVLANs, TypeOK, DefaultRange, Keys, Range

LEMMA NextTypeOK == TypeOK /\ [Next]_vars => TypeOK'
<1> SUFFICES ASSUME TypeOK, [Next]_vars PROVE TypeOK'
  OBVIOUS
<1> USE DEF TypeOK
<1>1. ASSUME NEW a \in Alias, Allocate(a) PROVE TypeOK'
  <2> DEFINE k == RangeKey(a)
  <2>1. k \in Keys /\ ranges[k] \in Range
    BY DEF RangeKey, Keys, Alias
  <2>2. PICK v \in Candidates(k) :
           /\ byVLAN' = [byVLAN EXCEPT ![v] = a]
           /\ byAlias' = [byAlias EXCEPT ![a] = v]
           /\ ranges' = [ranges EXCEPT ![k] = WithNext(ranges[k], v)]
    BY <1>1 DEF Allocate
  <2>3. v \in Ids /\ v \in Int
    BY <2>2, IdsAssumption DEF Candidates
  <2>4. WithNext(ranges[k], v) \in Range
    BY <2>1, <2>3 DEF Range, WithNext
  <2> QED BY <2>1, <2>2, <2>3, <2>4, NoneAssumption DEF Keys
<1>2. ASSUME NEW a \in Alias, AllocateOutOfVLANs(a) PROVE TypeOK'
  <2> DEFINE k == RangeKey(a)
             r == IF ranges[k].next < ranges[k].max
                    THEN WithNext(ranges[k], ranges[k].max) ELSE ranges[k]
  <2>1. k \in Keys /\ ranges[k] \in Range
    BY DEF RangeKey, Keys, Alias
  <2>2. ranges' = [ranges EXCEPT ![k] = r]
    BY <1>2 DEF AllocateOutOfVLANs
  <2>3. r \in Range
    BY <2>1 DEF Range, WithNext
  <2> QED BY <1>2, <2>1, <2>2, <2>3, NoneAssumption DEF Keys, AllocateOutOfVLANs
<1>3. ASSUME NEW a \in Alias, NEW v \in Ids, AddAlias(a, v) PROVE TypeOK'
  BY <1>3 DEF AddAlias
<1>4. ASSUME NEW v \in Ids, Blacklist(v) PROVE TypeOK'
  BY <1>4, BlacklistedIsAlias DEF Blacklist
<1>5. ASSUME NEW ns \in Keys, NEW selected,  DeleteAliases(ns, selected)
      PROVE  /\ byVLAN' \in [Ids -> Alias \cup {None}]
             /\ byAlias' \in [Alias -> Ids \cup {None}]
  BY <1>5 DEF DeleteAliases
<1>6. ASSUME NEW ns \in Keys, Delete(ns) PROVE TypeOK'
  <2> DEFINE kept == IF ns = Global THEN [ranges EXCEPT ![Global] = DefaultRange]
                                    ELSE [ranges EXCEPT ![ns] = None]
  <2>1. DefaultRange \in Range
    BY BoundsAssumption DEF DefaultRange, Range
  <2>2. kept \in [Keys -> Range \cup {None}] /\ kept[Global] \in Range
    BY <2>1, NoneAssumption DEF Keys
  <2> HIDE DEF kept
  <2>3. \A r \in Range : WithNext(r, r.min) \in Range
    BY DEF Range, WithNext
  <2>4. ranges' = [k \in Keys |-> IF kept[k] = None THEN None
                                  ELSE WithNext(kept[k], kept[k].min)]
    BY <1>6 DEF Delete, kept
  <2>5. ranges' \in [Keys -> Range \cup {None}] /\ ranges'[Global] # None
    BY <2>2, <2>3, <2>4, NoneAssumption DEF Keys
  <2> QED BY <1>5, <1>6, <2>5 DEF Delete
<1>7. ASSUME NEW ns \in Keys, NEW selected \in Prefixes, DeletePrefix(ns, selected)
      PROVE TypeOK'
  BY <1>5, <1>7 DEF DeletePrefix
<1>8. ASSUME NEW ns \in Keys, NEW min \in Ids, NEW max \in Ids, SetRange(ns, min, max)
      PROVE TypeOK'
  <2>1. [min |-> min, max |-> max, next |-> min] \in Range
    BY IdsAssumption DEF Range
  <2> QED BY <1>8, <2>1, NoneAssumption DEF SetRange, Keys
<1>9. ASSUME ClearAll PROVE TypeOK'
  BY <1>9, BoundsAssumption, GlobalAssumption, NoneAssumption
  DEF ClearAll, NewVLANs, DefaultRange, Keys, Range
<1>10. CASE UNCHANGED vars
  BY <1>10 DEF vars
<1> QED
  BY <1>1, <1>2, <1>3, <1>4, <1>6, <1>7, <1>8, <1>9, <1>10 DEF Next, ParseVLAN

(* The maps of the allocator keep their types and the default range is     *)
(* never lost, whatever Allocate, AddAlias, Blacklist, Delete and SetRange *)
(* do to them.                                                             *)
THEOREM TypeCorrect == Spec => []TypeOK
  BY InitTypeOK, NextTypeOK, PTL DEF Spec

-----------------------------------------------------------------------------
LEMMA NoneNotAlias == \A a \in Alias : a # None
  BY NoneAssumption

LEMMA InitMapsInverse == Init => MapsInverse
  BY NoneAssumption DEF Init, NewVLANs, MapsInverse, AliasIndexed, VLANIndexed

LEMMA NextMapsInverse == TypeOK /\ MapsInverse /\ [Next]_vars => MapsInverse'
<1> SUFFICES ASSUME TypeOK, MapsInverse, [Next]_vars PROVE MapsInverse'
  OBVIOUS
<1> USE IdsAssumption, NoneNotAlias DEF TypeOK, MapsInverse, AliasIndexed, VLANIndexed
(* Allocate and AddAlias enter a pair of a free id and an unassigned alias. *)
<1>1. ASSUME NEW a \in Alias, NEW v \in Ids, byAlias[a] = None, byVLAN[v] = None,
             byVLAN' = [byVLAN EXCEPT ![v] = a], byAlias' = [byAlias EXCEPT ![a] = v]
      PROVE MapsInverse'
  <2>1. AliasIndexed'
    BY <1>1
  <2>2. VLANIndexed'
    BY <1>1
  <2> QED BY <2>1, <2>2
<1>2. ASSUME NEW a \in Alias, Allocate(a) PROVE MapsInverse'
  BY <1>1, <1>2 DEF Allocate, Candidates
<1>3. ASSUME NEW a \in Alias, NEW v \in Ids, AddAlias(a, v) PROVE MapsInverse'
  BY <1>1, <1>3 DEF AddAlias
<1>4. ASSUME NEW v \in Ids, Blacklist(v) PROVE MapsInverse'
  <2>1. AliasIndexed'
    BY <1>4 DEF Blacklist
  <2>2. VLANIndexed'
    BY <1>4, BlacklistedIsAlias DEF Blacklist
  <2> QED BY <2>1, <2>2
(* An alias leaves byAlias together with the only id that points to it. *)
<1>5. ASSUME NEW ns \in Keys, NEW selected, DeleteAliases(ns, selected)
      PROVE MapsInverse'
  <2> DEFINE gone == {a \in Alias : /\ a.namespace = ns
                                    /\ a.value \in selected
                                    /\ byAlias[a] # None}
  <2>1. /\ byVLAN' = [v \in Ids |->
                  IF \E a \in gone : byAlias[a] = v THEN None ELSE byVLAN[v]]
        /\ byAlias' = [a \in Alias |-> IF a \in gone THEN None ELSE byAlias[a]]
    BY <1>5 DEF DeleteAliases
  <2>2. gone \subseteq Alias /\ \A a \in gone : byAlias[a] # None
    OBVIOUS
  <2> HIDE DEF gone
  <2>3. AliasIndexed'
    BY <2>1, <2>2
  <2>4. VLANIndexed'
    BY <2>1, <2>2
  <2> QED BY <2>3, <2>4
<1>6. ASSUME ClearAll PROVE MapsInverse'
  BY <1>6 DEF ClearAll, NewVLANs
<1>7. ASSUME UNCHANGED <<byVLAN, byAlias>> PROVE MapsInverse'
  BY <1>7
<1> QED
  BY <1>2, <1>3, <1>4, <1>5, <1>6, <1>7
  DEF Next, vars, AllocateOutOfVLANs, ParseVLAN, Delete, DeletePrefix, SetRange

(* No two aliases ever share a VLAN, and a VLAN out of the pool is either  *)
(* blacklisted or is found again through its alias, so that Delete frees   *)
(* it (the maps byVLAN and byAlias of VLANs).                              *)
THEOREM MapsAreInverse == Spec => []MapsInverse
<1>1. Init => TypeOK /\ MapsInverse
  BY InitTypeOK, InitMapsInverse
<1>2. TypeOK /\ MapsInverse /\ [Next]_vars => TypeOK' /\ MapsInverse'
  BY NextTypeOK, NextMapsInverse
<1> QED BY <1>1, <1>2, PTL DEF Spec

-----------------------------------------------------------------------------
LEMMA InitRanges == Init => RangesSane /\ RangesDisjoint
<1> SUFFICES ASSUME Init PROVE RangesSane /\ RangesDisjoint
  OBVIOUS
<1>1. ranges = [k \in Keys |-> IF k = Global THEN DefaultRange ELSE None]
  BY DEF Init, NewVLANs
<1>2. RangesSane
  BY <1>1, BoundsAssumption DEF RangesSane, DefaultRange
<1>3. RangesDisjoint
  BY <1>1, GlobalAssumption DEF RangesDisjoint, Keys
<1> QED BY <1>2, <1>3

(* Moving Next leaves the bounds of a range alone. *)
LEMMA SameBounds ==
  ASSUME TypeOK, RangesSane, RangesDisjoint, NEW k \in Keys, NEW n \in Int,
         ranges[k] # None, ranges[k].min <= n,
         ranges' = [ranges EXCEPT ![k] = WithNext(ranges[k], n)]
  PROVE  RangesSane' /\ RangesDisjoint'
<1> USE NoneAssumption DEF TypeOK, WithNext
<1>1. WithNext(ranges[k], n) \in Range
  BY DEF Range
<1>2. \A j \in Keys : /\ ranges'[j] = None <=> ranges[j] = None
                       /\ ranges[j] # None => /\ ranges'[j].min = ranges[j].min
                                              /\ ranges'[j].max = ranges[j].max
  BY <1>1
<1>3. RangesSane'
  BY <1>1, <1>2 DEF RangesSane
<1>4. RangesDisjoint'
  BY <1>2 DEF RangesDisjoint, Keys
<1> QED BY <1>3, <1>4

LEMMA NextRanges ==
  TypeOK /\ RangesSane /\ RangesDisjoint /\ [Next]_vars
    => RangesSane' /\ RangesDisjoint'
<1> SUFFICES ASSUME TypeOK, RangesSane, RangesDisjoint, [Next]_vars
             PROVE  RangesSane' /\ RangesDisjoint'
  OBVIOUS
<1>0. \A a \in Alias : RangeKey(a) \in Keys /\ ranges[RangeKey(a)] # None
  BY DEF TypeOK, RangeKey, Keys, Alias
<1>1. ASSUME NEW a \in Alias, Allocate(a) PROVE RangesSane' /\ RangesDisjoint'
  <2> DEFINE k == RangeKey(a)
  <2>1. PICK v \in Candidates(k) : ranges' = [ranges EXCEPT ![k] = WithNext(ranges[k], v)]
    BY <1>1 DEF Allocate
  <2>2. v \in Int /\ ranges[k].min <= v
    BY <1>0, <2>1, IdsAssumption, NoneAssumption DEF Candidates, TypeOK, RangesSane, Range
  <2> QED BY <1>0, <2>1, <2>2, SameBounds
<1>2. ASSUME NEW a \in Alias, AllocateOutOfVLANs(a) PROVE RangesSane' /\ RangesDisjoint'
  <2> DEFINE k == RangeKey(a)
             r == IF ranges[k].next < ranges[k].max
                    THEN WithNext(ranges[k], ranges[k].max) ELSE ranges[k]
  <2>1. ranges' = [ranges EXCEPT ![k] = r]
    BY <1>2 DEF AllocateOutOfVLANs
  <2>2. CASE ranges[k].next < ranges[k].max
    <3>1. ranges[k].max \in Int /\ ranges[k].min <= ranges[k].max
      BY <1>0, NoneAssumption DEF TypeOK, RangesSane, Range
    <3> QED BY <1>0, <2>1, <2>2, <3>1, SameBounds
  <2>3. CASE ~(ranges[k].next < ranges[k].max)
    BY <1>0, <2>1, <2>3 DEF TypeOK, RangesSane, RangesDisjoint
  <2> QED BY <2>2, <2>3
<1>3. ASSUME NEW ns \in Keys, Delete(ns) PROVE RangesSane' /\ RangesDisjoint'
  <2> DEFINE kept == IF ns = Global THEN [ranges EXCEPT ![Global] = DefaultRange]
                                    ELSE [ranges EXCEPT ![ns] = None]
  <2>1. DefaultRange \in Range /\ DefaultRange.min < DefaultRange.max
    BY BoundsAssumption DEF DefaultRange, Range
  <2>2. /\ kept \in [Keys -> Range \cup {None}]
        /\ \A k \in Keys : kept[k] # None => kept[k].min < kept[k].max
        /\ \A n \in Namespaces : kept[n] # None => kept[n] = ranges[n]
    BY <2>1, NoneAssumption, GlobalAssumption DEF TypeOK, RangesSane, Keys
  <2> HIDE DEF kept
  <2>3. ranges' = [k \in Keys |-> IF kept[k] = None THEN None
                                  ELSE WithNext(kept[k], kept[k].min)]
    BY <1>3 DEF Delete, kept
  <2>4. RangesSane'
    BY <2>2, <2>3 DEF RangesSane, WithNext, Range
  <2>5. \A n \in Namespaces : ranges'[n] # None =>
           /\ ranges[n] # None
           /\ ranges'[n].min = ranges[n].min
           /\ ranges'[n].max = ranges[n].max
    BY <2>2, <2>3 DEF WithNext, Keys
  <2>6. RangesDisjoint'
    BY <2>5 DEF RangesDisjoint
  <2> QED BY <2>4, <2>6
<1>4. ASSUME NEW ns \in Keys, NEW min \in Ids, NEW max \in Ids, SetRange(ns, min, max)
      PROVE RangesSane' /\ RangesDisjoint'
  <2> DEFINE r == [min |-> min, max |-> max, next |-> min]
  <2>1. ranges' = [ranges EXCEPT ![ns] = r] /\ min < max /\ ~Conflict(ns, min, max)
    BY <1>4 DEF SetRange
  <2>2. r.min = min /\ r.max = max /\ r.next = min /\ min \in Int /\ max \in Int
    BY IdsAssumption
  <2> HIDE DEF r
  <2>3. RangesSane'
    BY <2>1, <2>2 DEF RangesSane, TypeOK
  <2>4. \A n \in Namespaces \ {ns} : ranges[n] # None =>
           ranges[n].max <= min \/ max <= ranges[n].min
    <3> SUFFICES ASSUME NEW n \in Namespaces \ {ns}, ranges[n] # None
                 PROVE ranges[n].max <= min \/ max <= ranges[n].min
      OBVIOUS
    <3>1. ranges[n] \in Range
      BY DEF TypeOK, Keys
    <3> QED BY <2>1, <2>2, <3>1 DEF Conflict, Range
  <2>5. RangesDisjoint'
    BY <2>1, <2>2, <2>4 DEF RangesDisjoint, TypeOK, Keys
  <2> QED BY <2>3, <2>5
<1>5. ASSUME ClearAll PROVE RangesSane' /\ RangesDisjoint'
  <2>1. ranges' = [k \in Keys |-> IF k = Global THEN DefaultRange ELSE None]
    BY <1>5 DEF ClearAll, NewVLANs
  <2>2. RangesSane'
    BY <2>1, BoundsAssumption DEF RangesSane, DefaultRange
  <2>3. RangesDisjoint'
    BY <2>1, GlobalAssumption DEF RangesDisjoint, Keys
  <2> QED BY <2>2, <2>3
<1>6. ASSUME UNCHANGED ranges PROVE RangesSane' /\ RangesDisjoint'
  BY <1>6 DEF RangesSane, RangesDisjoint
<1> QED
  BY <1>1, <1>2, <1>3, <1>4, <1>5, <1>6
  DEF Next, vars, ParseVLAN, AddAlias, Blacklist, DeletePrefix

(* The ranges that `vlans range' reserves for different namespaces never   *)
(* overlap and never become empty, for every sequence of SetRange, Delete  *)
(* and Allocate.                                                           *)
THEOREM RangesAreSound == Spec => []RangesSound
<1>1. Init => TypeOK /\ RangesSane /\ RangesDisjoint
  BY InitTypeOK, InitRanges
<1>2. TypeOK /\ RangesSane /\ RangesDisjoint /\ [Next]_vars
        => (TypeOK /\ RangesSane /\ RangesDisjoint)'
  BY NextTypeOK, NextRanges
<1> QED BY <1>1, <1>2, PTL DEF Spec, RangesSound

-----------------------------------------------------------------------------
(* A blacklisted VLAN stays out of the pool until `clear vlans all', for   *)
(* every way Allocate, AddAlias, Blacklist and Delete can follow each      *)
(* other.                                                                  *)
THEOREM BlacklistIsKept == Spec => BlacklistKept
<1>1. TypeOK /\ MapsInverse /\ [Next]_vars => [ClearAll \/ BlacklistStep]_vars
  <2> SUFFICES ASSUME TypeOK, MapsInverse, [Next]_vars, ~ClearAll,
                      NEW v \in Ids, byVLAN[v] = Blacklisted, byAlias[Blacklisted] # v
               PROVE  byVLAN'[v] = Blacklisted
    BY DEF BlacklistStep
  <2> USE BlacklistedIsAlias, NoneNotAlias, IdsAssumption DEF TypeOK
  <2>1. ASSUME NEW ns \in Keys, NEW selected, DeleteAliases(ns, selected)
        PROVE byVLAN'[v] = Blacklisted
    <3>1. \A a \in Alias : byAlias[a] # v
      BY DEF MapsInverse, AliasIndexed
    <3> QED BY <2>1, <3>1 DEF DeleteAliases
  <2>2. ASSUME NEW a \in Alias, Allocate(a) PROVE byVLAN'[v] = Blacklisted
    BY <2>2 DEF Allocate, Candidates
  <2>3. ASSUME NEW a \in Alias, NEW w \in Ids, AddAlias(a, w)
        PROVE byVLAN'[v] = Blacklisted
    BY <2>3 DEF AddAlias
  <2>4. ASSUME NEW w \in Ids, Blacklist(w) PROVE byVLAN'[v] = Blacklisted
    BY <2>4 DEF Blacklist
  <2>5. ASSUME UNCHANGED byVLAN PROVE byVLAN'[v] = Blacklisted
    BY <2>5
  <2> QED
    BY <2>1, <2>2, <2>3, <2>4, <2>5
    DEF Next, vars, AllocateOutOfVLANs, ParseVLAN, Delete, DeletePrefix, SetRange
<1> QED BY <1>1, TypeCorrect, MapsAreInverse, PTL DEF Spec, BlacklistKept
=============================================================================
