------------------------------- MODULE VLANs -------------------------------
(***************************************************************************)
(* The VLAN alias allocator of src/src/vlans: the two maps between aliases *)
(* and VLAN ids, the ranges reserved per namespace, and the operations     *)
(* that minimega's `vlans', `clear vlans' and lookupVLAN commands make of  *)
(* them.  Every operation holds the mutex of VLANs from its first to its   *)
(* last line, so each one is a single step.                                *)
(*                                                                         *)
(* A Go map is a total function here, with None for a key that is absent.  *)
(***************************************************************************)
EXTENDS Integers

CONSTANTS
    Namespaces,       \* names of namespaces that may own a range
    Global,           \* the empty namespace "", key of the default range
    Values,           \* the names a user gives to VLANs
    Prefixes,         \* for each non-empty prefix, the set of Values it selects
    BlacklistedVLAN,  \* the reserved name "BLACKLISTED"
    Ids,              \* the VLAN ids a user can name
    VLANStart,        \* first id of the default range
    VLANEnd,          \* one past the last id of the default range
    None              \* absence from a map

Keys == Namespaces \cup {Global}

Alias == [namespace : Keys, value : Values \cup {BlacklistedVLAN}]

Range == [min : Int, max : Int, next : Int]

(* The entry that blacklist() leaves in byVLAN. *)
Blacklisted == [namespace |-> Global, value |-> BlacklistedVLAN]

ASSUME IdsAssumption == Ids \subseteq Int /\ None \notin Ids
ASSUME NoneAssumption == None \notin Alias /\ None \notin Range
ASSUME GlobalAssumption == Global \notin Namespaces
ASSUME BoundsAssumption ==
    VLANStart \in Int /\ VLANEnd \in Int /\ VLANStart < VLANEnd
ASSUME PrefixAssumption == Prefixes \subseteq SUBSET (Values \cup {BlacklistedVLAN})

VARIABLES
    byVLAN,   \* id -> the alias it is assigned to
    byAlias,  \* alias -> the id assigned to it
    ranges    \* namespace -> the range reserved for it

vars == <<byVLAN, byAlias, ranges>>

----------------------------------------------------------------------------
(* NewVLANs *)
DefaultRange == [min |-> VLANStart, max |-> VLANEnd, next |-> VLANStart]

NewVLANs(bv, ba, rs) ==
    /\ bv = [v \in Ids |-> None]
    /\ ba = [a \in Alias |-> None]
    /\ rs = [k \in Keys |-> IF k = Global THEN DefaultRange ELSE None]

Init == NewVLANs(byVLAN, byAlias, ranges)

----------------------------------------------------------------------------
(* A range whose Next has moved. *)
WithNext(r, n) == [min |-> r.min, max |-> r.max, next |-> n]

(* The key of the range an alias is allocated from: its namespace's own    *)
(* range when it has one, the default range otherwise.                     *)
RangeKey(a) == IF ranges[a.namespace] # None THEN a.namespace ELSE Global

(* v lies in a range that a namespace has reserved. *)
Reserved(v) ==
    \E ns \in Namespaces :
        ranges[ns] # None /\ ranges[ns].min <= v /\ v < ranges[ns].max

(* The ids the loop of allocate() can stop at with all its checks passed.  *)
Candidates(k) ==
    {v \in Ids : /\ ranges[k].next <= v /\ v < ranges[k].max
                 /\ byVLAN[v] = None
                 /\ k = Global => ~Reserved(v)}

(* Allocate for an alias that has no VLAN: the loop of allocate() stops at *)
(* the first candidate and leaves Next there.                              *)
Allocate(a) ==
    /\ byAlias[a] = None
    /\ LET k == RangeKey(a) IN
       \E v \in Candidates(k) :
           /\ \A w \in Candidates(k) : v <= w
           /\ byVLAN' = [byVLAN EXCEPT ![v] = a]
           /\ byAlias' = [byAlias EXCEPT ![a] = v]
           /\ ranges' = [ranges EXCEPT ![k] = WithNext(@, v)]

(* Allocate that returns ErrOutOfVLANs.  The loop has pushed Next to some  *)
(* id at or above Max; nothing tells those ids apart until the range is    *)
(* replaced or its Next reset, and Max stands for all of them.             *)
AllocateOutOfVLANs(a) ==
    /\ byAlias[a] = None
    /\ LET k == RangeKey(a) IN
       /\ Candidates(k) = {}
       /\ ranges' = [ranges EXCEPT ![k] =
                        IF @.next < @.max THEN WithNext(@, @.max) ELSE @]
    /\ UNCHANGED <<byVLAN, byAlias>>

(* Mutant: AddAlias forgets to look whether the VLAN is in use. *)
AddAliasUnchecked(a, v) ==
    /\ byAlias[a] = None
    /\ byVLAN' = [byVLAN EXCEPT ![v] = a]
    /\ byAlias' = [byAlias EXCEPT ![a] = v]
    /\ UNCHANGED ranges

(* AddAlias: `vlans add', also how an assignment broadcast by another node *)
(* is recorded.                                                            *)
AddAlias(a, v) ==
    /\ byAlias[a] = None
    /\ byVLAN[v] = None
    /\ byVLAN' = [byVLAN EXCEPT ![v] = a]
    /\ byAlias' = [byAlias EXCEPT ![a] = v]
    /\ UNCHANGED ranges

(* Mutant: blacklist leaves the alias of the VLAN in byAlias. *)
BlacklistKeepsAlias(v) ==
    /\ byVLAN' = [byVLAN EXCEPT ![v] = Blacklisted]
    /\ UNCHANGED <<byAlias, ranges>>

(* blacklist: whatever alias the VLAN had loses it. *)
Blacklist(v) ==
    /\ byVLAN' = [byVLAN EXCEPT ![v] = Blacklisted]
    /\ byAlias' = [a \in Alias |-> IF byVLAN[v] = a THEN None ELSE byAlias[a]]
    /\ UNCHANGED ranges

(* ParseVLAN of an integer: an id nothing is known of is blacklisted, any  *)
(* other is returned and nothing changes.                                  *)
ParseVLAN(v) == byVLAN[v] = None /\ Blacklist(v)

(* The aliases of a namespace whose value a prefix selects are dropped     *)
(* from both maps.                                                         *)
DeleteAliases(ns, selected) ==
    LET gone == {a \in Alias :
                    /\ a.namespace = ns
                    /\ a.value \in selected
                    /\ byAlias[a] # None}
    IN  /\ byVLAN' = [v \in Ids |->
                         IF \E a \in gone : byAlias[a] = v THEN None ELSE byVLAN[v]]
        /\ byAlias' = [a \in Alias |-> IF a \in gone THEN None ELSE byAlias[a]]

(* Delete with a non-empty prefix returns before it touches the ranges. *)
DeletePrefix(ns, selected) ==
    /\ DeleteAliases(ns, selected)
    /\ UNCHANGED ranges

(* Mutant: Delete does not spare the default range. *)
DeleteDropsDefault(ns) ==
    /\ DeleteAliases(ns, Values \cup {BlacklistedVLAN})
    /\ ranges' = [ranges EXCEPT ![ns] = None]

(* Delete with an empty prefix drops the namespace's range too (the        *)
(* default one goes back to its bounds) and rewinds every Next.            *)
Delete(ns) ==
    /\ DeleteAliases(ns, Values \cup {BlacklistedVLAN})
    /\ LET kept == IF ns = Global THEN [ranges EXCEPT ![Global] = DefaultRange]
                                  ELSE [ranges EXCEPT ![ns] = None]
       IN  ranges' = [k \in Keys |->
                         IF kept[k] = None THEN None ELSE WithNext(kept[k], kept[k].min)]

(* Mutant: only the lower bound is compared with the other ranges. *)
ConflictOfMin(ns, min, max) ==
    \E ns2 \in Namespaces \ {ns} :
        ranges[ns2] # None /\ min < ranges[ns2].max /\ ranges[ns2].min <= min

(* SetRange's test for a conflict with the range of another namespace.     *)
(* The default range is not compared with the others.                      *)
Conflict(ns, min, max) ==
    \E ns2 \in Namespaces \ {ns} :
        ranges[ns2] # None /\ min < ranges[ns2].max /\ ranges[ns2].min <= max

(* SetRange, with the check of cliVLANsRange in front of it. *)
SetRange(ns, min, max) ==
    /\ min < max
    /\ ~Conflict(ns, min, max)
    /\ ranges' = [ranges EXCEPT ![ns] = [min |-> min, max |-> max, next |-> min]]
    /\ UNCHANGED <<byVLAN, byAlias>>

(* `clear vlans all' starts over with a new allocator. *)
ClearAll == NewVLANs(byVLAN', byAlias', ranges')

Next ==
    \/ \E a \in Alias : Allocate(a) \/ AllocateOutOfVLANs(a)
    \/ \E a \in Alias, v \in Ids : AddAlias(a, v)
    \/ \E v \in Ids : Blacklist(v) \/ ParseVLAN(v)
    \/ \E ns \in Keys : Delete(ns)
    \/ \E ns \in Keys, selected \in Prefixes : DeletePrefix(ns, selected)
    \/ \E ns \in Keys, min, max \in Ids : SetRange(ns, min, max)
    \/ ClearAll

Spec == Init /\ [][Next]_vars

----------------------------------------------------------------------------
(* The maps hold aliases and ids, and the default range is never deleted   *)
(* ("never delete the default range", Delete).                             *)
TypeOK ==
    /\ byVLAN \in [Ids -> Alias \cup {None}]
    /\ byAlias \in [Alias -> Ids \cup {None}]
    /\ ranges \in [Keys -> Range \cup {None}]
    /\ ranges[Global] # None

(* byVLAN and byAlias stay each other's inverse through every order of     *)
(* allocating, adding, blacklisting and deleting: no two aliases share a   *)
(* VLAN, and a VLAN taken out of the pool is either blacklisted or has an  *)
(* alias that Delete can find to free it.                                  *)
AliasIndexed == \A a \in Alias : byAlias[a] # None => byVLAN[byAlias[a]] = a
VLANIndexed ==
    \A v \in Ids : byVLAN[v] \in {None, Blacklisted} \/ byAlias[byVLAN[v]] = v
MapsInverse == AliasIndexed /\ VLANIndexed

(* The ranges reserved by two namespaces never share an id, however often  *)
(* they are set, replaced and cleared (SetRange's conflict test).          *)
RangesDisjoint ==
    \A m, n \in Namespaces :
        m # n /\ ranges[m] # None /\ ranges[n] # None =>
            ranges[m].max <= ranges[n].min \/ ranges[n].max <= ranges[m].min

(* A range is never empty and its Next never lies below it.                *)
RangesSane ==
    \A k \in Keys : ranges[k] # None =>
        ranges[k].min < ranges[k].max /\ ranges[k].min <= ranges[k].next

(* The ranges, of which Allocate relies on both: that each is sane, and    *)
(* that those of the namespaces are disjoint (SetRange, Delete).           *)
RangesSound == RangesSane /\ RangesDisjoint

(* A blacklisted VLAN leaves the blacklist only through `clear vlans all'  *)
(* (or, when a user named an alias "BLACKLISTED", by clearing that alias): *)
(* no allocation or deletion of other aliases puts it back in the pool.    *)
BlacklistStep ==
    \A v \in Ids :
        byVLAN[v] = Blacklisted /\ byAlias[Blacklisted] # v
            => byVLAN'[v] = Blacklisted
BlacklistKept == [][ClearAll \/ BlacklistStep]_vars

(* `clear vlans' is documented as "freeing the VLANs for reuse": every     *)
(* free id an allocation could use lies at or above the range's Next, so   *)
(* ErrOutOfVLANs is returned only when no id is free.                      *)
FreedForReuse ==
    \A k \in Keys : ranges[k] # None =>
        \A v \in Ids :
            /\ ranges[k].min <= v /\ v < ranges[k].max
            /\ byVLAN[v] = None
            /\ k = Global => ~Reserved(v)
            => ranges[k].next <= v

(* SetRange reserves the half-open interval [min, max), and refuses one    *)
(* with "range overlaps with another namespace": what it refuses does      *)
(* share an id with the range of another namespace.                        *)
RefusedOnlyOnOverlap ==
    \A ns \in Keys, min, max \in Ids :
        min < max /\ Conflict(ns, min, max) =>
            \E ns2 \in Namespaces \ {ns}, v \in min .. max - 1 :
                ranges[ns2] # None /\ ranges[ns2].min <= v /\ v < ranges[ns2].max
============================================================================
