------------------------- MODULE MCPartitionRouting -------------------------
(* PartitionRouting for TLC.  The words are a and b, and b sanitises to    *)
(* "default"; handlers change the value of the key k.                      *)
EXTENDS PartitionRouting, TLC

CONSTANTS j1, j2, o1, w1, w2, k, pool, a, b, none

SanitizedNames == [n \in {k, pool, a, b} |-> IF n = b THEN none ELSE n]

\* One job with a tag, one in a quota pool whose key is "default".
TwoJobTags == (j1 :> (k :> a)) @@ (j2 :> (pool :> b))
RetagK == [t \in Tags |-> IF k \in DOMAIN t
                          THEN {[t EXCEPT ![k] = v] : v \in Word}
                          ELSE {t}]

ASSUME InstanceAssumption == HandlersKeepDefault

StageMap == (w1 :> 1) @@ (w2 :> 2)
SelectSome == (w1 :> {}) @@ (w2 :> {<<k, a>>})
ExcludePool == (w1 :> {}) @@ (w2 :> {<<pool, b>>})
SelectNone == [w \in Worker |-> {}]
=============================================================================
