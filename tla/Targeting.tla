----------------------------- MODULE Targeting ------------------------------
(***************************************************************************)
(* Target tags, selectors and partition keys (targeting.py).  Tags are a   *)
(* function from some keys to words, a selector is a <<key, word>> pair    *)
(* and a partition key is the set of sanitised pairs it is joined from: {} *)
(* is "default" and {<<word>>} the name of a quota pool.  Joining with     *)
(* "__" is taken to be injective.                                          *)
(***************************************************************************)

CONSTANTS
    Key,        \* the keys that tags use
    Word,       \* the values that tags use
    QuotaPool,  \* the key "quota_pool"
    Sanitize,   \* sanitize_partition_key on keys and words
    NoWord      \* what sanitises to nothing: "default"

ASSUME TargetingAssumption ==
    /\ Sanitize \in [Key \cup Word -> Key \cup Word \cup {NoWord}]
    /\ NoWord \notin Key \cup Word

Tags == UNION {[K -> Word] : K \in SUBSET Key}
Selector == Key \X Word

Name == Key \cup Word \cup {NoWord}
Partition == SUBSET ({<<n>> : n \in Name} \cup (Name \X Name))
Default == {}

\* TargetSelector.matches.
Matches(sel, tags) == sel[1] \in DOMAIN tags /\ tags[sel[1]] = sel[2]

\* target_matches.
TargetMatches(tags, include, exclude) ==
    /\ \A sel \in include : Matches(sel, tags)
    /\ \A sel \in exclude : ~Matches(sel, tags)

\* derive_partition_key.
DerivePartitionKey(tags) ==
    IF QuotaPool \in DOMAIN tags
    THEN {<<Sanitize[tags[QuotaPool]]>>} \ {<<NoWord>>}
    ELSE {<<Sanitize[k], Sanitize[tags[k]]>> : k \in DOMAIN tags}

\* Mutant: the key follows the tags instead of being kept.
RederivedPartitionKey(partition, tags) == DerivePartitionKey(tags)

\* JobEnvelope.resolve_partition_key.
ResolvedPartitionKey(partition, tags) ==
    IF partition = Default THEN DerivePartitionKey(tags) ELSE partition
=============================================================================
