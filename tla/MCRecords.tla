----------------------------- MODULE MCRecords -----------------------------
(* Records that are cached and records that are registered with a server,   *)
(* for TLC: questions and the cache, and updates.  They share nothing here, *)
(* so a behaviour is one of one of them, the subject.                       *)
EXTENDS MdnsCache, DnsUpdate, TLC

CONSTANTS q1, q2, q3, r1, r2, r3,
          Subjects   \* the parts to check

VARIABLE subject

recordsVars == <<subject, cacheVars, updateVars>>

RecordsInit ==
  /\ subject \in Subjects
  /\ CacheInit /\ DnsUpdateInit
  /\ subject # "update" => ~Behind

RecordsNext ==
  /\ \/ subject = "cache" /\ CacheNext /\ UNCHANGED updateVars
     \/ subject = "update" /\ DnsUpdateNext /\ UNCHANGED cacheVars
  /\ UNCHANGED subject

RecordsSpec == RecordsInit /\ [][RecordsNext]_recordsVars

---------------------------------------------------------------------------
(* q1 and q2 ask the same, q3 asks something that only r1 answers; r1 comes *)
(* with the cache-flush bit.                                                *)
MCKindOf == [q \in Questions |-> IF q = q3 THEN "one" ELSE "any"]
MCAnswers == [k \in Kinds |-> IF k = "one" THEN {r1} ELSE CacheRecords]
MCUnique == {r1}
Alike == Permutations({q1, q2}) \cup Permutations(CacheRecords \ {r1})

MCServiceOf == [t \in Texts |-> CHOOSE s \in Services : TRUE]
=============================================================================
