----------------------------- MODULE CacheSpec ------------------------------
(***************************************************************************)
(* What the SDK may rely on of a cache (sessions, logins, signed chains):  *)
(* a fetch never returns anything but what was inserted last under that    *)
(* key, nothing comes back once removed or cleared, and an insertion makes *)
(* the cache forget at most one entry.  CacheUse.tla implements it.        *)
(***************************************************************************)
CONSTANTS Key, Data, NoData

VARIABLES content,  \* what the cache holds under each key
          last      \* the last call: its key, the datum given or returned

cacheVars == <<content, last>>

Call(op, key, data) == [op |-> op, key |-> key, data |-> data]

Init ==
  /\ content = [key \in Key |-> NoData]
  /\ last = Call("clear", NoData, NoData)

Insert(key, data) ==
  /\ last' = Call("insert", key, data)
  /\ LET full == [content EXCEPT ![key] = data] IN
     \/ content' = full
     \/ \E victim \in Key : content' = [full EXCEPT ![victim] = NoData]

Fetch(key) ==
  /\ last' = Call("fetch", key, content[key])
  /\ UNCHANGED content

Remove(key) ==
  /\ last' = Call("remove", key, NoData)
  /\ content' = [content EXCEPT ![key] = NoData]

Clear ==
  /\ last' = Call("clear", NoData, NoData)
  /\ content' = [key \in Key |-> NoData]

Next ==
  \/ \E key \in Key :
       Fetch(key) \/ Remove(key) \/ \E data \in Data : Insert(key, data)
  \/ Clear

Spec == Init /\ [][Next]_cacheVars
=============================================================================
