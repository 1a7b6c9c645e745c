--------------------------- MODULE Router_proofs ---------------------------
(***************************************************************************)
(* What holds of Router for every set of names and functions, and whatever  *)
(* the names' hashes are.                                                   *)
(***************************************************************************)
EXTENDS Router, TLAPS

LEMMA PutType ==
    ASSUME NEW S, NEW map, map \in [DOMAIN map -> S], NEW key, NEW value \in S
    PROVE  Put(map, key, value) \in [DOMAIN Put(map, key, value) -> S]
BY DEF Put

LEMMA WithoutType ==
    ASSUME NEW S, NEW map, map \in [DOMAIN map -> S], NEW key
    PROVE  Without(map, key) \in [DOMAIN Without(map, key) -> S]
BY DEF Without

-----------------------------------------------------------------------------
LEMMA InitType == Init => TypeOK
<1> SUFFICES ASSUME Init PROVE TypeOK
  OBVIOUS
<1>1. <<"FAIL">> \in Seq({"OK", "FAIL"})
  OBVIOUS
<1> QED
  BY <1>1 DEF Init, TypeOK

LEMMA RouteType ==
    ASSUME TypeOK, NEW key, NEW unpacks \in BOOLEAN, NEW returns \in BOOLEAN,
           NEW fits \in BOOLEAN, route(key, unpacks, returns, fits),
           called' \in Names
    PROVE  TypeOK'
<1>1. /\ map_invokers' = map_invokers
      /\ key2func_name' = key2func_name
      /\ registered' = registered
  BY DEF route, tables
<1>2. /\ <<"FAIL">> \in Seq({"OK", "FAIL"})
      /\ <<"OK">> \in Seq({"OK", "FAIL"})
      /\ <<>> \in Seq({"OK", "FAIL"})
  OBVIOUS
<1>3. CASE key \notin DOMAIN map_invokers
  BY <1>1, <1>2, <1>3 DEF route, TypeOK
<1>4. CASE key \in DOMAIN map_invokers
  <2> DEFINE h == map_invokers[key]
             call == Apply(h, unpacks, returns)
  <2>1. h \in Handlers
    BY <1>4 DEF TypeOK
  <2>2. call.status \in {"OK", "FAIL"}
    BY DEF Apply
  <2>3. /\ ran' = IF unpacks THEN h ELSE Nobody
        /\ replies' = IF call.mode = "async" THEN <<>>
                      ELSE <<IF fits THEN call.status ELSE "FAIL">>
        /\ owed' \in HandsOver(h, unpacks, returns)
    BY <1>4 DEF route
  <2>4. ran' \in Handlers \cup {Nobody}
    BY <2>1, <2>3
  <2>5. owed' \in BOOLEAN
    BY <2>3 DEF HandsOver
  <2> HIDE DEF h, call
  <2>6. replies' \in Seq({"OK", "FAIL"})
    BY <1>2, <2>2, <2>3
  <2> QED
    BY <1>1, <2>4, <2>5, <2>6 DEF TypeOK
<1> QED
  BY <1>3, <1>4

LEMMA NextType == TypeOK /\ [Next]_vars => TypeOK'
<1> SUFFICES ASSUME TypeOK, [Next]_vars PROVE TypeOK'
  OBVIOUS
<1> USE HashAssumption
<1>1. ASSUME NEW name \in Names, NEW h \in Handlers, register_handler(name, h)
      PROVE  TypeOK'
  <2> DEFINE key == MD5Hash32[name]
  <2>1. /\ map_invokers' = Put(map_invokers, key, h)
        /\ key2func_name' = EmplaceName(key2func_name, key, name)
        /\ registered' = Put(registered, name, h)
        /\ UNCHANGED <<called, ran, replies, owed>>
    BY <1>1 DEF register_handler, SetHandler, outcome
  <2>2. key \in FuncIds /\ MD5Hash32[name] = key
    OBVIOUS
  <2> HIDE DEF key
  <2>maps. /\ map_invokers \in [DOMAIN map_invokers -> Handlers]
        /\ key2func_name \in [DOMAIN key2func_name -> Names]
        /\ registered \in [DOMAIN registered -> Handlers]
    BY DEF TypeOK
  <2>3. /\ DOMAIN map_invokers' = DOMAIN map_invokers \cup {key}
        /\ map_invokers' \in [DOMAIN map_invokers' -> Handlers]
    <3>1. Put(map_invokers, key, h) \in [DOMAIN Put(map_invokers, key, h) -> Handlers]
      BY <2>maps, PutType
    <3> QED
      BY <2>1, <3>1 DEF Put
  <2>4. /\ DOMAIN registered' = DOMAIN registered \cup {name}
        /\ registered' \in [DOMAIN registered' -> Handlers]
    <3>1. Put(registered, name, h) \in [DOMAIN Put(registered, name, h) -> Handlers]
      BY <2>maps, PutType
    <3> QED
      BY <2>1, <3>1 DEF Put
  <2>5. /\ key2func_name' \in [DOMAIN map_invokers' -> Names]
        /\ \A k \in DOMAIN key2func_name' : MD5Hash32[key2func_name'[k]] = k
    <3>1. DOMAIN key2func_name = DOMAIN map_invokers
      BY DEF TypeOK
    <3>2. CASE key \in DOMAIN key2func_name
      BY <2>1, <2>3, <3>1, <3>2 DEF EmplaceName, TypeOK
    <3>3. CASE key \notin DOMAIN key2func_name
      <4>1. key2func_name' = Put(key2func_name, key, name)
        BY <2>1, <3>3 DEF EmplaceName
      <4>2. key2func_name' \in [DOMAIN key2func_name' -> Names]
        <5>1. Put(key2func_name, key, name)
                \in [DOMAIN Put(key2func_name, key, name) -> Names]
          BY <2>maps, PutType
        <5> QED
          BY <4>1, <5>1
      <4>3. DOMAIN key2func_name' = DOMAIN map_invokers'
        BY <2>3, <3>1, <4>1 DEF Put
      <4>4. \A k \in DOMAIN key2func_name' : MD5Hash32[key2func_name'[k]] = k
        BY <2>2, <4>1 DEF Put, TypeOK
      <4> QED
        BY <4>2, <4>3, <4>4
    <3> QED
      BY <3>2, <3>3
  <2> QED
    BY <2>1, <2>2, <2>3, <2>4, <2>5 DEF TypeOK
<1>2. ASSUME NEW name \in Names, remove_handler(name) PROVE TypeOK'
  <2> DEFINE key == MD5Hash32[name]
  <2>1. /\ map_invokers' = Without(map_invokers, key)
        /\ key2func_name' = Without(key2func_name, key)
        /\ registered' = Without(registered, name)
        /\ UNCHANGED <<called, ran, replies, owed>>
    BY <1>2 DEF remove_handler, EraseHandler, outcome
  <2> HIDE DEF key
  <2>maps. /\ map_invokers \in [DOMAIN map_invokers -> Handlers]
        /\ key2func_name \in [DOMAIN key2func_name -> Names]
        /\ registered \in [DOMAIN registered -> Handlers]
    BY DEF TypeOK
  <2>smaller. /\ Without(map_invokers, key) \in [DOMAIN Without(map_invokers, key) -> Handlers]
        /\ Without(registered, name) \in [DOMAIN Without(registered, name) -> Handlers]
        /\ Without(key2func_name, key) \in [DOMAIN Without(key2func_name, key) -> Names]
    BY <2>maps, WithoutType
  <2>2. /\ DOMAIN map_invokers' = DOMAIN map_invokers \ {key}
        /\ map_invokers' \in [DOMAIN map_invokers' -> Handlers]
    BY <2>1, <2>smaller DEF Without
  <2>3. /\ DOMAIN registered' = DOMAIN registered \ {name}
        /\ registered' \in [DOMAIN registered' -> Handlers]
    BY <2>1, <2>smaller DEF Without
  <2>4. /\ key2func_name' \in [DOMAIN map_invokers' -> Names]
        /\ \A k \in DOMAIN key2func_name' : MD5Hash32[key2func_name'[k]] = k
    <3>1. key2func_name' \in [DOMAIN key2func_name' -> Names]
      BY <2>1, <2>smaller
    <3>2. DOMAIN key2func_name' = DOMAIN map_invokers'
      BY <2>1 DEF Without, TypeOK
    <3>3. \A k \in DOMAIN key2func_name' : MD5Hash32[key2func_name'[k]] = k
      BY <2>1 DEF Without, TypeOK
    <3> QED
      BY <3>1, <3>2, <3>3
  <2> QED
    BY <2>1, <2>2, <2>3, <2>4 DEF TypeOK
<1>3. ASSUME NEW name \in Names, Call(name) PROVE TypeOK'
  BY <1>3, RouteType DEF Call
<1>4. CASE UNCHANGED vars
  BY <1>4 DEF vars, tables, outcome, TypeOK
<1> QED
  BY <1>1, <1>2, <1>3, <1>4 DEF Next

(***************************************************************************)
(* Type correctness, with both tables of the router having the same keys    *)
(* and every name filed under its own hash, colliding or not.               *)
(***************************************************************************)
THEOREM TypeCorrect == Spec => []TypeOK
BY InitType, NextType, PTL DEF Spec

-----------------------------------------------------------------------------
LEMMA RouteReplies ==
    ASSUME TypeOK, NEW key, NEW unpacks \in BOOLEAN, NEW returns \in BOOLEAN,
           NEW fits \in BOOLEAN, route(key, unpacks, returns, fits)
    PROVE  OneReply'
<1>1. CASE key \notin DOMAIN map_invokers
  BY <1>1 DEF route, OneReply
<1>2. CASE key \in DOMAIN map_invokers
  <2> DEFINE h == map_invokers[key]
             call == Apply(h, unpacks, returns)
  <2>1. h.mode \in {"sync", "async"} /\ h \in Handlers
    BY <1>2 DEF TypeOK, Handlers
  <2>2. /\ ran' = IF unpacks THEN h ELSE Nobody
        /\ replies' = IF call.mode = "async" THEN <<>>
                      ELSE <<IF fits THEN call.status ELSE "FAIL">>
        /\ owed' \in HandsOver(h, unpacks, returns)
    BY <1>2 DEF route
  <2>3. CASE h.mode = "async" /\ unpacks /\ returns
    <3>1. replies' = <<>> /\ owed' = TRUE
      BY <2>2, <2>3 DEF Apply, HandsOver
    <3> QED
      BY <3>1 DEF OneReply
  <2>4. CASE h.mode = "async" /\ unpacks /\ ~returns
    <3>1. replies' = <<"FAIL">> /\ ran' = h
      BY <2>2, <2>4 DEF Apply
    <3>2. ran' # Nobody /\ ran'.mode = "async"
      BY <2>1, <2>4, <3>1, NobodyAssumption
    <3> QED
      BY <3>1, <3>2 DEF OneReply, ThrewLate
  <2>5. CASE h.mode = "sync" \/ ~unpacks
    <3>1. replies' # <<>> /\ owed' = FALSE
      BY <2>1, <2>2, <2>5 DEF Apply, HandsOver
    <3> QED
      BY <3>1 DEF OneReply
  <2> QED
    BY <2>1, <2>3, <2>4, <2>5
<1> QED
  BY <1>1, <1>2

(***************************************************************************)
(* No request is lost between route() and the asynchronous functions, and   *)
(* one is answered by both only after a throw that came too late.           *)
(***************************************************************************)
THEOREM RepliedOrOwed == Spec => []OneReply
<1>1. Init => OneReply
  BY DEF Init, OneReply
<1>2. TypeOK /\ OneReply /\ [Next]_vars => OneReply'
  <2> SUFFICES ASSUME TypeOK, OneReply, [Next]_vars PROVE OneReply'
    OBVIOUS
  <2>1. ASSUME NEW name \in Names, Call(name) PROVE OneReply'
    BY <2>1, RouteReplies DEF Call
  <2>2. CASE UNCHANGED outcome
    BY <2>2 DEF outcome, OneReply, ThrewLate
  <2> QED
    BY <2>1, <2>2 DEF Next, register_handler, remove_handler, vars
<1> QED
  BY <1>1, <1>2, TypeCorrect, PTL DEF Spec

-----------------------------------------------------------------------------
\* A function that can be called is registered under some name with that hash.
Offered ==
    \A k \in DOMAIN map_invokers : \E n \in Names :
        /\ n \in DOMAIN registered
        /\ MD5Hash32[n] = k
        /\ registered[n] = map_invokers[k]

LEMMA OfferedNext ==
    ASSUME TypeOK, Offered, [Next]_vars
    PROVE  Offered'
<1>1. ASSUME NEW name \in Names, NEW h \in Handlers, register_handler(name, h)
      PROVE  Offered'
  <2>1. /\ map_invokers' = Put(map_invokers, MD5Hash32[name], h)
        /\ registered' = Put(registered, name, h)
    BY <1>1 DEF register_handler, SetHandler
  <2> SUFFICES ASSUME NEW k \in DOMAIN map_invokers'
               PROVE  \E n \in Names : /\ n \in DOMAIN registered'
                                       /\ MD5Hash32[n] = k
                                       /\ registered'[n] = map_invokers'[k]
    BY DEF Offered
  <2>2. CASE k = MD5Hash32[name]
    BY <2>1, <2>2 DEF Put
  <2>3. CASE k # MD5Hash32[name]
    <3>1. k \in DOMAIN map_invokers /\ map_invokers'[k] = map_invokers[k]
      BY <2>1, <2>3 DEF Put
    <3>2. PICK n \in Names : /\ n \in DOMAIN registered
                             /\ MD5Hash32[n] = k
                             /\ registered[n] = map_invokers[k]
      BY <3>1 DEF Offered
    <3>3. n \in DOMAIN registered' /\ registered'[n] = registered[n]
      BY <2>1, <2>3, <3>2 DEF Put
    <3> QED
      BY <3>1, <3>2, <3>3
  <2> QED
    BY <2>2, <2>3
<1>2. ASSUME NEW name \in Names, remove_handler(name) PROVE Offered'
  <2>1. /\ map_invokers' = Without(map_invokers, MD5Hash32[name])
        /\ registered' = Without(registered, name)
    BY <1>2 DEF remove_handler, EraseHandler
  <2> SUFFICES ASSUME NEW k \in DOMAIN map_invokers'
               PROVE  \E n \in Names : /\ n \in DOMAIN registered'
                                       /\ MD5Hash32[n] = k
                                       /\ registered'[n] = map_invokers'[k]
    BY DEF Offered
  <2>2. /\ k # MD5Hash32[name]
        /\ k \in DOMAIN map_invokers /\ map_invokers'[k] = map_invokers[k]
    BY <2>1 DEF Without
  <2>3. PICK n \in Names : /\ n \in DOMAIN registered
                           /\ MD5Hash32[n] = k
                           /\ registered[n] = map_invokers[k]
    BY <2>2 DEF Offered
  <2>4. n \in DOMAIN registered' /\ registered'[n] = registered[n]
    BY <2>1, <2>2, <2>3 DEF Without
  <2> QED
    BY <2>2, <2>3, <2>4
<1>3. CASE UNCHANGED <<map_invokers, registered>>
  BY <1>3 DEF Offered
<1> QED
  BY <1>1, <1>2, <1>3 DEF Next, Call, route, tables, vars

LEMMA TableInit == Init => Table!Init
BY DEF Init, Table!Init

LEMMA TableStep ==
    ASSUME TypeOK, Offered, [Next]_vars
    PROVE  [Table!Next]_(Table!vars)
<1>1. ASSUME NEW name \in Names, NEW h \in Handlers, register_handler(name, h)
      PROVE  Table!Register(name, h)
  BY <1>1 DEF register_handler, Put, outcome, Table!Register
<1>2. ASSUME NEW name \in Names, remove_handler(name) PROVE Table!Remove(name)
  BY <1>2 DEF remove_handler, Without, outcome, Table!Remove
<1>3. ASSUME NEW name \in Names, Call(name) PROVE Table!Call(name)
  <2>1. registered' = registered /\ called' = name
    BY <1>3 DEF Call, route
  <2>2. \/ ran' = Nobody
        \/ /\ MD5Hash32[name] \in DOMAIN map_invokers
           /\ ran' = map_invokers[MD5Hash32[name]]
    BY <1>3 DEF Call, route
  <2>3. \/ ran' = Nobody
        \/ \E m \in {m \in Names : MD5Hash32[m] = MD5Hash32[name]} \cap DOMAIN registered :
              ran' = registered[m]
    BY <2>2 DEF Offered
  <2> QED
    BY <2>1, <2>3 DEF Table!Call
<1>4. CASE UNCHANGED vars
  BY <1>4 DEF vars, tables, outcome, Table!vars
<1> QED
  BY <1>1, <1>2, <1>3, <1>4 DEF Next, Table!Next

(***************************************************************************)
(* Whatever the hashes, the router implements FunctionTable: a call by name *)
(* runs a function registered under that name or under one with its hash,   *)
(* and the one last registered under that very name if the hash is its own. *)
(***************************************************************************)
THEOREM OwnFunctionIsCalled == Spec => OwnFunction
<1>1. Init => Offered
  BY DEF Init, Offered
<1>2. TypeOK /\ Offered /\ [Next]_vars => Offered'
  BY OfferedNext
<1>3. TypeOK /\ Offered /\ [Next]_vars => [Table!Next]_(Table!vars)
  BY TableStep
<1> QED
  BY <1>1, <1>2, <1>3, TableInit, TypeCorrect, PTL
     DEF Spec, OwnFunction, Table!Spec

=============================================================================
