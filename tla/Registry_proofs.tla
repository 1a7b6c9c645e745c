--------------------------- MODULE Registry_proofs ---------------------------
(***************************************************************************)
(* Theorems of Registry, for any number of servers, clients and functions:   *)
(*   TypeCorrect      the variables keep their types;                        *)
(*   RegisteredEntered  a registered function is entered in ZooKeeper until  *)
(*                    the session that entered it ends;                      *)
(*   AddressesAgree   clients of the service never have two addresses;       *)
(*   AddressStays     a client keeps the address it was constructed with.    *)
(***************************************************************************)
EXTENDS Registry, TLAPS

LEMMA SpendType ==
    ASSUME TypeOK, NEW what \in {"sessions", "partitions", "failures"}, NEW limit \in Nat,
           Spend(what, limit)
    PROVE  /\ spent' \in [{"sessions", "partitions", "failures"} -> Nat]
           /\ spent'[what] \in 1 .. limit
BY DEF TypeOK, Spend

LEMMA DownType == Down \in Server /\ Down.registered = {} /\ Down.session = 0
BY BoundAssumption DEF Down, Server, Paths

\* Going on after create() registers the function and keeps the session.
LEMMA RegisteredType ==
    ASSUME NEW r \in Server
    PROVE  /\ Registered(r) \in Server
           /\ Registered(r).session = r.session /\ Registered(r).path = r.path
           /\ Registered(r).pc = "up"
           /\ Registered(r).registered = r.registered \cup ({r.path} \ {Root})
<1>1. r.path \in Paths /\ r.registered \subseteq Methods
  BY DEF Server
<1>2. {r.path} \ {Root} \subseteq Methods
  BY <1>1 DEF Paths
<1> QED
  BY <1>1, <1>2 DEF Registered, Server

\* A lookup gives the service's znode or nothing.
LEMMA LookupAnswer ==
    ASSUME TypeOK, NEW answer, Lookup(answer)
    PROVE  /\ answer \in {root, Nobody}
           /\ spent' \in [{"sessions", "partitions", "failures"} -> Nat]
BY SpendType, BoundAssumption DEF Lookup, TypeOK

-----------------------------------------------------------------------------
(* Types *)

ServerStep(s) == \/ Start(s) \/ CheckExists(s) \/ ZooCreate(s) \/ Exit(s) \/ Crash(s)
                 \/ \E m \in Methods : RegisterHandler(s, m)

LEMMA ServerTypes ==
    ASSUME TypeOK, NEW s \in Servers, ServerStep(s)
    PROVE  server' \in [Servers -> Server]
<1>1. server[s] \in Server
  BY DEF TypeOK
<1>2. CASE Start(s)
  <2>1. spent'["sessions"] \in 0 .. MaxSessions
    BY <1>2, SpendType, BoundAssumption DEF Start
  <2>2. [Down EXCEPT !.pc = "exists", !.session = spent'["sessions"]] \in Server
    BY <2>1, DownType DEF Server
  <2> QED
    BY <1>2, <2>2 DEF Start, SetServer, TypeOK
<1>3. CASE CheckExists(s)
  <2>1. [server[s] EXCEPT !.pc = "create"] \in Server
    BY <1>1 DEF Server
  <2> QED
    BY <1>1, <1>3, <2>1, RegisteredType DEF CheckExists, SetServer, TypeOK
<1>4. CASE ZooCreate(s)
  BY <1>1, <1>4, RegisteredType DEF ZooCreate, SetServer, TypeOK
<1>5. CASE Exit(s) \/ Crash(s)
  BY <1>5, DownType DEF Exit, Crash, SetServer, TypeOK
<1>6. ASSUME NEW m \in Methods, RegisterHandler(s, m)
      PROVE  server' \in [Servers -> Server]
  <2>1. [server[s] EXCEPT !.pc = "exists", !.path = m] \in Server
    BY <1>1 DEF Server, Paths
  <2> QED
    BY <1>6, <2>1 DEF RegisterHandler, SetServer, TypeOK
<1> QED
  BY <1>2, <1>3, <1>4, <1>5, <1>6 DEF ServerStep

LEMMA ServerStepType ==
    ASSUME TypeOK, NEW s \in Servers, ServerStep(s)
    PROVE  TypeOK'
<1>1. server' \in [Servers -> Server]
  BY ServerTypes
<1>2. UNCHANGED client /\ gone' \subseteq Servers \X Methods
  BY DEF ServerStep, Start, CheckExists, ZooCreate, Exit, Crash, RegisterHandler, EndSession,
         TypeOK
<1>3. CASE Start(s)
  BY <1>1, <1>2, <1>3, SpendType, BoundAssumption DEF Start, TypeOK, Sessions
<1>4. CASE ZooCreate(s)
  <2>1. ASSUME server[s].path # Root, InSession(s)
        PROVE  [method |-> server[s].path, addr |-> s, session |-> server[s].session] \in Znode
    BY <2>1 DEF TypeOK, Server, Paths, Znode, InSession, Sessions
  <2>2. root' \in Servers \cup {Nobody} /\ znodes' \subseteq Znode
    BY <1>4, <2>1 DEF ZooCreate, AnswerOK, Persistent, Ephemeral, Znodes, TypeOK
  <2> QED
    BY <1>1, <1>2, <1>4, <2>2 DEF ZooCreate, TypeOK
<1>5. CASE Exit(s)
  BY <1>1, <1>2, <1>5 DEF Exit, EndSession, TypeOK
<1>6. CASE CheckExists(s) \/ Crash(s) \/ \E m \in Methods : RegisterHandler(s, m)
  BY <1>1, <1>2, <1>6 DEF CheckExists, Crash, RegisterHandler, TypeOK
<1> QED
  BY <1>3, <1>4, <1>5, <1>6 DEF ServerStep

LEMMA SessionStepType ==
    ASSUME TypeOK, NEW n \in live, Expire(n) \/ Partition(n)
    PROVE  TypeOK'
<1>1. CASE Expire(n)
  BY <1>1 DEF Expire, EndSession, TypeOK
<1>2. CASE Partition(n)
  BY <1>2, SpendType, BoundAssumption DEF Partition, EndSession, TypeOK
<1> QED
  BY <1>1, <1>2

LEMMA ClientStepType ==
    ASSUME TypeOK, NEW c \in Clients, Construct(c) \/ Connect(c)
    PROVE  TypeOK'
<1>1. client[c] \in Client
  BY DEF TypeOK
<1>2. CASE Construct(c)
  <2>1. PICK answer \in Servers \cup {Nobody} :
          /\ Lookup(answer)
          /\ client' = [client EXCEPT ![c] = [pc |-> "built", addr |-> answer,
                                              learned |-> answer]]
    BY <1>2 DEF Construct
  <2>2. [pc |-> "built", addr |-> answer, learned |-> answer] \in Client
    BY DEF Client
  <2> QED
    BY <1>2, <2>1, <2>2, LookupAnswer DEF Construct, TypeOK
<1>3. CASE Connect(c)
  <2>1. PICK answer \in Servers \cup {Nobody} :
          /\ Lookup(answer)
          /\ client' = [client EXCEPT ![c].addr = FirstAnswer(client[c], answer),
                                      ![c].pc = Outcome(FirstAnswer(client[c], answer))]
    BY <1>3 DEF Connect
  <2> DEFINE addr == FirstAnswer(client[c], answer)
  <2>2. addr \in Servers \cup {Nobody}
    BY <1>1 DEF FirstAnswer, Client
  <2>3. Outcome(addr) \in {"aborted", "refused", "connected"}
    BY DEF Outcome
  <2>4. [client[c] EXCEPT !.addr = addr, !.pc = Outcome(addr)] \in Client
    BY <1>1, <2>2, <2>3 DEF Client
  <2>5. client' = [client EXCEPT ![c] = [client[c] EXCEPT !.addr = addr, !.pc = Outcome(addr)]]
    BY <1>1, <2>1 DEF TypeOK, Client
  <2>6. client' \in [Clients -> Client]
    BY <2>4, <2>5 DEF TypeOK
  <2> HIDE DEF addr
  <2> QED
    BY <1>3, <2>1, <2>6, LookupAnswer DEF Connect, TypeOK
<1> QED
  BY <1>2, <1>3

LEMMA NextSteps ==
    ASSUME Next
    PROVE  \/ \E s \in Servers : ServerStep(s)
           \/ \E n \in live : Expire(n) \/ Partition(n)
           \/ \E c \in Clients : Construct(c) \/ Connect(c)
BY DEF Next, ServerStep

\* Every variable keeps its type, for any number of servers and clients.
THEOREM TypeCorrect == Spec => []TypeOK
<1>1. Init => TypeOK
  BY DownType DEF Init, TypeOK, Client, NewClient
<1>2. TypeOK /\ [Next]_vars => TypeOK'
  <2>1. CASE UNCHANGED vars
    BY <2>1 DEF vars, TypeOK
  <2> QED
    BY <2>1, NextSteps, ServerStepType, SessionStepType, ClientStepType
<1> QED
  BY <1>1, <1>2, PTL DEF Spec

-----------------------------------------------------------------------------
(* A registered function is entered                                          *)

\* A new session's number is above every server's: nobody is in it by chance.
Fresh == \A s \in Servers : server[s].session <= spent["sessions"]

\* Of a server in its session: its functions are entered, or went with another
\* session; past its constructor, it has seen the service's znode, below which
\* its next functions are entered.
Found(s) == InSession(s) =>
    /\ \A m \in server[s].registered : Exists(m) \/ <<s, m>> \in gone
    /\ server[s].path # Root \/ At(s, "up") => root # Nobody

FoundInv == Fresh /\ \A s \in Servers : Found(s)

\* What a step leaves of its server's session: only a start gives it another.
LEMMA SessionOf ==
    ASSUME TypeOK, NEW s \in Servers, ServerStep(s), ~Start(s)
    PROVE  server'[s].session \in {0, server[s].session}
<1>1. server[s] \in Server
  BY DEF TypeOK
<1>2. CASE CheckExists(s)
  <2>1. PICK r : server' = [server EXCEPT ![s] = r]
                 /\ r \in {[server[s] EXCEPT !.pc = "create"], Registered(server[s])}
    BY <1>2 DEF CheckExists, SetServer
  <2>2. r.session = server[s].session
    BY <1>1, <2>1, RegisteredType DEF Server
  <2> QED
    BY <2>1, <2>2 DEF TypeOK
<1>3. CASE ZooCreate(s)
  <2>1. server' = [server EXCEPT ![s] = Registered(server[s])]
    BY <1>3 DEF ZooCreate, SetServer
  <2> QED
    BY <1>1, <2>1, RegisteredType DEF TypeOK
<1>4. CASE Exit(s) \/ Crash(s)
  <2>1. server'[s] = Down
    BY <1>4 DEF Exit, Crash, SetServer, TypeOK
  <2> QED
    BY <2>1, DownType
<1>5. ASSUME NEW m \in Methods, RegisterHandler(s, m)
      PROVE  server'[s].session = server[s].session
  <2>1. server'[s] = [server[s] EXCEPT !.pc = "exists", !.path = m]
    BY <1>5 DEF RegisterHandler, SetServer, TypeOK
  <2> QED
    BY <1>1, <2>1 DEF Server
<1> QED
  BY <1>2, <1>3, <1>4, <1>5 DEF ServerStep

LEMMA FreshKept ==
    ASSUME TypeOK, Fresh, [Next]_vars
    PROVE  Fresh'
<1>1. \A s \in Servers : server[s].session \in Nat /\ server[s] \in Server
  BY BoundAssumption DEF TypeOK, Server
<1>2. \A what, limit : what \in {"sessions", "partitions", "failures"} /\ Spend(what, limit) =>
        /\ spent["sessions"] <= spent'["sessions"]
        /\ what = "sessions" => spent'["sessions"] = spent["sessions"] + 1
  BY DEF Spend, TypeOK
<1>3. ASSUME NEW s \in Servers, ServerStep(s) PROVE Fresh'
  <2>1. CASE Start(s)
    <3>1. /\ spent["sessions"] <= spent'["sessions"]
          /\ server' = [server EXCEPT ![s] = [Down EXCEPT !.pc = "exists",
                                                !.session = spent'["sessions"]]]
      BY <1>2, <2>1 DEF Start, SetServer
    <3>2. spent'["sessions"] \in Nat /\ spent["sessions"] \in Nat
      BY <1>2, <2>1 DEF Start, TypeOK
    <3>3. server'[s].session = spent'["sessions"]
      BY <3>1 DEF TypeOK, Down
    <3>4. \A t \in Servers \ {s} : server'[t] = server[t]
      BY <3>1 DEF TypeOK
    <3> QED
      BY <1>1, <3>1, <3>2, <3>3, <3>4 DEF Fresh
  <2>2. CASE ~Start(s)
    <3>1. spent' = spent /\ \A t \in Servers \ {s} : server'[t] = server[t]
      BY <1>3, <2>2 DEF ServerStep, CheckExists, ZooCreate, Exit, Crash, RegisterHandler,
                        SetServer, TypeOK
    <3>2. server'[s].session \in {0, server[s].session}
      BY <1>3, <2>2, SessionOf
    <3>3. spent["sessions"] \in Nat
      BY DEF TypeOK
    <3> QED
      BY <1>1, <3>1, <3>2, <3>3 DEF Fresh
  <2> QED
    BY <2>1, <2>2
<1>4. ASSUME server' = server, spent["sessions"] <= spent'["sessions"],
             spent'["sessions"] \in Nat
      PROVE  Fresh'
  BY <1>1, <1>4 DEF Fresh, TypeOK
<1>5. ASSUME NEW n \in live, Expire(n) \/ Partition(n) PROVE Fresh'
  BY <1>2, <1>4, <1>5, SessionStepType DEF Expire, Partition, TypeOK
<1>6. ASSUME NEW c \in Clients, Construct(c) \/ Connect(c) PROVE Fresh'
  <2>1. server' = server
    BY <1>6 DEF Construct, Connect
  <2>2. PICK answer : Lookup(answer)
    BY <1>6 DEF Construct, Connect
  <2>3. spent["sessions"] <= spent'["sessions"] /\ spent'["sessions"] \in Nat
    BY <1>2, <2>2, LookupAnswer DEF Lookup, TypeOK
  <2> QED
    BY <1>4, <2>1, <2>3
<1>7. CASE UNCHANGED vars
  BY <1>4, <1>7 DEF vars, TypeOK
<1> QED
  BY <1>3, <1>5, <1>6, <1>7, NextSteps

\* A session ends: its znodes go, and who had those functions registered has
\* them in gone.
LEMMA EndSessionFound ==
    ASSUME TypeOK, NEW n \in Nat, EndSession(n), root' = root,
           NEW s \in Servers, Found(s),
           server'[s] = server[s] \/ (server'[s] = Down /\ ~InSession(s)')
    PROVE  Found(s)'
<1>1. CASE server'[s] = Down /\ ~InSession(s)'
  BY <1>1 DEF Found
<1>2. CASE server'[s] = server[s]
  <2>1. SUFFICES ASSUME InSession(s)'
                 PROVE  /\ \A m \in server[s].registered : Exists(m)' \/ <<s, m>> \in gone'
                        /\ server[s].path # Root \/ At(s, "up") => root' # Nobody
    BY <1>2 DEF Found, At
  <2>2. InSession(s)
    BY <1>2, <2>1 DEF InSession, EndSession
  <2>3. ASSUME NEW m \in server[s].registered PROVE Exists(m)' \/ <<s, m>> \in gone'
    <3>1. m \in Methods /\ m # Root
      BY NameAssumption DEF TypeOK, Server
    <3>2. CASE <<s, m>> \in gone
      BY <3>2 DEF EndSession
    <3>3. CASE Exists(m)
      <4>1. PICK z \in znodes : z.method = m
        BY <3>1, <3>3 DEF Exists
      <4>2. CASE z.session # n
        BY <3>1, <4>1, <4>2 DEF Exists, EndSession
      <4>3. CASE z.session = n
        BY <3>1, <4>1, <4>3 DEF EndSession
      <4> QED
        BY <4>2, <4>3
    <3> QED
      BY <2>2, <3>2, <3>3 DEF Found
  <2> QED
    BY <2>2, <2>3 DEF Found
<1> QED
  BY <1>1, <1>2

\* Nobody is in a session with number 0.
LEMMA DownOut == ASSUME TypeOK, NEW s \in Servers, server[s] = Down PROVE ~InSession(s)
BY DownType DEF InSession, TypeOK, Sessions

LEMMA ServerFound ==
    ASSUME TypeOK, Fresh, NEW s \in Servers, ServerStep(s), \A t \in Servers : Found(t)
    PROVE  \A t \in Servers : Found(t)'
<1>1. /\ server[s] \in Server /\ \A t \in Servers \ {s} : server'[t] = server[t]
      /\ TypeOK'
  BY ServerStepType DEF TypeOK, ServerStep, Start, CheckExists, ZooCreate, Exit, Crash,
         RegisterHandler, SetServer
<1>p. PICK path : path = server[s].path
  OBVIOUS
\* A step that takes nothing away leaves the other servers' functions entered.
<1>others. ASSUME NEW t \in Servers \ {s}, UNCHANGED live, znodes \subseteq znodes',
                  gone' = gone, root # Nobody => root' # Nobody
           PROVE  Found(t)'
  <2>1. server'[t] = server[t] /\ (InSession(t)' => InSession(t))
    BY <1>1, <1>others DEF InSession
  <2>2. \A m \in server[t].registered : Exists(m) => Exists(m)'
    BY <1>others DEF Exists
  <2> QED
    BY <1>others, <2>1, <2>2 DEF Found, At
<1>2. CASE Start(s)
  <2>1. /\ UNCHANGED <<znodes, root>> /\ live' = live \cup {spent'["sessions"]}
        /\ gone' = {g \in gone : g[1] # s}
        /\ spent'["sessions"] = spent["sessions"] + 1 /\ spent["sessions"] \in Nat
    BY <1>2 DEF Start, Spend, TypeOK
  <2>2. /\ server'[s].registered = {} /\ server'[s].path = Root
        /\ server'[s].pc = "exists"
    <3>1. server'[s] = [Down EXCEPT !.pc = "exists", !.session = spent'["sessions"]]
      BY <1>2 DEF Start, SetServer, TypeOK
    <3> QED
      BY <3>1 DEF Down
  <2>3. Found(s)'
    BY <2>2 DEF Found, At
  <2>4. ASSUME NEW t \in Servers \ {s} PROVE Found(t)'
    <3>1. server'[t] = server[t] /\ server[t].session # spent'["sessions"]
      BY <1>1, <2>1, BoundAssumption DEF Fresh, TypeOK, Server
    <3>2. InSession(t)' => InSession(t)
      BY <2>1, <3>1 DEF InSession
    <3>3. \A m : /\ Exists(m)' = Exists(m)
                 /\ <<t, m>> \in gone => <<t, m>> \in gone'
      BY <2>1 DEF Exists
    <3> QED
      BY <2>1, <3>1, <3>2, <3>3 DEF Found, At
  <2> QED
    BY <2>3, <2>4
\* What is registered next is entered, if create() left it so.
<1>done. ASSUME server'[s] = Registered(server[s]), UNCHANGED live, gone' = gone,
                znodes \subseteq znodes', root # Nobody => root' # Nobody,
                InSession(s) => root' # Nobody /\ Exists(path)'
         PROVE  Found(s)'
  <2>1. SUFFICES ASSUME InSession(s)'
                 PROVE  /\ \A m \in server'[s].registered : Exists(m)' \/ <<s, m>> \in gone'
                        /\ root' # Nobody
    BY DEF Found
  <2>2. InSession(s)
    BY <1>1, <1>done, <2>1, RegisteredType DEF InSession
  <2>3. \A m \in server[s].registered : Exists(m) => Exists(m)'
    BY <1>done DEF Exists
  <2>4. server'[s].registered = server[s].registered \cup ({server[s].path} \ {Root})
    BY <1>1, <1>done, RegisteredType
  <2>5. Exists(path)' /\ \A m \in server'[s].registered : m \in server[s].registered \/ m = path
    BY <1>p, <1>done, <2>2, <2>4
  <2> QED
    BY <1>done, <2>2, <2>3, <2>5 DEF Found
<1>3. CASE CheckExists(s)
  <2>1. UNCHANGED <<root, znodes, live, gone>>
    BY <1>3 DEF CheckExists
  <2>2. CASE InSession(s) /\ ~Exists(path)
    <3>1. server' = [server EXCEPT ![s] = [server[s] EXCEPT !.pc = "create"]]
      BY <1>p, <1>3, <2>2 DEF CheckExists, SetServer
    <3>2. /\ server'[s].session = server[s].session /\ server'[s].path = server[s].path
          /\ server'[s].registered = server[s].registered /\ server'[s].pc = "create"
      BY <1>1, <3>1 DEF TypeOK, Server
    <3>3. \A m : Exists(m)' = Exists(m)
      BY <2>1 DEF Exists
    <3>4. Found(s)'
      BY <2>1, <3>2, <3>3 DEF Found, InSession, At
    <3> QED
      BY <2>1, <3>4, <1>others
  <2>3. CASE ~(InSession(s) /\ ~Exists(path))
    <3>1. server' = [server EXCEPT ![s] = Registered(server[s])]
      BY <1>p, <1>3, <2>3 DEF CheckExists, SetServer
    <3>2. server'[s] = Registered(server[s])
      BY <3>1 DEF TypeOK
    <3>3. InSession(s) => root # Nobody
      BY <1>p, <2>3 DEF Exists, Found
    <3>4. InSession(s) => Exists(path)'
      BY <2>1, <2>3 DEF Exists
    <3>5. Found(s)'
      BY <2>1, <3>2, <3>3, <3>4, <1>done
    <3> QED
      BY <2>1, <3>5, <1>others
  <2> QED
    BY <2>2, <2>3
<1>4. CASE ZooCreate(s)
  <2>1. /\ UNCHANGED <<live, gone>> /\ server'[s] = Registered(server[s])
    BY <1>4 DEF ZooCreate, SetServer, TypeOK
  <2>2. CASE ~AnswerOK(s, path)
    <3>1. UNCHANGED <<root, znodes>>
      BY <1>p, <1>4, <2>2 DEF ZooCreate
    <3>2. InSession(s) => root # Nobody /\ Exists(path)
      BY <1>p, <2>2 DEF AnswerOK, Exists, Found
    <3>3. InSession(s) => Exists(path)'
      BY <3>1, <3>2 DEF Exists
    <3> QED
      BY <2>1, <3>1, <3>2, <3>3, <1>done, <1>others
  <2>3. CASE AnswerOK(s, path) /\ path = Root
    <3>1. root' = s /\ UNCHANGED znodes /\ s # Nobody
      BY <1>p, <1>4, <2>3, NameAssumption DEF ZooCreate, Persistent
    <3>2. Exists(path)'
      BY <1>1, <2>3, <3>1 DEF Exists
    <3> QED
      BY <2>1, <3>1, <3>2, <1>done, <1>others
  <2>4. CASE AnswerOK(s, path) /\ path # Root
    <3>1. /\ znodes' = znodes \cup {[method |-> path, addr |-> s, session |-> server[s].session]}
          /\ UNCHANGED root
      BY <1>p, <1>4, <2>4 DEF ZooCreate, Ephemeral, Znodes
    <3>2. \E z \in znodes' : z.method = path
      <4> DEFINE new == [method |-> path, addr |-> s, session |-> server[s].session]
      <4>1. new.method = path /\ new \in {new}
        OBVIOUS
      <4>2. znodes' = znodes \cup {new}
        BY <3>1
      <4> HIDE DEF new
      <4> QED
        BY <4>1, <4>2
    <3>3. root # Nobody
      BY <2>4 DEF AnswerOK
    <3>4. Exists(path)'
      BY <2>4, <3>2 DEF Exists
    <3> QED
      BY <2>1, <3>1, <3>3, <3>4, <1>done, <1>others
  <2> QED
    BY <2>2, <2>3, <2>4
<1>5. CASE Exit(s) \/ Crash(s)
  <2>1. server'[s] = Down /\ ~InSession(s)'
    <3>1. server'[s] = Down
      BY <1>5 DEF Exit, Crash, SetServer, TypeOK
    <3>2. 0 \notin live'
      BY <1>1 DEF TypeOK, Sessions
    <3> QED
      BY <3>1, <3>2, DownType DEF InSession
  <2>2. CASE Exit(s)
    <3>1. server[s].session \in Nat
      BY <1>1, BoundAssumption DEF Server
    <3> QED
      BY <1>1, <2>1, <2>2, <3>1, EndSessionFound DEF Exit
  <2>3. CASE Crash(s)
    <3>1. UNCHANGED <<root, znodes, live, gone>>
      BY <2>3 DEF Crash
    <3> QED
      BY <2>1, <3>1, <1>others DEF Found
  <2> QED
    BY <1>5, <2>2, <2>3
<1>6. ASSUME NEW m \in Methods, RegisterHandler(s, m)
      PROVE  \A t \in Servers : Found(t)'
  <2>1. /\ server' = [server EXCEPT ![s] = [server[s] EXCEPT !.pc = "exists", !.path = m]]
        /\ At(s, "up") /\ UNCHANGED <<root, znodes, live, gone>>
    BY <1>6 DEF RegisterHandler, SetServer
  <2>2. /\ server'[s].session = server[s].session
        /\ server'[s].registered = server[s].registered
    BY <1>1, <2>1 DEF TypeOK, Server
  <2>3. \A k : Exists(k)' = Exists(k)
    BY <2>1 DEF Exists
  <2>4. Found(s)'
    BY <2>1, <2>2, <2>3 DEF Found, InSession
  <2> QED
    BY <2>1, <2>4, <1>others
<1> QED
  BY <1>2, <1>3, <1>4, <1>5, <1>6 DEF ServerStep

\* However several servers' requests interleave in create(), a server in its
\* session has its functions entered until the session that entered them ends.
THEOREM RegisteredEntered == Spec => []Entered
<1>1. Init => FoundInv
  BY DEF FoundInv, Init, Fresh, Found, InSession, Down
<1>2. TypeOK /\ FoundInv /\ [Next]_vars => FoundInv'
  <2> SUFFICES ASSUME TypeOK, Fresh, \A s \in Servers : Found(s), [Next]_vars
               PROVE  \A s \in Servers : Found(s)'
    BY FreshKept DEF FoundInv
  <2>1. ASSUME NEW n \in live, Expire(n) \/ Partition(n)
        PROVE  \A s \in Servers : Found(s)'
    <3>1. n \in Nat
      BY BoundAssumption DEF TypeOK, Sessions
    <3> QED
      BY <2>1, <3>1, EndSessionFound DEF Expire, Partition
  <2>2. ASSUME UNCHANGED <<root, znodes, live, server, gone>>
        PROVE  \A s \in Servers : Found(s)'
    BY <2>2 DEF Found, InSession, Exists, At
  <2>3. ASSUME NEW c \in Clients, Construct(c) \/ Connect(c)
        PROVE  \A s \in Servers : Found(s)'
    BY <2>2, <2>3 DEF Construct, Connect
  <2>4. CASE UNCHANGED vars
    BY <2>2, <2>4 DEF vars
  <2> QED
    BY <2>1, <2>3, <2>4, ServerFound, NextSteps
<1>3. FoundInv => Entered
  BY DEF FoundInv, Found, Entered
<1> QED
  BY <1>1, <1>2, <1>3, TypeCorrect, PTL DEF Spec

-----------------------------------------------------------------------------
(* The addresses of clients *)

\* A step of a client: it takes an answer or keeps the address it has.
LEMMA ClientAddress ==
    ASSUME TypeOK, NEW c \in Clients, Construct(c) \/ Connect(c)
    PROVE  /\ root' = root
           /\ \A d \in Clients \ {c} : client'[d] = client[d]
           /\ client'[c].addr \in {client[c].addr, root, Nobody}
<1>1. client[c] \in Client /\ client \in [Clients -> Client]
  BY DEF TypeOK
<1>2. CASE Construct(c)
  <2>1. PICK answer :
          /\ Lookup(answer)
          /\ client' = [client EXCEPT ![c] = [pc |-> "built", addr |-> answer,
                                              learned |-> answer]]
    BY <1>2 DEF Construct
  <2>2. client'[c].addr = answer
    BY <1>1, <2>1
  <2> QED
    BY <1>1, <1>2, <2>1, <2>2, LookupAnswer DEF Construct
<1>3. CASE Connect(c)
  <2>1. PICK answer :
          /\ Lookup(answer)
          /\ client' = [client EXCEPT ![c].addr = FirstAnswer(client[c], answer),
                                      ![c].pc = Outcome(FirstAnswer(client[c], answer))]
    BY <1>3 DEF Connect
  <2>2. client'[c].addr = FirstAnswer(client[c], answer)
    BY <1>1, <2>1 DEF Client
  <2> QED
    BY <1>1, <1>3, <2>1, <2>2, LookupAnswer DEF Connect, FirstAnswer
<1> QED
  BY <1>2, <1>3

\* Once the service is known every client that has an address has the same one,
\* whatever servers start, stop or crash afterwards.
THEOREM AddressesAgree == Spec => []SameAddress
<1>1. Init => SameAddress
  BY DEF Init, SameAddress, NewClient
<1>2. TypeOK /\ SameAddress /\ [Next]_vars => SameAddress'
  <2> SUFFICES ASSUME TypeOK, SameAddress, [Next]_vars PROVE SameAddress'
    OBVIOUS
  <2>1. ASSUME NEW s \in Servers, ServerStep(s) PROVE SameAddress'
    <3>1. client' = client /\ (root # Nobody => root' = root)
      BY <2>1 DEF ServerStep, Start, CheckExists, ZooCreate, Exit, Crash, RegisterHandler,
                  AnswerOK, Exists, Persistent, Ephemeral, Znodes
    <3> QED
      BY <3>1 DEF SameAddress
  <2>2. ASSUME NEW n \in live, Expire(n) \/ Partition(n) PROVE SameAddress'
    BY <2>2 DEF Expire, Partition, SameAddress
  <2>3. ASSUME NEW c \in Clients, Construct(c) \/ Connect(c) PROVE SameAddress'
    BY <2>3, ClientAddress DEF SameAddress
  <2>4. CASE UNCHANGED vars
    BY <2>4 DEF vars, SameAddress
  <2> QED
    BY <2>1, <2>2, <2>3, <2>4, NextSteps
<1> QED
  BY <1>1, <1>2, TypeCorrect, PTL DEF Spec

\* A client that was constructed with an address keeps it and never meets
\* connect()'s assertion, however many lookups fail.
THEOREM AddressStays == Spec => []AddressKept
<1>1. Init => AddressKept
  BY DEF Init, AddressKept, NewClient
<1>2. TypeOK /\ AddressKept /\ [Next]_vars => AddressKept'
  <2> SUFFICES ASSUME TypeOK, AddressKept, [Next]_vars PROVE AddressKept'
    OBVIOUS
  <2>1. ASSUME client' = client PROVE AddressKept'
    BY <2>1 DEF AddressKept
  <2>2. ASSUME NEW c \in Clients, Construct(c) PROVE AddressKept'
    BY <2>2 DEF Construct, AddressKept, TypeOK
  <2>3. ASSUME NEW c \in Clients, Connect(c) PROVE AddressKept'
    <3>1. client[c] \in Client
      BY DEF TypeOK
    <3> QED
      BY <2>3, <3>1 DEF Connect, AddressKept, FirstAnswer, Outcome, TypeOK, Client
  <2>4. ASSUME NEW s \in Servers, ServerStep(s) PROVE AddressKept'
    BY <2>1, <2>4 DEF ServerStep, Start, CheckExists, ZooCreate, Exit, Crash, RegisterHandler
  <2>5. ASSUME NEW n \in live, Expire(n) \/ Partition(n) PROVE AddressKept'
    BY <2>1, <2>5 DEF Expire, Partition
  <2>6. CASE UNCHANGED vars
    BY <2>1, <2>6 DEF vars
  <2> QED
    BY <2>2, <2>3, <2>4, <2>5, <2>6, NextSteps
<1> QED
  BY <1>1, <1>2, TypeCorrect, PTL DEF Spec

=============================================================================
