--------------------------- MODULE QueryProcessor ---------------------------
(***************************************************************************)
(* The pool of client threads that answer queries                          *)
(* (db/include/query_processor.hpp).  The modifier thread numbers the      *)
(* queries and enqueues them; every client takes queries until taking one  *)
(* fails and only then looks whether Stop has been called.  A query is its *)
(* number; what it asks and the answer are the backends' business.         *)
(*                                                                         *)
(* Taking one is dequeue of moodycamel's explicit producer, one access of  *)
(* a shared counter after the other.  It counts itself before it knows     *)
(* whether there is a query for it, and gives the count back if not:       *)
(* between the two another client may fail although there are queries.     *)
(* dequeueOptimisticCount and dequeueOvercommit are not kept themselves:   *)
(* only their difference is used, less the queries taken it is the number  *)
(* of clients that have counted themselves, and a client whose load of     *)
(* dequeueOvercommit is old is off by what was given back since.           *)
(***************************************************************************)
EXTENDS Integers, Sequences, SequencesExt, FiniteSets, FiniteSetTheorems, TLAPS

CONSTANTS Clients,   \* the client threads, num_threads_ of them
          NumQueries \* bound: the queries a workload holds at most

ClientsAssumption == IsFiniteSet(Clients)
NumQueriesAssumption == NumQueries \in Nat

VARIABLES main,        \* where the modifier thread is
          working,     \* working_
          num_queries, \* num_queries_, and tailIndex of the queue
          queries,     \* queries_: the numbers of the queries enqueued
          client,      \* client[c]: where client thread c is
          look,        \* look[c]: the locals of client c in dequeue, see below
          q,           \* q[c]: the query client c has dequeued last
          results      \* results_ of client c: the queries client c has answered

vars == <<main, working, num_queries, queries, client, look, q, results>>
modifierVars == <<main, working, num_queries>>

(* tail is what tailIndex was when it was loaded, back how often the others *)
(* gave back a count since dequeueOvercommit was loaded, and mine the       *)
(* client's myDequeueCount - overcommit.                                    *)
NoLook == [tail |-> 0, back |-> 0, mine |-> 0]

Init ==
  /\ main = "init"
  /\ working = FALSE
  /\ num_queries = 0
  /\ queries = <<>>
  /\ client = [c \in Clients |-> "none"]
  /\ look = [c \in Clients |-> NoLook]
  /\ q = [c \in Clients |-> 0]
  /\ results = [c \in Clients |-> <<>>]

(* Nothing is pushed before Start has created all of the threads. *)
Start ==
  /\ main = "init"
  /\ main' = "push"
  /\ working' = TRUE
  /\ client' = [c \in Clients |-> "check"]
  /\ UNCHANGED <<num_queries, queries, look, q, results>>

(* enqueue, which only fails when memory runs out. *)
Push ==
  /\ main = "push"
  /\ num_queries < NumQueries
  /\ num_queries' = num_queries + 1
  /\ queries' = Append(queries, num_queries')
  /\ UNCHANGED <<main, working, client, look, q, results>>

(* Close comes after the last transaction, however many queries there were. *)
Stop ==
  /\ main = "push"
  /\ main' = "join"
  /\ working' = FALSE
  /\ UNCHANGED <<num_queries, queries, client, look, q, results>>

Join ==
  /\ main = "join"
  /\ \A c \in Clients : client[c] = "exit"
  /\ main' = "stopped"
  /\ UNCHANGED <<working, num_queries, queries, client, look, q, results>>
-----------------------------------------------------------------------------
\* Client c is at one place and goes on to another.
Goes(c, from, to) == client[c] = from /\ client' = [client EXCEPT ![c] = to]

(* The condition of the outer loop. *)
CheckWorking(c) ==
  /\ Goes(c, "check", IF working THEN "tail" ELSE "exit")
  /\ UNCHANGED <<modifierVars, queries, look, q, results>>

\* headIndex: the queries that clients have claimed.
Taken == num_queries - Len(queries)
\* The clients that have counted themselves and neither claimed nor given back.
Counted == {c \in Clients : client[c] \in {"again", "claim", "back"}}
\* dequeueOptimisticCount, less the dequeueOvercommit that client c has loaded.
Ahead(c) == Taken + Cardinality(Counted) + look[c].back

LoadTail(c) ==
  /\ Goes(c, "tail", "over")
  /\ look' = [look EXCEPT ![c] = [NoLook EXCEPT !.tail = num_queries]]
  /\ UNCHANGED <<modifierVars, queries, q, results>>

LoadOvercommit(c) ==
  /\ Goes(c, "over", "test")
  /\ look' = [look EXCEPT ![c].back = 0]
  /\ UNCHANGED <<modifierVars, queries, q, results>>

(* The load of dequeueOptimisticCount.  When it is not below the tail       *)
(* there seems to be nothing, and dequeue returns false.                    *)
Test(c) ==
  /\ Goes(c, "test", IF Ahead(c) < look[c].tail THEN "count" ELSE "check")
  /\ look' = [look EXCEPT ![c] = IF Ahead(c) < @.tail THEN [@ EXCEPT !.tail = 0] ELSE NoLook]
  /\ UNCHANGED <<modifierVars, queries, q, results>>

(* fetch_add on dequeueOptimisticCount. *)
Count(c) ==
  /\ Goes(c, "count", "again")
  /\ look' = [look EXCEPT ![c] = [NoLook EXCEPT !.mine = Ahead(c)]]
  /\ UNCHANGED <<modifierVars, queries, q, results>>

(* The second load of tailIndex decides. *)
CheckAgain(c) ==
  /\ Goes(c, "again", IF look[c].mine < num_queries THEN "claim" ELSE "back")
  /\ look' = [look EXCEPT ![c] = NoLook]
  /\ UNCHANGED <<modifierVars, queries, q, results>>

(* fetch_add on dequeueOvercommit, and dequeue returns false. *)
GiveBack(c) ==
  /\ Goes(c, "back", "check")
  /\ look' = [d \in Clients |->
                IF client[d] \in {"test", "count"} THEN [look[d] EXCEPT !.back = @ + 1] ELSE look[d]]
  /\ UNCHANGED <<modifierVars, queries, q, results>>

(* fetch_add on headIndex: the query at that place is the client's. *)
Claim(c) ==
  /\ Goes(c, "claim", "process")
  /\ q' = [q EXCEPT ![c] = Head(queries)]
  /\ queries' = Tail(queries)
  /\ UNCHANGED <<modifierVars, look, results>>

\* Mutant: working_ is looked at after every query.
ProcessOne(c) ==
  /\ Goes(c, "process", "check")
  /\ results' = [results EXCEPT ![c] = Append(@, q[c])]
  /\ UNCHANGED <<modifierVars, queries, look, q>>

(* do_process_ returns, the result is kept, and the inner loop goes on. *)
Process(c) ==
  /\ Goes(c, "process", "tail")
  /\ results' = [results EXCEPT ![c] = Append(@, q[c])]
  /\ UNCHANGED <<modifierVars, queries, look, q>>

\* The steps of client c outside do_process_.
Loop(c) ==
  \/ CheckWorking(c)
  \/ LoadTail(c) \/ LoadOvercommit(c) \/ Test(c)
  \/ Count(c) \/ CheckAgain(c) \/ GiveBack(c) \/ Claim(c)

Client(c) == Loop(c) \/ Process(c)

Stopped == main = "stopped" /\ UNCHANGED vars

Next == Start \/ Push \/ Stop \/ Join \/ (\E c \in Clients : Client(c)) \/ Stopped

Spec == Init /\ [][Next]_vars

(* Every thread is run and do_process_ returns.  How many queries main     *)
(* pushes, and when it calls Stop, is open.                                *)
FairSpec ==
  /\ Spec
  /\ WF_vars(Start) /\ WF_vars(Join)
  /\ \A c \in Clients : WF_vars(Client(c))
-----------------------------------------------------------------------------
Looks == [tail : Nat, back : Nat, mine : Nat]
Places == {"none", "check", "tail", "over", "test", "count", "again", "claim", "back", "process", "exit"}

TypeOK ==
  /\ main \in {"init", "push", "join", "stopped"}
  /\ working \in BOOLEAN
  /\ num_queries \in 0..NumQueries
  /\ queries \in Seq(1..NumQueries)
  /\ client \in [Clients -> Places]
  /\ look \in [Clients -> Looks]
  /\ q \in [Clients -> 0..NumQueries]
  /\ results \in [Clients -> Seq(1..NumQueries)]

Answered == UNION {ToSet(results[c]) : c \in Clients}
\* The queries client c was given: those it has answered and the one it is at.
Has(c) == ToSet(results[c]) \cup (IF client[c] = "process" THEN {q[c]} ELSE {})

(* No query is lost or answered twice, whatever the clients race for: each *)
(* one pushed is in the queue, in the hands of one client, or answered.    *)
EachQueryOnce ==
  /\ 1..num_queries = ToSet(queries) \cup UNION {Has(c) : c \in Clients}
  /\ IsInjective(queries)
  /\ \A c \in Clients :
        /\ IsInjective(results[c]) /\ (client[c] = "process" => q[c] \notin ToSet(results[c]))
        /\ Has(c) \cap ToSet(queries) = {}
        /\ \A d \in Clients : c # d => Has(c) \cap Has(d) = {}

(* A client answers its queries in the order they were pushed. *)
ClientsInOrder ==
  \A c \in Clients : \A i, j \in 1..Len(results[c]) : i < j => results[c][i] < results[c][j]

(* There is a query for every client that dequeue has told so, however old *)
(* the counters were that each of them has read.                           *)
Claimers == {c \in Clients : client[c] = "claim"}
ClaimsBacked == Cardinality(Claimers) <= Len(queries)

(* Stop may leave queries unanswered: every client may be outside its      *)
(* inner loop, or inside with a try that it began before the query was     *)
(* pushed, or two of them may fail because of each other.  But a client    *)
(* that is still answering a query while all of the others are outside     *)
(* leaves nothing behind.                                                  *)
Alone(c) ==
  /\ main = "join" /\ client[c] = "process"
  /\ \A d \in Clients \ {c} : client[d] \in {"check", "exit"}
LeavesNothing(c) == client[c] = "exit" => queries = <<>>
LastAloneDrains == \A c \in Clients : [](Alone(c) => []LeavesNothing(c))

(* The queries that are pushed are answered unless Stop is called first,   *)
(* if clients do not give back their counts for ever (two of them that     *)
(* always count themselves together never get a query).                    *)
AnsweredOrStopped == working => 1..num_queries \subseteq Answered
Colliding == \E c \in Clients : client[c] = "back"
AnsweredUnlessStopped == <>[]~Colliding => []<>AnsweredOrStopped

(* Stop returns: every client sees that working_ is false. *)
StopReturns == []<>(main # "join")
-----------------------------------------------------------------------------
(* For any number of clients and queries. The queue of the one producer is  *)
(* a run of consecutive numbers, so a client is given the first number that *)
(* nobody has had. A claim is backed: whatever the tail T is going to be    *)
(* when the clients that have counted themselves look at it again, those it *)
(* lets through and those let through before find a query below T.          *)
QueueInv == Len(queries) <= num_queries /\ \A i \in 1..Len(queries) : queries[i] = Taken + i
GivenInv ==
  /\ 1..Taken = UNION {Has(c) : c \in Clients}
  /\ \A c, d \in Clients : c # d => Has(c) \cap Has(d) = {}
OrderInv ==
  /\ ClientsInOrder
  /\ \A c \in Clients : client[c] = "process" => \A i \in 1..Len(results[c]) : results[c][i] < q[c]
IdleInv == main = "init" => \A c \in Clients : client[c] = "none"
Undecided(T) == {c \in Clients : client[c] = "again" /\ look[c].mine < T}
BackedInv ==
  \A T \in Nat : T >= num_queries => Taken + Cardinality(Claimers) + Cardinality(Undecided(T)) <= T
GivenOnce == TypeOK /\ QueueInv /\ GivenInv /\ OrderInv /\ IdleInv
IInv == GivenOnce /\ BackedInv
QueriesAssumption == ClientsAssumption /\ NumQueriesAssumption

LEMMA GivenInit == ASSUME QueriesAssumption, Init PROVE GivenOnce
<1>0. <<>> \in Seq(1..NumQueries) /\ Len(queries) = 0 /\ NumQueries \in Nat
  BY DEF Init, QueriesAssumption, NumQueriesAssumption
<1>1. TypeOK
  <2>1. num_queries \in 0..NumQueries /\ q \in [Clients -> 0..NumQueries] BY <1>0 DEF Init
  <2>2. /\ results \in [Clients -> Seq(1..NumQueries)] /\ queries \in Seq(1..NumQueries)
        /\ client \in [Clients -> Places]
        /\ main \in {"init", "push", "join", "stopped"}
    BY <1>0 DEF Init, Places
  <2>3. NoLook \in Looks BY <1>0 DEF Looks, NoLook
  <2>4. working \in BOOLEAN /\ look \in [Clients -> Looks] BY <2>3 DEF Init
  <2> QED BY <2>1, <2>2, <2>4 DEF TypeOK
<1>2. QueueInv /\ Taken = 0
  <2>1. num_queries = 0 BY DEF Init
  <2> QED BY <1>0, <2>1 DEF QueueInv, Taken
<1>3. \A c \in Clients : Has(c) = {} BY DEF Init, Has, ToSet
<1>4. GivenInv BY <1>2, <1>3 DEF GivenInv
<1>5. OrderInv BY DEF Init, OrderInv, ClientsInOrder
<1>6. IdleInv BY DEF Init, IdleInv
<1> QED BY <1>1, <1>2, <1>4, <1>5, <1>6 DEF GivenOnce

\* A step that gives no query to a client.
LEMMA SameStep ==
  ASSUME GivenOnce, UNCHANGED <<q, results, queries, num_queries>>, TypeOK', IdleInv',
         \A c \in Clients : client[c] = "process" <=> client'[c] = "process"
  PROVE  GivenOnce'
<1>1. \A c \in Clients : Has(c)' = Has(c) BY DEF Has
<1>2. Taken' = Taken /\ QueueInv' BY DEF GivenOnce, QueueInv, Taken
<1>3. GivenInv' BY <1>1, <1>2 DEF GivenOnce, GivenInv
<1>4. OrderInv' BY DEF GivenOnce, OrderInv, ClientsInOrder
<1> QED BY <1>2, <1>3, <1>4 DEF GivenOnce

LEMMA PushStep == ASSUME QueriesAssumption, GivenOnce, Push PROVE GivenOnce'
<1> DEFINE n == Len(queries)
<1>1. /\ queries \in Seq(1..NumQueries) /\ num_queries \in Nat /\ NumQueries \in Nat /\ n \in Nat
      /\ num_queries < NumQueries /\ num_queries' = num_queries + 1
      /\ queries' = Append(queries, num_queries + 1)
  BY DEF GivenOnce, TypeOK, Push, QueriesAssumption, NumQueriesAssumption
<1>2. /\ Len(queries') = n + 1 /\ \A i \in 1..n : queries'[i] = queries[i]
      /\ queries'[n + 1] = num_queries + 1
      /\ queries' \in Seq(1..NumQueries)
  BY <1>1
<1>3. TypeOK' BY <1>1, <1>2 DEF GivenOnce, TypeOK, Push
<1>4. Taken' = Taken /\ Taken \in Int BY <1>1, <1>2 DEF Taken
<1>5. QueueInv'
  <2>1. \A i \in 1..n : queries[i] = Taken + i BY DEF GivenOnce, QueueInv
  <2>2. num_queries + 1 = Taken + (n + 1) BY <1>1 DEF Taken
  <2>3. \A i \in 1..n+1 : queries'[i] = Taken + i BY <1>1, <1>2, <2>1, <2>2
  <2>4. n <= num_queries BY DEF GivenOnce, QueueInv
  <2> QED BY <1>1, <1>2, <1>4, <2>3, <2>4 DEF QueueInv
<1>6. \A c \in Clients : Has(c)' = Has(c) BY DEF Has, Push
<1>7. GivenInv' BY <1>4, <1>6 DEF GivenOnce, GivenInv
<1>8. OrderInv' /\ IdleInv' BY DEF GivenOnce, OrderInv, ClientsInOrder, IdleInv, Push
<1> QED BY <1>3, <1>5, <1>7, <1>8 DEF GivenOnce

LEMMA ClaimStep ==
  ASSUME QueriesAssumption, GivenOnce, queries # <<>>, NEW c \in Clients, Claim(c)
  PROVE  GivenOnce'
<1> DEFINE n == Len(queries)  x == Taken + 1
<1>1. /\ queries \in Seq(1..NumQueries) /\ num_queries \in Nat /\ n \in Nat /\ n # 0 /\ n <= num_queries
      /\ \A i \in 1..n : queries[i] = Taken + i /\ queries[i] \in 1..NumQueries
      /\ Taken \in Nat
  <2>1. queries \in Seq(1..NumQueries) /\ num_queries \in 0..NumQueries /\ queries # <<>> /\ NumQueries \in Nat
    BY DEF GivenOnce, TypeOK, QueriesAssumption, NumQueriesAssumption
  <2>2. n \in Nat /\ n # 0 /\ \A i \in 1..n : queries[i] \in 1..NumQueries BY <2>1
  <2>3. n <= num_queries /\ \A i \in 1..n : queries[i] = Taken + i BY DEF GivenOnce, QueueInv
  <2> QED BY <2>1, <2>2, <2>3 DEF Taken
<1>2. /\ Head(queries) = x /\ queries' \in Seq(1..NumQueries) /\ Len(queries') = n - 1
      /\ \A i \in 1..n-1 : queries'[i] = queries[i+1]
  BY <1>1 DEF Claim, Goes, modifierVars
<1>3. Taken' = Taken + 1 BY <1>1, <1>2 DEF Taken, Claim, modifierVars
<1>4. QueueInv' BY <1>1, <1>2, <1>3 DEF QueueInv, Claim, modifierVars
<1>5. /\ q' = [q EXCEPT ![c] = x] /\ client' = [client EXCEPT ![c] = "process"] /\ results' = results
      /\ client[c] = "claim" /\ x \in 0..NumQueries /\ main' = main
  <2>1. 1 \in 1..n /\ NumQueries \in Nat BY <1>1 DEF QueriesAssumption, NumQueriesAssumption
  <2>2. x \in 1..NumQueries BY <1>1, <2>1
  <2>3. x \in 0..NumQueries BY <2>1, <2>2
  <2> HIDE DEF x
  <2> QED BY <1>2, <2>3 DEF Claim, Goes, modifierVars
<1> HIDE DEF x
<1>6. TypeOK' BY <1>2, <1>5 DEF GivenOnce, TypeOK, Places, Claim, modifierVars
<1>7. /\ q'[c] = x /\ client'[c] = "process"
      /\ \A d \in Clients : d # c => q'[d] = q[d] /\ client'[d] = client[d]
  BY <1>5 DEF GivenOnce, TypeOK
<1>8. Has(c)' = Has(c) \cup {x} /\ \A d \in Clients : d # c => Has(d)' = Has(d)
  BY <1>5, <1>7 DEF Has
<1>9. x \notin 1..Taken /\ 1..Taken' = (1..Taken) \cup {x} BY <1>1, <1>3 DEF x
<1>10. GivenInv'
  <2>1. 1..Taken = UNION {Has(d) : d \in Clients} /\ \A d, e \in Clients : d # e => Has(d) \cap Has(e) = {}
    BY DEF GivenOnce, GivenInv
  <2>2. \A d \in Clients : x \notin Has(d) BY <2>1, <1>9
  <2>3. (1..Taken)' = UNION {Has(d)' : d \in Clients}
    <3>1. (1..Taken)' = (1..Taken) \cup {x} BY <1>9
    <3> QED BY <1>8, <2>1, <3>1
  <2>4. \A d, e \in Clients : d # e => Has(d)' \cap Has(e)' = {} BY <1>8, <2>1, <2>2
  <2> QED BY <2>3, <2>4 DEF GivenInv
<1>11. OrderInv'
  <2>1. \A i \in 1..Len(results[c]) : results[c][i] < x
    <3>1. \A i \in 1..Len(results[c]) : results[c][i] \in Has(c)
      BY DEF Has, ToSet, GivenOnce, TypeOK
    <3>2. \A y \in Has(c) : y \in 1..Taken BY DEF GivenOnce, GivenInv
    <3> QED BY <1>1, <3>1, <3>2 DEF x
  <2> QED BY <1>5, <1>7, <2>1 DEF GivenOnce, OrderInv, ClientsInOrder
<1>12. IdleInv' BY <1>5 DEF GivenOnce, IdleInv
<1> QED BY <1>4, <1>6, <1>10, <1>11, <1>12 DEF GivenOnce

LEMMA ProcessStep == ASSUME QueriesAssumption, GivenOnce, NEW c \in Clients, Process(c) PROVE GivenOnce'
<1> DEFINE r == results[c]  k == Len(results[c])
<1>1. /\ r \in Seq(1..NumQueries) /\ k \in Nat /\ q[c] \in 0..NumQueries /\ NumQueries \in Nat
      /\ \A i \in 1..k : r[i] \in 1..NumQueries
  BY DEF GivenOnce, TypeOK, QueriesAssumption, NumQueriesAssumption
<1>2. /\ client[c] = "process" /\ results' = [results EXCEPT ![c] = Append(r, q[c])]
      /\ client' = [client EXCEPT ![c] = "tail"] /\ look' = look
      /\ q' = q /\ queries' = queries /\ num_queries' = num_queries /\ main' = main /\ working' = working
  BY DEF Process, Goes, modifierVars
<1>3. q[c] \in 1..NumQueries
  <2>1. q[c] \in Has(c) BY <1>2 DEF Has
  <2>2. q[c] \in 1..Taken BY <2>1 DEF GivenOnce, GivenInv
  <2>3. Taken <= num_queries /\ num_queries \in 0..NumQueries /\ Taken \in Int
    <3>1. queries \in Seq(1..NumQueries) /\ num_queries \in 0..NumQueries BY DEF GivenOnce, TypeOK
    <3>2. Len(queries) \in Nat BY <3>1
    <3> QED BY <3>1, <3>2, <1>1 DEF Taken
  <2> QED BY <1>1, <2>2, <2>3
<1>4. /\ results'[c] = Append(r, q[c]) /\ client'[c] = "tail"
      /\ \A d \in Clients : d # c => results'[d] = results[d] /\ client'[d] = client[d]
      /\ results' \in [Clients -> Seq(1..NumQueries)]
  BY <1>1, <1>2, <1>3 DEF GivenOnce, TypeOK
<1>5. /\ Len(results'[c]) = k + 1 /\ results'[c][k + 1] = q[c] /\ \A i \in 1..k : results'[c][i] = r[i]
  BY <1>1, <1>3, <1>4
<1>6. TypeOK'
  BY <1>2, <1>4 DEF GivenOnce, TypeOK, Places
<1>7. Taken' = Taken /\ QueueInv' BY <1>2 DEF GivenOnce, QueueInv, Taken
<1>8. \A d \in Clients : Has(d)' = Has(d)
  <2>1. \A d \in Clients : d # c => Has(d)' = Has(d) BY <1>2, <1>4 DEF Has
  <2>2. Has(c) = {r[i] : i \in 1..k} \cup {q[c]} BY <1>1, <1>2 DEF Has, ToSet
  <2>3. Has(c)' = {results'[c][i] : i \in 1..k+1}
    <3>1. results'[c] \in Seq(1..NumQueries) BY <1>4
    <3>2. DOMAIN (results'[c]) = 1..k+1 BY <1>5, <3>1
    <3> QED BY <1>4, <3>2 DEF Has, ToSet
  <2>4. {results'[c][i] : i \in 1..k+1} = {r[i] : i \in 1..k} \cup {q[c]}
    <3>1. \A i \in 1..k+1 : i = k + 1 \/ i \in 1..k BY <1>1
    <3>2. k + 1 \in 1..k+1 /\ \A i \in 1..k : i \in 1..k+1 BY <1>1
    <3> HIDE DEF k, r
    <3> QED BY <1>5, <3>1, <3>2
  <2> QED BY <2>1, <2>2, <2>3, <2>4
<1>9. GivenInv' BY <1>7, <1>8 DEF GivenOnce, GivenInv
<1>10. OrderInv'
  <2>1. \A i \in 1..k : r[i] < q[c] BY <1>2 DEF GivenOnce, OrderInv
  <2>2. \A i, j \in 1..k : i < j => r[i] < r[j] BY DEF GivenOnce, OrderInv, ClientsInOrder
  <2>3. \A i, j \in 1..k+1 : i < j => results'[c][i] < results'[c][j]
    <3> SUFFICES ASSUME NEW i \in 1..k+1, NEW j \in 1..k+1, i < j PROVE results'[c][i] < results'[c][j]
      OBVIOUS
    <3>1. i \in 1..k /\ (j \in 1..k \/ j = k + 1)
      <4>1. k \in Nat BY <1>1
      <4> HIDE DEF k
      <4> QED BY <4>1
    <3> HIDE DEF k, r
    <3> QED BY <1>5, <2>1, <2>2, <3>1
  <2>4. ClientsInOrder' BY <1>4, <1>5, <2>3 DEF GivenOnce, OrderInv, ClientsInOrder
  <2>5. \A d \in Clients : client'[d] = "process" => \A i \in 1..Len(results'[d]) : results'[d][i] < q'[d]
    BY <1>2, <1>4 DEF GivenOnce, OrderInv
  <2> QED BY <2>4, <2>5 DEF OrderInv
<1>11. IdleInv' BY <1>2, <1>4 DEF GivenOnce, IdleInv
<1> QED BY <1>6, <1>7, <1>9, <1>10, <1>11 DEF GivenOnce

\* Sets of clients are counted.
LEMMA ClientsCounted ==
  ASSUME QueriesAssumption, NEW S \in SUBSET Clients
  PROVE  IsFiniteSet(S) /\ Cardinality(S) \in Nat
<1>1. IsFiniteSet(Clients) BY DEF QueriesAssumption, ClientsAssumption
<1>2. IsFiniteSet(S) BY <1>1, FS_Subset
<1> QED BY <1>2, FS_CardinalityType

\* What the queue and the sets of clients count.
CountsTyped ==
  /\ Taken \in Nat /\ num_queries \in Nat /\ Len(queries) \in Nat /\ Taken + Len(queries) = num_queries
  /\ Cardinality(Claimers) \in Nat /\ Cardinality(Counted) \in Nat
  /\ \A T \in Nat : Cardinality(Undecided(T)) \in Nat

LEMMA Counts == ASSUME QueriesAssumption, GivenOnce PROVE CountsTyped
<1>1. queries \in Seq(1..NumQueries) /\ num_queries \in 0..NumQueries /\ NumQueries \in Nat
  BY DEF GivenOnce, TypeOK, QueriesAssumption, NumQueriesAssumption
<1>2. Len(queries) \in Nat /\ Len(queries) <= num_queries BY <1>1 DEF GivenOnce, QueueInv
<1>3. num_queries \in Nat /\ Taken \in Nat /\ Taken + Len(queries) = num_queries BY <1>1, <1>2 DEF Taken
<1>4. Claimers \in SUBSET Clients /\ Counted \in SUBSET Clients BY DEF Claimers, Counted
<1>5. \A T \in Nat : Undecided(T) \in SUBSET Clients BY DEF Undecided
<1> QED BY <1>2, <1>3, <1>4, <1>5, ClientsCounted DEF CountsTyped

LEMMA ClaimsFromBacked == ASSUME QueriesAssumption, IInv PROVE ClaimsBacked
<1>1. CountsTyped BY Counts DEF IInv
<1>2. Taken + Cardinality(Claimers) + Cardinality(Undecided(num_queries)) <= num_queries
  BY <1>1 DEF IInv, BackedInv, CountsTyped
<1> QED BY <1>1, <1>2 DEF CountsTyped, ClaimsBacked

\* A client that may claim finds a query.
LEMMA ClaimerHasQuery == ASSUME QueriesAssumption, IInv, NEW c \in Claimers PROVE queries # <<>>
<1>1. CountsTyped BY Counts DEF IInv
<1>2. Claimers \in SUBSET Clients BY DEF Claimers
<1>3. Cardinality(Claimers) # 0 BY <1>2, ClientsCounted, FS_EmptySet
<1>4. Cardinality(Claimers) <= Len(queries) BY ClaimsFromBacked DEF ClaimsBacked
<1>5. Len(queries) # 0 BY <1>1, <1>3, <1>4 DEF CountsTyped
<1> QED BY <1>5

\* The locals of dequeue keep their types.
LookTyped == look \in [Clients -> Looks]

\* A step of the loops that claims nothing: where a client goes and what it changes.
LEMMA LoopLooks ==
  ASSUME QueriesAssumption, GivenOnce, NEW c \in Clients, Loop(c), ~Claim(c)
  PROVE  /\ LookTyped' /\ UNCHANGED <<modifierVars, queries, q, results>>
         /\ \E to \in Places \ {"none", "process"} : client' = [client EXCEPT ![c] = to]
         /\ client[c] \notin {"none", "process"}
<1>1. look \in [Clients -> Looks] /\ num_queries \in 0..NumQueries /\ NumQueries \in Nat
  BY DEF GivenOnce, TypeOK, QueriesAssumption, NumQueriesAssumption
<1>2. CountsTyped BY Counts
<1>3. look[c].back \in Nat BY <1>1 DEF Looks
<1>4. Ahead(c) \in Nat
  <2>1. PICK t \in Nat, n \in Nat, b \in Nat : t = Taken /\ n = Cardinality(Counted) /\ b = look[c].back
    BY <1>2, <1>3 DEF CountsTyped
  <2>2. Ahead(c) = t + n + b BY <2>1 DEF Ahead
  <2> QED BY <2>1, <2>2
<1>5. NoLook \in Looks BY <1>1 DEF NoLook, Looks
<1>6. UNCHANGED <<modifierVars, queries, q, results>>
  BY DEF Loop, CheckWorking, LoadTail, LoadOvercommit, Test, Count, CheckAgain, GiveBack
<1>7. /\ \E to \in Places \ {"none", "process"} : client' = [client EXCEPT ![c] = to]
      /\ client[c] \notin {"none", "process"}
  BY DEF Loop, CheckWorking, LoadTail, LoadOvercommit, Test, Count, CheckAgain, GiveBack, Goes, Places
<1>8. LookTyped'
  <2>1. CASE CheckWorking(c) BY <1>1, <2>1 DEF CheckWorking, LookTyped
  <2>2. CASE LoadTail(c)
    <3>1. [NoLook EXCEPT !.tail = num_queries] \in Looks BY <1>1 DEF NoLook, Looks
    <3> QED BY <1>1, <2>2, <3>1 DEF LoadTail, LookTyped
  <2>3. CASE LoadOvercommit(c)
    <3>1. [look[c] EXCEPT !.back = 0] \in Looks BY <1>1 DEF Looks
    <3>2. look' = [look EXCEPT ![c] = [look[c] EXCEPT !.back = 0]] BY <2>3 DEF LoadOvercommit
    <3> QED BY <1>1, <3>1, <3>2 DEF LookTyped
  <2>4. CASE Test(c)
    <3> DEFINE x == IF Ahead(c) < look[c].tail THEN [look[c] EXCEPT !.tail = 0] ELSE NoLook
    <3>1. [look[c] EXCEPT !.tail = 0] \in Looks BY <1>1 DEF Looks
    <3>2. x \in Looks BY <1>5, <3>1
    <3>3. look' = [look EXCEPT ![c] = x] BY <2>4 DEF Test
    <3> HIDE DEF x
    <3> QED BY <1>1, <3>2, <3>3 DEF LookTyped
  <2>5. CASE Count(c)
    <3>1. [NoLook EXCEPT !.mine = Ahead(c)] \in Looks BY <1>1, <1>4 DEF NoLook, Looks
    <3> QED BY <1>1, <2>5, <3>1 DEF Count, LookTyped
  <2>6. CASE CheckAgain(c) BY <1>1, <1>5, <2>6 DEF CheckAgain, LookTyped
  <2>7. CASE GiveBack(c)
    <3>1. \A d \in Clients : [look[d] EXCEPT !.back = @ + 1] \in Looks /\ look[d] \in Looks
      BY <1>1 DEF Looks
    <3> QED BY <2>7, <3>1 DEF GiveBack, LookTyped
  <2> QED BY <2>1, <2>2, <2>3, <2>4, <2>5, <2>6, <2>7 DEF Loop
<1> QED BY <1>6, <1>7, <1>8

LEMMA GivenStep == ASSUME QueriesAssumption, IInv, [Next]_vars PROVE GivenOnce'
<1>0. GivenOnce BY DEF IInv
<1>1. TypeOK /\ IdleInv BY DEF IInv, GivenOnce
<1>2. CASE Start
  <2>1. TypeOK' /\ IdleInv' BY <1>1, <1>2 DEF Start, TypeOK, IdleInv, Places
  <2>2. \A c \in Clients : client[c] = "process" <=> client'[c] = "process" BY <1>1, <1>2 DEF Start, IdleInv
  <2> QED BY <1>0, <1>2, <2>1, <2>2, SameStep DEF Start
<1>3. CASE Stop
  <2>1. TypeOK' /\ IdleInv' BY <1>1, <1>3 DEF Stop, TypeOK, IdleInv
  <2> QED BY <1>0, <1>3, <2>1, SameStep DEF Stop
<1>4. CASE Join
  <2>1. TypeOK' /\ IdleInv' BY <1>1, <1>4 DEF Join, TypeOK, IdleInv
  <2> QED BY <1>0, <1>4, <2>1, SameStep DEF Join
<1>5. ASSUME NEW c \in Clients, Loop(c) PROVE GivenOnce'
  <2>1. CASE Claim(c)
    <3>1. c \in Claimers BY <2>1 DEF Claim, Goes, Claimers
    <3> QED BY <1>0, <2>1, <3>1, ClaimerHasQuery, ClaimStep
  <2>2. CASE ~Claim(c)
    <3>1. /\ LookTyped' /\ UNCHANGED <<modifierVars, queries, q, results>>
          /\ \E to \in Places \ {"none", "process"} : client' = [client EXCEPT ![c] = to]
          /\ client[c] \notin {"none", "process"}
      BY <1>0, <1>5, <2>2, LoopLooks
    <3>2. PICK to \in Places \ {"none", "process"} : client' = [client EXCEPT ![c] = to] BY <3>1
    <3>3. client \in [Clients -> Places] BY <1>1 DEF TypeOK
    <3>4. client' \in [Clients -> Places] BY <3>2, <3>3
    <3>5. TypeOK' BY <1>1, <3>1, <3>4 DEF TypeOK, LookTyped, modifierVars
    <3>6. main # "init" BY <1>1, <3>1 DEF IdleInv
    <3>7. IdleInv' BY <3>1, <3>6 DEF IdleInv, modifierVars
    <3>8. \A d \in Clients : client[d] = "process" <=> client'[d] = "process" BY <3>1, <3>2, <3>3
    <3> QED BY <1>0, <3>1, <3>5, <3>7, <3>8, SameStep DEF modifierVars
  <2> QED BY <2>1, <2>2
<1>6. CASE UNCHANGED vars \/ Stopped
  <2>1. UNCHANGED vars BY <1>6 DEF Stopped
  <2>2. TypeOK' /\ IdleInv' BY <1>1, <2>1 DEF vars, TypeOK, IdleInv
  <2> QED BY <1>0, <2>1, <2>2, SameStep DEF vars
<1>7. CASE Push BY <1>0, <1>7, PushStep
<1>8. ASSUME NEW c \in Clients, Process(c) PROVE GivenOnce' BY <1>0, <1>8, ProcessStep
<1> QED BY <1>2, <1>3, <1>4, <1>5, <1>6, <1>7, <1>8 DEF Next, Client

\* A step that lets no client through and counts none.
LEMMA BackedSame ==
  ASSUME QueriesAssumption, IInv, Taken' = Taken, num_queries' \in Nat, num_queries' >= num_queries,
         \A d \in Clients :
            /\ client'[d] = "claim" <=> client[d] = "claim"
            /\ client'[d] = "again" <=> client[d] = "again"
            /\ client[d] = "again" => look'[d].mine = look[d].mine
  PROVE  BackedInv'
<1>1. Claimers' = Claimers BY DEF Claimers
<1>2. \A T \in Nat : Undecided(T)' = Undecided(T) BY DEF Undecided
<1>3. num_queries \in Nat BY Counts DEF IInv, CountsTyped
<1> QED BY <1>1, <1>2, <1>3 DEF IInv, BackedInv

LEMMA BackedCount == ASSUME QueriesAssumption, IInv, NEW c \in Clients, Count(c) PROVE BackedInv'
<1>0. TypeOK /\ CountsTyped BY Counts DEF IInv, GivenOnce
<1>1. client \in [Clients -> Places] /\ look \in [Clients -> Looks] BY <1>0 DEF TypeOK
<1>2. /\ client[c] = "count" /\ client' = [client EXCEPT ![c] = "again"]
      /\ look' = [look EXCEPT ![c] = [NoLook EXCEPT !.mine = Ahead(c)]]
      /\ num_queries' = num_queries /\ Taken' = Taken
  BY DEF Count, Goes, modifierVars, Taken
<1>3. Claimers' = Claimers BY <1>1, <1>2 DEF Claimers
<1>4. look'[c].mine = Ahead(c) /\ \A d \in Clients : d # c => look'[d] = look[d]
  BY <1>1, <1>2 DEF NoLook
<1> SUFFICES ASSUME NEW T \in Nat, T >= num_queries
             PROVE  Taken + Cardinality(Claimers) + Cardinality(Undecided(T)') <= T
  BY <1>2, <1>3 DEF BackedInv
<1>5. PICK t \in Nat, n \in Nat, u \in Nat, k \in Nat, b \in Nat :
         /\ t = Taken /\ n = Cardinality(Claimers) /\ u = Cardinality(Undecided(T))
         /\ k = Cardinality(Counted) /\ b = look[c].back
  BY <1>0, <1>1 DEF CountsTyped, Looks
<1>6. t + n + u <= T BY <1>5 DEF IInv, BackedInv
<1>7. Ahead(c) = t + k + b BY <1>5 DEF Ahead
<1>8. CASE Ahead(c) < T
  <2>1. Undecided(T)' = Undecided(T) \cup {c} BY <1>1, <1>2, <1>4, <1>8 DEF Undecided
  <2>2. c \notin Undecided(T) BY <1>2 DEF Undecided
  <2>3. Cardinality(Undecided(T)') = u + 1
    <3>1. Undecided(T) \in SUBSET Clients BY DEF Undecided
    <3> QED BY <1>5, <2>1, <2>2, <3>1, ClientsCounted, FS_AddElement
  <2>4. n + u <= k
    <3>1. Claimers \cup Undecided(T) \in SUBSET Counted /\ Counted \in SUBSET Clients
      BY DEF Claimers, Undecided, Counted
    <3>2. Claimers \cap Undecided(T) = {} BY DEF Claimers, Undecided
    <3>3. IsFiniteSet(Claimers) /\ IsFiniteSet(Undecided(T)) /\ IsFiniteSet(Counted)
      BY <3>1, ClientsCounted
    <3>4. Cardinality(Claimers \cup Undecided(T)) = n + u
      <4>1. Cardinality(Claimers \cap Undecided(T)) = 0 BY <3>2, FS_EmptySet
      <4>2. Cardinality(Claimers \cup Undecided(T)) = n + u - Cardinality(Claimers \cap Undecided(T))
        BY <1>5, <3>3, FS_Union
      <4> QED BY <4>1, <4>2
    <3> QED BY <1>5, <3>1, <3>3, <3>4, FS_Subset
  <2>5. t + k + b < T BY <1>7, <1>8
  <2>6. t + n + (u + 1) <= T BY <2>4, <2>5
  <2> QED BY <1>5, <2>3, <2>6
<1>9. CASE ~(Ahead(c) < T)
  <2>1. Undecided(T)' = Undecided(T) BY <1>1, <1>2, <1>4, <1>9 DEF Undecided
  <2> QED BY <1>5, <1>6, <2>1
<1> QED BY <1>8, <1>9

LEMMA BackedAgain == ASSUME QueriesAssumption, IInv, NEW c \in Clients, CheckAgain(c) PROVE BackedInv'
<1> DEFINE to == IF look[c].mine < num_queries THEN "claim" ELSE "back"
<1>0. TypeOK /\ CountsTyped BY Counts DEF IInv, GivenOnce
<1>1. client \in [Clients -> Places] /\ look \in [Clients -> Looks] BY <1>0 DEF TypeOK
<1>2. /\ client[c] = "again" /\ client' = [client EXCEPT ![c] = to]
      /\ look' = [look EXCEPT ![c] = NoLook]
      /\ num_queries' = num_queries /\ Taken' = Taken
  BY DEF CheckAgain, Goes, modifierVars, Taken
<1>3. client'[c] = to /\ \A d \in Clients : d # c => client'[d] = client[d] /\ look'[d] = look[d]
  BY <1>1, <1>2
<1> SUFFICES ASSUME NEW T \in Nat, T >= num_queries
             PROVE  Taken + Cardinality(Claimers') + Cardinality(Undecided(T)') <= T
  BY <1>2 DEF BackedInv
<1>4. PICK t \in Nat, n \in Nat, u \in Nat, m \in Nat, s \in Nat :
         /\ t = Taken /\ n = Cardinality(Claimers) /\ u = Cardinality(Undecided(T))
         /\ m = num_queries /\ s = look[c].mine
  BY <1>0, <1>1 DEF CountsTyped, Looks
<1>5. t + n + u <= T BY <1>4 DEF IInv, BackedInv
<1>6. Claimers \in SUBSET Clients /\ Undecided(T) \in SUBSET Clients BY DEF Claimers, Undecided
<1>7. IsFiniteSet(Claimers) /\ IsFiniteSet(Undecided(T)) BY <1>6, ClientsCounted
<1>8. CASE s < m
  <2>1. to = "claim" BY <1>4, <1>8
  <2>2. Claimers' = Claimers \cup {c} BY <1>3, <2>1 DEF Claimers
  <2>3. c \notin Claimers BY <1>2 DEF Claimers
  <2>4. s < T BY <1>4, <1>8
  <2>5. Undecided(T)' = Undecided(T) \ {c} BY <1>3, <2>1 DEF Undecided
  <2>6. c \in Undecided(T) BY <1>2, <1>4, <2>4 DEF Undecided
  <2>7. Cardinality(Claimers') = n + 1 BY <1>4, <1>7, <2>2, <2>3, FS_AddElement
  <2>8. Cardinality(Undecided(T)') = u - 1 BY <1>4, <1>7, <2>5, <2>6, FS_RemoveElement
  <2>9. t + (n + 1) + (u - 1) <= T BY <1>5
  <2> QED BY <1>4, <2>7, <2>8, <2>9
<1>9. CASE ~(s < m)
  <2>1. to = "back" BY <1>4, <1>9
  <2>2. Claimers' = Claimers BY <1>2, <1>3, <2>1 DEF Claimers
  <2>3. Undecided(T)' = Undecided(T) \ {c} BY <1>3, <2>1 DEF Undecided
  <2>4. Cardinality(Undecided(T)') = IF c \in Undecided(T) THEN u - 1 ELSE u
    BY <1>4, <1>7, <2>3, FS_RemoveElement
  <2>5. t + n + (u - 1) <= T BY <1>5
  <2> QED BY <1>4, <1>5, <2>2, <2>4, <2>5
<1> QED BY <1>8, <1>9

LEMMA BackedClaim == ASSUME QueriesAssumption, IInv, NEW c \in Clients, Claim(c) PROVE BackedInv'
<1>0. TypeOK /\ CountsTyped BY Counts DEF IInv, GivenOnce
<1>1. client \in [Clients -> Places] BY <1>0 DEF TypeOK
<1>2. /\ client[c] = "claim" /\ client' = [client EXCEPT ![c] = "process"] /\ look' = look
      /\ num_queries' = num_queries /\ queries' = Tail(queries)
  BY DEF Claim, Goes, modifierVars
<1>3. c \in Claimers /\ Claimers' = Claimers \ {c} BY <1>1, <1>2 DEF Claimers
<1>4. \A T \in Nat : Undecided(T)' = Undecided(T) BY <1>1, <1>2 DEF Undecided
<1>5. Taken' = Taken + 1
  <2>1. queries # <<>> BY <1>3, ClaimerHasQuery
  <2>2. queries \in Seq(1..NumQueries) BY <1>0 DEF TypeOK
  <2>3. Len(queries') = Len(queries) - 1 BY <1>2, <2>1, <2>2
  <2>4. PICK m \in Nat, l \in Nat : m = num_queries /\ l = Len(queries) BY <1>0 DEF CountsTyped
  <2>5. Taken = m - l /\ Taken' = m - (l - 1) BY <1>2, <2>3, <2>4 DEF Taken
  <2> QED BY <2>4, <2>5
<1> SUFFICES ASSUME NEW T \in Nat, T >= num_queries
             PROVE  Taken' + Cardinality(Claimers') + Cardinality(Undecided(T)) <= T
  BY <1>2, <1>4 DEF BackedInv
<1>6. PICK t \in Nat, n \in Nat, u \in Nat :
         t = Taken /\ n = Cardinality(Claimers) /\ u = Cardinality(Undecided(T))
  BY <1>0 DEF CountsTyped
<1>7. t + n + u <= T BY <1>6 DEF IInv, BackedInv
<1>8. Cardinality(Claimers') = n - 1
  <2>1. Claimers \in SUBSET Clients BY DEF Claimers
  <2> QED BY <1>3, <1>6, <2>1, ClientsCounted, FS_RemoveElement
<1>9. (t + 1) + (n - 1) + u <= T BY <1>7
<1> QED BY <1>5, <1>6, <1>8, <1>9

LEMMA BackedInit == ASSUME QueriesAssumption, Init PROVE BackedInv
<1>1. queries = <<>> /\ num_queries = 0 /\ client = [c \in Clients |-> "none"] BY DEF Init
<1>2. Taken = 0
  <2>1. Taken = num_queries - Len(queries) BY DEF Taken
  <2>2. num_queries = 0 /\ Len(queries) = 0 BY <1>1
  <2>3. Taken = 0 - 0 BY <2>1, <2>2
  <2> QED BY <2>3
<1>3. Claimers = {} /\ \A T \in Nat : Undecided(T) = {} BY <1>1 DEF Claimers, Undecided
<1> QED BY <1>1, <1>2, <1>3, FS_EmptySet DEF BackedInv

LEMMA BackedStep == ASSUME QueriesAssumption, IInv, [Next]_vars PROVE BackedInv'
<1>1. TypeOK /\ IdleInv /\ CountsTyped BY Counts DEF IInv, GivenOnce
<1>2. client \in [Clients -> Places] /\ look \in [Clients -> Looks] BY <1>1 DEF TypeOK
<1>3. num_queries \in Nat /\ num_queries >= num_queries BY <1>1 DEF CountsTyped
<1>4. ASSUME UNCHANGED <<num_queries, queries, client, look>> PROVE BackedInv'
  BY <1>3, <1>4, BackedSame DEF Taken
<1>5. CASE Start
  <2>1. Taken' = Taken /\ num_queries' = num_queries /\ look' = look BY <1>5 DEF Start, Taken
  <2>2. \A d \in Clients : client[d] = "none" /\ client'[d] = "check" BY <1>1, <1>5 DEF Start, IdleInv
  <2> QED BY <1>3, <2>1, <2>2, BackedSame
<1>6. CASE Push
  <2>1. /\ num_queries' = num_queries + 1 /\ queries' = Append(queries, num_queries + 1)
        /\ client' = client /\ look' = look
    BY <1>6 DEF Push
  <2>2. queries \in Seq(1..NumQueries) BY <1>1 DEF TypeOK
  <2>3. Len(queries') = Len(queries) + 1 BY <2>1, <2>2
  <2>4. Taken' = Taken BY <1>1, <2>1, <2>3 DEF Taken, CountsTyped
  <2>5. num_queries' \in Nat /\ num_queries' >= num_queries BY <1>3, <2>1
  <2> QED BY <2>1, <2>4, <2>5, BackedSame
<1>7. CASE Stop BY <1>4, <1>7 DEF Stop
<1>8. CASE Join BY <1>4, <1>8 DEF Join
<1>9. CASE UNCHANGED vars \/ Stopped BY <1>4, <1>9 DEF Stopped, vars
<1>10. ASSUME NEW c \in Clients,
              \/ CheckWorking(c) \/ LoadTail(c) \/ LoadOvercommit(c) \/ Test(c)
              \/ GiveBack(c) \/ Process(c)
       PROVE  BackedInv'
  <2>1. Taken' = Taken /\ num_queries' = num_queries
    BY <1>10 DEF CheckWorking, LoadTail, LoadOvercommit, Test, GiveBack, Process, modifierVars, Taken
  <2>2. /\ client[c] \notin {"claim", "again"}
        /\ \E to \in Places \ {"claim", "again"} : client' = [client EXCEPT ![c] = to]
    BY <1>10 DEF CheckWorking, LoadTail, LoadOvercommit, Test, GiveBack, Process, Goes, Places
  <2>3. \A d \in Clients : client[d] = "again" => look'[d] = look[d]
    BY <1>2, <1>10, <2>2 DEF CheckWorking, LoadTail, LoadOvercommit, Test, GiveBack, Process
  <2>4. \A d \in Clients : /\ client'[d] = "claim" <=> client[d] = "claim"
                           /\ client'[d] = "again" <=> client[d] = "again"
    BY <1>2, <2>2
  <2> QED BY <1>3, <2>1, <2>3, <2>4, BackedSame
<1> QED BY <1>5, <1>6, <1>7, <1>8, <1>9, <1>10, BackedCount, BackedAgain, BackedClaim DEF Next, Client, Loop

LEMMA OnceFromGiven == ASSUME QueriesAssumption, GivenOnce PROVE EachQueryOnce
<1> DEFINE n == Len(queries)
<1>1. /\ queries \in Seq(1..NumQueries) /\ num_queries \in Nat /\ n \in Nat /\ n <= num_queries
      /\ \A i \in 1..n : queries[i] = Taken + i
      /\ Taken \in Nat /\ Taken + n = num_queries
  <2>1. queries \in Seq(1..NumQueries) /\ num_queries \in 0..NumQueries /\ NumQueries \in Nat
    BY DEF GivenOnce, TypeOK, QueriesAssumption, NumQueriesAssumption
  <2>2. n \in Nat BY <2>1
  <2>3. n <= num_queries /\ \A i \in 1..n : queries[i] = Taken + i BY DEF GivenOnce, QueueInv
  <2> QED BY <2>1, <2>2, <2>3 DEF Taken
<1>2. ToSet(queries) = Taken+1..num_queries
  <2>1. DOMAIN queries = 1..n BY <1>1
  <2>2. ToSet(queries) = {queries[i] : i \in 1..n} BY <2>1 DEF ToSet
  <2>3. \A x \in Taken+1..num_queries : x - Taken \in 1..n /\ queries[x - Taken] = x BY <1>1
  <2>4. \A i \in 1..n : queries[i] \in Taken+1..num_queries BY <1>1
  <2> QED BY <2>2, <2>3, <2>4
<1>3. IsInjective(queries)
  <2>1. \A i, j \in DOMAIN queries : queries[i] = queries[j] => i = j BY <1>1
  <2> QED BY <2>1 DEF IsInjective
<1>4. 1..Taken = UNION {Has(c) : c \in Clients} /\ \A c, d \in Clients : c # d => Has(c) \cap Has(d) = {}
  BY DEF GivenOnce, GivenInv
<1>5. 1..num_queries = (Taken+1..num_queries) \cup (1..Taken) /\ (1..Taken) \cap (Taken+1..num_queries) = {}
  BY <1>1
<1>6. \A c \in Clients : Has(c) \cap ToSet(queries) = {} BY <1>2, <1>4, <1>5
<1>7. ASSUME NEW c \in Clients
      PROVE  IsInjective(results[c]) /\ (client[c] = "process" => q[c] \notin ToSet(results[c]))
  <2>1. results[c] \in Seq(1..NumQueries) /\ NumQueries \in Nat
    BY DEF GivenOnce, TypeOK, QueriesAssumption, NumQueriesAssumption
  <2>2. DOMAIN (results[c]) = 1..Len(results[c]) /\ Len(results[c]) \in Nat
        /\ \A i \in 1..Len(results[c]) : results[c][i] \in Nat
    BY <2>1
  <2>3. \A i, j \in 1..Len(results[c]) : i < j => results[c][i] < results[c][j]
    BY DEF GivenOnce, OrderInv, ClientsInOrder
  <2>4. \A i, j \in DOMAIN (results[c]) : results[c][i] = results[c][j] => i = j
    BY <2>2, <2>3
  <2>5. client[c] = "process" => \A i \in 1..Len(results[c]) : results[c][i] < q[c] BY DEF GivenOnce, OrderInv
  <2>6. client[c] = "process" => q[c] \notin ToSet(results[c])
    BY <2>2, <2>5 DEF ToSet
  <2> QED BY <2>4, <2>6 DEF IsInjective
<1> QED BY <1>2, <1>3, <1>4, <1>5, <1>6, <1>7 DEF EachQueryOnce

(* Every query pushed is in exactly one place, a client answers its own in  *)
(* the order they were pushed, and a client that dequeue has told of a      *)
(* query finds one. *)
THEOREM QueriesOnce ==
  ASSUME QueriesAssumption
  PROVE  Spec => [](TypeOK /\ EachQueryOnce /\ ClientsInOrder /\ ClaimsBacked)
<1>1. Init => IInv BY GivenInit, BackedInit DEF IInv
<1>2. IInv /\ [Next]_vars => IInv' BY GivenStep, BackedStep DEF IInv
<1>3. IInv => TypeOK /\ EachQueryOnce /\ ClientsInOrder /\ ClaimsBacked
  BY OnceFromGiven, ClaimsFromBacked DEF IInv, GivenOnce, OrderInv
<1> QED BY <1>1, <1>2, <1>3, PTL DEF Spec

(* What a client that was alone in the inner loop after Stop keeps true: no *)
(* count is given back, so that what it reads of the counters is exact.     *)
StopInv == main # "push" => ~working
AloneInv(c) ==
  /\ main \in {"join", "stopped"}
  /\ \A d \in Clients \ {c} : client[d] \in {"check", "exit"}
  /\ \/ client[c] \in {"process", "tail", "claim"}
     \/ client[c] = "over" /\ look[c].tail = num_queries
     \/ client[c] = "test" /\ look[c].tail = num_queries /\ look[c].back = 0
     \/ client[c] = "count" /\ queries # <<>> /\ look[c].back = 0
     \/ client[c] = "again" /\ look[c].mine < num_queries
     \/ client[c] \in {"check", "exit"} /\ queries = <<>>

LEMMA StopInvStep == ASSUME StopInv, [Next]_vars PROVE StopInv'
<1>1. CASE \E c \in Clients : Client(c)
  <2>1. main' = main /\ working' = working
    BY <1>1 DEF Client, Loop, CheckWorking, LoadTail, LoadOvercommit, Test, Count, CheckAgain, GiveBack,
                Claim, Process, modifierVars
  <2> QED BY <2>1 DEF StopInv
<1> QED BY <1>1 DEF Next, Start, Push, Stop, Join, Stopped, vars, StopInv

LEMMA AloneClientStep ==
  ASSUME QueriesAssumption, IInv, StopInv, NEW c \in Clients, AloneInv(c), NEW d \in Clients, Client(d)
  PROVE  AloneInv(c)'
<1>0. TypeOK /\ CountsTyped BY Counts DEF IInv, GivenOnce
<1>1. client \in [Clients -> Places] /\ look \in [Clients -> Looks] BY <1>0 DEF TypeOK
<1>2. main \in {"join", "stopped"} /\ ~working BY DEF AloneInv, StopInv
<1>3. CASE d # c
  <2>1. client[d] = "check" /\ CheckWorking(d)
    BY <1>3 DEF AloneInv, Client, Loop, CheckWorking, LoadTail, LoadOvercommit, Test, Count, CheckAgain,
                GiveBack, Claim, Process, Goes
  <2>2. /\ client' = [client EXCEPT ![d] = "exit"] /\ look' = look /\ queries' = queries
        /\ num_queries' = num_queries /\ main' = main
    BY <1>2, <2>1 DEF CheckWorking, Goes, modifierVars
  <2>3. client'[c] = client[c] /\ \A e \in Clients \ {c} : client'[e] \in {"check", "exit"}
    BY <1>1, <1>3, <2>2 DEF AloneInv
  <2> QED BY <2>2, <2>3 DEF AloneInv
<1>4. CASE d = c
  <2>1. Client(c) BY <1>4
  <2>2. main' = main /\ num_queries' = num_queries
    BY <2>1 DEF Client, Loop, CheckWorking, LoadTail, LoadOvercommit, Test, Count, CheckAgain, GiveBack,
                Claim, Process, modifierVars
  <2>3. \A e \in Clients \ {c} : client'[e] = client[e]
    BY <1>1, <2>1 DEF Client, Loop, CheckWorking, LoadTail, LoadOvercommit, Test, Count, CheckAgain,
                      GiveBack, Claim, Process, Goes
  <2>4. main' \in {"join", "stopped"} /\ \A e \in Clients \ {c} : client'[e] \in {"check", "exit"}
    BY <1>2, <2>2, <2>3 DEF AloneInv
  <2>5. PICK n \in Nat, m \in Nat, t \in Nat : n = Len(queries) /\ m = num_queries /\ t = Taken /\ t + n = m
    BY <1>0 DEF CountsTyped
  <2>6. ASSUME Counted = {}, look[c].back = 0 PROVE Ahead(c) = t
    <3>1. Cardinality(Counted) = 0 BY <2>6, FS_EmptySet
    <3> QED BY <2>5, <2>6, <3>1 DEF Ahead
  <2>7. queries = <<>> <=> n = 0
    <3>1. queries \in Seq(1..NumQueries) BY <1>0 DEF TypeOK
    <3> QED BY <2>5, <3>1
  <2>8. client[c] \in {"test", "count"} => Counted = {} BY DEF AloneInv, Counted
  <2>9. \/ client'[c] \in {"process", "tail", "claim"}
        \/ client'[c] = "over" /\ look'[c].tail = num_queries'
        \/ client'[c] = "test" /\ look'[c].tail = num_queries' /\ look'[c].back = 0
        \/ client'[c] = "count" /\ queries' # <<>> /\ look'[c].back = 0
        \/ client'[c] = "again" /\ look'[c].mine < num_queries'
        \/ client'[c] \in {"check", "exit"} /\ queries' = <<>>
    <3>1. CASE CheckWorking(c)
      BY <1>1, <1>2, <3>1 DEF CheckWorking, Goes, AloneInv
    <3>2. CASE LoadTail(c)
      BY <1>1, <2>2, <3>2 DEF LoadTail, Goes, NoLook
    <3>3. CASE LoadOvercommit(c)
      <4>1. client[c] = "over" /\ client'[c] = "test" /\ look' = [look EXCEPT ![c] = [look[c] EXCEPT !.back = 0]]
        BY <1>1, <3>3 DEF LoadOvercommit, Goes
      <4>2. look[c].tail = num_queries /\ look[c] \in Looks BY <1>1, <4>1 DEF AloneInv
      <4>3. look'[c].tail = look[c].tail /\ look'[c].back = 0 BY <1>1, <4>1, <4>2 DEF Looks
      <4> QED BY <2>2, <4>1, <4>2, <4>3
    <3>4. CASE Test(c)
      <4>1. client[c] = "test" BY <3>4 DEF Test, Goes
      <4>2. look[c].tail = m /\ look[c].back = 0 /\ look[c] \in Looks BY <1>1, <2>5, <4>1 DEF AloneInv
      <4>3. Ahead(c) = t BY <2>6, <2>8, <4>1, <4>2
      <4>4. queries' = queries BY <3>4 DEF Test
      <4>5. CASE t < m
        <5>1. client'[c] = "count" /\ look'[c] = [look[c] EXCEPT !.tail = 0]
          BY <1>1, <3>4, <4>2, <4>3, <4>5 DEF Test, Goes
        <5>2. look'[c].back = 0 BY <4>2, <5>1 DEF Looks
        <5>3. queries # <<>> BY <2>5, <2>7, <4>5
        <5> QED BY <4>4, <5>1, <5>2, <5>3
      <4>6. CASE ~(t < m)
        <5>1. client'[c] = "check" BY <1>1, <3>4, <4>2, <4>3, <4>6 DEF Test, Goes
        <5>2. queries = <<>> BY <2>5, <2>7, <4>6
        <5> QED BY <4>4, <5>1, <5>2
      <4> QED BY <4>5, <4>6
    <3>5. CASE Count(c)
      <4>1. client[c] = "count" BY <3>5 DEF Count, Goes
      <4>2. queries # <<>> /\ look[c].back = 0 BY <4>1 DEF AloneInv
      <4>3. Ahead(c) = t /\ t < m BY <2>5, <2>6, <2>7, <2>8, <4>1, <4>2
      <4>4. client'[c] = "again" /\ look'[c].mine = Ahead(c) BY <1>1, <3>5 DEF Count, Goes, NoLook
      <4> QED BY <2>2, <2>5, <4>3, <4>4
    <3>6. CASE CheckAgain(c)
      BY <1>1, <3>6 DEF CheckAgain, Goes, AloneInv
    <3>7. CASE GiveBack(c) BY <3>7 DEF GiveBack, Goes, AloneInv
    <3>8. CASE Claim(c) BY <1>1, <3>8 DEF Claim, Goes
    <3>9. CASE Process(c) BY <1>1, <3>9 DEF Process, Goes
    <3> QED BY <2>1, <3>1, <3>2, <3>3, <3>4, <3>5, <3>6, <3>7, <3>8, <3>9 DEF Client, Loop
  <2> QED BY <2>4, <2>9 DEF AloneInv
<1> QED BY <1>3, <1>4

LEMMA AloneStep ==
  ASSUME QueriesAssumption, IInv, StopInv, NEW c \in Clients, AloneInv(c), [Next]_vars
  PROVE  AloneInv(c)'
<1>1. main \in {"join", "stopped"} BY DEF AloneInv
<1>2. CASE Join BY <1>1, <1>2 DEF Join, AloneInv
<1>3. CASE UNCHANGED vars \/ Stopped BY <1>3 DEF Stopped, vars, AloneInv
<1> QED BY <1>1, <1>2, <1>3, AloneClientStep DEF Next, Start, Push, Stop

(* A client that is still answering a query after Stop, alone in its inner  *)
(* loop, leaves nothing in the queue, for any number of clients that have   *)
(* left theirs before. *)
THEOREM LastAloneClientDrains == ASSUME QueriesAssumption PROVE Spec => LastAloneDrains
<1>1. Init => IInv /\ StopInv BY GivenInit, BackedInit DEF IInv, StopInv, Init
<1>2. IInv /\ StopInv /\ [Next]_vars => IInv' /\ StopInv'
  BY GivenStep, BackedStep, StopInvStep DEF IInv
<1>3. ASSUME NEW c \in Clients PROVE Spec => [](Alone(c) => []LeavesNothing(c))
  <2>1. IInv /\ StopInv /\ AloneInv(c) /\ [Next]_vars => AloneInv(c)' BY AloneStep
  <2>2. Alone(c) => AloneInv(c) BY DEF Alone, AloneInv
  <2>3. AloneInv(c) => LeavesNothing(c) BY DEF AloneInv, LeavesNothing
  <2> QED BY <1>1, <1>2, <2>1, <2>2, <2>3, PTL DEF Spec
<1> QED BY <1>3 DEF LastAloneDrains
=============================================================================
