------------------------------- MODULE Ycsbc --------------------------------
(***************************************************************************)
(* The workload generator (ycsbc.cc): client threads draw operations from  *)
(* the shared CoreWorkload and call the shared Export database, which      *)
(* writes the workload file: two words for the numbers of records and      *)
(* transactions, a word for each record, three for each transaction.       *)
(* Export aborts when two clients are open at a time, so a client's        *)
(* operation is one action; what the clients can do is come one after the  *)
(* other.                                                                  *)
(*                                                                         *)
(* First the core workload (ycsbc/core): the properties a workload is      *)
(* configured by, the generators it draws from, and what it may draw. A    *)
(* generator is the set of the values its Next may return: random draws    *)
(* are choices. Proportions count as zero or not. Unsigned numbers wrap at *)
(* Width. A key's name is "user" and a number; str2key_ reads the number   *)
(* back, whatever zeros pad it.                                            *)
(***************************************************************************)
EXTENDS Integers, TLC, Sequences, SequencesExt, FiniteSetsExt

CONSTANTS Width,  \* bound: 2^64, the unsigned numbers
          FNVHash64 \* utils::FNVHash64

WidthAssumption == Width \in Nat \ {0}
FNVHash64Assumption == FNVHash64 \in [0 .. Width - 1 -> 0 .. Width - 1]

(* Properties: names with values; a later setting of a name wins. *)
GetProperty(p, name, default_value) == IF name \in DOMAIN p THEN p[name] ELSE default_value
SetProperty(p, name, value) == (name :> value) @@ p
Load(p, spec) == spec @@ p

Defaults ==
  [readproportion |-> 95, updateproportion |-> 5, insertproportion |-> 0, scanproportion |-> 0,
   readmodifywriteproportion |-> 0, requestdistribution |-> "uniform", maxscanlength |-> 1000,
   scanlengthdistribution |-> "uniform", insertorder |-> "hashed", insertstart |-> 0]
Get(p, name) == GetProperty(p, name, Defaults[name])
-----------------------------------------------------------------------------
(* The generators. *)
\* Both ends are inclusive.
UniformGenerator(min, max) == min .. max

CounterNext(counter) == (counter + 1) % Width
CounterLast(counter) == (counter - 1) % Width

\* The two most frequent draws are 0 and 1 and not counted from base_.
ZipfianGenerator(base_, num) == {0, 1} \cup base_ .. base_ + num - 1
ScrambledZipfianGenerator(num_items) ==
  {FNVHash64[v] % num_items : v \in ZipfianGenerator(0, num_items)}
SkewedLatestGenerator(basis) ==
  LET max == CounterLast(basis) IN {max - z : z \in ZipfianGenerator(0, max)}

\* DiscreteGenerator: the operations with a weight.
op_chooser_(p) ==
  {op \in {"READ", "UPDATE", "INSERT", "SCAN", "READMODIFYWRITE"} :
     Get(p, CASE op = "READ" -> "readproportion" [] op = "UPDATE" -> "updateproportion"
              [] op = "INSERT" -> "insertproportion" [] op = "SCAN" -> "scanproportion"
              [] op = "READMODIFYWRITE" -> "readmodifywriteproportion") > 0}
-----------------------------------------------------------------------------
(* CoreWorkload::Init throws for a distribution it does not know. *)
Known(p) == /\ Get(p, "requestdistribution") \in {"uniform", "zipfian", "latest"}
            /\ Get(p, "scanlengthdistribution") \in {"uniform", "zipfian"}

\* insert_key_sequence_ is set to recordcount, and nobody moves it.
insert_key_sequence_(p) == p.recordcount

\* twice the inserts that are expected, all of them here
new_keys(p) == IF Get(p, "insertproportion") > 0 THEN 2 * p.operationcount ELSE 0
key_chooser_(p) ==
  CASE Get(p, "requestdistribution") = "uniform" -> UniformGenerator(0, p.recordcount - 1)
    [] Get(p, "requestdistribution") = "zipfian" -> ScrambledZipfianGenerator(p.recordcount + new_keys(p))
    [] Get(p, "requestdistribution") = "latest" -> SkewedLatestGenerator(insert_key_sequence_(p))
scan_len_chooser_(p) ==
  IF Get(p, "scanlengthdistribution") = "uniform"
  THEN UniformGenerator(1, Get(p, "maxscanlength")) ELSE ZipfianGenerator(1, Get(p, "maxscanlength"))

BuildKeyName(p, key_num) ==
  <<"user", IF Get(p, "insertorder") = "hashed" THEN FNVHash64[key_num] ELSE key_num>>

\* NextTransactionKey draws again until the key is not above the last one
\* (mutant: one above it).
InsertedBug(p, key_num) == key_num <= CounterLast(insert_key_sequence_(p)) + 1
Inserted(p, key_num) == key_num <= CounterLast(insert_key_sequence_(p))
NextTransactionKey(p) == {BuildKeyName(p, k) : k \in {c \in key_chooser_(p) : Inserted(p, c)}}
-----------------------------------------------------------------------------
CONSTANTS CommandLines, \* bound: the command lines, sequences of <<option, argument>>
          Specs         \* the property files by name

OP_QUERY == 0
OP_INSERT == 1
OP_DELETE == 2

VARIABLES main,    \* what main is doing
          props,   \* the properties
          fs,      \* fs_, the words written
          running, \* running_
          inited,  \* inited_
          key_generator, \* key_generator_, the next sequence number
          client,  \* the client threads of this phase: [pc, left]
          lens,    \* history: the scan lengths drawn
          ops      \* history: the transactions of the clients, as <<type, key, key>>

vars == <<main, props, fs, running, inited, key_generator, client, lens, ops>>
db == <<fs, running, inited>>

(* ParseCommandLine: options with their arguments. No option, an unknown one *)
(* or one without argument shows the usage and exits; Load throws for a file *)
(* that is not there, which only a handler for strings would catch. *)
Usage(args) ==
  args = <<>> \/ \E i \in DOMAIN args : Len(args[i]) # 2 \/ args[i][1] \notin {"-threads", "-db", "-P"}
Missing(args) == \E i \in DOMAIN args : args[i][1] = "-P" /\ args[i][2] \notin DOMAIN Specs
ParseCommandLine(args) ==
  LET parse[i \in 0 .. Len(args)] ==
        IF i = 0 THEN <<>>
        ELSE LET p == parse[i - 1]
                 opt == args[i][1]
                 arg == args[i][2] IN
             CASE opt = "-threads" -> SetProperty(p, "threadcount", arg)
               [] opt = "-db" -> SetProperty(p, "dbname", arg)
               [] opt = "-P" -> SetProperty(Load(p, Specs[arg]), "filename", arg)
  IN  parse[Len(args)]

Init ==
  /\ \E args \in CommandLines :
       IF Usage(args) THEN main = "exit" /\ props = <<>>
       ELSE IF Missing(args) THEN main = "uncaught" /\ props = <<>>
       ELSE main = "create" /\ props = ParseCommandLine(args)
  /\ fs = <<>> /\ running = FALSE /\ inited = FALSE
  /\ key_generator = 0 /\ client = <<>> /\ lens = {} /\ ops = <<>>

num_threads == GetProperty(props, "threadcount", 1)
total_ops(phase) == IF phase = "load" THEN props.recordcount ELSE props.operationcount
StartClients(phase) == [i \in 1 .. num_threads |-> [pc |-> "init", left |-> total_ops(phase) \div num_threads]]

(* main up to the first clients: the database by its name, the workload. *)
CreateDB ==
  /\ main = "create"
  /\ IF "dbname" \notin DOMAIN props THEN main' = "uncaught" /\ UNCHANGED <<key_generator, client>>
     ELSE IF props.dbname # "export" THEN main' = "exit" /\ UNCHANGED <<key_generator, client>>
     ELSE IF ~Known(props) THEN main' = "uncaught" /\ UNCHANGED <<key_generator, client>>
     ELSE /\ main' = "load" /\ client' = StartClients("load")
          /\ key_generator' = Get(props, "insertstart")
  /\ UNCHANGED <<props, db, lens, ops>>
(* All futures are got: the transactions follow the records. *)
Joined == main \in {"load", "run"} /\ \A i \in DOMAIN client : client[i].pc = "done"
JoinLoad ==
  /\ main = "load" /\ Joined
  /\ main' = "run" /\ client' = StartClients("run")
  /\ UNCHANGED <<props, db, key_generator, lens, ops>>
JoinRun ==
  /\ main = "run" /\ Joined
  /\ main' = "finished"
  /\ UNCHANGED <<props, db, key_generator, client, lens, ops>>

-----------------------------------------------------------------------------
(* Export. *)
str2key_(name) == name[2]
Tx(type, l, r) == <<type, l, r>>

(* Init, the first call of a client. *)
DbInit(i) ==
  /\ client[i].pc = "init" /\ main \in {"load", "run"}
  /\ IF running THEN main' = "abort" /\ UNCHANGED <<client, db>>
     ELSE /\ running' = TRUE /\ client' = [client EXCEPT ![i].pc = "open"]
          /\ fs' = IF inited THEN fs ELSE fs \o <<props.recordcount, props.operationcount>>
          /\ UNCHANGED <<main, inited>>
  /\ UNCHANGED <<props, key_generator, lens, ops>>
\* Close, the last call.
DbClose(i) ==
  /\ client[i].pc = "open" /\ client[i].left = 0
  /\ running' = FALSE /\ inited' = TRUE /\ client' = [client EXCEPT ![i].pc = "done"]
  /\ UNCHANGED <<main, props, fs, key_generator, lens, ops>>

(* What a call of the database writes; before the load has ended only an *)
(* insert may come, and writes its key. *)
DbInsert(k) == IF inited THEN Tx(OP_INSERT, k, k) ELSE <<k>>
DbUpdate(k) == IF GetProperty(props, "updatedelete", FALSE) THEN Tx(OP_DELETE, k, k) ELSE Tx(OP_INSERT, k, k)
DbRead(k) == Tx(OP_QUERY, k, k)
\* A scan of len keys; a length of 0 is taken for 1.
DbScan(l, len) == Tx(OP_QUERY, l, l + (IF len > 0 THEN len - 1 ELSE 0))

\* An operation of client i that writes the words w and counts as the transaction t.
Operate(i, w, t) ==
  /\ fs' = fs \o w /\ ops' = ops \o t
  /\ client' = [client EXCEPT ![i].left = @ - 1]
  /\ UNCHANGED <<main, props, running, inited>>
Open(i, phase) == main = phase /\ client[i].pc = "open" /\ client[i].left > 0

\* NextSequenceKey, of the load and of the inserts (mutant: its number is not advanced).
SequenceKey == str2key_(BuildKeyName(props, key_generator))
Advance == key_generator' = CounterNext(key_generator)
(* DelegateClient's loop: DoInsert while loading ... *)
DoInsert(i) ==
  /\ Open(i, "load") /\ Advance
  /\ Operate(i, DbInsert(SequenceKey), <<>>) /\ UNCHANGED lens
(* ... and DoTransaction, by the operation drawn. *)
DoTransaction(i, op) == Open(i, "run") /\ op \in op_chooser_(props)
TransactionInsert(i) ==
  /\ DoTransaction(i, "INSERT") /\ Advance
  /\ Operate(i, DbInsert(SequenceKey), <<Tx(OP_INSERT, SequenceKey, SequenceKey)>>) /\ UNCHANGED lens
TransactionRead(i) ==
  /\ DoTransaction(i, "READ")
  /\ \E name \in NextTransactionKey(props) :
       Operate(i, DbRead(str2key_(name)), <<DbRead(str2key_(name))>>)
  /\ UNCHANGED <<key_generator, lens>>
TransactionUpdate(i) ==
  /\ DoTransaction(i, "UPDATE")
  /\ \E name \in NextTransactionKey(props) :
       Operate(i, DbUpdate(str2key_(name)), <<DbUpdate(str2key_(name))>>)
  /\ UNCHANGED <<key_generator, lens>>
TransactionReadModifyWrite(i) ==
  /\ DoTransaction(i, "READMODIFYWRITE")
  /\ \E name \in NextTransactionKey(props) :
       Operate(i, DbRead(str2key_(name)) \o DbUpdate(str2key_(name)), <<DbUpdate(str2key_(name))>>)
  /\ UNCHANGED <<key_generator, lens>>
TransactionScan(i) ==
  /\ DoTransaction(i, "SCAN")
  /\ \E name \in NextTransactionKey(props), len \in scan_len_chooser_(props) :
       /\ Operate(i, DbScan(str2key_(name), len), <<DbScan(str2key_(name), len)>>)
       /\ lens' = lens \cup {len}
  /\ UNCHANGED key_generator

Client(i) ==
  \/ DbInit(i) \/ DbClose(i) \/ DoInsert(i) \/ TransactionInsert(i) \/ TransactionRead(i)
  \/ TransactionUpdate(i) \/ TransactionReadModifyWrite(i) \/ TransactionScan(i)
Main == CreateDB \/ JoinLoad \/ JoinRun
Ended == main \in {"finished", "abort", "exit", "uncaught"} /\ UNCHANGED vars
Next == Main \/ (\E i \in DOMAIN client : main \in {"load", "run"} /\ Client(i)) \/ Ended

Spec == Init /\ [][Next]_vars
(* Threads run; a client goes on with its operations. *)
FairSpec == Spec /\ WF_vars(Main \/ \E i \in DOMAIN client : main \in {"load", "run"} /\ Client(i))
-----------------------------------------------------------------------------
TypeOK ==
  /\ main \in {"create", "load", "run", "finished", "abort", "exit", "uncaught"}
  /\ \A j \in DOMAIN fs : fs[j] \in 0 .. 2 * Width
  /\ running \in BOOLEAN /\ inited \in BOOLEAN
  /\ key_generator \in 0 .. Width - 1
  /\ \A i \in DOMAIN client : client[i].pc \in {"init", "open", "done"} /\ client[i].left \in Nat

(* A generator that has finished has left a file whose numbers of records   *)
(* and transactions are those at its head: the readers of the file take the *)
(* words after the head by these numbers alone (main.cpp). *)
FileWellFormed ==
  main = "finished" =>
    /\ fs[1] = props.recordcount /\ fs[2] = props.operationcount
    /\ Len(fs) = 2 + fs[1] + 3 * fs[2]
    /\ SubSeq(fs, 3 + fs[1], Len(fs)) = FlattenSeq(ops)

(* "If the generator picks a key that is not inserted yet, we just ignore it *)
(* and pick another key": a query, update or scan starts at a key that was   *)
(* loaded or inserted before it. *)
KeysExist ==
  \A j \in DOMAIN ops :
    ops[j][1] # OP_INSERT =>
      \/ ops[j][2] \in {fs[x] : x \in 3 .. 2 + props.recordcount}
      \/ \E h \in 1 .. j - 1 : ops[h][1] = OP_INSERT /\ ops[h][2] = ops[j][2]

(* With ordered keys, the records and the inserts of the workload are all of *)
(* different keys, over both phases. *)
SequenceFresh ==
  main \in {"load", "run", "finished"} /\ Get(props, "insertorder") = "ordered" /\ "UPDATE" \notin op_chooser_(props) =>
    LET keys == (IF Len(fs) < 2 THEN <<>>
                 ELSE SubSeq(fs, 3, IF main = "load" THEN Len(fs) ELSE 2 + props.recordcount))
                \o [j \in 1 .. Len(SelectSeq(ops, LAMBDA t : t[1] = OP_INSERT)) |->
                      SelectSeq(ops, LAMBDA t : t[1] = OP_INSERT)[j][2]]
    IN  IsInjective(keys)

(* Export's stream and flags have no lock around an operation: no two        *)
(* clients are between Init and Close at a time, the second one aborts. *)
OneClientOpen ==
  \A i, j \in DOMAIN client : client[i].pc = "open" /\ client[j].pc = "open" => i = j

(* A scan asks for at least one record and at most maxscanlength of them. *)
ScanLengths == main \in {"run", "finished"} => lens \subseteq 1 .. Get(props, "maxscanlength")

(* The generator ends, whatever it draws. *)
Ends == <>(main \in {"finished", "abort", "exit", "uncaught"})
=============================================================================
