------------------------------- MODULE Driver -------------------------------
(***************************************************************************)
(* The benchmark's driver (main.cpp) on the file the generator has left:   *)
(* it reads the words by the numbers at the head of the file, loads the    *)
(* records into a backend and issues the transactions one by one.  Words   *)
(* beyond the end of the file are whatever the memory held.                *)
(***************************************************************************)
EXTENDS Ycsbc

CONSTANTS DriverLines, \* bound: the command lines, <<method, workload, options>>
          Cores        \* std::thread::hardware_concurrency()

CoresAssumption == Cores \in Nat \ {0}

VARIABLES driver,  \* what the driver does next
          opts,    \* [dbname, num_threads, num_clients, batch_size]
          loaded,  \* the records given to Init of the backend
          txs,     \* the transactions read
          issued,  \* the calls of the backend so far: <<call, arguments>>
          at       \* the loop's i

driverVars == <<driver, opts, loaded, txs, issued, at>>
allVars == <<vars, driverVars>>

(* ParseCommandLine: the last setting of an option counts, and a batch is   *)
(* never empty. *)
BatchSize(b) == IF b = 0 THEN 1 ELSE b
Options(line) ==
  LET parse[i \in 0 .. Len(line[3])] ==
        IF i = 0
        THEN [dbname |-> line[1], num_threads |-> Cores, num_clients |-> 1, batch_size |-> 1000]
        ELSE LET o == line[3][i] IN
             CASE o[1] = "-threads" -> [parse[i - 1] EXCEPT !.num_threads = o[2]]
               [] o[1] = "-clients" -> [parse[i - 1] EXCEPT !.num_clients = o[2]]
               [] o[1] = "-batchsize" -> [parse[i - 1] EXCEPT !.batch_size = BatchSize(o[2])]
  IN  parse[Len(line[3])]
Hint(line) == Len(line) # 3 \/ \E i \in DOMAIN line[3] :
  Len(line[3][i]) # 2 \/ line[3][i][1] \notin {"-threads", "-clients", "-batchsize"}

DriverInit ==
  /\ Init
  /\ driver = "start" /\ opts = <<>> /\ loaded = <<>> /\ txs = <<>> /\ issued = <<>> /\ at = 0

(* main up to the backend: a name that is none of the three exits. *)
Start ==
  /\ driver = "start" /\ main = "finished"
  /\ \E line \in DriverLines :
       IF Hint(line) THEN driver' = "exit" /\ UNCHANGED opts
       ELSE /\ opts' = Options(line)
            /\ driver' = IF line[1] \in {"sequential", "contreap", "pam"} THEN "read" ELSE "exit"
  /\ UNCHANGED <<vars, loaded, txs, issued, at>>

(* Word j of the file, or what new left in the memory behind it. *)
Word(j, junk) == IF j <= Len(fs) THEN fs[j] ELSE junk
Records(n, junk) == [j \in 1 .. n |-> Word(2 + j, junk)]
(* The transactions after the n records. *)
Transactions(n, m, junk) ==
  [j \in 1 .. m |-> LET w == 2 + n + 3 * (j - 1)
                    IN <<Word(w + 1, junk), Word(w + 2, junk), Word(w + 3, junk)>>]
Read ==
  /\ driver = "read"
  /\ \E junk \in 0 .. 3 :
       /\ loaded' = Records(Word(1, junk), junk)
       /\ txs' = Transactions(Word(1, junk), Word(2, junk), junk)
  /\ driver' = "init"
  /\ UNCHANGED <<vars, opts, issued, at>>

DbInitCall ==
  /\ driver = "init"
  /\ driver' = "issue" /\ at' = 1
  /\ UNCHANGED <<vars, opts, loaded, txs, issued>>
(* The call of a transaction; a type that is none of the three is logged and *)
(* left out. *)
Call(t) ==
  CASE t[1] = OP_QUERY -> <<<<"Query", t[2], t[3]>>>>
    [] t[1] = OP_INSERT -> <<<<"Insert", t[2]>>>>
    [] t[1] = OP_DELETE -> <<<<"Delete", t[2]>>>>
    [] OTHER -> <<>>
Issue ==
  /\ driver = "issue" /\ at <= Len(txs)
  /\ issued' = issued \o Call(txs[at]) /\ at' = at + 1
  /\ UNCHANGED <<vars, driver, opts, loaded, txs>>
Close ==
  /\ driver = "issue" /\ at = Len(txs) + 1
  /\ driver' = "closed"
  /\ UNCHANGED <<vars, opts, loaded, txs, issued, at>>

DriverStep == Start \/ Read \/ DbInitCall \/ Issue \/ Close
DriverEnded ==
  /\ driver \in {"exit", "closed"} \/ main \in {"abort", "exit", "uncaught"}
  /\ UNCHANGED allVars
DriverNext == (main # "finished" /\ Next /\ UNCHANGED driverVars) \/ DriverStep \/ DriverEnded
DriverSpec == DriverInit /\ [][DriverNext]_allVars
-----------------------------------------------------------------------------
(* What the backends rely on (the ASSUMEs of their modules): a batch size    *)
(* above zero, and as many transactions issued at Close as Init was told of, *)
(* for which the scheduler's threads wait. *)
BackendRequirements ==
  /\ driver \in {"init", "issue", "closed"} => opts.batch_size > 0
  /\ driver = "closed" => Len(issued) = Len(txs)

(* The backend sees what the generator's clients did: their records and      *)
(* their transactions in order, through the file and its two conversions. *)
IssuedIsGenerated ==
  driver = "closed" =>
    /\ issued = FlattenSeq([j \in 1 .. Len(ops) |-> Call(ops[j])])
    /\ loaded = [j \in 1 .. props.recordcount |->
                   str2key_(BuildKeyName(props, Get(props, "insertstart") + j - 1))]
=============================================================================
