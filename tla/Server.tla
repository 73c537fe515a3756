------------------------------- MODULE Server -------------------------------
(***************************************************************************)
(* lsmkv-server (server.rs, command.rs, main.rs): one task per connection  *)
(* that reads what has arrived, takes every whole request off it, runs     *)
(* them as one batch on a blocking thread and writes the replies.  Batches *)
(* of different connections interleave, one operation of the store at a    *)
(* time; the store itself is a map whose operations are atomic, which is   *)
(* what the modules Store and SkipList are about.                          *)
(***************************************************************************)
EXTENDS Resp, Functions

CONSTANTS
  Connections,  \* clients
  Scripts,      \* what a client may send: a set of sequences of cells
  Keys,         \* the keys the scripts name
  Chunks,       \* bound: the sizes a read may have, READ_CHUNK the largest
  MaxFailures   \* bound: failing operations of the store and dying batches

ASSUME ServerAssumption ==
  /\ {MaxArgs, MaxBulk, MaxInline} \cup Chunks \subseteq Nat \ {0}
  /\ MaxFailures \in Nat
  /\ \A s \in Scripts : Len(s) > 0

VARIABLES
  phase,     \* "serving", "stopping", "stopped"
  store,     \* the keys that are set, with their values
  stream,    \* everything a client sends
  wire,      \* the part of it the server has not read
  gone,      \* the client has hung up
  pc,        \* where a connection's task stands
  input,     \* read and not parsed
  batch,     \* commands taken and not yet run
  broken,    \* the stream broke the protocol
  closing,   \* the batch holds a QUIT
  task,      \* a DEL under way: the argument it is at, what it removed
  replies,   \* of the batch so far
  output,    \* what the client has received
  failures,  \* operations failed so far
  asked,     \* reference: what the stream holds, taken at once
  taken,     \* history: commands ever taken off the connection
  seen       \* history: what a DEL under way could have observed

clients == <<stream, asked, wire, gone>>
parsed == <<input, broken, closing, taken>>
vars == <<phase, store, clients, pc, parsed, batch, task, replies, output,
          failures, seen>>

\* take_batch: every whole request off the front, an empty one skipped, up to
\* the first that breaks the protocol.
TakeBatch(cells) ==
  LET take[at \in 0 .. Len(cells)] ==
        LET left == SubSeq(cells, at + 1, Len(cells))
            request == Parse(left)
        IN  CASE request.tag = "incomplete" ->
                   [commands |-> << >>, left |-> left, error |-> FALSE]
              [] request.tag = "error" ->
                   [commands |-> << >>, left |-> left, error |-> TRUE]
              [] request.tag = "empty" -> take[at + request.used]
              [] request.tag = "command" ->
                   [take[at + request.used]
                      EXCEPT !.commands = <<request.command>> \o @]
  IN  take[0]

NoTask == [at |-> 0, removed |-> 0, found |-> FALSE]
NotSeen == [present |-> {}, absent |-> {}, touched |-> {}]

Init ==
  /\ phase = "serving" /\ store = << >>
  /\ stream \in [Connections -> Scripts] /\ wire = stream
  /\ asked = [c \in Connections |-> TakeBatch(stream[c])]
  /\ gone = [c \in Connections |-> FALSE]
  /\ pc = [c \in Connections |-> "connecting"]
  /\ input = [c \in Connections |-> << >>]
  /\ batch = [c \in Connections |-> << >>]
  /\ broken = [c \in Connections |-> FALSE]
  /\ closing = [c \in Connections |-> FALSE]
  /\ task = [c \in Connections |-> NoTask]
  /\ replies = [c \in Connections |-> << >>]
  /\ output = [c \in Connections |-> << >>]
  /\ failures = 0
  /\ taken = [c \in Connections |-> << >>]
  /\ seen = [c \in Connections |-> NotSeen]

Goto(c, at) == pc' = [pc EXCEPT ![c] = at]

----------------------------------------------------------------------------
(* Commands that are answered without the store, and refusals *)

Ok == Simple(<<"OK">>)
Arity(name) == Error(<<"ERR wrong number of arguments">> \o name)
Failed == Error(<<"ERR the store failed">>)
Text(word) == BulkReply(<<word>>)

Ping(args) ==
  CASE Len(args) = 0 -> Simple(<<"PONG">>)
    [] Len(args) = 1 -> BulkReply(args[1])
    [] OTHER -> Arity(<<"ping">>)

Config(args) ==
  IF args # << >> /\ args[1] \in {<<"GET">>, <<"get">>} THEN Array(<< >>)
  ELSE Error(<<"ERR only CONFIG GET is supported">>)

\* One field of each shape.
Hello(args) ==
  IF args # << >> /\ args[1] # <<"2">> THEN Error(<<"NOPROTO">>)
  ELSE Array(<<Text("proto"), IntegerReply(2), Text("modules"), Array(<< >>)>>)

Select(args) ==
  CASE args = << >> -> Arity(<<"select">>)
    [] args # << >> /\ args[1] = <<"0">> -> Ok
    [] OTHER -> Error(<<"ERR DB index is out of range">>)

\* GET, SET and DEL get here with the wrong number of arguments only.
Answer(command) ==
  LET name == command.name
      args == command.args
  IN  CASE name = <<"PING">> -> Ping(args)
        [] name = <<"GET">> -> Arity(<<"get">>)
        [] name = <<"SET">> -> IF Len(args) > 2 THEN Error(<<"ERR syntax error">>)
                               ELSE Arity(<<"set">>)
        [] name = <<"DEL">> -> Arity(<<"del">>)
        [] name = <<"COMMAND">> -> Array(<< >>)
        [] name = <<"CONFIG">> -> Config(args)
        [] name = <<"HELLO">> -> Hello(args)
        [] name = <<"INFO">> -> Text("info")
        [] name = <<"SELECT">> -> Select(args)
        [] name = <<"QUIT">> -> Ok
        [] OTHER -> Error(<<"ERR unknown command">> \o name)

\* A command that goes to the store.
Runs(command, name) ==
  /\ command.name = <<name>>
  /\ CASE name = "GET" -> Len(command.args) = 1
       [] name = "SET" -> Len(command.args) = 2
       [] name = "DEL" -> Len(command.args) > 0
Stored(command) == \E name \in {"GET", "SET", "DEL"} : Runs(command, name)

----------------------------------------------------------------------------
(* The connection's task *)

Accept(c) ==
  /\ phase = "serving" /\ pc[c] = "connecting"
  /\ Goto(c, "reading")
  /\ UNCHANGED <<phase, store, clients, parsed, batch, task, replies, output,
                 failures, seen>>

\* One read, of whatever has arrived, and the batch it completes.
Read(c) ==
  /\ phase = "serving" /\ pc[c] = "reading"
  /\ wire[c] # << >>
  /\ \E n \in {Min({size, Len(wire[c])}) : size \in Chunks} :
       \E got \in {TakeBatch(input[c] \o SubSeq(wire[c], 1, n))} :
           /\ wire' = [wire EXCEPT ![c] = SubSeq(@, n + 1, Len(@))]
           /\ input' = [input EXCEPT ![c] = got.left]
           /\ batch' = [batch EXCEPT ![c] = got.commands]
           /\ broken' = [broken EXCEPT ![c] = got.error]
           /\ closing' = [closing EXCEPT ![c] =
                \E i \in DOMAIN got.commands : got.commands[i].name = <<"QUIT">>]
           /\ taken' = [taken EXCEPT ![c] = @ \o got.commands]
           /\ Goto(c, IF got.commands # << >> THEN "running"
                      ELSE IF got.error THEN "replying" ELSE "reading")
  /\ UNCHANGED <<phase, store, stream, asked, gone, task, replies, output, failures,
                 seen>>

\* A read of nothing: the client is gone, with what it had not finished sending.
ReadEnds(c) ==
  /\ phase = "serving" /\ pc[c] = "reading" /\ gone[c] /\ wire[c] = << >>
  /\ Goto(c, "closed")
  /\ UNCHANGED <<phase, store, clients, parsed, batch, task, replies, output,
                 failures, seen>>

----------------------------------------------------------------------------
(* run_batch, on a blocking thread: one operation of the store per step *)

At(c, name) == pc[c] = "running" /\ batch[c] # << >> /\ Runs(batch[c][1], name)
Argument(c, i) == batch[c][1].args[i]

\* The command at the head of the batch is answered.
Answers(c, reply) ==
  /\ replies' = [replies EXCEPT ![c] = Append(@, reply)]
  /\ batch' = [batch EXCEPT ![c] = Tail(@)]
  /\ task' = [task EXCEPT ![c] = NoTask]

\* The store becomes what it was, but for key; the DELs under way notice.
Becomes(c, key, after) ==
  /\ store' = after
  /\ seen' = [d \in Connections |->
       [seen[d] EXCEPT
         !.absent = @ \cup (Keys \ DOMAIN after),
         !.touched = IF d = c THEN @ ELSE @ \cup {key}]]

Plain(c) ==
  /\ pc[c] = "running" /\ batch[c] # << >> /\ ~Stored(batch[c][1])
  /\ Answers(c, Answer(batch[c][1]))
  /\ UNCHANGED <<phase, store, clients, pc, parsed, output, failures, seen>>

Get(c) ==
  /\ At(c, "GET")
  /\ LET key == Argument(c, 1)
     IN  Answers(c, IF key \in DOMAIN store THEN BulkReply(store[key]) ELSE Nil)
  /\ UNCHANGED <<phase, store, clients, pc, parsed, output, failures, seen>>

Set(c) ==
  /\ At(c, "SET")
  /\ LET key == Argument(c, 1)
     IN  Becomes(c, key, (key :> Argument(c, 2)) @@ store)
  /\ Answers(c, Ok)
  /\ UNCHANGED <<phase, clients, pc, parsed, output, failures>>

DelCall(c) ==
  /\ At(c, "DEL") /\ task[c] = NoTask
  /\ task' = [task EXCEPT ![c].at = 1]
  /\ seen' = [seen EXCEPT ![c] =
       [present |-> DOMAIN store, absent |-> Keys \ DOMAIN store,
        touched |-> {}]]
  /\ UNCHANGED <<phase, store, clients, pc, parsed, batch, replies, output,
                 failures>>

Looking(c) == At(c, "DEL") /\ task[c].at \in DOMAIN batch[c][1].args
                /\ ~task[c].found

\* Mutant: a missing key ends the command.
DelLooksOnce(c) ==
  /\ Looking(c)
  /\ task' = [task EXCEPT ![c] =
       IF Argument(c, @.at) \in DOMAIN store
       THEN [@ EXCEPT !.removed = @ + 1, !.found = TRUE]
       ELSE [@ EXCEPT !.at = Len(batch[c][1].args) + 1]]
  /\ UNCHANGED <<phase, store, clients, pc, parsed, batch, replies, output,
                 failures, seen>>

\* Each key is looked up first; one that is not there is not deleted.
DelLooks(c) ==
  /\ Looking(c)
  /\ task' = [task EXCEPT ![c] =
       IF Argument(c, @.at) \in DOMAIN store
       THEN [@ EXCEPT !.removed = @ + 1, !.found = TRUE]
       ELSE [@ EXCEPT !.at = @ + 1]]
  /\ UNCHANGED <<phase, store, clients, pc, parsed, batch, replies, output,
                 failures, seen>>

DelRemoves(c) ==
  /\ At(c, "DEL") /\ task[c].found
  /\ LET key == Argument(c, task[c].at)
     IN  Becomes(c, key, Restrict(store, DOMAIN store \ {key}))
  /\ task' = [task EXCEPT ![c] = [@ EXCEPT !.at = @ + 1, !.found = FALSE]]
  /\ UNCHANGED <<phase, clients, pc, parsed, batch, replies, output, failures>>

DelDone(c) == At(c, "DEL") /\ task[c].at > Len(batch[c][1].args)

DelEnds(c) ==
  /\ DelDone(c)
  /\ Answers(c, IntegerReply(task[c].removed))
  /\ UNCHANGED <<phase, store, clients, pc, parsed, output, failures, seen>>

\* What the operation the command is at would leave behind.
Effect(c) ==
  CASE At(c, "SET") -> (Argument(c, 1) :> Argument(c, 2)) @@ store
    [] At(c, "DEL") /\ task[c].found ->
         Restrict(store, DOMAIN store \ {Argument(c, task[c].at)})
    [] OTHER -> store

\* An operation of the store fails: the command is answered with the error and
\* the batch goes on.  A write that failed may have been made all the same.
StoreFails(c) ==
  /\ At(c, "GET") \/ At(c, "SET") \/ (At(c, "DEL") /\ task[c] # NoTask /\ ~DelDone(c))
  /\ failures < MaxFailures
  /\ failures' = failures + 1
  /\ \E after \in {store, Effect(c)} :
       Becomes(c, Argument(c, Max({1, task[c].at})), after)
  /\ Answers(c, Failed)
  /\ UNCHANGED <<phase, clients, pc, parsed, output>>

\* A panic ends the batch: its replies are lost and the connection with them.
BatchDies(c) ==
  /\ pc[c] = "running" /\ batch[c] # << >> /\ failures < MaxFailures
  /\ failures' = failures + 1
  /\ batch' = [batch EXCEPT ![c] = << >>]
  /\ replies' = [replies EXCEPT ![c] = << >>]
  /\ task' = [task EXCEPT ![c] = NoTask]
  /\ Goto(c, "closed")
  /\ UNCHANGED <<phase, store, clients, parsed, output, seen>>

\* The batch is over; a connection that was dropped meanwhile has no use for it.
BatchEnds(c) ==
  /\ pc[c] = "running" /\ batch[c] = << >>
  /\ Goto(c, IF phase = "serving" THEN "replying" ELSE "closed")
  /\ UNCHANGED <<phase, store, clients, parsed, batch, task, replies, output,
                 failures, seen>>

\* Mutant: the error of a broken stream goes out ahead of the batch's replies.
WrittenErrorFirst(c) ==
  (IF broken[c] THEN Encode(Error(<<"Protocol error">>)) ELSE << >>)
    \o FlattenSeq([i \in DOMAIN replies[c] |-> Encode(replies[c][i])])

Written(c) ==
  FlattenSeq([i \in DOMAIN replies[c] |-> Encode(replies[c][i])])
    \o (IF broken[c] THEN Encode(Error(<<"Protocol error">>)) ELSE << >>)

\* Every reply of the batch, then the protocol error; a write to a client that
\* has hung up fails.
Reply(c) ==
  /\ phase = "serving" /\ pc[c] = "replying"
  /\ output' = [output EXCEPT ![c] = IF gone[c] THEN @ ELSE @ \o Written(c)]
  /\ replies' = [replies EXCEPT ![c] = << >>]
  /\ Goto(c, IF gone[c] \/ closing[c] \/ broken[c] THEN "closed" ELSE "reading")
  /\ UNCHANGED <<phase, store, clients, parsed, batch, task, failures, seen>>

----------------------------------------------------------------------------
(* Clients and shutdown *)

\* The client goes away; what the server has not read is lost.
HangUp(c) ==
  /\ ~gone[c] /\ pc[c] # "closed"
  /\ gone' = [gone EXCEPT ![c] = TRUE]
  /\ wire' = [wire EXCEPT ![c] = << >>]
  /\ UNCHANGED <<phase, store, stream, asked, pc, parsed, batch, task, replies, output,
                 failures, seen>>

\* ctrl-c: the runtime is dropped, and every task with it that is not waiting
\* for a batch.  A batch under way is not interrupted.
CtrlC ==
  /\ phase = "serving"
  /\ phase' = "stopping"
  /\ pc' = [c \in Connections |->
              IF pc[c] = "running" THEN "running" ELSE "closed"]
  /\ UNCHANGED <<store, clients, parsed, batch, task, replies, output, failures,
                 seen>>

\* The last drop of the engine, once no batch holds it.
EngineDropped ==
  /\ phase = "stopping"
  /\ \A c \in Connections : pc[c] # "running"
  /\ phase' = "stopped"
  /\ UNCHANGED <<store, clients, pc, parsed, batch, task, replies, output,
                 failures, seen>>

----------------------------------------------------------------------------
Serve(c) ==
  \/ Accept(c) \/ Read(c) \/ ReadEnds(c) \/ Reply(c)
  \/ Plain(c) \/ Get(c) \/ Set(c) \/ DelCall(c) \/ DelLooks(c) \/ DelRemoves(c)
  \/ DelEnds(c) \/ StoreFails(c) \/ BatchDies(c) \/ BatchEnds(c)

Next ==
  \/ \E c \in Connections : Serve(c) \/ HangUp(c)
  \/ CtrlC \/ EngineDropped

Spec == Init /\ [][Next]_vars

----------------------------------------------------------------------------
(* Properties *)

\* However the stream is cut into reads, the commands taken off it are the ones
\* it holds, in order; a connection that has read everything has taken them all,
\* and one that gives up on a broken stream has taken all that came before the
\* break and nothing after it.  (No inline request of the scripts is too big.)
InStep ==
  \A c \in Connections :
    /\ IsPrefix(taken[c], asked[c].commands)
    /\ pc[c] = "reading" /\ wire[c] = << >> /\ ~gone[c] =>
         taken[c] = asked[c].commands
    /\ broken[c] => asked[c].error /\ taken[c] = asked[c].commands

\* Could this be the answer to that command?
Fits(command, reply) ==
  CASE Runs(command, "GET") -> reply.tag \in {"bulk", "nil"} \/ reply = Failed
    [] Runs(command, "SET") -> reply \in {Ok, Failed}
    [] Runs(command, "DEL") -> reply.tag = "integer" \/ reply = Failed
    [] OTHER -> reply = Answer(command)

\* A client that reads its replies back finds one for each of its commands, of
\* the right kind and in their order, whatever bytes the values hold; a
\* connection that reads on has answered everything it took, and a protocol
\* error is told last.  (An unknown name is echoed in its error as it came; no
\* name in the scripts holds a line end.)
AnswersFit ==
  \A c \in Connections :
    LET got == DecodeAll(output[c])
        answered == Min({Len(got), Len(taken[c])})
    IN  /\ \A i \in 1 .. answered : Fits(taken[c][i], got[i])
        /\ Len(got) <= Len(taken[c]) + (IF broken[c] THEN 1 ELSE 0)
        /\ pc[c] = "reading" => Len(got) = Len(taken[c])

\* A DEL that answers has made its delete: each of its keys was absent at some
\* moment of the call.  Its count is exact unless another connection wrote one
\* of its keys meanwhile.
DelHolds ==
  \A c \in Connections : DelDone(c) =>
    LET keys == Range(batch[c][1].args)
    IN  /\ keys \subseteq seen[c].absent
        /\ keys \cap seen[c].touched = {} =>
             task[c].removed = Cardinality(keys \cap seen[c].present)
=============================================================================
