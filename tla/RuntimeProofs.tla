---- MODULE RuntimeProofs ----
(***************************************************************************)
(* Theorems about the two ends of the Whisper process, each for every      *)
(* value of its constants: which answer a caller gets (ProcessRunner) and  *)
(* what is in the lines (BridgeLines).                                     *)
(*                                                                         *)
(* Runners: what is on its way between caller and child is one of a few    *)
(* shapes (Exchange), and whoever waits waits for its own request.         *)
(*                                                                         *)
(* Lines: an exchange is what it is made of, so the work is in two facts   *)
(* about the parser.  The function that reads a line exists, and each of   *)
(* its readings ends further on in the line (ReadingExists, ReadIsFine):   *)
(* hence what is read of a line is read of every line that begins with it  *)
(* (ParseExtends), and a part of an answer is never one.  And what the     *)
(* script or the runtime writes is read back wherever it stands (Readable),*)
(* by induction over texts and over the parts of lists.                    *)
(***************************************************************************)
EXTENDS ProcessRunner, BridgeLines, SequenceTheorems, FiniteSetTheorems, TLAPS

-----------------------------------------------------------------------------
(* The runners.                                                              *)

\* Nothing is on its way between the caller and the child.
Quiet(r) ==
    /\ stdin[r] = <<>> /\ stdout[r] = <<>> /\ buffer[r] = <<>>
    /\ child[r] # "answering"

\* a answers the request of r's caller, with the model it is entitled to.
Proper(r, a) ==
    /\ a.of = request[r].of
    /\ a.ready => IF request[r].model = NoModel THEN a.model = wanted[r]
                                                ELSE loaded[r] \in {wanted[r], NoModel}

\* The request has not been read.
Unread(r) ==
    /\ stdin[r] = <<request[r]>> /\ stdout[r] = <<>> /\ buffer[r] = <<>>
    /\ child[r] # "answering"

\* Half of the answer has been written.
HalfWritten(r, a) ==
    /\ Proper(r, a) /\ stdin[r] = <<>>
    /\ child[r] = "answering" => task[r] = a
    /\ child[r] \in {"answering", "dead"}
    /\ \/ stdout[r] = <<PieceOf(a, FALSE)>> /\ buffer[r] = <<>>
       \/ stdout[r] = <<>> /\ buffer[r] = <<PieceOf(a, FALSE)>>

\* All of it has.
Flushed(r, a) ==
    /\ Proper(r, a) /\ stdin[r] = <<>>
    /\ child[r] \in {"idle", "dead"}
    /\ \/ stdout[r] = <<PieceOf(a, FALSE), PieceOf(a, TRUE)>> /\ buffer[r] = <<>>
       \/ stdout[r] = <<PieceOf(a, TRUE)>> /\ buffer[r] = <<PieceOf(a, FALSE)>>

Exchange(r) ==
    \/ Unread(r)
    \/ \E a \in Answer : HalfWritten(r, a) \/ Flushed(r, a)

\* What each point of a call has of descriptors, child, thread and data.
PlaceInv(r) ==
    /\ pc[r] = "idle" =>
        /\ Quiet(r)
        /\ started[r] => child[r] # "none" /\ open[r] = {"inW", "outR", "errR"}
        /\ ~started[r] => child[r] = "none" /\ open[r] = {} /\ ~drains[r]
    /\ pc[r] \in {"pipes", "spawn"} =>
        /\ Quiet(r) /\ ~started[r] /\ child[r] = "none" /\ ~drains[r]
        /\ pc[r] = "pipes" => open[r] = {}
    /\ pc[r] = "ends" => Quiet(r) /\ child[r] # "none"
    /\ pc[r] = "send" => Quiet(r)
    /\ pc[r] \in {"send", "read"} =>
        child[r] # "none" /\ started[r] /\ open[r] = {"inW", "outR", "errR"}
    /\ pc[r] = "read" => Exchange(r)
    /\ pc[r] = "wait" => (Quiet(r) \/ Exchange(r)) /\ open[r] = {"outR", "errR"}
    /\ pc[r] = "join" =>
        /\ stdin[r] = <<>> /\ stdout[r] = <<>> /\ child[r] = "none"
        /\ Len(buffer[r]) <= 1 /\ open[r] = {"errR"}

Calling == {"pipes", "spawn", "ends", "send", "read"}

\* The runtime is ready only for the model it was last asked for, except that a child
\* started anew has none; initialize() is not ready while it asks, and transcribe()
\* asks only when ready.
ModelInv(r) ==
    /\ initialized[r] => loaded[r] \in {wanted[r], NoModel}
    /\ (pc[r] \in Calling \/ (pc[r] = "wait" /\ Exchange(r))) =>
        IF request[r].model = NoModel THEN initialized[r]
        ELSE ~initialized[r] /\ request[r].model = wanted[r]

Inv ==
    /\ TypeOK
    /\ \A r \in Runners : PlaceInv(r) /\ ModelInv(r)

-----------------------------------------------------------------------------
(* Sequences of one and two elements. *)

\* Sequences of two pieces at most.
LEMMA ShortSequences ==
    ASSUME NEW S, NEW x \in S, NEW y \in S
    PROVE  /\ <<>> \in Seq(S) /\ Len(<<>>) = 0
           /\ <<x>> \in Seq(S) /\ Len(<<x>>) = 1
           /\ <<x, y>> \in Seq(S) /\ Len(<<x, y>>) = 2
           /\ Append(<<>>, x) = <<x>> /\ Append(<<x>>, y) = <<x, y>>
           /\ Head(<<x>>) = x /\ Tail(<<x>>) = <<>>
           /\ Head(<<x, y>>) = x /\ Tail(<<x, y>>) = <<y>>
           /\ <<x>> # <<>> /\ <<x, y>> # <<>>
<1>1. <<>> \in Seq(S) /\ Len(<<>>) = 0
  OBVIOUS
<1>2. <<x>> \in Seq(S) /\ Len(<<x>>) = 1
  OBVIOUS
<1>3. <<x, y>> \in Seq(S) /\ Len(<<x, y>>) = 2
  OBVIOUS
<1>4. Append(<<>>, x) = <<x>>
  OBVIOUS
<1>5. Append(<<x>>, y) = <<x, y>>
  <2>1. /\ Append(<<x>>, y) \in Seq(S) /\ Len(Append(<<x>>, y)) = 2
        /\ Append(<<x>>, y)[1] = x /\ Append(<<x>>, y)[2] = y
    BY <1>2, AppendProperties
  <2>2. <<x, y>>[1] = x /\ <<x, y>>[2] = y
    OBVIOUS
  <2>3. \A i \in 1 .. 2 : Append(<<x>>, y)[i] = <<x, y>>[i]
    <3>1. \A i \in 1 .. 2 : i = 1 \/ i = 2
      OBVIOUS
    <3> QED
      BY <2>1, <2>2, <3>1
  <2> DEFINE s == Append(<<x>>, y)
             t == <<x, y>>
  <2>4. s \in Seq(S) /\ t \in Seq(S) /\ Len(s) = 2 /\ Len(t) = 2
    BY <2>1, <1>3
  <2>5. \A i \in 1 .. Len(s) : s[i] = t[i]
    BY <2>3, <2>4
  <2> HIDE DEF s, t
  <2>6. s = t
    BY <2>4, <2>5, SeqEqual
  <2> QED
    BY <2>6 DEF s, t
<1>6. Head(<<x>>) = x /\ Head(<<x, y>>) = x
  OBVIOUS
<1>7. Tail(<<x>>) = <<>>
  OBVIOUS
<1>8. Tail(<<x, y>>) = <<y>>
  OBVIOUS
<1>9. <<x>> # <<>> /\ <<x, y>> # <<>>
  BY <1>1, <1>2, <1>3
<1> QED
  BY <1>1, <1>2, <1>3, <1>4, <1>5, <1>6, <1>7, <1>8, <1>9

\* Those of one at most.
LEMMA AtMostOne ==
    ASSUME NEW S, NEW x \in S, NEW t, t = <<>> \/ t = <<x>>
    PROVE  t \in Seq(S) /\ Len(t) <= 1 /\ Len(t) <= 2
<1>1. CASE t = <<>>
  BY <1>1
<1>2. CASE t = <<x>>
  BY <1>2
<1> QED
  BY <1>1, <1>2

\* A pipe or buffer stays typed and short when one runner's is replaced.
LEMMA ShortWhenReplaced ==
    ASSUME NEW T, NEW n \in Nat, NEW f \in [Runners -> Seq(T)], NEW r \in Runners,
           NEW v \in Seq(T), Len(v) <= n, \A s \in Runners : Len(f[s]) <= n
    PROVE  /\ [f EXCEPT ![r] = v] \in [Runners -> Seq(T)]
           /\ \A s \in Runners : Len([f EXCEPT ![r] = v][s]) <= n
<1>1. [f EXCEPT ![r] = v] \in [Runners -> Seq(T)]
  OBVIOUS
<1>2. \A s \in Runners : [f EXCEPT ![r] = v][s] = IF s = r THEN v ELSE f[s]
  OBVIOUS
<1> QED
  BY <1>1, <1>2

\* A piece of an answer is one, and knows whether it is the last.
LEMMA PiecesAreTyped ==
    ASSUME NEW a \in Answer, NEW last \in BOOLEAN
    PROVE  PieceOf(a, last) \in Piece /\ PieceOf(a, last).last = last
  BY DEF PieceOf, Answer, Piece

\* Between two calls nothing is on its way, and a request or an answer that is, is the
\* caller's own.
LEMMA QuietIsNoExchange ==
    ASSUME NEW r \in Runners, Quiet(r)
    PROVE  ~Exchange(r)
<1>1. ASSUME NEW a \in Answer PROVE ~HalfWritten(r, a) /\ ~Flushed(r, a)
  BY ShortSequences DEF Quiet, HalfWritten, Flushed
<1>2. ~Unread(r)
  BY ShortSequences DEF Quiet, Unread
<1> QED
  BY <1>1, <1>2 DEF Exchange

\* A runner of which nothing changes keeps its exchange.
LEMMA ExchangeKept ==
    ASSUME NEW s \in Runners,
           request'[s] = request[s], wanted'[s] = wanted[s], buffer'[s] = buffer[s],
           child'[s] = child[s], task'[s] = task[s], loaded'[s] = loaded[s],
           stdin'[s] = stdin[s], stdout'[s] = stdout[s]
    PROVE  Quiet(s)' = Quiet(s) /\ Exchange(s)' = Exchange(s)
<1>1. Quiet(s)' = Quiet(s)
  BY DEF Quiet
<1>2. \A a : Proper(s, a)' = Proper(s, a)
  BY DEF Proper
<1>3. Unread(s)' = Unread(s)
  BY DEF Unread
<1>4. \A a : HalfWritten(s, a)' = HalfWritten(s, a)
  BY <1>2 DEF HalfWritten
<1>5. \A a : Flushed(s, a)' = Flushed(s, a)
  BY <1>2 DEF Flushed
<1>6. Exchange(s)' = Exchange(s)
  BY <1>3, <1>4, <1>5 DEF Exchange
<1> QED
  BY <1>1, <1>6

\* A step of one runner is none of another's.
LEMMA Elsewhere ==
    ASSUME NEW s \in Runners, PlaceInv(s), ModelInv(s),
           pc'[s] = pc[s], request'[s] = request[s], initialized'[s] = initialized[s],
           wanted'[s] = wanted[s], started'[s] = started[s], open'[s] = open[s],
           drains'[s] = drains[s], buffer'[s] = buffer[s], child'[s] = child[s],
           task'[s] = task[s], loaded'[s] = loaded[s],
           stdin'[s] = stdin[s], stdout'[s] = stdout[s]
    PROVE  PlaceInv(s)' /\ ModelInv(s)'
<1>1. Quiet(s)' = Quiet(s) /\ Exchange(s)' = Exchange(s)
  BY ExchangeKept
<1>2. PlaceInv(s)'
  BY <1>1 DEF PlaceInv
<1>3. ModelInv(s)'
  BY <1>1 DEF ModelInv
<1> QED
  BY <1>2, <1>3

\* So a step of one runner needs a look at that runner only.
LEMMA OneRunnerSuffices ==
    ASSUME Inv, NEW r \in Runners, TypeOK', PlaceInv(r)', ModelInv(r)',
           \A s \in Runners \ {r} :
               /\ pc'[s] = pc[s] /\ request'[s] = request[s]
               /\ initialized'[s] = initialized[s] /\ wanted'[s] = wanted[s]
               /\ started'[s] = started[s] /\ open'[s] = open[s]
               /\ drains'[s] = drains[s] /\ buffer'[s] = buffer[s]
               /\ child'[s] = child[s] /\ task'[s] = task[s]
               /\ loaded'[s] = loaded[s]
               /\ stdin'[s] = stdin[s] /\ stdout'[s] = stdout[s]
    PROVE  Inv'
<1>1. ASSUME NEW s \in Runners \ {r} PROVE PlaceInv(s)' /\ ModelInv(s)'
  BY <1>1, Elsewhere DEF Inv
<1> QED
  BY <1>1 DEF Inv

-----------------------------------------------------------------------------
(* The runtime's calls. *)

\* A call of initialize() begins, with nothing on its way.
LEMMA CallInitializeKeepsInv ==
    ASSUME Inv, NEW r \in Runners, CallInitialize(r) PROVE Inv'
<1>1. PICK m \in Models :
        /\ pc[r] = "idle"
        /\ pc' = [pc EXCEPT ![r] = IF started[r] THEN "send" ELSE "pipes"]
        /\ request' = [request EXCEPT ![r] = [of |-> @.of + 1, model |-> m]]
        /\ wanted' = [wanted EXCEPT ![r] = m]
        /\ initialized' = [initialized EXCEPT ![r] = FALSE]
  BY DEF CallInitialize, Ask, Goto
<1>2. UNCHANGED <<started, open, drains, buffer, child, task, loaded, held, stdin, stdout>>
  BY DEF CallInitialize, childVars, pipeVars
<1>3. TypeOK'
  <2>1. [of |-> request[r].of + 1, model |-> m] \in Request
    BY <1>1 DEF Inv, TypeOK, Request
  <2>2. request' \in [Runners -> Request]
    BY <1>1, <2>1 DEF Inv, TypeOK
  <2>3. pc' \in [Runners -> Pc] /\ wanted' \in [Runners -> Models \cup {NoModel}]
    BY <1>1 DEF Inv, TypeOK, Pc
  <2>4. initialized' \in [Runners -> BOOLEAN]
    BY <1>1 DEF Inv, TypeOK
  <2> QED
    BY <1>2, <2>2, <2>3, <2>4 DEF Inv, TypeOK
<1>4. /\ pc'[r] = IF started[r] THEN "send" ELSE "pipes"
      /\ request'[r].model = m /\ wanted'[r] = m /\ initialized'[r] = FALSE
  BY <1>1 DEF Inv, TypeOK
<1>5. Quiet(r)'
  BY <1>1, <1>2 DEF Inv, PlaceInv, Quiet
<1>6. PlaceInv(r)'
  BY <1>1, <1>2, <1>4, <1>5 DEF Inv, PlaceInv
<1>7. ModelInv(r)'
  BY <1>4, NoModelAssumption DEF ModelInv
<1> QED
  BY <1>1, <1>2, <1>3, <1>6, <1>7, OneRunnerSuffices DEF Inv, TypeOK

\* One that is refused changes nothing of the pipes.
LEMMA RefuseInitializeKeepsInv ==
    ASSUME Inv, NEW r \in Runners, RefuseInitialize(r) PROVE Inv'
<1>1. /\ pc[r] = "idle"
      /\ initialized' = [initialized EXCEPT ![r] = FALSE]
  BY DEF RefuseInitialize
<1>2. UNCHANGED <<pc, request, wanted, started, open, drains, buffer,
                  child, task, loaded, held, stdin, stdout>>
  BY DEF RefuseInitialize, childVars, pipeVars
<1>3. TypeOK'
  <2>1. initialized' \in [Runners -> BOOLEAN]
    BY <1>1 DEF Inv, TypeOK
  <2> QED
    BY <1>2, <2>1 DEF Inv, TypeOK
<1>4. ~initialized'[r]
  BY <1>1 DEF Inv, TypeOK
<1>5. Quiet(r)' = Quiet(r) /\ Exchange(r)' = Exchange(r)
  BY <1>2, ExchangeKept
<1>6. PlaceInv(r)'
  BY <1>2, <1>5 DEF Inv, PlaceInv
<1>7. ModelInv(r)'
  BY <1>1, <1>2, <1>4 DEF ModelInv, Calling
<1> QED
  BY <1>1, <1>2, <1>3, <1>6, <1>7, OneRunnerSuffices DEF Inv, TypeOK

\* A call of transcribe() begins if the runtime is ready.
LEMMA CallTranscribeKeepsInv ==
    ASSUME Inv, NEW r \in Runners, CallTranscribe(r) PROVE Inv'
<1>1. /\ pc[r] = "idle" /\ initialized[r]
      /\ pc' = [pc EXCEPT ![r] = IF started[r] THEN "send" ELSE "pipes"]
      /\ request' = [request EXCEPT ![r] = [of |-> @.of + 1, model |-> NoModel]]
  BY DEF CallTranscribe, Ask, Goto
<1>2. UNCHANGED <<initialized, wanted, started, open, drains, buffer,
                  child, task, loaded, held, stdin, stdout>>
  BY DEF CallTranscribe, childVars, pipeVars
<1>3. TypeOK'
  <2>1. [of |-> request[r].of + 1, model |-> NoModel] \in Request
    BY <1>1 DEF Inv, TypeOK, Request
  <2>2. request' \in [Runners -> Request]
    BY <1>1, <2>1 DEF Inv, TypeOK
  <2>3. pc' \in [Runners -> Pc]
    BY <1>1 DEF Inv, TypeOK, Pc
  <2> QED
    BY <1>2, <2>2, <2>3 DEF Inv, TypeOK
<1>4. /\ pc'[r] = IF started[r] THEN "send" ELSE "pipes"
      /\ request'[r].model = NoModel
  BY <1>1 DEF Inv, TypeOK
<1>5. Quiet(r)'
  BY <1>1, <1>2 DEF Inv, PlaceInv, Quiet
<1>6. PlaceInv(r)'
  BY <1>1, <1>2, <1>4, <1>5 DEF Inv, PlaceInv
<1>7. ModelInv(r)'
  BY <1>1, <1>2, <1>4 DEF Inv, ModelInv
<1> QED
  BY <1>1, <1>2, <1>3, <1>6, <1>7, OneRunnerSuffices DEF Inv, TypeOK

\* stop() is called at rest, a request fails before or after it was sent.
LEMMA BeginStopKeepsInv ==
    ASSUME Inv, NEW r \in Runners, NEW from \in {"idle", "send", "read"},
           BeginStop(r, from), started[r] \/ from # "idle"
    PROVE  Inv'
<1>1. /\ pc[r] = from /\ pc' = [pc EXCEPT ![r] = "wait"]
      /\ open' = [open EXCEPT ![r] = @ \ {"inW"}]
  BY DEF BeginStop, Goto
<1>2. UNCHANGED <<request, initialized, wanted, started, drains, buffer,
                  child, task, loaded, held, stdin, stdout>>
  BY DEF BeginStop, runtimeVars, childVars, pipeVars
<1>3. TypeOK'
  <2>1. pc' \in [Runners -> Pc] /\ open' \in [Runners -> SUBSET Ends]
    BY <1>1 DEF Inv, TypeOK, Pc, Stopping
  <2> QED
    BY <1>2, <2>1 DEF Inv, TypeOK
<1>4. pc'[r] = "wait" /\ open'[r] = open[r] \ {"inW"}
  BY <1>1 DEF Inv, TypeOK
<1>5. Quiet(r)' = Quiet(r) /\ Exchange(r)' = Exchange(r)
  BY <1>2, ExchangeKept
<1>6. /\ open[r] = {"inW", "outR", "errR"}
      /\ IF from = "read" THEN Exchange(r) ELSE Quiet(r)
  BY <1>1 DEF Inv, PlaceInv
<1>7. PlaceInv(r)'
  BY <1>4, <1>5, <1>6 DEF PlaceInv
<1>8. ModelInv(r)'
  <2>1. CASE from = "read"
    BY <1>1, <1>2, <1>4, <1>5, <2>1 DEF Inv, ModelInv, Calling
  <2>2. CASE from # "read"
    BY <1>1, <1>2, <1>4, <1>5, <1>6, <2>2, QuietIsNoExchange DEF Inv, ModelInv, Calling
  <2> QED
    BY <2>1, <2>2
<1> QED
  BY <1>1, <1>2, <1>3, <1>7, <1>8, OneRunnerSuffices DEF Inv, TypeOK

-----------------------------------------------------------------------------
(* Starting the child. *)

\* start_locked() opens the pipes.
LEMMA MakePipesKeepsInv ==
    ASSUME Inv, NEW r \in Runners, MakePipes(r) PROVE Inv'
<1>1. /\ pc[r] = "pipes" /\ pc' = [pc EXCEPT ![r] = "spawn"]
      /\ open' = [open EXCEPT ![r] = Ends]
      /\ held' = [q \in Runners |-> held[q] \ {r}]
  BY DEF MakePipes, Goto
<1>2. UNCHANGED <<request, initialized, wanted, started, drains, buffer,
                  child, task, loaded, stdin, stdout>>
  BY DEF MakePipes, runtimeVars, pipeVars
<1>3. TypeOK'
  <2>1. held' \in [Runners -> SUBSET Runners]
    BY <1>1 DEF Inv, TypeOK
  <2>2. pc' \in [Runners -> Pc] /\ open' \in [Runners -> SUBSET Ends]
    BY <1>1 DEF Inv, TypeOK, Pc
  <2> QED
    BY <1>2, <2>1, <2>2 DEF Inv, TypeOK
<1>4. pc'[r] = "spawn"
  BY <1>1 DEF Inv, TypeOK
<1>5. Quiet(r)' = Quiet(r) /\ Exchange(r)' = Exchange(r)
  BY <1>2, ExchangeKept
<1>6. PlaceInv(r)'
  BY <1>1, <1>2, <1>4, <1>5 DEF Inv, PlaceInv
<1>7. ModelInv(r)'
  BY <1>1, <1>2, <1>4 DEF Inv, ModelInv, Calling
<1> QED
  BY <1>1, <1>2, <1>3, <1>6, <1>7, OneRunnerSuffices DEF Inv, TypeOK

\* It fails and closes them.
LEMMA StartFailsKeepsInv ==
    ASSUME Inv, NEW r \in Runners, PipesFail(r) \/ SpawnFails(r) PROVE Inv'
<1>1. /\ pc[r] \in {"pipes", "spawn"} /\ pc' = [pc EXCEPT ![r] = "idle"]
      /\ pc[r] = "pipes" => open' = open
      /\ pc[r] = "spawn" => open' = [open EXCEPT ![r] = {}]
  BY DEF PipesFail, SpawnFails, Goto
<1>2. UNCHANGED <<request, initialized, wanted, started, drains, buffer,
                  child, task, loaded, held, stdin, stdout>>
  BY DEF PipesFail, SpawnFails, runtimeVars, childVars, pipeVars
<1>3. TypeOK'
  BY <1>1, <1>2 DEF Inv, TypeOK, Pc
<1>4. pc'[r] = "idle" /\ open'[r] = {}
  BY <1>1 DEF Inv, TypeOK, PlaceInv
<1>5. Quiet(r)'
  BY <1>1, <1>2 DEF Inv, PlaceInv, Quiet
<1>6. PlaceInv(r)'
  BY <1>1, <1>2, <1>4, <1>5 DEF Inv, PlaceInv
<1>7. ModelInv(r)'
  BY <1>2, <1>4 DEF Inv, ModelInv, Calling
<1> QED
  BY <1>1, <1>2, <1>3, <1>6, <1>7, OneRunnerSuffices DEF Inv, TypeOK

\* It spawns a child, which has no model.
LEMMA SpawnKeepsInv ==
    ASSUME Inv, NEW r \in Runners, Spawn(r) PROVE Inv'
<1>1. /\ pc[r] = "spawn" /\ pc' = [pc EXCEPT ![r] = "ends"]
      /\ child' = [child EXCEPT ![r] = "idle"]
      /\ loaded' = [loaded EXCEPT ![r] = NoModel]
      /\ held' = [held EXCEPT ![r] = Inheritance(r)]
  BY DEF Spawn, Goto
<1>2. UNCHANGED <<request, initialized, wanted, started, open, drains, buffer,
                  task, stdin, stdout>>
  BY DEF Spawn, runtimeVars, pipeVars
<1>3. TypeOK'
  <2>1. held' \in [Runners -> SUBSET Runners]
    BY <1>1 DEF Inv, TypeOK, Inheritance
  <2>2. /\ pc' \in [Runners -> Pc] /\ child' \in [Runners -> Child]
        /\ loaded' \in [Runners -> Models \cup {NoModel}]
    BY <1>1 DEF Inv, TypeOK, Pc, Child
  <2> QED
    BY <1>2, <2>1, <2>2 DEF Inv, TypeOK
<1>4. pc'[r] = "ends" /\ child'[r] = "idle" /\ loaded'[r] = NoModel
  BY <1>1 DEF Inv, TypeOK
<1>5. Quiet(r)'
  BY <1>1, <1>2, <1>4 DEF Inv, PlaceInv, Quiet
<1>6. PlaceInv(r)'
  BY <1>1, <1>2, <1>4, <1>5 DEF Inv, PlaceInv
<1>7. ModelInv(r)'
  BY <1>1, <1>2, <1>4 DEF Inv, ModelInv, Calling
<1> QED
  BY <1>1, <1>2, <1>3, <1>6, <1>7, OneRunnerSuffices DEF Inv, TypeOK

\* It closes the child's ends.
LEMMA CloseEndsKeepsInv ==
    ASSUME Inv, NEW r \in Runners, CloseEnds(r) PROVE Inv'
<1>1. PICK thread \in BOOLEAN :
        /\ pc[r] = "ends"
        /\ pc' = [pc EXCEPT ![r] = IF thread THEN "send" ELSE "idle"]
        /\ open' = [open EXCEPT ![r] = {"inW", "outR", "errR"}]
        /\ started' = [started EXCEPT ![r] = TRUE]
        /\ buffer' = [buffer EXCEPT ![r] = <<>>]
        /\ drains' = [drains EXCEPT ![r] = thread]
  BY DEF CloseEnds, Goto
<1>2. UNCHANGED <<request, initialized, wanted, child, task, loaded, held, stdin, stdout>>
  BY DEF CloseEnds, runtimeVars, childVars, pipeVars
<1>3. TypeOK'
  <2>1. started' \in [Runners -> BOOLEAN] /\ drains' \in [Runners -> BOOLEAN]
    BY <1>1 DEF Inv, TypeOK
  <2>2. pc' \in [Runners -> Pc] /\ open' \in [Runners -> SUBSET Ends]
    BY <1>1 DEF Inv, TypeOK, Pc, Ends
  <2>3. buffer' \in [Runners -> Seq(Piece)] /\ \A s \in Runners : Len(buffer'[s]) <= 1
    BY <1>1 DEF Inv, TypeOK
  <2> QED
    BY <1>2, <2>1, <2>2, <2>3 DEF Inv, TypeOK
<1>4. /\ pc'[r] = IF thread THEN "send" ELSE "idle"
      /\ open'[r] = {"inW", "outR", "errR"} /\ buffer'[r] = <<>>
  BY <1>1 DEF Inv, TypeOK
<1>5. started'[r]
  BY <1>1 DEF Inv, TypeOK
<1>6. Quiet(r)'
  BY <1>1, <1>2, <1>4 DEF Inv, PlaceInv, Quiet
<1>7. PlaceInv(r)'
  BY <1>1, <1>2, <1>4, <1>5, <1>6 DEF Inv, PlaceInv
<1>8. ModelInv(r)'
  BY <1>1, <1>2, <1>4 DEF Inv, ModelInv, Calling
<1> QED
  BY <1>1, <1>2, <1>3, <1>7, <1>8, OneRunnerSuffices DEF Inv, TypeOK

-----------------------------------------------------------------------------
(* A request and its answer. *)

\* The request is written: an exchange begins, unread.
LEMMA SendKeepsInv ==
    ASSUME Inv, NEW r \in Runners, Send(r) PROVE Inv'
<1>1. /\ pc[r] = "send" /\ pc' = [pc EXCEPT ![r] = "read"] /\ Alive(r)
      /\ stdin' = [stdin EXCEPT ![r] = Append(@, request[r])]
  BY DEF Send, Goto
<1>2. UNCHANGED <<request, initialized, wanted, started, open, drains, buffer,
                  child, task, loaded, held, stdout>>
  BY DEF Send, runtimeVars, childVars
<1>3. Quiet(r)
  BY <1>1 DEF Inv, PlaceInv
<1>4. /\ stdin'[r] = <<request[r]>>
      /\ <<request[r]>> \in Seq(Request) /\ Len(<<request[r]>>) = 1
  BY <1>1, <1>3, ShortSequences DEF Inv, TypeOK, Quiet
<1>5. TypeOK'
  <2>1. pc' \in [Runners -> Pc]
    BY <1>1 DEF Inv, TypeOK, Pc
  <2>2. stdin' \in [Runners -> Seq(Request)] /\ \A s \in Runners : Len(stdin'[s]) <= 1
    <3>1. stdin' = [stdin EXCEPT ![r] = <<request[r]>>]
      BY <1>1, <1>4 DEF Inv, TypeOK
    <3>2. stdin \in [Runners -> Seq(Request)] /\ \A s \in Runners : Len(stdin[s]) <= 1
      BY DEF Inv, TypeOK
    <3> QED
      BY <1>4, <3>1, <3>2, ShortWhenReplaced
  <2> QED
    BY <1>2, <2>1, <2>2 DEF Inv, TypeOK
<1>6. pc'[r] = "read"
  BY <1>1 DEF Inv, TypeOK
<1>7. Unread(r)'
  BY <1>2, <1>3, <1>4 DEF Quiet, Unread
<1>8. Exchange(r)'
  BY <1>7 DEF Exchange
<1>9. PlaceInv(r)'
  BY <1>1, <1>2, <1>6, <1>8 DEF Inv, PlaceInv
<1>10. ModelInv(r)'
  BY <1>1, <1>2, <1>6 DEF Inv, ModelInv, Calling
<1> QED
  BY <1>1, <1>2, <1>5, <1>9, <1>10, OneRunnerSuffices DEF Inv, TypeOK

\* Whoever is in the middle of an exchange finds a piece in the pipe only of the answer
\* to its own request.
LEMMA PiecesOfTheAnswer ==
    ASSUME NEW r \in Runners, Exchange(r), stdout[r] # <<>>
    PROVE  \E a \in Answer :
             \/ /\ HalfWritten(r, a) /\ buffer[r] = <<>>
                /\ stdout[r] = <<PieceOf(a, FALSE)>>
                /\ Head(stdout[r]) = PieceOf(a, FALSE) /\ Tail(stdout[r]) = <<>>
             \/ /\ Flushed(r, a) /\ buffer[r] = <<>>
                /\ stdout[r] = <<PieceOf(a, FALSE), PieceOf(a, TRUE)>>
                /\ Head(stdout[r]) = PieceOf(a, FALSE)
                /\ Tail(stdout[r]) = <<PieceOf(a, TRUE)>>
             \/ /\ Flushed(r, a) /\ buffer[r] = <<PieceOf(a, FALSE)>>
                /\ stdout[r] = <<PieceOf(a, TRUE)>>
                /\ Head(stdout[r]) = PieceOf(a, TRUE) /\ Tail(stdout[r]) = <<>>
<1>1. PICK a \in Answer : HalfWritten(r, a) \/ Flushed(r, a)
  BY DEF Exchange, Unread
<1>2. PieceOf(a, FALSE) \in Piece /\ PieceOf(a, TRUE) \in Piece
  BY PiecesAreTyped
<1> DEFINE x == PieceOf(a, FALSE)
           y == PieceOf(a, TRUE)
<1>3. /\ Head(<<x>>) = x /\ Tail(<<x>>) = <<>>
      /\ Head(<<y>>) = y /\ Tail(<<y>>) = <<>>
      /\ Head(<<x, y>>) = x /\ Tail(<<x, y>>) = <<y>>
  BY <1>2, ShortSequences
<1> HIDE DEF x, y
<1>4. HalfWritten(r, a) => buffer[r] = <<>> /\ stdout[r] = <<x>>
  BY DEF HalfWritten, x
<1>5. Flushed(r, a) => \/ buffer[r] = <<>> /\ stdout[r] = <<x, y>>
                       \/ buffer[r] = <<x>> /\ stdout[r] = <<y>>
  BY DEF Flushed, x, y
<1> QED
  BY <1>1, <1>3, <1>4, <1>5 DEF x, y

\* A piece moves from the pipe to the buffer, within the exchange.
LEMMA ReadPieceKeepsInv ==
    ASSUME Inv, NEW r \in Runners, ReadPiece(r) PROVE Inv'
<1>1. /\ pc[r] = "read" /\ stdout[r] # <<>> /\ ~Head(stdout[r]).last
      /\ buffer' = [buffer EXCEPT ![r] = Append(@, Head(stdout[r]))]
      /\ stdout' = [stdout EXCEPT ![r] = Tail(@)]
  BY DEF ReadPiece
<1>2. UNCHANGED <<pc, request, initialized, wanted, started, open, drains,
                  child, task, loaded, held, stdin>>
  BY DEF ReadPiece, runtimeVars, childVars
<1>3. Exchange(r)
  BY <1>1 DEF Inv, PlaceInv
<1>4. PICK a \in Answer :
        /\ buffer[r] = <<>> /\ Head(stdout[r]) = PieceOf(a, FALSE)
        /\ \/ HalfWritten(r, a) /\ Tail(stdout[r]) = <<>>
           \/ Flushed(r, a) /\ Tail(stdout[r]) = <<PieceOf(a, TRUE)>>
  BY <1>1, <1>3, PiecesOfTheAnswer, PiecesAreTyped
<1>5. PieceOf(a, FALSE) \in Piece /\ PieceOf(a, TRUE) \in Piece
  BY PiecesAreTyped
<1>6. buffer'[r] = <<PieceOf(a, FALSE)>> /\ stdout'[r] = Tail(stdout[r])
  <2>1. Append(<<>>, PieceOf(a, FALSE)) = <<PieceOf(a, FALSE)>>
    BY <1>5, ShortSequences
  <2>2. /\ buffer'[r] = Append(buffer[r], Head(stdout[r]))
        /\ stdout'[r] = Tail(stdout[r])
    BY <1>1 DEF Inv, TypeOK
  <2> QED
    BY <1>4, <2>1, <2>2
<1>7. TypeOK'
  <2>1. Tail(stdout[r]) \in Seq(Piece) /\ Len(Tail(stdout[r])) <= 2
    BY <1>4, <1>5, AtMostOne
  <2>2. /\ <<PieceOf(a, FALSE)>> \in Seq(Piece)
        /\ Len(<<PieceOf(a, FALSE)>>) <= 1
    BY <1>5, AtMostOne
  <2>3. buffer' = [buffer EXCEPT ![r] = <<PieceOf(a, FALSE)>>]
    BY <1>1, <1>6 DEF Inv, TypeOK
  <2>4. stdout' = [stdout EXCEPT ![r] = Tail(stdout[r])]
    BY <1>1
  <2>5. /\ buffer \in [Runners -> Seq(Piece)] /\ \A s \in Runners : Len(buffer[s]) <= 1
        /\ stdout \in [Runners -> Seq(Piece)] /\ \A s \in Runners : Len(stdout[s]) <= 2
    BY DEF Inv, TypeOK
  <2>6. buffer' \in [Runners -> Seq(Piece)] /\ \A s \in Runners : Len(buffer'[s]) <= 1
    <3> DEFINE v == <<PieceOf(a, FALSE)>>
    <3>1. v \in Seq(Piece) /\ Len(v) <= 1 /\ buffer' = [buffer EXCEPT ![r] = v]
      BY <2>2, <2>3
    <3> HIDE DEF v
    <3> QED
      BY <2>5, <3>1, ShortWhenReplaced
  <2>7. stdout' \in [Runners -> Seq(Piece)] /\ \A s \in Runners : Len(stdout'[s]) <= 2
    BY <2>1, <2>4, <2>5, ShortWhenReplaced
  <2> QED
    BY <1>2, <2>6, <2>7 DEF Inv, TypeOK
<1>8. Exchange(r)'
  <2>1. Proper(r, a)' = Proper(r, a)
    BY <1>2 DEF Proper
  <2>2. CASE HalfWritten(r, a) /\ Tail(stdout[r]) = <<>>
    <3>1. HalfWritten(r, a)'
      BY <1>2, <1>6, <2>1, <2>2 DEF HalfWritten
    <3> QED
      BY <3>1 DEF Exchange
  <2>3. CASE Flushed(r, a) /\ Tail(stdout[r]) = <<PieceOf(a, TRUE)>>
    <3>1. Flushed(r, a)'
      BY <1>2, <1>6, <2>1, <2>3 DEF Flushed
    <3> QED
      BY <3>1 DEF Exchange
  <2> QED
    BY <1>4, <2>2, <2>3
<1>9. PlaceInv(r)'
  BY <1>1, <1>2, <1>8 DEF Inv, PlaceInv
<1>10. ModelInv(r)'
  BY <1>1, <1>2 DEF Inv, ModelInv, Calling
<1> QED
  BY <1>1, <1>2, <1>7, <1>9, <1>10, OneRunnerSuffices DEF Inv, TypeOK

\* The line that is read is the whole answer to this request.
LEMMA LineIsTheAnswer ==
    ASSUME NEW r \in Runners, Exchange(r), LineEnds(r)
    PROVE  \E a \in Answer :
             /\ Flushed(r, a) /\ Tail(stdout[r]) = <<>>
             /\ Line(r) = <<PieceOf(a, FALSE), PieceOf(a, TRUE)>>
             /\ Whole(Line(r)) /\ Line(r)[1] = PieceOf(a, FALSE)
<1>1. stdout[r] # <<>> /\ Head(stdout[r]).last
  BY DEF LineEnds
<1>2. PICK a \in Answer :
        /\ Flushed(r, a) /\ buffer[r] = <<PieceOf(a, FALSE)>>
        /\ Head(stdout[r]) = PieceOf(a, TRUE) /\ Tail(stdout[r]) = <<>>
  <2>1. \A a \in Answer : ~PieceOf(a, FALSE).last
    BY PiecesAreTyped
  <2> QED
    BY <1>1, <2>1, PiecesOfTheAnswer
<1>3. PieceOf(a, FALSE) \in Piece /\ PieceOf(a, TRUE) \in Piece
  BY PiecesAreTyped
<1>4. Line(r) = <<PieceOf(a, FALSE), PieceOf(a, TRUE)>>
  BY <1>2, <1>3, ShortSequences DEF Line
<1>5. PieceOf(a, FALSE).of = PieceOf(a, TRUE).of
  BY DEF PieceOf
<1>6. /\ Len(Line(r)) = 2 /\ Line(r)[1] = PieceOf(a, FALSE)
      /\ Line(r)[2] = PieceOf(a, TRUE)
  BY <1>3, <1>4, ShortSequences
<1>7. Whole(Line(r))
  BY <1>5, <1>6 DEF Whole
<1> QED
  BY <1>2, <1>4, <1>6, <1>7

\* The line is complete: nothing is left on its way.
LEMMA ReadLineKeepsInv ==
    ASSUME Inv, NEW r \in Runners, ReadLine(r) PROVE Inv'
<1>1. /\ pc[r] = "read" /\ pc' = [pc EXCEPT ![r] = "idle"] /\ LineEnds(r)
      /\ initialized' = [initialized EXCEPT ![r] =
                            @ \/ (request[r].model # NoModel /\ Ready(Line(r)))]
      /\ buffer' = [buffer EXCEPT ![r] = <<>>]
      /\ stdout' = [stdout EXCEPT ![r] = Tail(@)]
  BY DEF ReadLine, Goto
<1>2. UNCHANGED <<request, wanted, started, open, drains, child, task, loaded, held, stdin>>
  BY DEF ReadLine, childVars
<1>3. Exchange(r)
  BY <1>1 DEF Inv, PlaceInv
<1>4. PICK a \in Answer :
        /\ Flushed(r, a) /\ Tail(stdout[r]) = <<>>
        /\ Line(r)[1] = PieceOf(a, FALSE)
  BY <1>1, <1>3, LineIsTheAnswer
<1>5. /\ pc'[r] = "idle" /\ buffer'[r] = <<>> /\ stdout'[r] = <<>>
      /\ stdin'[r] = <<>> /\ child'[r] \in {"idle", "dead"}
  BY <1>1, <1>2, <1>4 DEF Inv, TypeOK, Flushed
<1>6. TypeOK'
  <2>1. /\ <<>> \in Seq(Piece) /\ Len(<<>>) = 0
    OBVIOUS
  <2>2. buffer' \in [Runners -> Seq(Piece)] /\ \A s \in Runners : Len(buffer'[s]) <= 1
    BY <1>1, <2>1, ShortWhenReplaced DEF Inv, TypeOK
  <2>3. stdout' \in [Runners -> Seq(Piece)] /\ \A s \in Runners : Len(stdout'[s]) <= 2
    <3>1. stdout' = [stdout EXCEPT ![r] = <<>>]
      BY <1>1, <1>4 DEF Inv, TypeOK
    <3> QED
      BY <2>1, <3>1, ShortWhenReplaced DEF Inv, TypeOK
  <2>4. pc' \in [Runners -> Pc]
    BY <1>1 DEF Inv, TypeOK, Pc
  <2>5. initialized' \in [Runners -> BOOLEAN]
    BY <1>1 DEF Inv, TypeOK
  <2> QED
    BY <1>2, <2>2, <2>3, <2>4, <2>5 DEF Inv, TypeOK
<1>7. Quiet(r)'
  BY <1>5 DEF Quiet
<1>8. PlaceInv(r)'
  BY <1>1, <1>2, <1>5, <1>7 DEF Inv, PlaceInv
<1>9. initialized'[r] => loaded'[r] \in {wanted'[r], NoModel}
  <2>1. CASE initialized[r]
    BY <1>2, <2>1 DEF Inv, ModelInv
  <2>2. CASE ~initialized[r]
    <3>1. SUFFICES ASSUME request[r].model # NoModel, Ready(Line(r))
                   PROVE  loaded[r] \in {wanted[r], NoModel}
      BY <1>1, <1>2, <2>2 DEF Inv, TypeOK
    <3>2. a.ready
      BY <1>4, <3>1 DEF Ready, PieceOf
    <3> QED
      BY <1>4, <3>1, <3>2 DEF Flushed, Proper
  <2> QED
    BY <2>1, <2>2
<1>10. ModelInv(r)'
  BY <1>5, <1>9 DEF ModelInv, Calling
<1> QED
  BY <1>1, <1>2, <1>6, <1>8, <1>10, OneRunnerSuffices DEF Inv, TypeOK

-----------------------------------------------------------------------------
(* Stopping the child. *)

\* There is never more than one piece in the buffer.
LEMMA BufferIsShort ==
    ASSUME Inv, NEW r \in Runners
    PROVE  Len(buffer[r]) <= 1
  BY DEF Inv, TypeOK

\* stop_locked() closes the pipes, and what was in them is gone.
LEMMA CloseOutKeepsInv ==
    ASSUME Inv, NEW r \in Runners, CloseOut(r) PROVE Inv'
<1>1. /\ pc[r] = "wait" /\ pc' = [pc EXCEPT ![r] = "join"]
      /\ child' = [child EXCEPT ![r] = "none"]
      /\ loaded' = [loaded EXCEPT ![r] = NoModel]
      /\ held' = [held EXCEPT ![r] = {}]
      /\ task' = [task EXCEPT ![r] = NoAnswer]
      /\ open' = [open EXCEPT ![r] = @ \ {"outR"}]
      /\ stdin' = [stdin EXCEPT ![r] = <<>>]
      /\ stdout' = [stdout EXCEPT ![r] = <<>>]
  BY DEF CloseOut, ChildGone, Goto
<1>2. UNCHANGED <<request, initialized, wanted, started, drains, buffer>>
  BY DEF CloseOut, runtimeVars
<1>3. TypeOK'
  <2>1. /\ pc' \in [Runners -> Pc] /\ open' \in [Runners -> SUBSET Ends]
        /\ child' \in [Runners -> Child] /\ held' \in [Runners -> SUBSET Runners]
        /\ loaded' \in [Runners -> Models \cup {NoModel}]
    BY <1>1 DEF Inv, TypeOK, Pc, Stopping, Child
  <2>2. NoAnswer \in Answer
    BY DEF NoAnswer, Answer
  <2>3. task' \in [Runners -> Answer]
    BY <1>1, <2>2 DEF Inv, TypeOK
  <2>4. <<>> \in Seq(Request) /\ <<>> \in Seq(Piece) /\ Len(<<>>) = 0
    OBVIOUS
  <2>5. stdin' \in [Runners -> Seq(Request)] /\ \A s \in Runners : Len(stdin'[s]) <= 1
    BY <1>1, <2>4, ShortWhenReplaced DEF Inv, TypeOK
  <2>6. stdout' \in [Runners -> Seq(Piece)] /\ \A s \in Runners : Len(stdout'[s]) <= 2
    BY <1>1, <2>4, ShortWhenReplaced DEF Inv, TypeOK
  <2> QED
    BY <1>2, <2>1, <2>3, <2>5, <2>6 DEF Inv, TypeOK
<1>4. /\ pc'[r] = "join" /\ child'[r] = "none" /\ loaded'[r] = NoModel
      /\ open'[r] = open[r] \ {"outR"} /\ stdin'[r] = <<>> /\ stdout'[r] = <<>>
  BY <1>1 DEF Inv, TypeOK
<1>5. PlaceInv(r)'
  BY <1>1, <1>2, <1>4, BufferIsShort DEF Inv, PlaceInv
<1>6. ModelInv(r)'
  BY <1>4 DEF ModelInv, Calling
<1> QED
  BY <1>1, <1>2, <1>3, <1>5, <1>6, OneRunnerSuffices DEF Inv, TypeOK

\* It joins the thread of stderr and is done.
LEMMA StopJoinKeepsInv ==
    ASSUME Inv, NEW r \in Runners, StopJoin(r) PROVE Inv'
<1>1. /\ pc[r] = "join" /\ pc' = [pc EXCEPT ![r] = "idle"]
      /\ drains' = [drains EXCEPT ![r] = FALSE]
      /\ open' = [open EXCEPT ![r] = @ \ {"errR"}]
      /\ started' = [started EXCEPT ![r] = FALSE]
      /\ buffer' = [buffer EXCEPT ![r] = <<>>]
  BY DEF StopJoin, Goto
<1>2. UNCHANGED <<request, initialized, wanted, child, task, loaded, held, stdin, stdout>>
  BY DEF StopJoin, runtimeVars, childVars, pipeVars
<1>3. TypeOK'
  <2>1. started' \in [Runners -> BOOLEAN] /\ drains' \in [Runners -> BOOLEAN]
    BY <1>1 DEF Inv, TypeOK
  <2>2. pc' \in [Runners -> Pc] /\ open' \in [Runners -> SUBSET Ends]
    BY <1>1 DEF Inv, TypeOK, Pc
  <2>3. <<>> \in Seq(Piece) /\ Len(<<>>) = 0
    OBVIOUS
  <2>4. buffer' \in [Runners -> Seq(Piece)] /\ \A s \in Runners : Len(buffer'[s]) <= 1
    BY <1>1, <2>3, ShortWhenReplaced DEF Inv, TypeOK
  <2> QED
    BY <1>2, <2>1, <2>2, <2>4 DEF Inv, TypeOK
<1>4. /\ pc'[r] = "idle" /\ open'[r] = open[r] \ {"errR"} /\ buffer'[r] = <<>>
  BY <1>1 DEF Inv, TypeOK
<1>5. ~started'[r] /\ ~drains'[r]
  BY <1>1 DEF Inv, TypeOK
<1>6. /\ stdin[r] = <<>> /\ stdout[r] = <<>> /\ child[r] = "none" /\ open[r] = {"errR"}
  BY <1>1 DEF Inv, PlaceInv
<1>7. Quiet(r)'
  BY <1>2, <1>4, <1>6 DEF Quiet
<1>8. PlaceInv(r)'
  BY <1>2, <1>4, <1>5, <1>6, <1>7 DEF PlaceInv
<1>9. ModelInv(r)'
  BY <1>2, <1>4 DEF Inv, ModelInv, Calling
<1> QED
  BY <1>1, <1>2, <1>3, <1>8, <1>9, OneRunnerSuffices DEF Inv, TypeOK

-----------------------------------------------------------------------------
(* The child. *)

\* It has something to do only while its caller reads, or waits for it to end.
LEMMA ChildWorksInExchange ==
    ASSUME Inv, NEW r \in Runners, stdin[r] # <<>> \/ child[r] = "answering"
    PROVE  pc[r] \in {"read", "wait"} /\ Exchange(r)
<1>1. ~Quiet(r)
  BY DEF Quiet
<1>2. pc[r] \in Pc
  BY DEF Inv, TypeOK
<1> QED
  BY <1>1, <1>2 DEF Inv, PlaceInv, Pc, Stopping

\* The child begins its answer: half written.
LEMMA ChildAnswersKeepsInv ==
    ASSUME Inv, NEW r \in Runners, ChildAnswers(r) PROVE Inv'
<1>1. child[r] = "idle" /\ stdin[r] # <<>>
  BY DEF ChildAnswers
<1>2. pc[r] \in {"read", "wait"} /\ Unread(r)
  BY <1>1, ChildWorksInExchange DEF Exchange, HalfWritten, Flushed
<1>3. Head(stdin[r]) = request[r] /\ Tail(stdin[r]) = <<>> /\ request[r] \in Request
  BY <1>2, ShortSequences DEF Inv, TypeOK, Unread
<1>4. PICK ready \in BOOLEAN :
        /\ (ready /\ request[r].model = NoModel) => loaded[r] # NoModel
        /\ loaded' = [loaded EXCEPT ![r] =
                         IF ready /\ request[r].model # NoModel THEN request[r].model ELSE @]
        /\ task' = [task EXCEPT ![r] = [of |-> request[r].of, ready |-> ready,
                                        model |-> loaded'[r]]]
  BY <1>3 DEF ChildAnswers
<1>5. /\ child' = [child EXCEPT ![r] = "answering"]
      /\ stdin' = [stdin EXCEPT ![r] = <<>>]
      /\ stdout' = [stdout EXCEPT ![r] = Append(@, PieceOf(task'[r], FALSE))]
  BY <1>3 DEF ChildAnswers
<1>6. UNCHANGED <<pc, request, initialized, wanted, started, open, drains, buffer, held>>
  BY DEF ChildAnswers, runtimeVars
<1>7. loaded' \in [Runners -> Models \cup {NoModel}]
  BY <1>3, <1>4 DEF Inv, TypeOK, Request
<1>8. PICK a \in Answer :
        /\ a.of = request[r].of /\ a.ready = ready /\ a.model = loaded'[r]
        /\ task' = [task EXCEPT ![r] = a]
  <2>1. [of |-> request[r].of, ready |-> ready, model |-> loaded'[r]] \in Answer
    BY <1>3, <1>7 DEF Request, Answer
  <2> QED
    BY <1>4, <2>1
<1>9. task' \in [Runners -> Answer] /\ task'[r] = a
  BY <1>8 DEF Inv, TypeOK
<1>10. PieceOf(a, FALSE) \in Piece
  BY <1>8, PiecesAreTyped
<1>11. stdout' = [stdout EXCEPT ![r] = <<PieceOf(a, FALSE)>>]
  BY <1>2, <1>5, <1>9, <1>10, ShortSequences DEF Unread
<1>12. TypeOK'
  <2>1. child' \in [Runners -> Child]
    BY <1>5 DEF Inv, TypeOK, Child
  <2>2. <<>> \in Seq(Request) /\ Len(<<>>) = 0
    OBVIOUS
  <2>3. stdin' \in [Runners -> Seq(Request)] /\ \A s \in Runners : Len(stdin'[s]) <= 1
    BY <1>5, <2>2, ShortWhenReplaced DEF Inv, TypeOK
  <2>4. stdout' \in [Runners -> Seq(Piece)] /\ \A s \in Runners : Len(stdout'[s]) <= 2
    <3> DEFINE v == <<PieceOf(a, FALSE)>>
    <3>1. v \in Seq(Piece) /\ Len(v) <= 2 /\ stdout' = [stdout EXCEPT ![r] = v]
      BY <1>10, <1>11, AtMostOne
    <3> HIDE DEF v
    <3> QED
      BY <3>1, ShortWhenReplaced DEF Inv, TypeOK
  <2> QED
    BY <1>6, <1>7, <1>9, <2>1, <2>3, <2>4 DEF Inv, TypeOK
<1>13. /\ child'[r] = "answering" /\ stdin'[r] = <<>>
       /\ stdout'[r] = <<PieceOf(a, FALSE)>> /\ buffer'[r] = <<>>
  BY <1>2, <1>5, <1>6, <1>11 DEF Inv, TypeOK, Unread
<1>14. loaded'[r] = IF ready /\ request[r].model # NoModel
                    THEN request[r].model ELSE loaded[r]
  BY <1>4 DEF Inv, TypeOK
<1>15. IF request[r].model = NoModel THEN initialized[r]
       ELSE ~initialized[r] /\ request[r].model = wanted[r]
  BY <1>2 DEF Inv, ModelInv, Calling, Exchange
<1>16. Proper(r, a)'
  <2>1. CASE request[r].model = NoModel
    <3>1. loaded[r] \in {wanted[r], NoModel} /\ loaded'[r] = loaded[r]
      BY <1>14, <1>15, <2>1 DEF Inv, ModelInv
    <3> QED
      BY <1>4, <1>6, <1>8, <2>1, <3>1 DEF Proper
  <2>2. CASE request[r].model # NoModel
    BY <1>6, <1>8, <1>14, <1>15, <2>2 DEF Proper
  <2> QED
    BY <2>1, <2>2
<1>17. Exchange(r)'
  <2>1. HalfWritten(r, a)'
    BY <1>9, <1>13, <1>16 DEF HalfWritten
  <2> QED
    BY <1>8, <2>1 DEF Exchange
<1>18. PlaceInv(r)'
  BY <1>2, <1>6, <1>13, <1>17 DEF Inv, PlaceInv
<1>19. ModelInv(r)'
  BY <1>6, <1>14, <1>15 DEF Inv, ModelInv
<1> QED
  BY <1>4, <1>5, <1>6, <1>12, <1>18, <1>19, OneRunnerSuffices DEF Inv, TypeOK

\* It ends the line: all of it is.
LEMMA ChildEndsLineKeepsInv ==
    ASSUME Inv, NEW r \in Runners, ChildEndsLine(r) PROVE Inv'
<1>1. /\ child[r] = "answering" /\ child' = [child EXCEPT ![r] = "idle"]
      /\ task' = [task EXCEPT ![r] = NoAnswer]
      /\ stdout' = [stdout EXCEPT ![r] = Append(@, PieceOf(task[r], TRUE))]
  BY DEF ChildEndsLine
<1>2. UNCHANGED <<pc, request, initialized, wanted, started, open, drains, buffer,
                  loaded, held, stdin>>
  BY DEF ChildEndsLine, runtimeVars
<1>3. pc[r] \in {"read", "wait"} /\ Exchange(r)
  BY <1>1, ChildWorksInExchange
<1>4. PICK a \in Answer : HalfWritten(r, a)
  BY <1>1, <1>3 DEF Exchange, Unread, Flushed
<1> DEFINE x == PieceOf(a, FALSE)
           y == PieceOf(a, TRUE)
<1>5. x \in Piece /\ y \in Piece
  BY PiecesAreTyped
<1>6. /\ task[r] = a /\ Proper(r, a) /\ stdin[r] = <<>>
      /\ \/ stdout[r] = <<x>> /\ buffer[r] = <<>>
         \/ stdout[r] = <<>> /\ buffer[r] = <<x>>
  BY <1>1, <1>4 DEF HalfWritten
<1>7. PICK rest : /\ stdout' = [stdout EXCEPT ![r] = rest]
                  /\ \/ rest = <<x, y>> /\ buffer[r] = <<>>
                     \/ rest = <<y>> /\ buffer[r] = <<x>>
  <2>1. stdout' = [stdout EXCEPT ![r] = Append(stdout[r], y)]
    BY <1>1, <1>6
  <2> HIDE DEF x, y
  <2>2. Append(<<x>>, y) = <<x, y>> /\ Append(<<>>, y) = <<y>>
    BY <1>5, ShortSequences
  <2> QED
    BY <1>6, <2>1, <2>2
<1> HIDE DEF x, y
<1>8. rest \in Seq(Piece) /\ Len(rest) <= 2
  <2>1. CASE rest = <<x, y>>
    <3>1. <<x, y>> \in Seq(Piece) /\ Len(<<x, y>>) = 2
      BY <1>5, ShortSequences
    <3> QED
      BY <2>1, <3>1
  <2>2. CASE rest = <<y>>
    BY <1>5, <2>2, AtMostOne
  <2> QED
    BY <1>7, <2>1, <2>2
<1>9. TypeOK'
  <2>1. child' \in [Runners -> Child]
    BY <1>1 DEF Inv, TypeOK, Child
  <2>2. NoAnswer \in Answer
    BY DEF NoAnswer, Answer
  <2>3. task' \in [Runners -> Answer]
    BY <1>1, <2>2 DEF Inv, TypeOK
  <2>4. stdout' \in [Runners -> Seq(Piece)] /\ \A s \in Runners : Len(stdout'[s]) <= 2
    BY <1>7, <1>8, ShortWhenReplaced DEF Inv, TypeOK
  <2> QED
    BY <1>2, <2>1, <2>3, <2>4 DEF Inv, TypeOK
<1>10. /\ child'[r] = "idle" /\ stdin'[r] = <<>>
       /\ \/ stdout'[r] = <<x, y>> /\ buffer'[r] = <<>>
          \/ stdout'[r] = <<y>> /\ buffer'[r] = <<x>>
  BY <1>1, <1>2, <1>6, <1>7 DEF Inv, TypeOK
<1>11. Proper(r, a)'
  BY <1>2, <1>6 DEF Proper
<1>12. Flushed(r, a)'
  BY <1>10, <1>11 DEF Flushed, x, y
<1>13. Exchange(r)'
  BY <1>12 DEF Exchange
<1>14. PlaceInv(r)'
  BY <1>2, <1>3, <1>10, <1>13 DEF Inv, PlaceInv
<1>15. ModelInv(r)'
  BY <1>2, <1>3 DEF Inv, ModelInv, Calling
<1> QED
  BY <1>1, <1>2, <1>7, <1>9, <1>14, <1>15, OneRunnerSuffices DEF Inv, TypeOK

\* It dies, at any point of the exchange.
LEMMA ChildEndsKeepsInv ==
    ASSUME Inv, NEW r \in Runners, ChildEnds(r) PROVE Inv'
<1>1. /\ child[r] # "none" /\ child' = [child EXCEPT ![r] = "dead"]
      /\ loaded' = [loaded EXCEPT ![r] = NoModel]
      /\ held' = [held EXCEPT ![r] = {}]
      /\ task' = [task EXCEPT ![r] = NoAnswer]
  BY DEF ChildEnds, ChildGone, Alive
<1>2. UNCHANGED <<pc, request, initialized, wanted, started, open, drains, buffer,
                  stdin, stdout>>
  BY DEF ChildEnds, runtimeVars, pipeVars
<1>3. TypeOK'
  <2>1. /\ child' \in [Runners -> Child] /\ held' \in [Runners -> SUBSET Runners]
        /\ loaded' \in [Runners -> Models \cup {NoModel}]
    BY <1>1 DEF Inv, TypeOK, Child
  <2>2. NoAnswer \in Answer
    BY DEF NoAnswer, Answer
  <2>3. task' \in [Runners -> Answer]
    BY <1>1, <2>2 DEF Inv, TypeOK
  <2> QED
    BY <1>2, <2>1, <2>3 DEF Inv, TypeOK
<1>4. child'[r] = "dead" /\ loaded'[r] = NoModel
  BY <1>1 DEF Inv, TypeOK
<1>5. Quiet(r) => Quiet(r)'
  BY <1>2, <1>4 DEF Quiet
<1>6. ASSUME Exchange(r) PROVE Exchange(r)'
  <2>1. CASE Unread(r)
    <3>1. Unread(r)'
      BY <1>2, <1>4, <2>1 DEF Unread
    <3> QED
      BY <3>1 DEF Exchange
  <2>2. CASE \E a \in Answer : HalfWritten(r, a) \/ Flushed(r, a)
    <3>1. PICK a \in Answer : HalfWritten(r, a) \/ Flushed(r, a)
      BY <2>2
    <3>2. Proper(r, a)'
      BY <1>2, <1>4, <3>1 DEF HalfWritten, Flushed, Proper
    <3>3. HalfWritten(r, a)' \/ Flushed(r, a)'
      BY <1>2, <1>4, <3>1, <3>2 DEF HalfWritten, Flushed
    <3> QED
      BY <3>3 DEF Exchange
  <2> QED
    BY <1>6, <2>1, <2>2 DEF Exchange
<1>7. pc[r] \notin {"idle", "pipes", "spawn", "join"} \/ (pc[r] = "idle" /\ started[r])
  BY <1>1 DEF Inv, PlaceInv
<1>8. PlaceInv(r)'
  BY <1>2, <1>4, <1>5, <1>6, <1>7 DEF Inv, PlaceInv
<1>9. ModelInv(r)'
  <2>1. CASE pc[r] \in Calling
    BY <1>2, <1>4, <2>1 DEF Inv, ModelInv
  <2>2. CASE pc[r] = "wait" /\ Exchange(r)
    BY <1>2, <1>4, <2>2 DEF Inv, ModelInv
  <2>3. CASE pc[r] \notin Calling /\ ~(pc[r] = "wait" /\ Exchange(r))
    <3>1. ASSUME pc[r] = "wait" PROVE ~Exchange(r)'
      <4>1. Quiet(r)'
        BY <1>5, <2>3, <3>1 DEF Inv, PlaceInv
      <4>2. ~Unread(r)'
        BY <4>1, ShortSequences DEF Quiet, Unread
      <4>3. ASSUME NEW a \in Answer PROVE ~HalfWritten(r, a)' /\ ~Flushed(r, a)'
        BY <4>1, ShortSequences DEF Quiet, HalfWritten, Flushed
      <4> QED
        BY <4>2, <4>3 DEF Exchange
    <3> QED
      BY <1>2, <1>4, <2>3, <3>1 DEF ModelInv
  <2> QED
    BY <2>1, <2>2, <2>3
<1> QED
  BY <1>1, <1>2, <1>3, <1>8, <1>9, OneRunnerSuffices DEF Inv, TypeOK

-----------------------------------------------------------------------------

\* At first there is no child.
LEMMA InitHasInv == Init => Inv
<1> SUFFICES ASSUME Init PROVE Inv
  OBVIOUS
<1>1. <<>> \in Seq(Request) /\ <<>> \in Seq(Piece) /\ Len(<<>>) = 0
  OBVIOUS
<1>2. NoAnswer \in Answer /\ [of |-> 0, model |-> NoModel] \in Request
  BY DEF NoAnswer, Answer, Request
<1>3. TypeOK
  <2>1. /\ stdin \in [Runners -> Seq(Request)] /\ stdout \in [Runners -> Seq(Piece)]
        /\ buffer \in [Runners -> Seq(Piece)]
        /\ \A r \in Runners : Len(stdin[r]) <= 1 /\ Len(stdout[r]) <= 2 /\ Len(buffer[r]) <= 1
    BY <1>1 DEF Init
  <2>2. /\ request \in [Runners -> Request] /\ task \in [Runners -> Answer]
        /\ wanted \in [Runners -> Models \cup {NoModel}]
        /\ loaded \in [Runners -> Models \cup {NoModel}]
    BY <1>2 DEF Init
  <2>3. /\ initialized \in [Runners -> BOOLEAN] /\ started \in [Runners -> BOOLEAN]
        /\ drains \in [Runners -> BOOLEAN]
    BY DEF Init
  <2>4. /\ pc \in [Runners -> Pc] /\ child \in [Runners -> Child]
        /\ open \in [Runners -> SUBSET Ends] /\ held \in [Runners -> SUBSET Runners]
    BY DEF Init, Pc, Child
  <2> QED
    BY <2>1, <2>2, <2>3, <2>4 DEF TypeOK
<1>4. ASSUME NEW r \in Runners PROVE PlaceInv(r) /\ ModelInv(r)
  <2>1. /\ pc[r] = "idle" /\ child[r] = "none" /\ open[r] = {}
        /\ stdin[r] = <<>> /\ stdout[r] = <<>> /\ buffer[r] = <<>>
        /\ loaded[r] = NoModel
    BY DEF Init
  <2>2. ~started[r] /\ ~drains[r] /\ ~initialized[r]
    BY DEF Init
  <2>3. PlaceInv(r)
    BY <2>1, <2>2 DEF PlaceInv, Quiet
  <2>4. ModelInv(r)
    BY <2>1, <2>2 DEF ModelInv, Calling
  <2> QED
    BY <2>3, <2>4
<1> QED
  BY <1>3, <1>4 DEF Inv

\* Every step keeps the invariant.
LEMMA NextKeepsInv == Inv /\ [Next]_vars => Inv'
<1> SUFFICES ASSUME Inv, [Next]_vars PROVE Inv'
  OBVIOUS
<1>1. CASE UNCHANGED vars
  <2>1. /\ UNCHANGED <<pc, request, initialized, wanted, started, open, drains, buffer>>
        /\ UNCHANGED <<child, task, loaded, held, stdin, stdout>>
    BY <1>1 DEF vars, runtimeVars, childVars, pipeVars
  <2>2. TypeOK'
    BY <2>1 DEF Inv, TypeOK
  <2>3. ASSUME NEW s \in Runners PROVE PlaceInv(s)' /\ ModelInv(s)'
    BY <2>1, Elsewhere DEF Inv
  <2> QED
    BY <2>2, <2>3 DEF Inv
<1>2. ASSUME NEW r \in Runners, Call(r) PROVE Inv'
  <2>1. CASE CallInitialize(r)
    BY <2>1, CallInitializeKeepsInv
  <2>2. CASE RefuseInitialize(r)
    BY <2>2, RefuseInitializeKeepsInv
  <2>3. CASE CallTranscribe(r)
    BY <2>3, CallTranscribeKeepsInv
  <2>4. CASE CallStop(r)
    BY <2>4, BeginStopKeepsInv DEF CallStop
  <2> QED
    BY <1>2, <2>1, <2>2, <2>3, <2>4 DEF Call
<1>3. ASSUME NEW r \in Runners, Start(r) PROVE Inv'
  <2>1. CASE MakePipes(r)
    BY <2>1, MakePipesKeepsInv
  <2>2. CASE PipesFail(r) \/ SpawnFails(r)
    BY <2>2, StartFailsKeepsInv
  <2>3. CASE Spawn(r)
    BY <2>3, SpawnKeepsInv
  <2>4. CASE CloseEnds(r)
    BY <2>4, CloseEndsKeepsInv
  <2> QED
    BY <1>3, <2>1, <2>2, <2>3, <2>4 DEF Start
<1>4. ASSUME NEW r \in Runners, Transact(r) PROVE Inv'
  <2>1. CASE Send(r)
    BY <2>1, SendKeepsInv
  <2>2. CASE SendFails(r)
    BY <2>2, BeginStopKeepsInv DEF SendFails, GiveUp
  <2>3. CASE ReadPiece(r)
    BY <2>3, ReadPieceKeepsInv
  <2>4. CASE ReadLine(r)
    BY <2>4, ReadLineKeepsInv
  <2>5. CASE ReadFails(r)
    BY <2>5, BeginStopKeepsInv DEF ReadFails, GiveUp
  <2> QED
    BY <1>4, <2>1, <2>2, <2>3, <2>4, <2>5 DEF Transact
<1>5. ASSUME NEW r \in Runners, Stop(r) PROVE Inv'
  BY <1>5, CloseOutKeepsInv, StopJoinKeepsInv DEF Stop, StopReap, StopKill
<1>6. ASSUME NEW r \in Runners, ChildStep(r) PROVE Inv'
  BY <1>6, ChildAnswersKeepsInv, ChildEndsLineKeepsInv, ChildEndsKeepsInv DEF ChildStep
<1> QED
  BY <1>1, <1>2, <1>3, <1>4, <1>5, <1>6 DEF Next, RunnerStep

\* So it holds always.
LEMMA InvHolds == Spec => []Inv
<1>1. Init => Inv
  BY InitHasInv
<1>2. Inv /\ [Next]_vars => Inv'
  BY NextKeepsInv
<1> QED
  BY <1>1, <1>2, PTL DEF Spec

\* The members keep their types, and no pipe ever holds more than one request or one
\* answer.  (persistent_process_runner.cpp, start_locked() to stop_locked().)
THEOREM RunnerTypeCorrect == Spec => []TypeOK
<1>1. Inv => TypeOK
  BY DEF Inv
<1> QED
  BY <1>1, InvHolds, PTL

\* Every line that is read is the whole answer to the request of that very call.
\* (transact_locked() gives a child up with its request.)
THEOREM AnswersBelongToRequests == Spec => []AnswerBelongsToRequest
<1>1. Inv => AnswerBelongsToRequest
  <2> SUFFICES ASSUME Inv, NEW r \in Runners, pc[r] = "read", LineEnds(r)
               PROVE  Whole(Line(r)) /\ Line(r)[1].of = request[r].of
    BY DEF AnswerBelongsToRequest
  <2>1. Exchange(r)
    BY DEF Inv, PlaceInv
  <2>2. PICK a \in Answer : /\ Flushed(r, a) /\ Whole(Line(r))
                            /\ Line(r)[1] = PieceOf(a, FALSE)
    BY <2>1, LineIsTheAnswer
  <2>3. Line(r)[1].of = a.of /\ a.of = request[r].of
    BY <2>2 DEF PieceOf, Flushed, Proper
  <2> QED
    BY <2>2, <2>3
<1> QED
  BY <1>1, InvHolds, PTL

\* No transcript is made with a model other than the one initialize() was last called
\* with, whatever fails, dies or is started anew in between.
THEOREM TranscriptsFromWantedModel == Spec => []TranscriptFromWantedModel
<1>1. Inv => TranscriptFromWantedModel
  <2> SUFFICES ASSUME Inv, NEW r \in Runners, pc[r] = "read", LineEnds(r),
                      request[r].model = NoModel, Ready(Line(r))
               PROVE  Line(r)[1].model = wanted[r]
    BY DEF TranscriptFromWantedModel
  <2>1. Exchange(r)
    BY DEF Inv, PlaceInv
  <2>2. PICK a \in Answer : Flushed(r, a) /\ Line(r)[1] = PieceOf(a, FALSE)
    BY <2>1, LineIsTheAnswer
  <2>3. a.ready /\ Line(r)[1].model = a.model
    BY <2>2 DEF Ready, PieceOf
  <2> QED
    BY <2>2, <2>3 DEF Flushed, Proper
<1> QED
  BY <1>1, InvHolds, PTL

\* A call that returns without a running child has closed every descriptor, reaped the
\* child and joined the thread.  (start_locked(), stop_locked().)
THEOREM NothingIsLeftBehind == Spec => []NothingLeftBehind
<1>1. Inv => NothingLeftBehind
  BY DEF Inv, PlaceInv, NothingLeftBehind
<1> QED
  BY <1>1, InvHolds, PTL

-----------------------------------------------------------------------------
(* The lines: their characters, and white space.                             *)

\* A text spelled, one character more.
SpelledStep(table, v, e) == v \o IF e \in DOMAIN table THEN table[e] ELSE <<e>>

\* The folds of FoldFacts with each of these as the step.
Spells == INSTANCE FoldFacts WITH Step <- SpelledStep, Base <- <<>>

\* Parts joined, and one more.
JoinedStep(unused, v, e) == IF v = <<>> THEN e ELSE v \o <<"comma", "space">> \o e

\* Joined is one, too.
Joins == INSTANCE FoldFacts WITH Step <- JoinedStep, Base <- <<>>

\* The lines there are.
Lines == Seq(Characters)

\* Every character of a line is one, and behind the last there is none.
LEMMA LineCharacters ==
    ASSUME NEW l \in Lines
    PROVE  /\ Len(l) \in Nat /\ DOMAIN l = 1 .. Len(l)
           /\ \A i \in 1 .. Len(l) : l[i] \in Characters /\ At(l, i) = l[i] /\ At(l, i) # "end"
           /\ \A i : i \notin 1 .. Len(l) => At(l, i) = "end"
<1>1. Len(l) \in Nat /\ DOMAIN l = 1 .. Len(l) /\ \A i \in 1 .. Len(l) : l[i] \in Characters
  BY LenProperties, ElementOfSeq DEF Lines
<1>2. "end" \notin Characters
  BY CharactersAssumption
<1> QED BY <1>1, <1>2, Zenon DEF At

\* White space at a position of a line ends at k.
Stops(l, at, k) ==
    /\ k \in at .. Len(l) + 1 /\ ~IsSpace(At(l, k))
    /\ \A j \in at .. k - 1 : IsSpace(At(l, j))

\* White space is skipped up to the first character that is none, or the end.
LEMMA SkipStops ==
    ASSUME NEW l \in Lines, NEW at \in 1 .. Len(l) + 1
    PROVE  Stops(l, at, SkipWhitespace(l, at))
<1>1. Len(l) \in Nat /\ At(l, Len(l) + 1) = "end"
  <2>1. Len(l) \in Nat /\ \A i : i \notin 1 .. Len(l) => At(l, i) = "end"
    BY LineCharacters
  <2> QED BY <2>1
<1>2. ~IsSpace("end")
  BY DEF IsSpace
<1> DEFINE S == {k \in at .. Len(l) + 1 : ~IsSpace(At(l, k))}
<1>3. PICK k \in S : \A x \in S : k <= x
  <2>1. Len(l) + 1 \in S
    BY <1>1, <1>2
  <2>2. S \in SUBSET (at .. Len(l) + 1) /\ S # {} /\ at \in Int /\ Len(l) + 1 \in Int
    BY <2>1, <1>1
  <2> HIDE DEF S
  <2> QED BY <2>2, Spells!LeastOfInterval
<1>4. Stops(l, at, k)
  <2>1. k \in at .. Len(l) + 1 /\ ~IsSpace(At(l, k))
    OBVIOUS
  <2>2. ASSUME NEW j \in at .. k - 1 PROVE IsSpace(At(l, j))
    <3>1. j \in at .. Len(l) + 1 /\ ~(k <= j)
      BY <2>1, <1>1
    <3>2. j \notin S
      BY <3>1, <1>3
    <3> QED BY <3>1, <3>2
  <2> QED BY <2>1, <2>2 DEF Stops
<1>5. \E m \in at .. Len(l) + 1 : /\ ~IsSpace(At(l, m))
                                   /\ \A j \in at .. m - 1 : IsSpace(At(l, j))
  BY <1>4 DEF Stops
<1> QED BY <1>5, Zenon DEF SkipWhitespace, Stops

\* It stops at one place only.
LEMMA SkipIs ==
    ASSUME NEW l \in Lines, NEW at \in 1 .. Len(l) + 1, NEW k, Stops(l, at, k)
    PROVE  SkipWhitespace(l, at) = k
<1> DEFINE m == SkipWhitespace(l, at)
<1>1. Stops(l, at, m)
  BY SkipStops
<1> HIDE DEF m
<1>2. k \in at .. Len(l) + 1 /\ m \in at .. Len(l) + 1 /\ at \in Int /\ Len(l) \in Int
  BY <1>1, LineCharacters DEF Stops
<1>3. ~(k < m)
  <2> SUFFICES ASSUME k < m PROVE FALSE
    OBVIOUS
  <2>1. k \in at .. m - 1
    BY <1>2
  <2> QED BY <2>1, <1>1 DEF Stops
<1>4. ~(m < k)
  <2> SUFFICES ASSUME m < k PROVE FALSE
    OBVIOUS
  <2>1. m \in at .. k - 1
    BY <1>2
  <2> QED BY <2>1, <1>1 DEF Stops
<1>5. m = k
  BY <1>2, <1>3, <1>4
<1> QED BY <1>5 DEF m

\* Where there is no white space nothing is skipped; before one, one more.
LEMMA SkipNothing ==
    ASSUME NEW l \in Lines, NEW at \in 1 .. Len(l) + 1, ~IsSpace(At(l, at))
    PROVE  SkipWhitespace(l, at) = at
<1>1. Len(l) \in Nat
  BY LineCharacters
<1>2. at \in at .. Len(l) + 1 /\ \A j : j \notin at .. at - 1
  BY <1>1
<1>3. Stops(l, at, at)
  BY <1>2 DEF Stops
<1> QED BY <1>3, SkipIs

\* Where there is some, skipping goes on behind it.
LEMMA SkipOne ==
    ASSUME NEW l \in Lines, NEW at \in 1 .. Len(l), IsSpace(At(l, at))
    PROVE  SkipWhitespace(l, at) = SkipWhitespace(l, at + 1)
<1>1. Len(l) \in Nat
  BY LineCharacters
<1>2. at \in 1 .. Len(l) + 1 /\ at + 1 \in 1 .. Len(l) + 1
  BY <1>1
<1> DEFINE k == SkipWhitespace(l, at + 1)
<1>3. Stops(l, at + 1, k)
  BY <1>2, SkipStops
<1> HIDE DEF k
<1>4. k \in at .. Len(l) + 1 /\ \A j \in at .. k - 1 : j = at \/ j \in at + 1 .. k - 1
  BY <1>1, <1>3 DEF Stops
<1>5. Stops(l, at, k)
  BY <1>3, <1>4 DEF Stops
<1>6. SkipWhitespace(l, at) = k
  BY <1>2, <1>5, SkipIs
<1> QED BY <1>6 DEF k

-----------------------------------------------------------------------------

\* What the parser reads by a rule of its own.
Rules == Lists \cup {"string"}

\* A parse that reads has what it read; one that throws is another.
LEMMA ParseFacts ==
    /\ Throws.ok = FALSE
    /\ \A v, e : /\ Reads(v, e).ok = TRUE /\ Reads(v, e).value = v /\ Reads(v, e).at = e
                 /\ Reads(v, e) # Throws
<1>1. Throws.ok = FALSE /\ \A v, e : Reads(v, e).ok = TRUE
  BY DEF Throws, Reads
<1>2. \A v, e : Reads(v, e).value = v /\ Reads(v, e).at = e
  BY DEF Reads
<1> QED BY <1>1, <1>2

\* A parse that began at a position and failed, or ends behind it in the line.
Fine(r, at, l) ==
    r = Throws \/ (r = Reads(r.value, r.at) /\ r.at \in at + 1 .. Len(l) + 1)

\* The ways a parse is fine.
LEMMA FineParses ==
    ASSUME NEW r, NEW at, NEW l
    PROVE  /\ Fine(r, at, l) => (r.ok <=> r # Throws)
           /\ Fine(r, at, l) /\ r.ok => r = Reads(r.value, r.at) /\ r.at \in at + 1 .. Len(l) + 1
           /\ \A v, e : e \in at + 1 .. Len(l) + 1 => Fine(Reads(v, e), at, l)
           /\ Fine(Throws, at, l)
BY ParseFacts, Zenon DEF Fine

\* What was read behind a position is fine.
FineBehind(l, f, at) ==
    \A rule \in Rules : \A k \in at + 1 .. Len(l) + 1 : Fine(f[<<rule, k>>], k, l)

\* A line begins with p.
Begins(p, l) == Len(p) <= Len(l) /\ \A i \in 1 .. Len(p) : l[i] = p[i]

\* A line that begins with p has the characters of p.
LEMMA BeginsAt ==
    ASSUME NEW p \in Lines, NEW l \in Lines, Begins(p, l)
    PROVE  \A i : At(p, i) # "end" => i \in 1 .. Len(p) /\ At(l, i) = At(p, i)
<1> SUFFICES ASSUME NEW i, At(p, i) # "end"
             PROVE  i \in 1 .. Len(p) /\ At(l, i) = At(p, i)
  OBVIOUS
<1>1. i \in 1 .. Len(p) /\ At(p, i) = p[i]
  BY LineCharacters
<1>2. Len(p) <= Len(l) /\ l[i] = p[i] /\ Len(p) \in Nat /\ Len(l) \in Nat
  BY <1>1, LineCharacters DEF Begins
<1>3. i \in 1 .. Len(l)
  BY <1>1, <1>2
<1>4. At(l, i) = l[i]
  BY <1>3, LineCharacters
<1> QED BY <1>1, <1>2, <1>4

\* White space that ends in a line's beginning ends there in the line.
LEMMA SkipFollows ==
    ASSUME NEW p \in Lines, NEW l \in Lines, Begins(p, l), NEW at \in 1 .. Len(p) + 1,
           At(p, SkipWhitespace(p, at)) # "end"
    PROVE  /\ SkipWhitespace(l, at) = SkipWhitespace(p, at)
           /\ SkipWhitespace(p, at) \in at .. Len(p)
           /\ At(l, SkipWhitespace(p, at)) = At(p, SkipWhitespace(p, at))
<1> DEFINE k == SkipWhitespace(p, at)
<1>1. Stops(p, at, k)
  BY SkipStops
<1>2. At(p, k) # "end"
  OBVIOUS
<1> HIDE DEF k
<1>3. k \in 1 .. Len(p) /\ At(l, k) = At(p, k)
  BY <1>2, BeginsAt
<1>4. Len(p) \in Nat /\ Len(l) \in Nat /\ Len(p) <= Len(l) /\ k \in at .. Len(p) + 1
  BY <1>1, LineCharacters DEF Begins, Stops
<1>5. ASSUME NEW j \in at .. k - 1 PROVE IsSpace(At(l, j))
  <2>1. IsSpace(At(p, j))
    BY <1>1 DEF Stops
  <2>2. ~IsSpace("end")
    BY DEF IsSpace
  <2>3. At(p, j) # "end"
    BY <2>1, <2>2
  <2>4. At(l, j) = At(p, j)
    BY <2>3, BeginsAt
  <2> QED BY <2>1, <2>4
<1>6. Stops(l, at, k)
  <2>1. ~IsSpace(At(l, k))
    BY <1>1, <1>3 DEF Stops
  <2>2. k \in at .. Len(l) + 1
    BY <1>4
  <2> QED BY <2>1, <2>2, <1>5 DEF Stops
<1>7. at \in 1 .. Len(l) + 1
  BY <1>4
<1>8. SkipWhitespace(l, at) = k
  BY <1>6, <1>7, SkipIs
<1>9. k \in at .. Len(p)
  BY <1>3, <1>4
<1> QED BY <1>3, <1>8, <1>9 DEF k

\* Skipping ends in the line, or behind it where nothing else follows.
LEMMA SkipInside ==
    ASSUME NEW l \in Lines, NEW at \in 1 .. Len(l) + 1
    PROVE  /\ SkipWhitespace(l, at) \in at .. Len(l) + 1
           /\ At(l, SkipWhitespace(l, at)) # "end" => SkipWhitespace(l, at) \in at .. Len(l)
<1> DEFINE k == SkipWhitespace(l, at)
<1>1. k \in at .. Len(l) + 1
  BY SkipStops DEF Stops
<1> HIDE DEF k
<1>2. Len(l) \in Nat
  BY LineCharacters
<1>3. At(l, k) # "end" => k \in 1 .. Len(l)
  BY LineCharacters
<1>4. At(l, k) # "end" => k \in at .. Len(l)
  BY <1>1, <1>2, <1>3
<1> QED BY <1>1, <1>4 DEF k

-----------------------------------------------------------------------------
\* The two ways an escape goes on behind the backslash.
LEMMA EscapeCases ==
    ASSUME NEW l, NEW at
    PROVE  /\ At(l, at) \in {"quote", "backslash", "n"} =>
                Escaped(l, at) = [ok |-> TRUE, at |-> at + 1,
                                  c |-> IF At(l, at) = "n" THEN "newline" ELSE At(l, at)]
           /\ At(l, at) = "u" /\ At(l, at + 1) = "0001" =>
                Escaped(l, at) = [ok |-> TRUE, c |-> "control", at |-> at + 2]
           /\ Escaped(l, at).ok => \/ At(l, at) \in {"quote", "backslash", "n"}
                                   \/ At(l, at) = "u" /\ At(l, at + 1) = "0001"
BY DEF Escaped

\* A character of a string is one, and what follows begins behind it.
LEMMA CharacterSound ==
    ASSUME NEW l \in Lines, NEW at \in 1 .. Len(l) + 1, NextCharacter(l, at).ok
    PROVE  NextCharacter(l, at).at \in at + 1 .. Len(l) + 1
<1>1. Len(l) \in Nat
  BY LineCharacters
<1>2. \A i : At(l, i) # "end" => i \in 1 .. Len(l)
  BY LineCharacters
<1>3. CASE At(l, at) = "backslash"
  <2>1. NextCharacter(l, at) = Escaped(l, at + 1) /\ Escaped(l, at + 1).ok
    BY <1>3 DEF NextCharacter
  <2>2. CASE At(l, at + 1) \in {"quote", "backslash", "n"}
    <3>1. Escaped(l, at + 1).at = at + 1 + 1
      BY <2>2, EscapeCases
    <3>2. at + 1 \in 1 .. Len(l)
      BY <1>2, <2>2
    <3>3. NextCharacter(l, at).at = at + 1 + 1
      BY <3>1, <2>1
    <3> QED BY <3>2, <3>3, <1>1
  <2>3. CASE At(l, at + 1) = "u" /\ At(l, at + 1 + 1) = "0001"
    <3>1. Escaped(l, at + 1).at = at + 1 + 2
      BY <2>3, EscapeCases
    <3>2. at + 1 + 1 \in 1 .. Len(l)
      BY <1>2, <2>3
    <3>3. NextCharacter(l, at).at = at + 1 + 2
      BY <3>1, <2>1
    <3> QED BY <3>2, <3>3, <1>1
  <2> QED BY <2>1, <2>2, <2>3, EscapeCases
<1>4. CASE At(l, at) # "backslash"
  <2>1. NextCharacter(l, at).at = at + 1 /\ At(l, at) # "end"
    BY <1>4 DEF NextCharacter
  <2>2. at \in 1 .. Len(l)
    BY <2>1, <1>2
  <2>3. NextCharacter(l, at).at = at + 1
    BY <2>1
  <2> QED BY <2>2, <2>3, <1>1
<1> QED BY <1>3, <1>4

\* It is the same one in a line that goes on.
LEMMA CharacterFollows ==
    ASSUME NEW p \in Lines, NEW l \in Lines, Begins(p, l), NEW at,
           NextCharacter(p, at).ok
    PROVE  NextCharacter(l, at) = NextCharacter(p, at)
<1>1. \A i : At(p, i) # "end" => At(l, i) = At(p, i)
  BY BeginsAt
<1>2. CASE At(p, at) = "backslash"
  <2>1. At(l, at) = "backslash"
    BY <1>1, <1>2
  <2>2. NextCharacter(p, at) = Escaped(p, at + 1) /\ NextCharacter(l, at) = Escaped(l, at + 1)
    BY <1>2, <2>1 DEF NextCharacter
  <2>3. CASE At(p, at + 1) \in {"quote", "backslash", "n"}
    <3>1. At(l, at + 1) = At(p, at + 1)
      BY <1>1, <2>3
    <3>2. Escaped(p, at + 1) = [ok |-> TRUE, at |-> at + 1 + 1,
                                c |-> IF At(p, at + 1) = "n" THEN "newline" ELSE At(p, at + 1)]
      BY <2>3, EscapeCases
    <3>3. At(l, at + 1) \in {"quote", "backslash", "n"}
      BY <3>1, <2>3
    <3>4. Escaped(l, at + 1) = [ok |-> TRUE, at |-> at + 1 + 1,
                                c |-> IF At(l, at + 1) = "n" THEN "newline" ELSE At(l, at + 1)]
      BY <3>3, EscapeCases
    <3> QED BY <3>1, <3>2, <3>4, <2>2, Zenon
  <2>4. CASE At(p, at + 1) = "u" /\ At(p, at + 1 + 1) = "0001"
    <3>1. At(l, at + 1) = At(p, at + 1) /\ At(l, at + 1 + 1) = At(p, at + 1 + 1)
      BY <1>1, <2>4
    <3>2. Escaped(p, at + 1) = [ok |-> TRUE, c |-> "control", at |-> at + 1 + 2]
      BY <2>4, EscapeCases
    <3>3. At(l, at + 1) = "u" /\ At(l, at + 1 + 1) = "0001"
      BY <3>1, <2>4
    <3>4. Escaped(l, at + 1) = [ok |-> TRUE, c |-> "control", at |-> at + 1 + 2]
      BY <3>3, EscapeCases
    <3> QED BY <3>2, <3>4, <2>2, Zenon
  <2> QED BY <2>2, <2>3, <2>4, EscapeCases
<1>3. CASE At(p, at) # "backslash"
  <2>1. At(p, at) # "end"
    BY <1>3 DEF NextCharacter
  <2>2. At(l, at) = At(p, at)
    BY <1>1, <2>1
  <2> QED BY <1>3, <2>2, Zenon DEF NextCharacter
<1> QED BY <1>2, <1>3

\* The cases of a turn of parse_string().
LEMMA StringCases ==
    ASSUME NEW l, NEW f, NEW at
    PROVE  LET next == NextCharacter(l, at)
               rest == f[<<"string", next.at>>]
           IN  /\ At(l, at) = "quote" => StringStep(l, f, at) = Reads(Text(<<>>), at + 1)
               /\ At(l, at) # "quote" /\ next.ok /\ rest.ok =>
                    StringStep(l, f, at) = Reads(Text(<<next.c>> \o rest.value.holds), rest.at)
               /\ \/ StringStep(l, f, at) = Throws
                  \/ At(l, at) = "quote"
                  \/ At(l, at) # "quote" /\ next.ok /\ rest.ok
BY Zenon DEF StringStep

\* A turn of parse_string() is fine if the next one is.
LEMMA StringSound ==
    ASSUME NEW l \in Lines, NEW f, NEW at \in 1 .. Len(l) + 1, FineBehind(l, f, at)
    PROVE  Fine(StringStep(l, f, at), at, l)
<1>1. Len(l) \in Nat
  BY LineCharacters
<1>2. CASE At(l, at) = "quote"
  <2>1. at \in 1 .. Len(l)
    BY <1>2, LineCharacters
  <2>2. at + 1 \in at + 1 .. Len(l) + 1
    BY <2>1, <1>1
  <2>3. StringStep(l, f, at) = Reads(Text(<<>>), at + 1)
    BY <1>2, StringCases
  <2> QED BY <2>2, <2>3, FineParses
<1>3. CASE At(l, at) # "quote" /\ NextCharacter(l, at).ok
           /\ f[<<"string", NextCharacter(l, at).at>>].ok
  <2> DEFINE k == NextCharacter(l, at).at
             rest == f[<<"string", k>>]
  <2>1. k \in at + 1 .. Len(l) + 1
    BY <1>3, CharacterSound
  <2>2. StringStep(l, f, at)
          = Reads(Text(<<NextCharacter(l, at).c>> \o rest.value.holds), rest.at)
    BY <1>3, StringCases
  <2>3. rest.ok
    BY <1>3
  <2> HIDE DEF k
  <2>4. Fine(rest, k, l)
    BY <2>1 DEF FineBehind, Rules
  <2>5. rest.at \in k + 1 .. Len(l) + 1
    BY <2>3, <2>4, FineParses
  <2>6. rest.at \in at + 1 .. Len(l) + 1
    BY <2>1, <2>5, <1>1
  <2> QED BY <2>2, <2>6, FineParses
<1>4. CASE StringStep(l, f, at) = Throws
  BY <1>4, FineParses
<1> QED BY <1>2, <1>3, <1>4, StringCases

\* What was read behind a position of a line's beginning is read in the line.
Follows(p, f, l, g, at) ==
    \A rule \in Rules : \A k \in at + 1 .. Len(p) + 1 :
        f[<<rule, k>>].ok => g[<<rule, k>>] = f[<<rule, k>>]

\* A turn of parse_string() reads the same in a line that goes on.
LEMMA StringFollows ==
    ASSUME NEW p \in Lines, NEW l \in Lines, Begins(p, l), NEW f, NEW g,
           NEW at \in 1 .. Len(p) + 1, Follows(p, f, l, g, at), StringStep(p, f, at).ok
    PROVE  StringStep(l, g, at) = StringStep(p, f, at)
<1>1. \A i : At(p, i) # "end" => At(l, i) = At(p, i)
  BY BeginsAt
<1>2. CASE At(p, at) = "quote"
  <2>1. At(l, at) = "quote"
    BY <1>1, <1>2
  <2> QED BY <2>1, <1>2, StringCases
<1>3. CASE At(p, at) # "quote" /\ NextCharacter(p, at).ok
           /\ f[<<"string", NextCharacter(p, at).at>>].ok
  <2> DEFINE n == NextCharacter(p, at)
             k == n.at
             rest == f[<<"string", k>>]
  <2>1. k \in at + 1 .. Len(p) + 1
    BY <1>3, CharacterSound
  <2>2. NextCharacter(l, at) = n
    BY <1>3, CharacterFollows
  <2>3. At(p, at) # "end" /\ At(l, at) # "quote"
    <3>1. ASSUME At(p, at) = "end" PROVE FALSE
      BY <1>3, <3>1 DEF NextCharacter
    <3> QED BY <3>1, <1>1, <1>3
  <2>4. StringStep(p, f, at) = Reads(Text(<<n.c>> \o rest.value.holds), rest.at)
    BY <1>3, StringCases
  <2>5. rest.ok /\ n.ok
    BY <1>3
  <2> HIDE DEF k
  <2>6. g[<<"string", k>>] = rest
    BY <2>1, <2>5 DEF Follows, Rules
  <2>7. StringStep(l, g, at) = Reads(Text(<<n.c>> \o rest.value.holds), rest.at)
    <3>1. NextCharacter(l, at).ok /\ g[<<"string", NextCharacter(l, at).at>>] = rest
      BY <2>2, <2>5, <2>6, Zenon DEF k
    <3>2. StringStep(l, g, at)
            = LET q == g[<<"string", NextCharacter(l, at).at>>]
              IN  Reads(Text(<<NextCharacter(l, at).c>> \o q.value.holds), q.at)
      BY <2>3, <2>5, <3>1, Zenon DEF StringStep
    <3> QED BY <2>2, <3>1, <3>2, Zenon
  <2> QED BY <2>4, <2>7
<1>4. CASE StringStep(p, f, at) = Throws
  BY <1>4, ParseFacts
<1> QED BY <1>2, <1>3, <1>4, StringCases

-----------------------------------------------------------------------------
\* The cases of parse_value().
LEMMA ValueCases ==
    ASSUME NEW l, NEW f, NEW at
    PROVE  LET from == SkipWhitespace(l, at)
               c == At(l, from)
           IN  /\ c = "lbrace" => Value(l, f, at) = OpenList(l, f, "members", from + 1)
               /\ c = "lbracket" => Value(l, f, at) = OpenList(l, f, "elements", from + 1)
               /\ c = "quote" => Value(l, f, at) = f[<<"string", from + 1>>]
               /\ c = "null" => Value(l, f, at) = Reads(Null, from + 1)
               /\ c \in DOMAIN Numbers => Value(l, f, at) = Reads(Number(c), from + 1)
               /\ c \notin {"lbrace", "lbracket", "quote", "null"} \cup DOMAIN Numbers =>
                    Value(l, f, at) = Throws
<1> DEFINE from == SkipWhitespace(l, at)
           c == At(l, from)
<1>1. DOMAIN Numbers = {"-1", "0", "1", "2", "NaN"}
  BY DEF Numbers
<1> HIDE DEF from
<1>2. CASE c = "lbrace"
  <2>1. Value(l, f, at) = OpenList(l, f, "members", from + 1)
    BY <1>1, <1>2 DEF Value, from
  <2> QED BY <1>1, <1>2, <2>1 DEF from
<1>3. CASE c = "lbracket"
  <2>1. Value(l, f, at) = OpenList(l, f, "elements", from + 1)
    BY <1>1, <1>3 DEF Value, from
  <2> QED BY <1>1, <1>3, <2>1 DEF from
<1>4. CASE c = "quote"
  <2>1. Value(l, f, at) = f[<<"string", from + 1>>]
    BY <1>1, <1>4 DEF Value, from
  <2> QED BY <1>1, <1>4, <2>1 DEF from
<1>5. CASE c = "null"
  <2>1. Value(l, f, at) = Reads(Null, from + 1)
    BY <1>1, <1>5 DEF Value, from
  <2> QED BY <1>1, <1>5, <2>1 DEF from
<1>6. CASE c \in DOMAIN Numbers
  <2>1. Value(l, f, at) = Reads(Number(c), from + 1)
    BY <1>1, <1>6 DEF Value, from
  <2> QED BY <1>1, <1>6, <2>1 DEF from
<1>7. CASE c \notin {"lbrace", "lbracket", "quote", "null"} \cup DOMAIN Numbers
  <2>1. Value(l, f, at) = Throws
    BY <1>1, <1>7 DEF Value, from
  <2> QED BY <1>1, <1>7, <2>1 DEF from
<1> QED BY <1>2, <1>3, <1>4, <1>5, <1>6, <1>7 DEF from

\* From further on it is fine all the more.
LEMMA FineBefore ==
    ASSUME NEW l \in Lines, NEW at \in Int, NEW k \in Int, at <= k
    PROVE  /\ \A r : Fine(r, k, l) => Fine(r, at, l)
           /\ \A f : FineBehind(l, f, at) => FineBehind(l, f, k)
<1>1. Len(l) \in Nat
  BY LineCharacters
<1>2. k + 1 .. Len(l) + 1 \subseteq at + 1 .. Len(l) + 1
  BY <1>1
<1> QED BY <1>2 DEF Fine, FineBehind

\* parse_object() and parse_array() are fine if the turns of their loops are.
LEMMA OpenListSound ==
    ASSUME NEW l \in Lines, NEW f, NEW rule \in Lists, NEW at \in 0 .. Len(l),
           FineBehind(l, f, at)
    PROVE  Fine(OpenList(l, f, rule, at + 1), at, l)
<1> DEFINE inside == SkipWhitespace(l, at + 1)
<1>1. Len(l) \in Nat /\ at + 1 \in 1 .. Len(l) + 1 /\ at \in Int
  BY LineCharacters
<1>2. inside \in at + 1 .. Len(l) + 1
  BY <1>1, SkipInside
<1>3. CASE At(l, inside) = Closing(rule)
  <2>1. OpenList(l, f, rule, at + 1) = Reads(NoParts(rule), inside + 1)
    BY <1>3, Zenon DEF OpenList
  <2>2. At(l, inside) # "end"
    BY <1>3 DEF Closing
  <2>3. inside \in at + 1 .. Len(l)
    BY <1>1, <2>2, SkipInside
  <2> HIDE DEF inside
  <2>4. inside + 1 \in at + 1 .. Len(l) + 1
    BY <1>1, <2>3
  <2> QED BY <2>1, <2>4, FineParses
<1>4. CASE At(l, inside) # Closing(rule)
  <2>1. OpenList(l, f, rule, at + 1) = f[<<rule, inside>>]
    BY <1>4, Zenon DEF OpenList
  <2>2. Fine(f[<<rule, inside>>], inside, l)
    BY <1>2 DEF FineBehind, Rules
  <2> HIDE DEF inside
  <2>3. at <= inside /\ inside \in Int
    BY <1>1, <1>2
  <2> QED BY <1>1, <2>1, <2>2, <2>3, FineBefore
<1> QED BY <1>3, <1>4

\* parse_value() is fine if what it calls is.
LEMMA ValueSound ==
    ASSUME NEW l \in Lines, NEW f, NEW at \in 1 .. Len(l) + 1, FineBehind(l, f, at)
    PROVE  Fine(Value(l, f, at), at, l)
<1> DEFINE from == SkipWhitespace(l, at)
           c == At(l, from)
<1>1. CASE c \notin {"lbrace", "lbracket", "quote", "null"} \cup DOMAIN Numbers
  <2>1. Value(l, f, at) = Throws
    BY <1>1, ValueCases
  <2> QED BY <2>1, FineParses
<1>2. CASE c \in {"lbrace", "lbracket", "quote", "null"} \cup DOMAIN Numbers
  <2>1. c # "end"
    BY <1>2 DEF Numbers
  <2>2. from \in at .. Len(l)
    BY <2>1, SkipInside
  <2>3. \/ Value(l, f, at) = OpenList(l, f, "members", from + 1)
        \/ Value(l, f, at) = OpenList(l, f, "elements", from + 1)
        \/ Value(l, f, at) = f[<<"string", from + 1>>]
        \/ \E v : Value(l, f, at) = Reads(v, from + 1)
    BY <1>2, ValueCases
  <2> HIDE DEF from
  <2>4. /\ Len(l) \in Nat /\ at \in Int /\ from \in Int /\ from \in 0 .. Len(l)
        /\ at <= from /\ from + 1 \in at + 1 .. Len(l) + 1 /\ from + 1 \in Int /\ at <= from + 1
    BY <2>2, LineCharacters
  <2>5. FineBehind(l, f, from)
    BY <2>4, FineBefore
  <2>6. CASE Value(l, f, at) = OpenList(l, f, "members", from + 1)
    <3>1. Fine(OpenList(l, f, "members", from + 1), from, l)
      BY <2>4, <2>5, OpenListSound DEF Lists
    <3> QED BY <2>4, <2>6, <3>1, FineBefore
  <2>7. CASE Value(l, f, at) = OpenList(l, f, "elements", from + 1)
    <3>1. Fine(OpenList(l, f, "elements", from + 1), from, l)
      BY <2>4, <2>5, OpenListSound DEF Lists
    <3> QED BY <2>4, <2>7, <3>1, FineBefore
  <2>8. CASE Value(l, f, at) = f[<<"string", from + 1>>]
    <3>1. "string" \in Rules
      BY DEF Rules
    <3>2. Fine(f[<<"string", from + 1>>], from + 1, l)
      BY <2>4, <3>1, Zenon DEF FineBehind
    <3> DEFINE r == f[<<"string", from + 1>>]
    <3>3. Fine(r, at, l)
      <4> HIDE DEF r
      <4>1. Fine(r, from + 1, l)
        BY <3>2 DEF r
      <4> QED BY <2>4, <4>1, FineBefore
    <3> QED BY <2>8, <3>3, Zenon
  <2>9. CASE \E v : Value(l, f, at) = Reads(v, from + 1)
    <3>1. PICK v : Value(l, f, at) = Reads(v, from + 1)
      BY <2>9
    <3>2. Fine(Reads(v, from + 1), at, l)
      BY <2>4, FineParses
    <3> QED BY <3>1, <3>2
  <2> QED BY <2>3, <2>6, <2>7, <2>8, <2>9
<1> QED BY <1>1, <1>2

\* What is read behind a position is read behind a later one.
LEMMA FollowsLater ==
    ASSUME NEW p, NEW f, NEW l, NEW g, NEW at \in Int, NEW k \in Int, at <= k,
           Len(p) \in Nat, Follows(p, f, l, g, at)
    PROVE  Follows(p, f, l, g, k)
<1>1. k + 1 .. Len(p) + 1 \subseteq at + 1 .. Len(p) + 1
  OBVIOUS
<1> QED BY <1>1 DEF Follows

\* parse_object() and parse_array() read the same in a line that goes on.
LEMMA OpenListFollows ==
    ASSUME NEW p \in Lines, NEW l \in Lines, Begins(p, l), NEW f, NEW g,
           NEW rule \in Lists, NEW at \in 0 .. Len(p), Follows(p, f, l, g, at),
           FineBehind(p, f, at), OpenList(p, f, rule, at + 1).ok
    PROVE  OpenList(l, g, rule, at + 1) = OpenList(p, f, rule, at + 1)
<1> DEFINE inside == SkipWhitespace(p, at + 1)
<1>1. Len(p) \in Nat /\ at + 1 \in 1 .. Len(p) + 1 /\ at \in Int
  BY LineCharacters
<1>2. inside \in at + 1 .. Len(p) + 1
  BY <1>1, SkipInside
<1>3. CASE At(p, inside) = Closing(rule)
  <2>1. At(p, inside) # "end"
    BY <1>3 DEF Closing
  <2>2. SkipWhitespace(l, at + 1) = inside /\ At(l, inside) = At(p, inside)
    BY <1>1, <2>1, SkipFollows
  <2>3. OpenList(p, f, rule, at + 1) = Reads(NoParts(rule), inside + 1)
    BY <1>3, Zenon DEF OpenList
  <2>4. OpenList(l, g, rule, at + 1) = Reads(NoParts(rule), inside + 1)
    BY <1>3, <2>2, Zenon DEF OpenList
  <2> QED BY <2>3, <2>4
<1>4. CASE At(p, inside) # Closing(rule)
  <2>1. OpenList(p, f, rule, at + 1) = f[<<rule, inside>>]
    BY <1>4, Zenon DEF OpenList
  <2>2. f[<<rule, inside>>].ok /\ Fine(f[<<rule, inside>>], inside, p)
    BY <1>2, <2>1 DEF FineBehind, Rules
  <2>3. f[<<rule, inside>>].at \in inside + 1 .. Len(p) + 1
    BY <2>2, FineParses
  <2>4. At(p, inside) # "end"
    <3>1. inside \in 1 .. Len(p)
      BY <1>1, <1>2, <2>3
    <3> QED BY <3>1, LineCharacters
  <2>5. SkipWhitespace(l, at + 1) = inside /\ At(l, inside) = At(p, inside)
    BY <1>1, <2>4, SkipFollows
  <2>6. OpenList(l, g, rule, at + 1) = g[<<rule, inside>>]
    BY <1>4, <2>5, Zenon DEF OpenList
  <2>7. g[<<rule, inside>>] = f[<<rule, inside>>]
    BY <1>2, <2>2 DEF Follows, Rules
  <2> QED BY <2>1, <2>6, <2>7
<1> QED BY <1>3, <1>4

\* parse_value() reads the same in a line that goes on.
LEMMA ValueFollows ==
    ASSUME NEW p \in Lines, NEW l \in Lines, Begins(p, l), NEW f, NEW g,
           NEW at \in 1 .. Len(p) + 1, Follows(p, f, l, g, at),
           FineBehind(p, f, at), Value(p, f, at).ok
    PROVE  Value(l, g, at) = Value(p, f, at)
<1> DEFINE from == SkipWhitespace(p, at)
           c == At(p, from)
<1>1. ASSUME c \notin {"lbrace", "lbracket", "quote", "null"} \cup DOMAIN Numbers PROVE FALSE
  <2>1. Value(p, f, at) = Throws
    BY <1>1, ValueCases
  <2> QED BY <2>1, ParseFacts
<1>2. c # "end"
  BY <1>1 DEF Numbers
<1>3. SkipWhitespace(l, at) = from /\ At(l, from) = c /\ from \in at .. Len(p)
  BY <1>2, SkipFollows
<1>4. /\ Len(p) \in Nat /\ at \in Int /\ from \in Int /\ from \in 0 .. Len(p)
      /\ at <= from /\ from + 1 \in at + 1 .. Len(p) + 1
  <2>1. Len(p) \in Nat
    BY LineCharacters
  <2>2. from \in at .. Len(p)
    BY <1>3
  <2> HIDE DEF from
  <2> QED BY <2>1, <2>2
<1>5. FineBehind(p, f, from) /\ Follows(p, f, l, g, from)
  <2> HIDE DEF from
  <2>1. FineBehind(p, f, from)
    BY <1>4, FineBefore
  <2>2. Follows(p, f, l, g, from)
    BY <1>4, FollowsLater
  <2> QED BY <2>1, <2>2
<1>6. CASE c = "lbrace"
  <2>1. /\ Value(p, f, at) = OpenList(p, f, "members", from + 1)
        /\ Value(l, g, at) = OpenList(l, g, "members", from + 1)
    BY <1>3, <1>6, ValueCases
  <2> HIDE DEF from
  <2>2. OpenList(p, f, "members", from + 1).ok /\ "members" \in Lists
    BY <2>1 DEF Lists
  <2>3. OpenList(l, g, "members", from + 1) = OpenList(p, f, "members", from + 1)
    BY <1>4, <1>5, <2>2, OpenListFollows
  <2> QED BY <2>1, <2>3
<1>7. CASE c = "lbracket"
  <2>1. /\ Value(p, f, at) = OpenList(p, f, "elements", from + 1)
        /\ Value(l, g, at) = OpenList(l, g, "elements", from + 1)
    BY <1>3, <1>7, ValueCases
  <2> HIDE DEF from
  <2>2. OpenList(p, f, "elements", from + 1).ok /\ "elements" \in Lists
    BY <2>1 DEF Lists
  <2>3. OpenList(l, g, "elements", from + 1) = OpenList(p, f, "elements", from + 1)
    BY <1>4, <1>5, <2>2, OpenListFollows
  <2> QED BY <2>1, <2>3
<1>8. CASE c = "quote"
  <2>1. /\ Value(p, f, at) = f[<<"string", from + 1>>]
        /\ Value(l, g, at) = g[<<"string", from + 1>>]
    BY <1>3, <1>8, ValueCases
  <2>2. g[<<"string", from + 1>>] = f[<<"string", from + 1>>]
    BY <1>4, <2>1 DEF Follows, Rules
  <2> QED BY <2>1, <2>2
<1>9. CASE c = "null"
  <2>1. Value(p, f, at) = Reads(Null, from + 1)
    BY <1>9, ValueCases
  <2>2. At(l, SkipWhitespace(l, at)) = "null"
    BY <1>3, <1>9
  <2>3. Value(l, g, at) = Reads(Null, SkipWhitespace(l, at) + 1)
    BY <2>2, ValueCases
  <2> QED BY <1>3, <2>1, <2>3
<1>10. CASE c \in DOMAIN Numbers
  BY <1>3, <1>10, ValueCases
<1> QED BY <1>1, <1>6, <1>7, <1>8, <1>9, <1>10

-----------------------------------------------------------------------------
\* A key with its value, and an element.
LEMMA MemberCases ==
    ASSUME NEW l, NEW f, NEW at
    PROVE  LET from == SkipWhitespace(l, at)
               key == f[<<"string", from + 1>>]
               colon == SkipWhitespace(l, key.at)
               value == Value(l, f, colon + 1)
               whole == /\ At(l, from) = "quote" /\ key.ok
                        /\ At(l, colon) = "colon" /\ value.ok
           IN  /\ whole => ObjectMember(l, f, at)
                             = Reads(Object([k \in {key.value.holds} |-> value.value]), value.at)
               /\ ObjectMember(l, f, at) # Throws => whole
BY Zenon DEF ObjectMember, KeyWithValue

\* An element is read when its value is.
LEMMA ElementCases ==
    ASSUME NEW l, NEW f, NEW at
    PROVE  LET value == Value(l, f, at)
           IN  /\ value.ok => ArrayElement(l, f, at) = Reads(Array(<<value.value>>), value.at)
               /\ ArrayElement(l, f, at) # Throws => value.ok
BY Zenon DEF ArrayElement, Element

\* A key with its value is fine if what is called for it is.
LEMMA MemberSound ==
    ASSUME NEW l \in Lines, NEW f, NEW at \in 1 .. Len(l) + 1, FineBehind(l, f, at)
    PROVE  Fine(ObjectMember(l, f, at), at, l)
<1> SUFFICES ASSUME ObjectMember(l, f, at) # Throws PROVE Fine(ObjectMember(l, f, at), at, l)
  BY FineParses
<1> DEFINE from == SkipWhitespace(l, at)
           key == f[<<"string", from + 1>>]
           colon == SkipWhitespace(l, key.at)
           value == Value(l, f, colon + 1)
<1>1. /\ At(l, from) = "quote" /\ key.ok /\ At(l, colon) = "colon" /\ value.ok
      /\ ObjectMember(l, f, at) = Reads(Object([k \in {key.value.holds} |-> value.value]), value.at)
  BY MemberCases
<1>2. Len(l) \in Nat /\ at \in Int
  BY LineCharacters
<1>3. from \in at .. Len(l)
  <2>1. At(l, from) # "end"
    BY <1>1
  <2> QED BY <2>1, SkipInside
<1> HIDE DEF from
<1>4. from + 1 \in at + 1 .. Len(l) + 1
  BY <1>2, <1>3
<1>5. Fine(key, from + 1, l)
  BY <1>4 DEF FineBehind, Rules
<1>6. key.at \in from + 1 + 1 .. Len(l) + 1
  BY <1>1, <1>5, FineParses
<1> HIDE DEF key
<1>7. key.at \in 1 .. Len(l) + 1
  BY <1>2, <1>3, <1>6
<1>8. colon \in key.at .. Len(l)
  <2>1. At(l, colon) # "end"
    BY <1>1
  <2> QED BY <1>7, <2>1, SkipInside
<1> HIDE DEF colon
<1>9. colon + 1 \in 1 .. Len(l) + 1 /\ at <= colon + 1 /\ colon + 1 \in Int
  BY <1>2, <1>3, <1>6, <1>8
<1>10. FineBehind(l, f, colon + 1)
  BY <1>2, <1>9, FineBefore
<1>11. Fine(value, colon + 1, l)
  BY <1>9, <1>10, ValueSound
<1> HIDE DEF value
<1>12. Fine(value, at, l)
  BY <1>2, <1>9, <1>11, FineBefore
<1>13. value.at \in at + 1 .. Len(l) + 1
  BY <1>1, <1>12, FineParses
<1> QED BY <1>1, <1>13, FineParses

\* An element is fine if what is called for it is.
LEMMA ElementSound ==
    ASSUME NEW l \in Lines, NEW f, NEW at \in 1 .. Len(l) + 1, FineBehind(l, f, at)
    PROVE  Fine(ArrayElement(l, f, at), at, l)
<1> SUFFICES ASSUME ArrayElement(l, f, at) # Throws PROVE Fine(ArrayElement(l, f, at), at, l)
  BY FineParses
<1> DEFINE value == Value(l, f, at)
<1>1. value.ok /\ ArrayElement(l, f, at) = Reads(Array(<<value.value>>), value.at)
  BY ElementCases
<1>2. Fine(value, at, l)
  BY ValueSound
<1> HIDE DEF value
<1>3. value.at \in at + 1 .. Len(l) + 1
  BY <1>1, <1>2, FineParses
<1> QED BY <1>1, <1>3, FineParses

\* A part of either list is fine if what is called for it is.
LEMMA PartSound ==
    ASSUME NEW l \in Lines, NEW f, NEW rule \in Lists, NEW at \in 1 .. Len(l) + 1,
           FineBehind(l, f, at)
    PROVE  Fine(Part(l, f, rule, at), at, l)
BY MemberSound, ElementSound, Zenon DEF Part

\* The cases of a turn of the loops.
LEMMA ListCases ==
    ASSUME NEW l, NEW f, NEW rule, NEW at
    PROVE  LET first == Part(l, f, rule, at)
               next == SkipWhitespace(l, first.at)
               rest == f[<<rule, next + 1>>]
               last == first.ok /\ At(l, next) = Closing(rule)
               more == first.ok /\ At(l, next) = "comma" /\ rest.ok
           IN  /\ last => ListStep(l, f, rule, at) = Reads(first.value, next + 1)
               /\ more => ListStep(l, f, rule, at)
                            = Reads(Together(first.value, rest.value), rest.at)
               /\ ListStep(l, f, rule, at) # Throws => last \/ more
<1> DEFINE first == Part(l, f, rule, at)
           next == SkipWhitespace(l, first.at)
           rest == f[<<rule, next + 1>>]
<1>1. ListStep(l, f, rule, at) =
        IF first.ok /\ At(l, next) = Closing(rule) THEN Reads(first.value, next + 1)
        ELSE IF first.ok /\ At(l, next) = "comma" /\ rest.ok
        THEN Reads(Together(first.value, rest.value), rest.at)
        ELSE Throws
  BY Zenon DEF ListStep, BehindPart
<1>2. At(l, next) = "comma" => At(l, next) # Closing(rule)
  BY DEF Closing
<1> HIDE DEF first, next, rest
<1>3. /\ first.ok /\ At(l, next) = Closing(rule) =>
           ListStep(l, f, rule, at) = Reads(first.value, next + 1)
      /\ first.ok /\ At(l, next) = "comma" /\ rest.ok =>
           ListStep(l, f, rule, at) = Reads(Together(first.value, rest.value), rest.at)
      /\ ListStep(l, f, rule, at) # Throws =>
           \/ first.ok /\ At(l, next) = Closing(rule)
           \/ first.ok /\ At(l, next) = "comma" /\ rest.ok
  BY <1>1, <1>2, Zenon
<1> QED BY <1>3 DEF first, next, rest

\* A turn of the loops is fine if the next one is.
LEMMA ListSound ==
    ASSUME NEW l \in Lines, NEW f, NEW rule \in Lists, NEW at \in 1 .. Len(l) + 1,
           FineBehind(l, f, at)
    PROVE  Fine(ListStep(l, f, rule, at), at, l)
<1> SUFFICES ASSUME ListStep(l, f, rule, at) # Throws PROVE Fine(ListStep(l, f, rule, at), at, l)
  BY FineParses
<1> DEFINE first == Part(l, f, rule, at)
           next == SkipWhitespace(l, first.at)
           rest == f[<<rule, next + 1>>]
<1>1. /\ first.ok
      /\ \/ /\ At(l, next) = Closing(rule)
            /\ ListStep(l, f, rule, at) = Reads(first.value, next + 1)
         \/ /\ At(l, next) = "comma" /\ rest.ok
            /\ ListStep(l, f, rule, at) = Reads(Together(first.value, rest.value), rest.at)
  BY ListCases
<1>2. Len(l) \in Nat /\ at \in Int
  BY LineCharacters
<1>3. Fine(first, at, l)
  BY PartSound
<1>4. first.at \in at + 1 .. Len(l) + 1
  BY <1>1, <1>3, FineParses
<1> HIDE DEF first
<1>5. first.at \in 1 .. Len(l) + 1
  BY <1>2, <1>4
<1>6. next \in first.at .. Len(l)
  <2>1. At(l, next) # "end"
    BY <1>1 DEF Closing
  <2> QED BY <1>5, <2>1, SkipInside
<1> HIDE DEF next
<1>7. next + 1 \in at + 1 .. Len(l) + 1
  BY <1>2, <1>4, <1>6
<1>8. CASE ListStep(l, f, rule, at) = Reads(first.value, next + 1)
  BY <1>7, <1>8, FineParses
<1>9. CASE rest.ok /\ ListStep(l, f, rule, at) = Reads(Together(first.value, rest.value), rest.at)
  <2>1. Fine(rest, next + 1, l)
    BY <1>7 DEF FineBehind, Rules
  <2> HIDE DEF rest
  <2>2. next + 1 \in Int /\ at <= next + 1
    BY <1>2, <1>7
  <2>3. Fine(rest, at, l)
    BY <1>2, <2>1, <2>2, FineBefore
  <2>4. rest.at \in at + 1 .. Len(l) + 1
    BY <1>9, <2>3, FineParses
  <2> QED BY <1>9, <2>4, FineParses
<1> QED BY <1>1, <1>8, <1>9

\* A key with its value is read the same in a line that goes on.
LEMMA MemberFollows ==
    ASSUME NEW p \in Lines, NEW l \in Lines, Begins(p, l), NEW f, NEW g,
           NEW at \in 1 .. Len(p) + 1, Follows(p, f, l, g, at),
           FineBehind(p, f, at), ObjectMember(p, f, at).ok
    PROVE  ObjectMember(l, g, at) = ObjectMember(p, f, at)
<1> DEFINE from == SkipWhitespace(p, at)
           key == f[<<"string", from + 1>>]
           colon == SkipWhitespace(p, key.at)
           value == Value(p, f, colon + 1)
<1>1. /\ At(p, from) = "quote" /\ key.ok /\ At(p, colon) = "colon" /\ value.ok
      /\ ObjectMember(p, f, at) = Reads(Object([k \in {key.value.holds} |-> value.value]), value.at)
  <2>1. ObjectMember(p, f, at) # Throws
    BY ParseFacts
  <2> QED BY <2>1, MemberCases
<1>2. Len(p) \in Nat /\ at \in Int
  BY LineCharacters
<1>3. SkipWhitespace(l, at) = from /\ At(l, from) = "quote" /\ from \in at .. Len(p)
  <2>1. At(p, from) # "end"
    BY <1>1
  <2> QED BY <1>1, <2>1, SkipFollows
<1> HIDE DEF from
<1>4. from + 1 \in at + 1 .. Len(p) + 1
  BY <1>2, <1>3
<1>5. Fine(key, from + 1, p) /\ g[<<"string", from + 1>>] = key
  BY <1>1, <1>4 DEF FineBehind, Follows, Rules
<1>6. key.at \in from + 1 + 1 .. Len(p) + 1
  BY <1>1, <1>5, FineParses
<1> HIDE DEF key
<1>7. key.at \in 1 .. Len(p) + 1
  BY <1>2, <1>3, <1>6
<1>8. SkipWhitespace(l, key.at) = colon /\ At(l, colon) = "colon" /\ colon \in key.at .. Len(p)
  <2>1. At(p, colon) # "end"
    BY <1>1
  <2> QED BY <1>1, <1>7, <2>1, SkipFollows
<1> HIDE DEF colon
<1>9. colon + 1 \in 1 .. Len(p) + 1 /\ at <= colon + 1 /\ colon + 1 \in Int
  BY <1>2, <1>3, <1>6, <1>8
<1>10. FineBehind(p, f, colon + 1) /\ Follows(p, f, l, g, colon + 1)
  BY <1>2, <1>9, FineBefore, FollowsLater
<1>11. Value(l, g, colon + 1) = value
  BY <1>1, <1>9, <1>10, ValueFollows
<1> HIDE DEF value
<1>12. ObjectMember(l, g, at) = Reads(Object([k \in {key.value.holds} |-> value.value]), value.at)
  BY <1>1, <1>3, <1>5, <1>8, <1>11, Zenon DEF ObjectMember, KeyWithValue
<1> QED BY <1>1, <1>12

\* A part of either list is read the same in a line that goes on.
LEMMA PartFollows ==
    ASSUME NEW p \in Lines, NEW l \in Lines, Begins(p, l), NEW f, NEW g, NEW rule \in Lists,
           NEW at \in 1 .. Len(p) + 1, Follows(p, f, l, g, at),
           FineBehind(p, f, at), Part(p, f, rule, at).ok
    PROVE  Part(l, g, rule, at) = Part(p, f, rule, at)
<1>1. CASE rule = "members"
  <2>1. ObjectMember(p, f, at).ok
    BY <1>1, Zenon DEF Part
  <2>2. ObjectMember(l, g, at) = ObjectMember(p, f, at)
    BY <2>1, MemberFollows
  <2> QED BY <1>1, <2>2, Zenon DEF Part
<1>2. CASE rule # "members"
  <2> DEFINE value == Value(p, f, at)
  <2>1. ArrayElement(p, f, at).ok
    BY <1>2, Zenon DEF Part
  <2>2. value.ok
    BY <2>1, ElementCases, ParseFacts
  <2>3. Value(l, g, at) = value
    BY <2>2, ValueFollows
  <2> HIDE DEF value
  <2>4. ArrayElement(l, g, at) = ArrayElement(p, f, at)
    BY <2>3, Zenon DEF ArrayElement, value
  <2> QED BY <1>2, <2>4, Zenon DEF Part
<1> QED BY <1>1, <1>2

\* A turn of the loops reads the same in a line that goes on.
LEMMA ListFollows ==
    ASSUME NEW p \in Lines, NEW l \in Lines, Begins(p, l), NEW f, NEW g, NEW rule \in Lists,
           NEW at \in 1 .. Len(p) + 1, Follows(p, f, l, g, at),
           FineBehind(p, f, at), ListStep(p, f, rule, at).ok
    PROVE  ListStep(l, g, rule, at) = ListStep(p, f, rule, at)
<1> DEFINE first == Part(p, f, rule, at)
           next == SkipWhitespace(p, first.at)
           rest == f[<<rule, next + 1>>]
<1>1. ListStep(p, f, rule, at) # Throws
  BY ParseFacts
<1>2. /\ first.ok
      /\ \/ /\ At(p, next) = Closing(rule)
            /\ ListStep(p, f, rule, at) = Reads(first.value, next + 1)
         \/ /\ At(p, next) = "comma" /\ rest.ok
            /\ ListStep(p, f, rule, at) = Reads(Together(first.value, rest.value), rest.at)
  BY <1>1, ListCases
<1>3. Len(p) \in Nat /\ at \in Int
  BY LineCharacters
<1>4. Fine(first, at, p) /\ Part(l, g, rule, at) = first
  BY <1>2, PartSound, PartFollows
<1>5. first.at \in at + 1 .. Len(p) + 1
  BY <1>2, <1>4, FineParses
<1> HIDE DEF first
<1>6. first.at \in 1 .. Len(p) + 1
  BY <1>3, <1>5
<1>7. /\ SkipWhitespace(l, first.at) = next /\ next \in first.at .. Len(p)
      /\ At(l, next) = At(p, next)
  <2>1. At(p, next) # "end"
    BY <1>2 DEF Closing
  <2> QED BY <1>6, <2>1, SkipFollows
<1> HIDE DEF next
<1>8. next + 1 \in at + 1 .. Len(p) + 1
  BY <1>3, <1>5, <1>7
<1>9. CASE At(p, next) = Closing(rule) /\ ListStep(p, f, rule, at) = Reads(first.value, next + 1)
  <2>1. ListStep(l, g, rule, at) = Reads(first.value, next + 1)
    BY <1>2, <1>4, <1>7, <1>9, ListCases
  <2> QED BY <1>9, <2>1
<1>10. CASE /\ At(p, next) = "comma" /\ rest.ok
            /\ ListStep(p, f, rule, at) = Reads(Together(first.value, rest.value), rest.at)
  <2>1. g[<<rule, next + 1>>] = rest
    BY <1>8, <1>10 DEF Follows, Rules
  <2> HIDE DEF rest
  <2>2. ListStep(l, g, rule, at) = Reads(Together(first.value, rest.value), rest.at)
    BY <1>2, <1>4, <1>7, <1>10, <2>1, ListCases
  <2> QED BY <1>10, <2>2
<1> QED BY <1>2, <1>9, <1>10

-----------------------------------------------------------------------------
(* What Read has at a position, in a line and in one that goes on. *)

\* One step of Read, given what is read further on.
ReadStep(l, f, x) ==
    IF x[1] = "string" THEN StringStep(l, f, x[2]) ELSE ListStep(l, f, x[1], x[2])

\* A step of Read is fine if those further on are.
LEMMA StepSound ==
    ASSUME NEW l \in Lines, NEW f, NEW rule \in Rules, NEW at \in 1 .. Len(l) + 1,
           FineBehind(l, f, at)
    PROVE  Fine(ReadStep(l, f, <<rule, at>>), at, l)
<1>1. ReadStep(l, f, <<rule, at>>)
        = IF rule = "string" THEN StringStep(l, f, at) ELSE ListStep(l, f, rule, at)
  BY DEF ReadStep
<1>2. CASE rule = "string"
  <2>1. Fine(StringStep(l, f, at), at, l)
    BY StringSound
  <2> QED BY <1>1, <1>2, <2>1, Zenon
<1>3. CASE rule # "string"
  <2>1. rule \in Lists
    BY <1>3 DEF Rules
  <2>2. Fine(ListStep(l, f, rule, at), at, l)
    BY <2>1, ListSound
  <2> QED BY <1>1, <1>3, <2>2, Zenon
<1> QED BY <1>2, <1>3

\* A step of Read reads the same in a line that goes on.
LEMMA StepFollows ==
    ASSUME NEW p \in Lines, NEW l \in Lines, Begins(p, l), NEW f, NEW g, NEW rule \in Rules,
           NEW at \in 1 .. Len(p) + 1, Follows(p, f, l, g, at),
           FineBehind(p, f, at), ReadStep(p, f, <<rule, at>>).ok
    PROVE  ReadStep(l, g, <<rule, at>>) = ReadStep(p, f, <<rule, at>>)
<1>1. /\ ReadStep(p, f, <<rule, at>>)
           = IF rule = "string" THEN StringStep(p, f, at) ELSE ListStep(p, f, rule, at)
      /\ ReadStep(l, g, <<rule, at>>)
           = IF rule = "string" THEN StringStep(l, g, at) ELSE ListStep(l, g, rule, at)
  BY DEF ReadStep
<1>2. CASE rule = "string"
  <2>1. StringStep(p, f, at).ok
    BY <1>1, <1>2
  <2>2. StringStep(l, g, at) = StringStep(p, f, at)
    BY <2>1, StringFollows
  <2> QED BY <1>1, <1>2, <2>2, Zenon
<1>3. CASE rule # "string"
  <2>1. rule \in Lists /\ ListStep(p, f, rule, at).ok
    BY <1>1, <1>3 DEF Rules
  <2>2. ListStep(l, g, rule, at) = ListStep(p, f, rule, at)
    BY <2>1, ListFollows
  <2> QED BY <1>1, <1>3, <2>2, Zenon
<1> QED BY <1>2, <1>3

\* A turn looks at nothing but what was read behind it.
LEMMA StepLocal ==
    ASSUME NEW l \in Lines, NEW f, NEW g, NEW rule \in Rules, NEW at \in 1 .. Len(l) + 1,
           FineBehind(l, f, at),
           \A r \in Rules : \A k \in at + 1 .. Len(l) + 1 : g[<<r, k>>] = f[<<r, k>>]
    PROVE  ReadStep(l, g, <<rule, at>>) = ReadStep(l, f, <<rule, at>>)
<1>1. Begins(l, l)
  BY LineCharacters DEF Begins
<1>2. FineBehind(l, g, at)
  BY DEF FineBehind
<1>3. Follows(l, f, l, g, at) /\ Follows(l, g, l, f, at)
  BY DEF Follows
<1>4. CASE ReadStep(l, f, <<rule, at>>).ok
  BY <1>1, <1>3, <1>4, StepFollows
<1>5. CASE ReadStep(l, g, <<rule, at>>).ok
  <2>1. ReadStep(l, f, <<rule, at>>) = ReadStep(l, g, <<rule, at>>)
    BY <1>1, <1>2, <1>3, <1>5, StepFollows
  <2> QED BY <2>1
<1>6. CASE ~ReadStep(l, f, <<rule, at>>).ok /\ ~ReadStep(l, g, <<rule, at>>).ok
  <2>1. Fine(ReadStep(l, f, <<rule, at>>), at, l) /\ Fine(ReadStep(l, g, <<rule, at>>), at, l)
    BY <1>2, StepSound
  <2>2. ReadStep(l, f, <<rule, at>>) = Throws /\ ReadStep(l, g, <<rule, at>>) = Throws
    BY <1>6, <2>1, FineParses
  <2> QED BY <2>2
<1> QED BY <1>4, <1>5, <1>6

\* The places of a line and the rules that may read from there.
Readings(l) == Rules \X (1 .. Len(l) + 1)

\* f is what Read defines for a line.
IsReading(l, f) == f = [x \in Readings(l) |-> ReadStep(l, f, x)]

\* What was read is right behind a position.
RightBehind(l, f, at) ==
    /\ FineBehind(l, f, at)
    /\ \A rule \in Rules : \A k \in at + 1 .. Len(l) + 1 :
           f[<<rule, k>>] = ReadStep(l, f, <<rule, k>>)

\* There is such a function: each place needs those behind it only.
LEMMA ReadingExists ==
    ASSUME NEW l \in Lines
    PROVE  \E f : IsReading(l, f)
<1> DEFINE N == Len(l) + 1
           P == {n \in Nat : n <= N => \E f : /\ f = [x \in Readings(l) |-> f[x]]
                                              /\ RightBehind(l, f, N - n)}
<1>1. Len(l) \in Nat /\ N \in Nat
  BY LineCharacters
<1>2. 0 \in P
  <2> DEFINE f == [x \in Readings(l) |-> Throws]
  <2>1. f = [x \in Readings(l) |-> f[x]]
    OBVIOUS
  <2>2. \A k : k \notin N - 0 + 1 .. Len(l) + 1
    BY <1>1
  <2>3. RightBehind(l, f, N - 0)
    BY <2>2, Zenon DEF RightBehind, FineBehind
  <2> HIDE DEF f
  <2>4. \E h : h = [x \in Readings(l) |-> h[x]] /\ RightBehind(l, h, N - 0)
    BY <2>1, <2>3, Zenon
  <2> HIDE DEF N
  <2> QED BY <2>4, Zenon, 0 \in Nat
<1>3. ASSUME NEW n \in Nat, n \in P PROVE n + 1 \in P
  <2> SUFFICES ASSUME n + 1 <= N
               PROVE  \E f : f = [x \in Readings(l) |-> f[x]] /\ RightBehind(l, f, N - (n + 1))
    <3>1. n + 1 \in Nat
      OBVIOUS
    <3> QED BY <3>1, Zenon
  <2> DEFINE at == N - n
  <2>1. PICK f : f = [x \in Readings(l) |-> f[x]] /\ RightBehind(l, f, at)
    <3>1. n <= N
      BY <1>1
    <3> HIDE DEF N
    <3> QED BY <1>3, <3>1
  <2> DEFINE g == [x \in Readings(l) |-> IF x[2] = at THEN ReadStep(l, f, x) ELSE f[x]]
  <2>2. /\ at \in 1 .. Len(l) + 1 /\ N - (n + 1) = at - 1
        /\ \A k \in at - 1 + 1 .. Len(l) + 1 : k = at \/ k \in at + 1 .. Len(l) + 1
        /\ \A k \in at + 1 .. Len(l) + 1 : k # at /\ k \in 1 .. Len(l) + 1
    BY <1>1
  <2>3. \A rule \in Rules : \A k \in 1 .. Len(l) + 1 :
          g[<<rule, k>>] = IF k = at THEN ReadStep(l, f, <<rule, k>>) ELSE f[<<rule, k>>]
    BY DEF Readings
  <2>4. g = [x \in Readings(l) |-> g[x]]
    OBVIOUS
  <2> HIDE DEF g, at
  <2>5. ASSUME NEW k \in at .. Len(l) + 1
        PROVE  \A rule \in Rules : \A j \in k + 1 .. Len(l) + 1 : g[<<rule, j>>] = f[<<rule, j>>]
    <3>1. \A j \in k + 1 .. Len(l) + 1 : j # at /\ j \in 1 .. Len(l) + 1
      BY <2>2, <1>1
    <3> QED BY <3>1, <2>3
  <2>6. ASSUME NEW rule \in Rules, NEW k \in at - 1 + 1 .. Len(l) + 1
        PROVE  Fine(g[<<rule, k>>], k, l) /\ g[<<rule, k>>] = ReadStep(l, g, <<rule, k>>)
    <3>1. k \in at .. Len(l) + 1 /\ k \in 1 .. Len(l) + 1 /\ at <= k /\ k \in Int /\ at \in Int
      BY <2>2, <1>1
    <3>2. FineBehind(l, f, k)
      BY <2>1, <3>1, FineBefore DEF RightBehind
    <3>3. ReadStep(l, g, <<rule, k>>) = ReadStep(l, f, <<rule, k>>)
      BY <2>5, <3>1, <3>2, StepLocal
    <3>4. Fine(ReadStep(l, f, <<rule, k>>), k, l)
      BY <3>1, <3>2, StepSound
    <3>5. g[<<rule, k>>] = ReadStep(l, f, <<rule, k>>)
      <4>1. CASE k = at
        BY <4>1, <2>3, <3>1
      <4>2. CASE k \in at + 1 .. Len(l) + 1
        <5>1. f[<<rule, k>>] = ReadStep(l, f, <<rule, k>>)
          BY <4>2, <2>1 DEF RightBehind
        <5>2. k # at
          BY <4>2, <2>2
        <5> QED BY <5>1, <5>2, <2>3, <3>1
      <4> QED BY <4>1, <4>2, <2>2
    <3> QED BY <3>3, <3>4, <3>5
  <2>7. RightBehind(l, g, at - 1)
    BY <2>6, Zenon DEF RightBehind, FineBehind
  <2>8. RightBehind(l, g, N - (n + 1))
    BY <2>2, <2>7, Zenon
  <2> QED BY <2>4, <2>8, Zenon
<1> HIDE DEF P
<1>4. N \in P
  BY <1>1, <1>2, <1>3, Spells!NaturalInduction
<1>5. PICK f : f = [x \in Readings(l) |-> f[x]] /\ RightBehind(l, f, N - N)
  BY <1>1, <1>4 DEF P
<1>6. ASSUME NEW x \in Readings(l) PROVE f[x] = ReadStep(l, f, x)
  <2>1. PICK rule \in Rules, k \in 1 .. Len(l) + 1 : x = <<rule, k>>
    BY DEF Readings
  <2>2. k \in N - N + 1 .. Len(l) + 1
    BY <1>1
  <2>3. f[<<rule, k>>] = ReadStep(l, f, <<rule, k>>)
    BY <1>5, <2>2, Zenon DEF RightBehind
  <2> QED BY <2>1, <2>3
<1>7. f = [x \in Readings(l) |-> ReadStep(l, f, x)]
  BY <1>5, <1>6, Zenon
<1> QED BY <1>7, Zenon DEF IsReading

\* So Read has at each place what a step makes of it.
LEMMA ReadIs ==
    ASSUME NEW l \in Lines, NEW rule \in Rules, NEW at \in 1 .. Len(l) + 1
    PROVE  Read(l)[<<rule, at>>] = ReadStep(l, Read(l), <<rule, at>>)
<1>1. Read(l) = CHOOSE f : IsReading(l, f)
  BY Zenon DEF Read, IsReading, ReadStep, Readings, Rules
<1>2. IsReading(l, Read(l))
  BY <1>1, ReadingExists, Zenon
<1>3. \A x \in Readings(l) : Read(l)[x] = ReadStep(l, Read(l), x)
  BY <1>2, Zenon DEF IsReading
<1>4. <<rule, at>> \in Readings(l)
  BY DEF Readings
<1> QED BY <1>3, <1>4, Zenon

\* All that is read is fine.
LEMMA ReadIsFine ==
    ASSUME NEW l \in Lines
    PROVE  \A at \in Nat : FineBehind(l, Read(l), at)
<1> DEFINE N == Len(l) + 1
           f == Read(l)
           P == {n \in Nat : n <= N => FineBehind(l, f, N - n)}
<1>1. Len(l) \in Nat /\ N \in Nat
  BY LineCharacters
<1> HIDE DEF f
<1>2. 0 \in P
  <2>1. \A k : k \notin N - 0 + 1 .. Len(l) + 1
    BY <1>1
  <2>2. FineBehind(l, f, N - 0)
    BY <2>1, Zenon DEF FineBehind
  <2> HIDE DEF N
  <2> QED BY <2>2, Zenon, 0 \in Nat
<1>3. ASSUME NEW n \in Nat, n \in P PROVE n + 1 \in P
  <2> SUFFICES ASSUME n + 1 <= N PROVE FineBehind(l, f, N - (n + 1))
    <3>1. n + 1 \in Nat
      OBVIOUS
    <3> QED BY <3>1, Zenon
  <2>1. n <= N
    BY <1>1
  <2>2. FineBehind(l, f, N - n)
    BY <2>1, <1>3
  <2>3. /\ N - n \in 1 .. Len(l) + 1
        /\ \A k \in N - (n + 1) + 1 .. Len(l) + 1 : k = N - n \/ k \in N - n + 1 .. Len(l) + 1
    BY <1>1
  <2>4. ASSUME NEW rule \in Rules PROVE Fine(f[<<rule, N - n>>], N - n, l)
    <3> DEFINE at == N - n
    <3> HIDE DEF at
    <3>1. f[<<rule, at>>] = ReadStep(l, f, <<rule, at>>)
      BY <2>3, ReadIs DEF at, f
    <3>2. Fine(ReadStep(l, f, <<rule, at>>), at, l)
      BY <2>2, <2>3, StepSound DEF at
    <3> QED BY <3>1, <3>2 DEF at
  <2> HIDE DEF N
  <2> QED BY <2>2, <2>3, <2>4 DEF FineBehind
<1> HIDE DEF P
<1>4. N \in P
  BY <1>1, <1>2, <1>3, Spells!NaturalInduction
<1>5. FineBehind(l, f, N - N)
  BY <1>1, <1>4 DEF P
<1> SUFFICES ASSUME NEW at \in Nat PROVE FineBehind(l, f, at)
  BY DEF f
<1>6. N - N \in Int /\ at \in Int /\ N - N <= at
  BY <1>1
<1> HIDE DEF N
<1> QED BY <1>5, <1>6, FineBefore

\* What is read in a line's beginning is read in the line.
LEMMA ReadFollows ==
    ASSUME NEW p \in Lines, NEW l \in Lines, Begins(p, l)
    PROVE  \A at \in Nat : Follows(p, Read(p), l, Read(l), at)
<1> DEFINE N == Len(p) + 1
           f == Read(p)
           g == Read(l)
           P == {n \in Nat : n <= N => Follows(p, f, l, g, N - n)}
<1>1. Len(p) \in Nat /\ N \in Nat /\ Len(l) \in Nat /\ Len(p) <= Len(l)
  BY LineCharacters DEF Begins
<1> HIDE DEF f, g
<1>2. 0 \in P
  <2>1. \A k : k \notin N - 0 + 1 .. Len(p) + 1
    BY <1>1
  <2>2. Follows(p, f, l, g, N - 0)
    BY <2>1, Zenon DEF Follows
  <2> HIDE DEF N
  <2> QED BY <2>2, Zenon, 0 \in Nat
<1>3. ASSUME NEW n \in Nat, n \in P PROVE n + 1 \in P
  <2> SUFFICES ASSUME n + 1 <= N PROVE Follows(p, f, l, g, N - (n + 1))
    <3>1. n + 1 \in Nat
      OBVIOUS
    <3> QED BY <3>1, Zenon
  <2>1. n <= N /\ N - n \in Nat
    BY <1>1
  <2>2. Follows(p, f, l, g, N - n) /\ FineBehind(p, f, N - n)
    BY <2>1, <1>3, ReadIsFine DEF f
  <2>3. /\ N - n \in 1 .. Len(p) + 1 /\ N - n \in 1 .. Len(l) + 1
        /\ \A k \in N - (n + 1) + 1 .. Len(p) + 1 : k = N - n \/ k \in N - n + 1 .. Len(p) + 1
    BY <1>1
  <2>4. ASSUME NEW rule \in Rules, f[<<rule, N - n>>].ok
        PROVE  g[<<rule, N - n>>] = f[<<rule, N - n>>]
    <3> DEFINE at == N - n
    <3>1. f[<<rule, at>>].ok /\ at \in 1 .. Len(p) + 1 /\ at \in 1 .. Len(l) + 1
          /\ Follows(p, f, l, g, at) /\ FineBehind(p, f, at)
      BY <2>2, <2>3, <2>4
    <3> HIDE DEF at
    <3>2. f[<<rule, at>>] = ReadStep(p, f, <<rule, at>>)
      BY <3>1, ReadIs DEF f
    <3>3. g[<<rule, at>>] = ReadStep(l, g, <<rule, at>>)
      BY <3>1, ReadIs DEF g
    <3>4. ReadStep(l, g, <<rule, at>>) = ReadStep(p, f, <<rule, at>>)
      <4>1. ReadStep(p, f, <<rule, at>>).ok
        BY <3>1, <3>2
      <4> QED BY <3>1, <4>1, StepFollows
    <3> QED BY <3>2, <3>3, <3>4 DEF at
  <2> HIDE DEF N
  <2> QED BY <2>2, <2>3, <2>4 DEF Follows
<1> HIDE DEF P
<1>4. N \in P
  BY <1>1, <1>2, <1>3, Spells!NaturalInduction
<1>5. Follows(p, f, l, g, N - N)
  BY <1>1, <1>4 DEF P
<1> SUFFICES ASSUME NEW at \in Nat PROVE Follows(p, f, l, g, at)
  BY DEF f, g
<1>6. N - N \in Int /\ at \in Int /\ N - N <= at
  BY <1>1
<1> HIDE DEF N
<1> QED BY <1>1, <1>5, <1>6, FollowsLater

\* A value that a line begins with is the value of every line that goes on from there: the
\* parser never looks behind what it reads (JsonParser).
THEOREM ParseExtends ==
    ASSUME NEW p \in Lines, NEW l \in Lines, Begins(p, l), ParseValue(p, 1).ok
    PROVE  /\ ParseValue(l, 1) = ParseValue(p, 1)
           /\ ParseValue(p, 1).at \in 1 .. Len(p) + 1
<1>1. 1 \in Nat /\ 1 \in 1 .. Len(p) + 1 /\ Len(p) \in Nat
  BY LineCharacters
<1>2. FineBehind(p, Read(p), 1) /\ Follows(p, Read(p), l, Read(l), 1)
  BY <1>1, ReadIsFine, ReadFollows
<1>3. ParseValue(l, 1) = ParseValue(p, 1)
  BY <1>1, <1>2, ValueFollows DEF ParseValue
<1>4. Fine(ParseValue(p, 1), 1, p)
  BY <1>1, <1>2, ValueSound DEF ParseValue
<1>5. ParseValue(p, 1).at \in 1 + 1 .. Len(p) + 1
  BY <1>4, FineParses
<1> QED BY <1>1, <1>3, <1>5

-----------------------------------------------------------------------------
(* What stands in a line. *)

\* At a position of the line stands s.
Has(l, at, s) ==
    /\ at \in Nat /\ 1 <= at /\ at + Len(s) <= Len(l) + 1
    /\ \A i \in 1 .. Len(s) : At(l, at + i - 1) = s[i]

\* s with t behind it.
Behind(s, t) == s \o t

\* The characters of two texts, one behind the other.
LEMMA BehindFacts ==
    ASSUME NEW s \in Lines, NEW t \in Lines
    PROVE  /\ Behind(s, t) \in Lines /\ Len(Behind(s, t)) = Len(s) + Len(t)
           /\ Len(s) \in Nat /\ Len(t) \in Nat
           /\ \A i \in 1 .. Len(s) : Behind(s, t)[i] = s[i]
           /\ \A i \in 1 .. Len(t) : Behind(s, t)[Len(s) + i] = t[i]
<1>1. Len(s) \in Nat /\ Len(t) \in Nat
  BY LineCharacters
<1>2. /\ Behind(s, t) \in Lines /\ Len(Behind(s, t)) = Len(s) + Len(t)
      /\ \A i \in 1 .. Len(s) + Len(t) :
            Behind(s, t)[i] = IF i <= Len(s) THEN s[i] ELSE t[i - Len(s)]
  BY ConcatProperties DEF Behind, Lines
<1>3. ASSUME NEW i \in 1 .. Len(s) PROVE Behind(s, t)[i] = s[i]
  BY <1>1, <1>2
<1>4. ASSUME NEW i \in 1 .. Len(t) PROVE Behind(s, t)[Len(s) + i] = t[i]
  <2>1. Len(s) + i \in 1 .. Len(s) + Len(t) /\ ~(Len(s) + i <= Len(s)) /\ Len(s) + i - Len(s) = i
    BY <1>1
  <2> QED BY <1>2, <2>1
<1> QED BY <1>1, <1>2, <1>3, <1>4

\* Where they stand, the first stands, and behind it the second.
LEMMA HasBehind ==
    ASSUME NEW l \in Lines, NEW at, NEW s \in Lines, NEW t \in Lines,
           Has(l, at, Behind(s, t))
    PROVE  /\ Has(l, at, s) /\ Has(l, at + Len(s), t)
           /\ at + Len(Behind(s, t)) = at + Len(s) + Len(t)
<1> DEFINE u == Behind(s, t)
<1>1. /\ Len(u) = Len(s) + Len(t) /\ Len(s) \in Nat /\ Len(t) \in Nat
      /\ (\A i \in 1 .. Len(s) : u[i] = s[i]) /\ (\A i \in 1 .. Len(t) : u[Len(s) + i] = t[i])
  BY BehindFacts
<1> HIDE DEF u
<1>2. /\ at \in Nat /\ 1 <= at /\ at + Len(u) <= Len(l) + 1 /\ Len(l) \in Nat
      /\ \A i \in 1 .. Len(u) : At(l, at + i - 1) = u[i]
  BY LineCharacters DEF Has, u
<1>3. at + Len(s) \in Nat /\ 1 <= at + Len(s) /\ at + Len(s) + Len(t) <= Len(l) + 1
      /\ at + Len(s) <= Len(l) + 1
  BY <1>1, <1>2
<1>4. ASSUME NEW i \in 1 .. Len(s) PROVE At(l, at + i - 1) = s[i]
  <2>1. i \in 1 .. Len(u)
    BY <1>1
  <2> QED BY <1>1, <1>2, <2>1
<1>5. ASSUME NEW i \in 1 .. Len(t) PROVE At(l, at + Len(s) + i - 1) = t[i]
  <2>1. Len(s) + i \in 1 .. Len(u) /\ at + (Len(s) + i) - 1 = at + Len(s) + i - 1
    BY <1>1, <1>2
  <2>2. At(l, at + (Len(s) + i) - 1) = u[Len(s) + i]
    BY <1>2, <2>1
  <2> QED BY <1>1, <2>1, <2>2
<1>6. Has(l, at, s)
  BY <1>2, <1>3, <1>4 DEF Has
<1>7. Has(l, at + Len(s), t)
  BY <1>3, <1>5 DEF Has
<1>8. at + Len(u) = at + Len(s) + Len(t)
  BY <1>1, <1>2
<1> QED BY <1>6, <1>7, <1>8 DEF u

\* A single character in a line.
LEMMA HasOne ==
    ASSUME NEW c \in Characters
    PROVE  /\ <<c>> \in Lines /\ Len(<<c>>) = 1 /\ <<c>>[1] = c
           /\ \A l, at : Has(l, at, <<c>>) => At(l, at) = c /\ at \in 1 .. Len(l)
<1>1. <<c>> \in Lines /\ Len(<<c>>) = 1 /\ <<c>>[1] = c
  BY DEF Lines
<1> SUFFICES ASSUME NEW l, NEW at, Has(l, at, <<c>>)
             PROVE  At(l, at) = c /\ at \in 1 .. Len(l)
  BY <1>1
<1> DEFINE s == <<c>>
<1>2. Len(s) = 1 /\ s[1] = c
  BY <1>1
<1> HIDE DEF s
<1>3. /\ at \in Nat /\ 1 <= at /\ at + Len(s) <= Len(l) + 1
      /\ \A i \in 1 .. Len(s) : At(l, at + i - 1) = s[i]
  BY DEF Has, s
<1>4. At(l, at) = c
  <2>1. 1 \in 1 .. Len(s) /\ at + 1 - 1 = at
    BY <1>2, <1>3
  <2> QED BY <1>2, <1>3, <2>1
<1> QED BY <1>2, <1>3, <1>4

-----------------------------------------------------------------------------
(* Texts. *)

\* How a character is spelled.
Spell(c) == IF c \in DOMAIN Spelling THEN Spelling[c] ELSE <<c>>

\* No character that ends a line or that a string may not have.
NoControl(s) == \A i \in 1 .. Len(s) : ~IsControl(s[i])

\* Two characters in a line.
LEMMA HasTwo ==
    ASSUME NEW b \in Characters, NEW c \in Characters
    PROVE  /\ <<b, c>> \in Lines /\ Len(<<b, c>>) = 2 /\ <<b, c>>[1] = b /\ <<b, c>>[2] = c
           /\ \A l, at : Has(l, at, <<b, c>>) => At(l, at) = b /\ At(l, at + 1) = c
<1>1. <<b, c>> \in Lines /\ Len(<<b, c>>) = 2 /\ <<b, c>>[1] = b /\ <<b, c>>[2] = c
  BY DEF Lines
<1> SUFFICES ASSUME NEW l, NEW at, Has(l, at, <<b, c>>)
             PROVE  At(l, at) = b /\ At(l, at + 1) = c
  BY <1>1
<1> DEFINE s == <<b, c>>
<1>2. Len(s) = 2 /\ s[1] = b /\ s[2] = c
  BY <1>1
<1> HIDE DEF s
<1>3. at \in Nat /\ \A i \in 1 .. Len(s) : At(l, at + i - 1) = s[i]
  BY DEF Has, s
<1>4. 1 \in 1 .. Len(s) /\ at + 1 - 1 = at /\ 2 \in 1 .. Len(s) /\ at + 2 - 1 = at + 1
  BY <1>2, <1>3
<1> QED BY <1>2, <1>3, <1>4

\* Three characters in a line.
LEMMA HasThree ==
    ASSUME NEW b \in Characters, NEW c \in Characters, NEW d \in Characters
    PROVE  /\ <<b, c, d>> \in Lines /\ Len(<<b, c, d>>) = 3
           /\ <<b, c, d>>[1] = b /\ <<b, c, d>>[2] = c /\ <<b, c, d>>[3] = d
           /\ \A l, at : Has(l, at, <<b, c, d>>) =>
                           At(l, at) = b /\ At(l, at + 1) = c /\ At(l, at + 1 + 1) = d
<1>1. <<b, c, d>> \in Lines /\ Len(<<b, c, d>>) = 3
      /\ <<b, c, d>>[1] = b /\ <<b, c, d>>[2] = c /\ <<b, c, d>>[3] = d
  BY DEF Lines
<1> SUFFICES ASSUME NEW l, NEW at, Has(l, at, <<b, c, d>>)
             PROVE  At(l, at) = b /\ At(l, at + 1) = c /\ At(l, at + 1 + 1) = d
  BY <1>1
<1> DEFINE s == <<b, c, d>>
<1>2. Len(s) = 3 /\ s[1] = b /\ s[2] = c /\ s[3] = d
  BY <1>1
<1> HIDE DEF s
<1>3. at \in Nat /\ \A i \in 1 .. Len(s) : At(l, at + i - 1) = s[i]
  BY DEF Has, s
<1>4. /\ 1 \in 1 .. Len(s) /\ at + 1 - 1 = at /\ 2 \in 1 .. Len(s) /\ at + 2 - 1 = at + 1
      /\ 3 \in 1 .. Len(s) /\ at + 3 - 1 = at + 1 + 1
  BY <1>2, <1>3
<1> QED BY <1>2, <1>3, <1>4

\* Any character as it is spelled is read back.
LEMMA SpelledIsRead ==
    ASSUME NEW c \in Characters
    PROVE  /\ Spell(c) \in Lines /\ NoControl(Spell(c))
           /\ \A l, at : at \in Nat /\ Has(l, at, Spell(c)) =>
                /\ At(l, at) # "quote"
                /\ NextCharacter(l, at) = [ok |-> TRUE, c |-> c, at |-> at + Len(Spell(c))]
<1>1. Marks \subseteq Characters /\ c # "end"
  BY CharactersAssumption
<1>2. CASE c \in {"quote", "backslash"}
  <2>1. Spell(c) = <<"backslash", c>>
    BY <1>2 DEF Spell, Spelling
  <2>2. "backslash" \in Characters
    BY <1>1 DEF Marks
  <2>3. /\ <<"backslash", c>> \in Lines /\ Len(<<"backslash", c>>) = 2
        /\ <<"backslash", c>>[1] = "backslash" /\ <<"backslash", c>>[2] = c
        /\ \A l, at : Has(l, at, <<"backslash", c>>) =>
                        At(l, at) = "backslash" /\ At(l, at + 1) = c
    BY <2>2, HasTwo
  <2>4. NoControl(<<"backslash", c>>)
    BY <1>2, <2>3 DEF NoControl, IsControl
  <2>5. ASSUME NEW l, NEW at, at \in Nat, At(l, at) = "backslash", At(l, at + 1) = c
        PROVE  NextCharacter(l, at) = [ok |-> TRUE, c |-> c, at |-> at + 2]
    <3>1. NextCharacter(l, at) = Escaped(l, at + 1)
      BY <2>5 DEF NextCharacter
    <3>2. Escaped(l, at + 1) = [ok |-> TRUE, at |-> at + 1 + 1,
                                c |-> IF At(l, at + 1) = "n" THEN "newline" ELSE At(l, at + 1)]
      BY <1>2, <2>5, EscapeCases
    <3>3. at + 1 + 1 = at + 2 /\ At(l, at + 1) # "n"
      BY <1>2, <2>5
    <3> QED BY <3>1, <3>2, <3>3, <2>5
  <2> QED BY <2>1, <2>3, <2>4, <2>5
<1>3. CASE c = "newline"
  <2>1. Spell(c) = <<"backslash", "n">>
    BY <1>3 DEF Spell, Spelling
  <2>2. "backslash" \in Characters /\ "n" \in Characters
    BY <1>1 DEF Marks
  <2>3. /\ <<"backslash", "n">> \in Lines /\ Len(<<"backslash", "n">>) = 2
        /\ <<"backslash", "n">>[1] = "backslash" /\ <<"backslash", "n">>[2] = "n"
        /\ \A l, at : Has(l, at, <<"backslash", "n">>) =>
                        At(l, at) = "backslash" /\ At(l, at + 1) = "n"
    BY <2>2, HasTwo
  <2>4. NoControl(<<"backslash", "n">>)
    BY <2>3 DEF NoControl, IsControl
  <2>5. ASSUME NEW l, NEW at, at \in Nat, At(l, at) = "backslash", At(l, at + 1) = "n"
        PROVE  NextCharacter(l, at) = [ok |-> TRUE, c |-> "newline", at |-> at + 2]
    <3>1. NextCharacter(l, at) = Escaped(l, at + 1)
      BY <2>5 DEF NextCharacter
    <3>2. Escaped(l, at + 1) = [ok |-> TRUE, at |-> at + 1 + 1,
                                c |-> IF At(l, at + 1) = "n" THEN "newline" ELSE At(l, at + 1)]
      BY <2>5, EscapeCases
    <3>3. at + 1 + 1 = at + 2
      BY <2>5
    <3> QED BY <3>1, <3>2, <3>3, <2>5
  <2> QED BY <1>3, <2>1, <2>3, <2>4, <2>5
<1>4. CASE c = "control"
  <2> DEFINE s == <<"backslash", "u", "0001">>
  <2>1. Spell(c) = s
    BY <1>4 DEF Spell, Spelling
  <2>2. "backslash" \in Characters /\ "u" \in Characters /\ "0001" \in Characters
    BY <1>1 DEF Marks
  <2>3. /\ s \in Lines /\ Len(s) = 3
        /\ s[1] = "backslash" /\ s[2] = "u" /\ s[3] = "0001"
        /\ \A l, at : Has(l, at, s) => /\ At(l, at) = "backslash" /\ At(l, at + 1) = "u"
                                       /\ At(l, at + 1 + 1) = "0001"
    BY <2>2, HasThree
  <2> HIDE DEF s
  <2>4. NoControl(s)
    BY <2>3 DEF NoControl, IsControl
  <2>5. ASSUME NEW l, NEW at, at \in Nat, At(l, at) = "backslash", At(l, at + 1) = "u",
               At(l, at + 1 + 1) = "0001"
        PROVE  NextCharacter(l, at) = [ok |-> TRUE, c |-> "control", at |-> at + 3]
    <3>1. NextCharacter(l, at) = Escaped(l, at + 1)
      BY <2>5 DEF NextCharacter
    <3>2. Escaped(l, at + 1) = [ok |-> TRUE, c |-> "control", at |-> at + 1 + 2]
      BY <2>5, EscapeCases
    <3>3. at + 1 + 2 = at + 3
      BY <2>5
    <3> QED BY <3>1, <3>2, <3>3
  <2> QED BY <1>4, <2>1, <2>3, <2>4, <2>5
<1>5. CASE c \notin {"quote", "backslash", "newline", "control"}
  <2>1. Spell(c) = <<c>>
    BY <1>5 DEF Spell, Spelling
  <2>2. /\ <<c>> \in Lines /\ Len(<<c>>) = 1 /\ <<c>>[1] = c
        /\ \A l, at : Has(l, at, <<c>>) => At(l, at) = c
    BY HasOne
  <2>3. NoControl(<<c>>)
    BY <1>5, <2>2 DEF NoControl, IsControl
  <2>4. ASSUME NEW l, NEW at, at \in Nat, At(l, at) = c
        PROVE  NextCharacter(l, at) = [ok |-> TRUE, c |-> c, at |-> at + 1]
    BY <1>1, <1>5, <2>4 DEF NextCharacter, IsControl
  <2> QED BY <1>5, <2>1, <2>2, <2>3, <2>4
<1> QED BY <1>2, <1>3, <1>4, <1>5

\* A text is spelled character by character.
LEMMA SpelledIsFold == \A t : Spelled(Spelling, t) = Spells!Fold(Spelling, t)
BY Zenon DEF Spelled, FoldLeft, MapThenFoldSet, Max, SpelledStep, Spells!Fold,
             Spells!FoldLeft, Spells!MapThenFoldSet, Spells!Max

\* A text is spelled character by character.
LEMMA SpelledAppend ==
    /\ Spelled(Spelling, <<>>) = <<>>
    /\ \A t \in Lines : \A c \in Characters :
           Spelled(Spelling, Append(t, c)) = Behind(Spelled(Spelling, t), Spell(c))
<1>1. Spells!Fold(Spelling, <<>>) = <<>>
  BY Spells!FoldEmpty
<1>2. ASSUME NEW t \in Lines, NEW c \in Characters
      PROVE  Spelled(Spelling, Append(t, c)) = Behind(Spelled(Spelling, t), Spell(c))
  <2>1. Spells!Fold(Spelling, Append(t, c)) = SpelledStep(Spelling, Spells!Fold(Spelling, t), c)
    BY Spells!FoldAppend DEF Lines
  <2>2. Spelled(Spelling, Append(t, c)) = SpelledStep(Spelling, Spelled(Spelling, t), c)
    BY <2>1, SpelledIsFold, Zenon
  <2> QED BY <2>2, Zenon DEF SpelledStep, Behind, Spell
<1> QED BY <1>1, <1>2, SpelledIsFold, Zenon

\* A line has the text's spelling, and what is behind it is read as h: read together.
SpelledBefore(l, at, t, h, e) ==
    Has(l, at, Spelled(Spelling, t))
      /\ Read(l)[<<"string", at + Len(Spelled(Spelling, t))>>] = Reads(Text(h), e)
    => Read(l)[<<"string", at>>] = Reads(Text(Behind(t, h)), e)

\* A text's spelling has no control character and is read as the text.
SpelledWell(t) ==
    /\ Spelled(Spelling, t) \in Lines /\ NoControl(Spelled(Spelling, t))
    /\ \A l, h \in Lines : \A at, e : SpelledBefore(l, at, t, h, e)

\* A character's spelling is read as that character.
LEMMA SpelledOnce ==
    ASSUME NEW l \in Lines, NEW at, NEW c \in Characters, NEW h, NEW e,
           Has(l, at, Spell(c)),
           Read(l)[<<"string", at + Len(Spell(c))>>] = Reads(Text(h), e)
    PROVE  Read(l)[<<"string", at>>] = Reads(Text(Behind(<<c>>, h)), e)
<1> DEFINE k == at + Len(Spell(c))
           f == Read(l)
           n == NextCharacter(l, at)
           rest == f[<<"string", n.at>>]
<1>1. Spell(c) \in Lines /\ Len(Spell(c)) \in Nat /\ Len(l) \in Nat
  BY SpelledIsRead, LineCharacters
<1>2. at \in Nat /\ at \in 1 .. Len(l) + 1
  <2>1. at \in Nat /\ 1 <= at /\ at + Len(Spell(c)) <= Len(l) + 1
    BY DEF Has
  <2> QED BY <1>1, <2>1
<1>3. At(l, at) # "quote" /\ n = [ok |-> TRUE, c |-> c, at |-> k]
  BY <1>2, SpelledIsRead
<1>4. f[<<"string", at>>] = StringStep(l, f, at)
  <2>1. f[<<"string", at>>] = ReadStep(l, f, <<"string", at>>)
    BY <1>2, ReadIs DEF Rules
  <2> QED BY <2>1 DEF ReadStep
<1>5. n.ok /\ n.c = c /\ n.at = k
  BY <1>3
<1>6. rest = Reads(Text(h), e)
  BY <1>5
<1> HIDE DEF n, f
<1>7. rest.ok /\ rest.value.holds = h /\ rest.at = e
  <2>1. rest.ok /\ rest.value = Text(h) /\ rest.at = e
    BY <1>6, ParseFacts
  <2> QED BY <2>1 DEF Text
<1>8. StringStep(l, f, at) = Reads(Text(<<n.c>> \o rest.value.holds), rest.at)
  BY <1>3, <1>5, <1>7, Zenon DEF StringStep, n
<1> QED BY <1>4, <1>5, <1>7, <1>8, Zenon DEF f, Behind

\* All texts are spelled well, by induction over the text.
LEMMA TextsAreSpelledWell == \A t \in Lines : SpelledWell(t)
<1> DEFINE P == {t \in Lines : SpelledWell(t)}
<1>1. <<>> \in P
  <2>1. <<>> \in Lines /\ Len(<<>>) = 0
    BY EmptySeq DEF Lines
  <2>2. NoControl(<<>>)
    BY <2>1 DEF NoControl
  <2>3. ASSUME NEW l \in Lines, NEW h \in Lines, NEW at, NEW e
        PROVE  SpelledBefore(l, at, <<>>, h, e)
    <3> SUFFICES ASSUME Has(l, at, <<>>),
                        Read(l)[<<"string", at + Len(<<>>)>>] = Reads(Text(h), e)
                 PROVE  Read(l)[<<"string", at>>] = Reads(Text(Behind(<<>>, h)), e)
      BY SpelledAppend, Zenon DEF SpelledBefore
    <3>1. at + Len(<<>>) = at
      BY <2>1 DEF Has
    <3>2. Behind(<<>>, h) = h
      BY ConcatEmptySeq DEF Behind, Lines
    <3> QED BY <3>1, <3>2
  <2>4. \A l, h \in Lines : \A at, e : SpelledBefore(l, at, <<>>, h, e)
    BY <2>3
  <2> QED BY <2>1, <2>2, <2>4, SpelledAppend, Zenon DEF SpelledWell
<1>2. ASSUME NEW t \in Lines, NEW c \in Characters, t \in P PROVE Append(t, c) \in P
  <2> DEFINE S == Spelled(Spelling, t)
             C == Spell(c)
             u == Append(t, c)
             U == Spelled(Spelling, u)
  <2>1. S \in Lines /\ NoControl(S) /\ \A l, h \in Lines : \A at, e : SpelledBefore(l, at, t, h, e)
    BY <1>2 DEF SpelledWell
  <2>2. C \in Lines /\ NoControl(C) /\ U = Behind(S, C) /\ u \in Lines
    BY SpelledIsRead, SpelledAppend, AppendProperties DEF Lines
  <2> HIDE DEF S, C, U
  <2>3. U \in Lines /\ NoControl(U)
    <3>1. /\ Behind(S, C) \in Lines /\ Len(Behind(S, C)) = Len(S) + Len(C)
          /\ Len(S) \in Nat /\ Len(C) \in Nat
          /\ \A i \in 1 .. Len(S) : Behind(S, C)[i] = S[i]
          /\ \A i \in 1 .. Len(C) : Behind(S, C)[Len(S) + i] = C[i]
      BY <2>1, <2>2, BehindFacts
    <3>2. ASSUME NEW i \in 1 .. Len(U) PROVE ~IsControl(U[i])
      <4>1. CASE i \in 1 .. Len(S)
        BY <4>1, <2>1, <2>2, <3>1 DEF NoControl
      <4>2. CASE i \notin 1 .. Len(S)
        <5> DEFINE j == i - Len(S)
        <5>1. j \in 1 .. Len(C) /\ Len(S) + j = i
          BY <4>2, <2>2, <3>1
        <5> HIDE DEF j
        <5>2. Behind(S, C)[Len(S) + j] = C[j]
          BY <3>1, <5>1
        <5>3. U[i] = C[j]
          BY <5>1, <5>2, <2>2
        <5> QED BY <5>1, <5>3, <2>2 DEF NoControl
      <4> QED BY <4>1, <4>2
    <3> QED BY <2>2, <3>1, <3>2 DEF NoControl
  <2>4. ASSUME NEW l \in Lines, NEW h \in Lines, NEW at, NEW e
        PROVE  SpelledBefore(l, at, u, h, e)
    <3> SUFFICES ASSUME Has(l, at, U),
                        Read(l)[<<"string", at + Len(U)>>] = Reads(Text(h), e)
                 PROVE  Read(l)[<<"string", at>>] = Reads(Text(Behind(u, h)), e)
      BY Zenon DEF SpelledBefore, U
    <3> DEFINE k == at + Len(S)
               g == Behind(<<c>>, h)
    <3>1. Has(l, at, S) /\ Has(l, k, C) /\ at + Len(U) = k + Len(C)
      BY <2>1, <2>2, HasBehind
    <3>2. g \in Lines
      BY HasOne, BehindFacts
    <3> HIDE DEF k
    <3>3. Read(l)[<<"string", k + Len(C)>>] = Reads(Text(h), e)
      BY <3>1
    <3>4. Read(l)[<<"string", k>>] = Reads(Text(g), e)
      BY <3>1, <3>3, SpelledOnce DEF C
    <3> HIDE DEF g
    <3>5. SpelledBefore(l, at, t, g, e)
      BY <2>1, <3>2
    <3>6. Read(l)[<<"string", at>>] = Reads(Text(Behind(t, g)), e)
      BY <3>1, <3>4, <3>5, Zenon DEF SpelledBefore, S, k
    <3>7. Behind(t, g) = Behind(u, h)
      <4>1. <<c>> \in Seq(Characters) /\ t \in Seq(Characters) /\ h \in Seq(Characters)
        BY HasOne DEF Lines
      <4>2. (t \o <<c>>) \o h = t \o (<<c>> \o h)
        BY <4>1, ConcatAssociative
      <4>3. Append(t, c) = t \o <<c>>
        BY <4>1, AppendIsConcat
      <4> QED BY <4>2, <4>3, Zenon DEF Behind, g
    <3> QED BY <3>6, <3>7
  <2>5. \A l, h \in Lines : \A at, e : SpelledBefore(l, at, u, h, e)
    BY <2>4
  <2> QED BY <2>2, <2>3, <2>5, Zenon DEF SpelledWell, U
<1> HIDE DEF P
<1>3. Lines \subseteq P
  BY <1>1, <1>2, Spells!SequenceInduction DEF Lines
<1> QED BY <1>3 DEF P

-----------------------------------------------------------------------------
(* Values that are read back wherever they stand. *)

\* Neither white space nor the end of a list.
Opens(c) == ~IsSpace(c) /\ c \notin {"rbrace", "rbracket"}

\* s is read as v wherever it stands, and is no closing bracket or white space.
Readable(s, v) ==
    /\ s \in Lines /\ s # <<>> /\ Opens(s[1]) /\ NoControl(s)
    /\ \A l \in Lines : \A at : Has(l, at, s) => ParseValue(l, at) = Reads(v, at + Len(s))

\* What stands in a line begins there.
LEMMA HasStart ==
    ASSUME NEW l \in Lines, NEW at, NEW s \in Lines, s # <<>>, Has(l, at, s)
    PROVE  /\ at \in Nat /\ at \in 1 .. Len(l) /\ at \in 1 .. Len(l) + 1 /\ At(l, at) = s[1]
           /\ Len(s) \in Nat /\ 1 <= Len(s) /\ at + Len(s) \in at + 1 .. Len(l) + 1
<1>1. Len(s) \in Nat /\ Len(s) # 0 /\ Len(l) \in Nat
  BY EmptySeq, LineCharacters DEF Lines
<1>2. /\ at \in Nat /\ 1 <= at /\ at + Len(s) <= Len(l) + 1
      /\ \A i \in 1 .. Len(s) : At(l, at + i - 1) = s[i]
  BY DEF Has
<1>3. 1 \in 1 .. Len(s) /\ at + 1 - 1 = at
  BY <1>1, <1>2
<1>4. At(l, at + 1 - 1) = s[1]
  BY <1>2, <1>3
<1>5. At(l, at) = s[1]
  BY <1>3, <1>4
<1> QED BY <1>1, <1>2, <1>5

\* A value that opens where it stands.
LEMMA ValueHere ==
    ASSUME NEW l \in Lines, NEW f, NEW at \in 1 .. Len(l) + 1, ~IsSpace(At(l, at))
    PROVE  LET c == At(l, at)
           IN  /\ c = "lbrace" => Value(l, f, at) = OpenList(l, f, "members", at + 1)
               /\ c = "lbracket" => Value(l, f, at) = OpenList(l, f, "elements", at + 1)
               /\ c = "quote" => Value(l, f, at) = f[<<"string", at + 1>>]
               /\ c = "null" => Value(l, f, at) = Reads(Null, at + 1)
               /\ c \in DOMAIN Numbers => Value(l, f, at) = Reads(Number(c), at + 1)
<1>1. SkipWhitespace(l, at) = at
  BY SkipNothing
<1> DEFINE from == SkipWhitespace(l, at)
<1>2. LET c == At(l, from)
      IN  /\ c = "lbrace" => Value(l, f, at) = OpenList(l, f, "members", from + 1)
          /\ c = "lbracket" => Value(l, f, at) = OpenList(l, f, "elements", from + 1)
          /\ c = "quote" => Value(l, f, at) = f[<<"string", from + 1>>]
          /\ c = "null" => Value(l, f, at) = Reads(Null, from + 1)
          /\ c \in DOMAIN Numbers => Value(l, f, at) = Reads(Number(c), from + 1)
  BY ValueCases
<1>3. from = at
  BY <1>1
<1> HIDE DEF from
<1> QED BY <1>2, <1>3

\* Behind white space a value is read as if there were none.
LEMMA ValueBehindSpace ==
    ASSUME NEW l \in Lines, NEW f, NEW at \in 1 .. Len(l), IsSpace(At(l, at))
    PROVE  Value(l, f, at) = Value(l, f, at + 1)
<1>1. SkipWhitespace(l, at) = SkipWhitespace(l, at + 1)
  BY SkipOne
<1> QED BY <1>1, Zenon DEF Value

\* Quotes around a text, one part behind the other.
LEMMA QuotedIsBehind == \A b : Quoted(b) = Behind(Behind(<<"quote">>, b), <<"quote">>)
BY Zenon DEF Quoted, Behind

\* A text between quotes is read as that text.
LEMMA QuotedIsRead ==
    ASSUME NEW t \in Lines
    PROVE  LET q == Quoted(Spelled(Spelling, t))
           IN  /\ q \in Lines /\ q # <<>> /\ q[1] = "quote" /\ NoControl(q)
               /\ \A l \in Lines : \A at : Has(l, at, q) =>
                    /\ at \in 1 .. Len(l) /\ At(l, at) = "quote"
                    /\ Read(l)[<<"string", at + 1>>] = Reads(Text(t), at + Len(q))
<1> DEFINE b == Spelled(Spelling, t)
           o == <<"quote">>
           q == Quoted(b)
           a == Behind(o, b)
<1>1. b \in Lines /\ NoControl(b) /\ \A l, h \in Lines : \A at, e : SpelledBefore(l, at, t, h, e)
  BY TextsAreSpelledWell DEF SpelledWell
<1>2. o \in Lines /\ Len(o) = 1 /\ o[1] = "quote"
      /\ \A l, at : Has(l, at, o) => At(l, at) = "quote" /\ at \in 1 .. Len(l)
  <2>1. "quote" \in Characters
    BY CharactersAssumption DEF Marks
  <2> QED BY <2>1, HasOne
<1>3. q = Behind(a, o)
  BY QuotedIsBehind
<1> HIDE DEF b, o, q
<1>0. o \in Lines /\ b \in Lines
  BY <1>1, <1>2
<1>4. /\ a \in Lines /\ Len(a) = 1 + Len(b) /\ Len(b) \in Nat
      /\ a[1] = "quote" /\ \A i \in 1 .. Len(b) : a[1 + i] = b[i]
  <2>1. /\ a \in Lines /\ Len(a) = Len(o) + Len(b) /\ Len(b) \in Nat
        /\ (\A i \in 1 .. Len(o) : a[i] = o[i])
        /\ (\A i \in 1 .. Len(b) : a[Len(o) + i] = b[i])
    BY <1>0, BehindFacts
  <2>2. Len(o) = 1 /\ o[1] = "quote"
    BY <1>2
  <2> HIDE DEF a
  <2> QED BY <2>1, <2>2
<1> HIDE DEF a
<1>5. /\ q \in Lines /\ Len(q) = Len(a) + 1
      /\ (\A i \in 1 .. Len(a) : q[i] = a[i]) /\ q[Len(a) + 1] = "quote"
  <2>1. a \in Lines
    BY <1>4
  <2>2. /\ q \in Lines /\ Len(q) = Len(a) + Len(o)
        /\ (\A i \in 1 .. Len(a) : q[i] = a[i])
        /\ (\A i \in 1 .. Len(o) : q[Len(a) + i] = o[i])
    BY <1>0, <1>3, <2>1, BehindFacts
  <2>3. Len(o) = 1 /\ o[1] = "quote"
    BY <1>2
  <2> QED BY <2>2, <2>3
<1>6. q[1] = "quote" /\ q # <<>>
  <2>1. 1 \in 1 .. Len(a) /\ Len(q) # 0
    BY <1>4, <1>5
  <2> QED BY <2>1, <1>4, <1>5, EmptySeq
<1>7. NoControl(q)
  <2>1. ~IsControl("quote")
    BY DEF IsControl
  <2>2. ASSUME NEW i \in 1 .. Len(q) PROVE ~IsControl(q[i])
    <3>1. CASE i = Len(q)
      BY <1>5, <2>1, <3>1
    <3>2. CASE i = 1
      BY <1>6, <2>1, <3>2
    <3>3. CASE i # 1 /\ i # Len(q)
      <4> DEFINE j == i - 1
      <4>1. j \in 1 .. Len(b) /\ i \in 1 .. Len(a) /\ 1 + j = i
        BY <1>4, <1>5, <3>3
      <4> HIDE DEF j
      <4>2. q[i] = b[j]
        BY <4>1, <1>4, <1>5
      <4> QED BY <4>1, <4>2, <1>1 DEF NoControl
    <3> QED BY <3>1, <3>2, <3>3
  <2> QED BY <2>2 DEF NoControl
<1>8. ASSUME NEW l \in Lines, NEW at, Has(l, at, q)
      PROVE  /\ at \in 1 .. Len(l) /\ At(l, at) = "quote"
             /\ Read(l)[<<"string", at + 1>>] = Reads(Text(t), at + Len(q))
  <2> DEFINE k == at + 1 + Len(b)
  <2>1. Has(l, at, a) /\ Has(l, at + Len(a), o)
    BY <1>2, <1>3, <1>4, <1>8, HasBehind
  <2>2. Has(l, at, o) /\ Has(l, at + 1, b)
    BY <1>1, <1>2, <2>1, HasBehind DEF a
  <2>3. at \in 1 .. Len(l) /\ At(l, at) = "quote" /\ Len(l) \in Nat
    BY <1>2, <2>2, LineCharacters
  <2>4. at + Len(a) = k /\ at + Len(q) = k + 1
    BY <1>4, <1>5, <2>3
  <2> HIDE DEF k
  <2>5. k \in 1 .. Len(l) /\ At(l, k) = "quote"
    BY <1>2, <2>1, <2>4
  <2>6. Read(l)[<<"string", k>>] = Reads(Text(<<>>), k + 1)
    <3>1. k \in 1 .. Len(l) + 1
      BY <2>3, <2>5
    <3>2. Read(l)[<<"string", k>>] = ReadStep(l, Read(l), <<"string", k>>)
      BY <3>1, ReadIs DEF Rules
    <3>3. ReadStep(l, Read(l), <<"string", k>>) = StringStep(l, Read(l), k)
      BY DEF ReadStep
    <3>4. StringStep(l, Read(l), k) = Reads(Text(<<>>), k + 1)
      BY <2>5, Zenon DEF StringStep
    <3> QED BY <3>2, <3>3, <3>4
  <2>7. <<>> \in Lines
    BY EmptySeq DEF Lines
  <2>8. SpelledBefore(l, at + 1, t, <<>>, k + 1)
    BY <1>1, <2>7
  <2>9. Read(l)[<<"string", at + 1>>] = Reads(Text(Behind(t, <<>>)), k + 1)
    BY <2>2, <2>6, <2>8, Zenon DEF SpelledBefore, b, k
  <2>10. Behind(t, <<>>) = t
    BY ConcatEmptySeq DEF Behind, Lines
  <2> QED BY <2>3, <2>4, <2>9, <2>10
<1> QED BY <1>5, <1>6, <1>7, <1>8 DEF q, b

\* As a value, too.
LEMMA TextIsReadable ==
    ASSUME NEW t \in Lines
    PROVE  Readable(Quoted(Spelled(Spelling, t)), Text(t))
<1> DEFINE q == Quoted(Spelled(Spelling, t))
<1>1. /\ q \in Lines /\ q # <<>> /\ q[1] = "quote" /\ NoControl(q)
      /\ \A l \in Lines : \A at : Has(l, at, q) =>
           /\ at \in 1 .. Len(l) /\ At(l, at) = "quote"
           /\ Read(l)[<<"string", at + 1>>] = Reads(Text(t), at + Len(q))
  BY QuotedIsRead
<1> HIDE DEF q
<1>2. Opens(q[1])
  BY <1>1 DEF Opens, IsSpace
<1>3. ASSUME NEW l \in Lines, NEW at, Has(l, at, q)
      PROVE  ParseValue(l, at) = Reads(Text(t), at + Len(q))
  <2>1. at \in 1 .. Len(l) + 1 /\ At(l, at) = "quote"
    BY <1>1, <1>3, HasStart
  <2>2. Value(l, Read(l), at) = Read(l)[<<"string", at + 1>>]
    BY <2>1, ValueHere DEF IsSpace
  <2> QED BY <1>1, <1>3, <2>2 DEF ParseValue
<1> QED BY <1>1, <1>2, <1>3, Zenon DEF Readable, q

\* So are null and the numbers.
LEMMA OneIsReadable ==
    /\ Readable(<<"null">>, Null)
    /\ \A n \in DOMAIN Numbers : Readable(<<n>>, Number(n))
<1>1. ASSUME NEW c \in {"null"} \cup DOMAIN Numbers
      PROVE  Readable(<<c>>, IF c = "null" THEN Null ELSE Number(c))
  <2>1. c \in Characters
    BY CharactersAssumption DEF Marks
  <2>2. <<c>> \in Lines /\ Len(<<c>>) = 1 /\ <<c>>[1] = c
    BY <2>1, HasOne
  <2>3. <<c>> # <<>> /\ ~IsSpace(c) /\ Opens(c) /\ NoControl(<<c>>)
    BY <2>2 DEF Opens, IsSpace, NoControl, IsControl, Numbers
  <2>4. ASSUME NEW l \in Lines, NEW at, Has(l, at, <<c>>)
        PROVE  ParseValue(l, at) = Reads(IF c = "null" THEN Null ELSE Number(c), at + 1)
    <3>1. at \in 1 .. Len(l) + 1 /\ At(l, at) = c
      BY <2>2, <2>3, <2>4, HasStart
    <3>2. CASE c = "null"
      BY <2>3, <3>1, <3>2, ValueHere DEF ParseValue
    <3>3. CASE c # "null"
      <4>1. c \in DOMAIN Numbers
        BY <3>3
      <4>2. Value(l, Read(l), at) = Reads(Number(c), at + 1)
        BY <2>3, <3>1, <4>1, ValueHere
      <4> QED BY <3>3, <4>2 DEF ParseValue
    <3> QED BY <3>2, <3>3
  <2> DEFINE s == <<c>>
  <2>5. /\ s \in Lines /\ s # <<>> /\ Opens(s[1]) /\ NoControl(s) /\ Len(s) = 1
        /\ \A l \in Lines : \A at : Has(l, at, s) =>
             ParseValue(l, at) = Reads(IF c = "null" THEN Null ELSE Number(c), at + 1)
    BY <2>2, <2>3, <2>4
  <2> HIDE DEF s
  <2>6. Readable(s, IF c = "null" THEN Null ELSE Number(c))
    BY <2>5, Zenon DEF Readable
  <2> QED BY <2>6 DEF s
<1>2. \A n \in DOMAIN Numbers : n # "null"
  BY DEF Numbers
<1>3. Readable(<<"null">>, Null)
  <2>1. Readable(<<"null">>, IF "null" = "null" THEN Null ELSE Number("null"))
    BY <1>1
  <2> QED BY <2>1, Zenon
<1>4. ASSUME NEW n \in DOMAIN Numbers PROVE Readable(<<n>>, Number(n))
  <2>1. Readable(<<n>>, IF n = "null" THEN Null ELSE Number(n))
    BY <1>1
  <2> QED BY <1>2, <2>1, Zenon
<1> QED BY <1>3, <1>4

\* The value of a list, or of a part of one.
OfList(rule, S, v) ==
    IF rule = "members" THEN v = Object(v.holds)
                        ELSE v = Array(v.holds) /\ v.holds \in Seq(S)

\* The members of two objects, those of the second over those of the first.
Over(f, g) == [k \in (DOMAIN f) \cup (DOMAIN g) |-> IF k \in DOMAIN g THEN g[k] ELSE f[k]]

\* Whichever two of three objects are put together first, the last one's values stay.
LEMMA OverAgain == \A f, g, h : Over(f, Over(g, h)) = Over(Over(f, g), h)
<1> TAKE f, g, h
<1>1. ASSUME NEW p, NEW q
      PROVE  /\ DOMAIN Over(p, q) = (DOMAIN p) \cup (DOMAIN q)
             /\ \A k \in (DOMAIN p) \cup (DOMAIN q) :
                  Over(p, q)[k] = IF k \in DOMAIN q THEN q[k] ELSE p[k]
  BY DEF Over
<1> DEFINE D == (DOMAIN f) \cup (DOMAIN g) \cup (DOMAIN h)
           v(k) == IF k \in DOMAIN h THEN h[k] ELSE IF k \in DOMAIN g THEN g[k] ELSE f[k]
<1>2. Over(f, Over(g, h)) = [k \in D |-> v(k)]
  BY <1>1 DEF Over
<1>3. Over(Over(f, g), h) = [k \in D |-> v(k)]
  BY <1>1 DEF Over
<1> QED BY <1>2, <1>3

\* Two parts of a list together are one.
LEMMA TogetherOfList ==
    ASSUME NEW rule \in Lists, NEW S, NEW a, NEW b, OfList(rule, S, a), OfList(rule, S, b)
    PROVE  OfList(rule, S, Together(a, b))
<1>1. CASE rule = "members"
  <2>1. a.type = "object"
    BY <1>1 DEF OfList, Object
  <2> DEFINE h == [k \in (DOMAIN a.holds) \cup (DOMAIN b.holds) |->
                     IF k \in DOMAIN b.holds THEN b.holds[k] ELSE a.holds[k]]
  <2>2. Together(a, b) = Object(h)
    BY <2>1, Zenon DEF Together
  <2>3. Object(h).holds = h
    BY DEF Object
  <2> QED BY <1>1, <2>2, <2>3, Zenon DEF OfList
<1>2. CASE rule # "members"
  <2>1. a.type # "object" /\ a.holds \in Seq(S) /\ b.holds \in Seq(S)
    BY <1>2 DEF OfList, Array
  <2> DEFINE h == a.holds \o b.holds
  <2>2. h \in Seq(S)
    BY <2>1, ConcatProperties
  <2>3. Together(a, b) = Array(h)
    BY <2>1, Zenon DEF Together
  <2> HIDE DEF h
  <2>4. Array(h).holds = h
    BY DEF Array
  <2> QED BY <1>2, <2>2, <2>3, <2>4, Zenon DEF OfList
<1> QED BY <1>1, <1>2

\* Whichever two of three parts are put together first, the list is the same.
LEMMA TogetherAgain ==
    ASSUME NEW rule \in Lists, NEW S, NEW a, NEW b, NEW c,
           OfList(rule, S, a), OfList(rule, S, b), OfList(rule, S, c)
    PROVE  Together(a, Together(b, c)) = Together(Together(a, b), c)
<1>1. CASE rule = "members"
  <2>1. a = Object(a.holds) /\ b = Object(b.holds) /\ c = Object(c.holds)
    BY <1>1, Zenon DEF OfList
  <2>2. ASSUME NEW f, NEW g PROVE Together(Object(f), Object(g)) = Object(Over(f, g))
    <3>1. Object(f).type = "object" /\ Object(f).holds = f /\ Object(g).holds = g
      BY DEF Object
    <3> QED BY <3>1, Zenon DEF Together, Over
  <2>3. Together(a, Together(b, c)) = Object(Over(a.holds, Over(b.holds, c.holds)))
    BY <2>1, <2>2, Zenon
  <2>4. Together(Together(a, b), c) = Object(Over(Over(a.holds, b.holds), c.holds))
    BY <2>1, <2>2, Zenon
  <2>5. Over(a.holds, Over(b.holds, c.holds)) = Over(Over(a.holds, b.holds), c.holds)
    BY OverAgain
  <2> QED BY <2>3, <2>4, <2>5, Zenon
<1>2. CASE rule # "members"
  <2>1. /\ a = Array(a.holds) /\ b = Array(b.holds) /\ c = Array(c.holds)
        /\ a.holds \in Seq(S) /\ b.holds \in Seq(S) /\ c.holds \in Seq(S)
    BY <1>2 DEF OfList
  <2>2. ASSUME NEW f, NEW g PROVE Together(Array(f), Array(g)) = Array(Behind(f, g))
    <3>1. Array(f).type # "object" /\ Array(f).holds = f /\ Array(g).holds = g
      BY DEF Array
    <3> QED BY <3>1, Zenon DEF Together, Behind
  <2>3. Together(a, Together(b, c)) = Array(Behind(a.holds, Behind(b.holds, c.holds)))
    BY <2>1, <2>2, Zenon
  <2>4. Together(Together(a, b), c) = Array(Behind(Behind(a.holds, b.holds), c.holds))
    BY <2>1, <2>2, Zenon
  <2>5. Behind(a.holds, Behind(b.holds, c.holds)) = Behind(Behind(a.holds, b.holds), c.holds)
    <3>1. ASSUME NEW f \in Seq(S), NEW g \in Seq(S), NEW h \in Seq(S)
          PROVE  Behind(f, Behind(g, h)) = Behind(Behind(f, g), h)
      BY ConcatAssociative DEF Behind
    <3> QED BY <2>1, <3>1, Zenon
  <2> QED BY <2>3, <2>4, <2>5, Zenon
<1> QED BY <1>1, <1>2

\* Parts joined are joined one by one.
LEMMA JoinedIsFold == \A ps : Joined(ps) = Joins!Fold(0, ps)
BY Zenon DEF Joined, FoldLeft, MapThenFoldSet, Max, JoinedStep, Joins!Fold,
             Joins!FoldLeft, Joins!MapThenFoldSet, Joins!Max

\* What is between two parts.
Comma == <<"comma", "space">>

\* Parts are joined one after the other.
LEMMA JoinedBySteps ==
    ASSUME NEW ps \in Seq(Lines)
    PROVE  /\ Joined(SubSeq(ps, 1, 0)) = <<>> /\ Joined(SubSeq(ps, 1, Len(ps))) = Joined(ps)
           /\ \A k \in 0 .. Len(ps) - 1 :
                LET j == Joined(SubSeq(ps, 1, k))
                IN  Joined(SubSeq(ps, 1, k + 1))
                      = IF j = <<>> THEN ps[k + 1] ELSE Behind(Behind(j, Comma), ps[k + 1])
<1>1. /\ Joins!Fold(0, SubSeq(ps, 1, 0)) = <<>>
      /\ \A k \in 0 .. Len(ps) - 1 :
           Joins!Fold(0, SubSeq(ps, 1, k + 1)) =
             JoinedStep(0, Joins!Fold(0, SubSeq(ps, 1, k)), ps[k + 1])
      /\ Joins!Fold(0, SubSeq(ps, 1, Len(ps))) = Joins!Fold(0, ps)
  BY Joins!FoldPrefix
<1>2. ASSUME NEW k \in 0 .. Len(ps) - 1
      PROVE  LET j == Joined(SubSeq(ps, 1, k))
             IN  Joined(SubSeq(ps, 1, k + 1))
                   = IF j = <<>> THEN ps[k + 1] ELSE Behind(Behind(j, Comma), ps[k + 1])
  <2>1. Joined(SubSeq(ps, 1, k + 1)) = JoinedStep(0, Joined(SubSeq(ps, 1, k)), ps[k + 1])
    BY <1>1, <1>2, JoinedIsFold, Zenon
  <2> QED BY <2>1, Zenon DEF JoinedStep, Behind, Comma
<1> QED BY <1>1, <1>2, JoinedIsFold, Zenon

\* What stands behind something is as well made.
LEMMA BehindWell ==
    ASSUME NEW s \in Lines, NEW t \in Lines
    PROVE  /\ s # <<>> => Behind(s, t) # <<>> /\ Behind(s, t)[1] = s[1]
           /\ NoControl(s) /\ NoControl(t) => NoControl(Behind(s, t))
<1> DEFINE u == Behind(s, t)
<1>1. /\ u \in Lines /\ Len(u) = Len(s) + Len(t) /\ Len(s) \in Nat /\ Len(t) \in Nat
      /\ (\A i \in 1 .. Len(s) : u[i] = s[i]) /\ (\A i \in 1 .. Len(t) : u[Len(s) + i] = t[i])
  BY BehindFacts
<1> HIDE DEF u
<1>2. ASSUME s # <<>> PROVE u # <<>> /\ u[1] = s[1]
  <2>1. Len(s) # 0
    BY <1>2, EmptySeq DEF Lines
  <2>2. Len(u) # 0 /\ 1 \in 1 .. Len(s)
    BY <1>1, <2>1
  <2> QED BY <1>1, <2>2, EmptySeq
<1>3. ASSUME NoControl(s), NoControl(t) PROVE NoControl(u)
  <2>1. ASSUME NEW i \in 1 .. Len(u) PROVE ~IsControl(u[i])
    <3>1. CASE i <= Len(s)
      BY <1>1, <1>3, <3>1 DEF NoControl
    <3>2. CASE ~(i <= Len(s))
      <4> DEFINE j == i - Len(s)
      <4>1. j \in 1 .. Len(t) /\ Len(s) + j = i
        BY <1>1, <3>2
      <4> HIDE DEF j
      <4>2. u[i] = t[j]
        BY <1>1, <4>1
      <4> QED BY <1>3, <4>1, <4>2 DEF NoControl
    <3> QED BY <3>1, <3>2
  <2> QED BY <2>1 DEF NoControl
<1> QED BY <1>2, <1>3 DEF u

\* In a list too white space is skipped.
LEMMA ListBehindSpace ==
    ASSUME NEW l \in Lines, NEW rule \in Lists, NEW at \in 1 .. Len(l), IsSpace(At(l, at))
    PROVE  Read(l)[<<rule, at>>] = Read(l)[<<rule, at + 1>>]
<1> DEFINE f == Read(l)
<1>1. Len(l) \in Nat /\ rule \in Rules /\ rule # "string"
  BY LineCharacters DEF Rules, Lists
<1>2. at \in 1 .. Len(l) + 1 /\ at + 1 \in 1 .. Len(l) + 1
  BY <1>1
<1>3. /\ f[<<rule, at>>] = ReadStep(l, f, <<rule, at>>)
      /\ f[<<rule, at + 1>>] = ReadStep(l, f, <<rule, at + 1>>)
  BY <1>1, <1>2, ReadIs
<1> HIDE DEF f
<1>4. /\ ReadStep(l, f, <<rule, at>>) = ListStep(l, f, rule, at)
      /\ ReadStep(l, f, <<rule, at + 1>>) = ListStep(l, f, rule, at + 1)
  BY <1>1 DEF ReadStep
<1>5. SkipWhitespace(l, at) = SkipWhitespace(l, at + 1)
  BY SkipOne
<1>6. Value(l, f, at) = Value(l, f, at + 1)
  BY ValueBehindSpace
<1>7. ListStep(l, f, rule, at) = ListStep(l, f, rule, at + 1)
  <2>1. ObjectMember(l, f, at) = ObjectMember(l, f, at + 1)
    BY <1>5, Zenon DEF ObjectMember
  <2>2. ArrayElement(l, f, at) = ArrayElement(l, f, at + 1)
    BY <1>6, Zenon DEF ArrayElement
  <2>3. Part(l, f, rule, at) = Part(l, f, rule, at + 1)
    BY <2>1, <2>2, Zenon DEF Part
  <2> QED BY <2>3, Zenon DEF ListStep
<1> QED BY <1>3, <1>4, <1>7 DEF f

\* The last part of a list, and one that is followed by others.
LEMMA PartReads ==
    ASSUME NEW l \in Lines, NEW rule \in Lists, NEW at \in 1 .. Len(l) + 1, NEW v,
           NEW e \in 1 .. Len(l), Part(l, Read(l), rule, at) = Reads(v, e)
    PROVE  /\ At(l, e) = Closing(rule) => Read(l)[<<rule, at>>] = Reads(v, e + 1)
           /\ \A rest, k : At(l, e) = "comma" /\ Read(l)[<<rule, e + 1>>] = Reads(rest, k) =>
                             Read(l)[<<rule, at>>] = Reads(Together(v, rest), k)
<1> DEFINE f == Read(l)
           first == Part(l, f, rule, at)
           next == SkipWhitespace(l, first.at)
           rest == f[<<rule, next + 1>>]
<1>1. rule \in Rules /\ rule # "string"
  BY DEF Rules, Lists
<1>2. f[<<rule, at>>] = ListStep(l, f, rule, at)
  <2>1. f[<<rule, at>>] = ReadStep(l, f, <<rule, at>>)
    BY <1>1, ReadIs
  <2> QED BY <1>1, <2>1 DEF ReadStep
<1>3. /\ first.ok /\ At(l, next) = Closing(rule) =>
           ListStep(l, f, rule, at) = Reads(first.value, next + 1)
      /\ first.ok /\ At(l, next) = "comma" /\ rest.ok =>
           ListStep(l, f, rule, at) = Reads(Together(first.value, rest.value), rest.at)
  BY ListCases
<1>4. first.ok /\ first.value = v /\ first.at = e
  BY ParseFacts
<1> HIDE DEF first
<1>5. ~IsSpace(At(l, e)) => next = e
  <2>1. e \in 1 .. Len(l) + 1
    BY LineCharacters
  <2> QED BY <1>4, <2>1, SkipNothing
<1>6. ASSUME At(l, e) = Closing(rule) PROVE f[<<rule, at>>] = Reads(v, e + 1)
  <2>1. next = e
    BY <1>5, <1>6 DEF Closing, IsSpace
  <2> HIDE DEF next
  <2> QED BY <1>2, <1>3, <1>4, <1>6, <2>1
<1>7. ASSUME NEW r, NEW k, At(l, e) = "comma", f[<<rule, e + 1>>] = Reads(r, k)
      PROVE  f[<<rule, at>>] = Reads(Together(v, r), k)
  <2>1. next = e
    BY <1>5, <1>7 DEF IsSpace
  <2> HIDE DEF next
  <2>2. rest.ok /\ rest.value = r /\ rest.at = k
    BY <1>7, <2>1, ParseFacts
  <2> HIDE DEF rest
  <2> QED BY <1>2, <1>3, <1>4, <1>7, <2>1, <2>2
<1> QED BY <1>6, <1>7 DEF f

\* Text that can stand in a list; in an object a key is first.
Stands(rule, s) ==
    /\ s \in Lines /\ s # <<>> /\ Opens(s[1]) /\ NoControl(s)
    /\ rule = "members" => s[1] = "quote"

\* What is read as a part of a list, wherever it stands.
IsPart(rule, p, v) ==
    /\ Stands(rule, p)
    /\ \A l \in Lines : \A at :
         Has(l, at, p) => Part(l, Read(l), rule, at) = Reads(v, at + Len(p))

\* Some parts of a list, at its end and before others.
Closes(l, at, rule, s, v) ==
    Has(l, at, s) /\ At(l, at + Len(s)) = Closing(rule) =>
        Read(l)[<<rule, at>>] = Reads(v, at + Len(s) + 1)

\* A comma behind them, and the rest of the list: they are put together.
GoesOn(l, at, rule, s, v, rest, e) ==
    Has(l, at, s) /\ At(l, at + Len(s)) = "comma"
      /\ Read(l)[<<rule, at + Len(s) + 1>>] = Reads(rest, e) =>
        Read(l)[<<rule, at>>] = Reads(Together(v, rest), e)

\* s is parts of a list: v is read of them, whether the list ends there or goes on.
AreParts(rule, S, s, v) ==
    /\ Stands(rule, s) /\ OfList(rule, S, v)
    /\ \A l \in Lines : \A at : Closes(l, at, rule, s, v)
    /\ \A l \in Lines : \A at, rest, e :
         OfList(rule, S, rest) => GoesOn(l, at, rule, s, v, rest, e)

\* Behind what stands in a line, before its end.
LEMMA HasNext ==
    ASSUME NEW l \in Lines, NEW at, NEW s \in Lines, s # <<>>, Has(l, at, s),
           At(l, at + Len(s)) # "end"
    PROVE  at \in 1 .. Len(l) + 1 /\ at + Len(s) \in 1 .. Len(l)
<1>1. at \in 1 .. Len(l) + 1 /\ at + Len(s) \in at + 1 .. Len(l) + 1 /\ Len(l) \in Nat
  BY HasStart, LineCharacters
<1> DEFINE e == at + Len(s)
<1>2. e \in 1 .. Len(l)
  BY LineCharacters
<1> QED BY <1>1, <1>2

\* One part is that.
LEMMA PartIsParts ==
    ASSUME NEW rule \in Lists, NEW S, NEW p, NEW v, IsPart(rule, p, v), OfList(rule, S, v)
    PROVE  AreParts(rule, S, p, v)
<1>1. Stands(rule, p) /\ p \in Lines /\ p # <<>>
  BY DEF IsPart, Stands
<1>2. ASSUME NEW l \in Lines, NEW at, Has(l, at, p), At(l, at + Len(p)) # "end"
      PROVE  /\ at \in 1 .. Len(l) + 1 /\ at + Len(p) \in 1 .. Len(l)
             /\ Part(l, Read(l), rule, at) = Reads(v, at + Len(p))
  BY <1>1, <1>2, HasNext DEF IsPart
<1>3. ASSUME NEW l \in Lines, NEW at PROVE Closes(l, at, rule, p, v)
  <2> SUFFICES ASSUME Has(l, at, p), At(l, at + Len(p)) = Closing(rule)
               PROVE  Read(l)[<<rule, at>>] = Reads(v, at + Len(p) + 1)
    BY Zenon DEF Closes
  <2> DEFINE k == at + Len(p)
  <2>1. At(l, k) # "end"
    BY DEF Closing
  <2>2. /\ at \in 1 .. Len(l) + 1 /\ k \in 1 .. Len(l) /\ At(l, k) = Closing(rule)
        /\ Part(l, Read(l), rule, at) = Reads(v, k)
    BY <1>2, <2>1
  <2> HIDE DEF k
  <2>3. /\ At(l, k) = Closing(rule) => Read(l)[<<rule, at>>] = Reads(v, k + 1)
        /\ \A rest, m : At(l, k) = "comma" /\ Read(l)[<<rule, k + 1>>] = Reads(rest, m) =>
                          Read(l)[<<rule, at>>] = Reads(Together(v, rest), m)
    <3>1. /\ at \in 1 .. Len(l) + 1 /\ k \in 1 .. Len(l)
          /\ Part(l, Read(l), rule, at) = Reads(v, k)
      BY <2>2
    <3> QED BY <3>1, PartReads
  <2> QED BY <2>2, <2>3, Zenon DEF k
<1>4. ASSUME NEW l \in Lines, NEW at, NEW rest, NEW e
      PROVE  GoesOn(l, at, rule, p, v, rest, e)
  <2> SUFFICES ASSUME Has(l, at, p), At(l, at + Len(p)) = "comma",
                      Read(l)[<<rule, at + Len(p) + 1>>] = Reads(rest, e)
               PROVE  Read(l)[<<rule, at>>] = Reads(Together(v, rest), e)
    BY Zenon DEF GoesOn
  <2> QED BY <1>2, PartReads
<1> QED BY <1>1, <1>3, <1>4 DEF AreParts

\* Some parts, a comma, and one more.
LEMMA PartsAndPart ==
    ASSUME NEW rule \in Lists, NEW S, NEW s, NEW v, NEW p, NEW w,
           AreParts(rule, S, s, v), IsPart(rule, p, w), OfList(rule, S, w),
           NEW sep \in {<<"comma">>, Comma}
    PROVE  AreParts(rule, S, Behind(Behind(s, sep), p), Together(v, w))
<1> DEFINE sc == Behind(s, sep)
           u == Behind(sc, p)
           vw == Together(v, w)
<1>1. Stands(rule, s) /\ s \in Lines /\ s # <<>> /\ Stands(rule, p) /\ p \in Lines /\ p # <<>>
  BY DEF IsPart, AreParts, Stands
<1>2. OfList(rule, S, v) /\ OfList(rule, S, vw) /\ AreParts(rule, S, p, w)
  BY TogetherOfList, PartIsParts DEF AreParts
<1>3. /\ sep \in Lines /\ NoControl(sep)
      /\ \A l, at : Has(l, at, sep) =>
           /\ At(l, at) = "comma"
           /\ Len(sep) = 1 \/ (Len(sep) = 2 /\ At(l, at + 1) = "space")
  <2>1. "comma" \in Characters /\ "space" \in Characters
    BY CharactersAssumption DEF Marks
  <2>2. CASE sep = <<"comma">>
    <3>1. /\ <<"comma">> \in Lines /\ Len(<<"comma">>) = 1 /\ <<"comma">>[1] = "comma"
          /\ \A l, at : Has(l, at, <<"comma">>) => At(l, at) = "comma"
      BY <2>1, HasOne
    <3>2. NoControl(<<"comma">>)
      BY <3>1 DEF NoControl, IsControl
    <3> QED BY <2>2, <3>1, <3>2
  <2>3. CASE sep = Comma
    <3>1. /\ Comma \in Lines /\ Len(Comma) = 2 /\ Comma[1] = "comma" /\ Comma[2] = "space"
          /\ \A l, at : Has(l, at, Comma) => At(l, at) = "comma" /\ At(l, at + 1) = "space"
      BY <2>1, HasTwo DEF Comma
    <3>2. NoControl(Comma)
      BY <3>1 DEF NoControl, IsControl
    <3> QED BY <2>3, <3>1, <3>2
  <2> QED BY <2>2, <2>3
<1>4. sep \in Lines /\ NoControl(sep)
  BY <1>3
<1>5. sc \in Lines /\ sc # <<>> /\ sc[1] = s[1] /\ NoControl(sc)
  BY <1>1, <1>4, BehindFacts, BehindWell DEF Stands
<1> HIDE DEF sc
<1>6. u \in Lines /\ u # <<>> /\ u[1] = s[1] /\ NoControl(u)
  <2>1. sc \in Lines /\ p \in Lines
    BY <1>1, <1>5
  <2>2. u \in Lines
    BY <2>1, BehindFacts
  <2>3. u # <<>> /\ u[1] = sc[1]
    BY <2>1, <1>5, BehindWell
  <2>4. NoControl(u)
    BY <2>1, <1>1, <1>5, BehindWell DEF Stands
  <2> QED BY <1>5, <2>2, <2>3, <2>4
<1>7. Stands(rule, u)
  BY <1>1, <1>6 DEF Stands
<1>8. ASSUME NEW l \in Lines, NEW at, Has(l, at, u)
      PROVE  LET c == at + Len(s)
                 d == c + Len(sep)
             IN  /\ Has(l, at, s) /\ At(l, c) = "comma" /\ Has(l, d, p)
                 /\ d + Len(p) = at + Len(u)
                 /\ Read(l)[<<rule, c + 1>>] = Read(l)[<<rule, d>>]
  <2> DEFINE c == at + Len(s)
             d == c + Len(sep)
  <2>1. Has(l, at, sc) /\ Has(l, at + Len(sc), p) /\ at + Len(u) = at + Len(sc) + Len(p)
    BY <1>1, <1>5, <1>8, HasBehind
  <2>2. Has(l, at, s) /\ Has(l, c, sep) /\ at + Len(sc) = d
    BY <1>1, <1>4, <2>1, HasBehind DEF sc
  <2>3. At(l, c) = "comma" /\ (Len(sep) = 1 \/ (Len(sep) = 2 /\ At(l, c + 1) = "space"))
    BY <1>3, <2>2
  <2>4. c \in Nat
    BY <2>2 DEF Has
  <2>5. Has(l, d, p) /\ d + Len(p) = at + Len(u)
    BY <2>1, <2>2
  <2> HIDE DEF c
  <2>6. Read(l)[<<rule, c + 1>>] = Read(l)[<<rule, d>>]
    <3>1. CASE Len(sep) = 1
      BY <3>1
    <3>2. CASE Len(sep) = 2 /\ At(l, c + 1) = "space"
      <4>1. c + 1 \in 1 .. Len(l)
        <5>1. At(l, c + 1) # "end"
          BY <3>2
        <5> QED BY <5>1, LineCharacters
      <4>2. Read(l)[<<rule, c + 1>>] = Read(l)[<<rule, c + 1 + 1>>]
        BY <3>2, <4>1, ListBehindSpace DEF IsSpace
      <4>3. c + 1 + 1 = d
        BY <2>4, <3>2
      <4> QED BY <4>2, <4>3
    <3> QED BY <2>3, <3>1, <3>2
  <2> QED BY <2>2, <2>3, <2>5, <2>6, Zenon DEF c, d
<1> HIDE DEF u
<1>9. ASSUME NEW l \in Lines, NEW at PROVE Closes(l, at, rule, u, vw)
  <2> DEFINE c == at + Len(s)
             d == c + Len(sep)
             e == at + Len(u)
  <2> SUFFICES ASSUME Has(l, at, u), At(l, e) = Closing(rule)
               PROVE  Read(l)[<<rule, at>>] = Reads(vw, e + 1)
    BY Zenon DEF Closes
  <2>1. /\ Has(l, at, s) /\ At(l, c) = "comma" /\ Has(l, d, p) /\ d + Len(p) = e
        /\ Read(l)[<<rule, c + 1>>] = Read(l)[<<rule, d>>]
    BY <1>8
  <2>2. Closes(l, d, rule, p, w)
    BY <1>2 DEF AreParts
  <2>3. GoesOn(l, at, rule, s, v, w, e + 1)
    BY DEF AreParts
  <2> HIDE DEF c, d, e
  <2>4. Read(l)[<<rule, d>>] = Reads(w, e + 1)
    BY <2>1, <2>2, Zenon DEF Closes
  <2> QED BY <2>1, <2>3, <2>4, Zenon DEF GoesOn, c
<1>10. ASSUME NEW l \in Lines, NEW at, NEW rest, NEW k, OfList(rule, S, rest)
       PROVE  GoesOn(l, at, rule, u, vw, rest, k)
  <2> DEFINE c == at + Len(s)
             d == c + Len(sep)
             e == at + Len(u)
             wr == Together(w, rest)
  <2> SUFFICES ASSUME Has(l, at, u), At(l, e) = "comma",
                      Read(l)[<<rule, e + 1>>] = Reads(rest, k)
               PROVE  Read(l)[<<rule, at>>] = Reads(Together(vw, rest), k)
    BY Zenon DEF GoesOn
  <2>1. /\ Has(l, at, s) /\ At(l, c) = "comma" /\ Has(l, d, p) /\ d + Len(p) = e
        /\ Read(l)[<<rule, c + 1>>] = Read(l)[<<rule, d>>]
    BY <1>8
  <2>2. GoesOn(l, d, rule, p, w, rest, k)
    BY <1>2, <1>10 DEF AreParts
  <2>3. OfList(rule, S, wr)
    BY <1>10, TogetherOfList
  <2>4. GoesOn(l, at, rule, s, v, wr, k)
    BY <2>3 DEF AreParts
  <2>5. Together(v, wr) = Together(vw, rest)
    BY <1>2, <1>10, TogetherAgain
  <2> HIDE DEF c, d, e, wr, vw
  <2>6. Read(l)[<<rule, d>>] = Reads(wr, k)
    BY <2>1, <2>2, Zenon DEF GoesOn, wr
  <2>7. Read(l)[<<rule, at>>] = Reads(Together(v, wr), k)
    BY <2>1, <2>4, <2>6, Zenon DEF GoesOn, c
  <2> QED BY <2>5, <2>7
<1> QED BY <1>2, <1>7, <1>9, <1>10, Zenon DEF AreParts, u, vw, sc

\* All the parts of a list, as they are joined.
LEMMA JoinedAreParts ==
    ASSUME NEW rule \in Lists, NEW S, NEW ps \in Seq(Lines), ps # <<>>, NEW one, NEW all,
           \A k \in 1 .. Len(ps) : IsPart(rule, ps[k], one[k]) /\ OfList(rule, S, one[k]),
           all[1] = one[1],
           \A k \in 1 .. Len(ps) - 1 : all[k + 1] = Together(all[k], one[k + 1])
    PROVE  AreParts(rule, S, Joined(ps), all[Len(ps)])
<1> DEFINE n == Len(ps)
           J(k) == Joined(SubSeq(ps, 1, k))
           P == {k \in Nat : k \in 1 .. n => AreParts(rule, S, J(k), all[k])}
<1>1. n \in Nat /\ n # 0
  BY EmptySeq, LenProperties
<1>2. J(0) = <<>> /\ J(n) = Joined(ps)
      /\ \A k \in 0 .. n - 1 :
           J(k + 1) = IF J(k) = <<>> THEN ps[k + 1] ELSE Behind(Behind(J(k), Comma), ps[k + 1])
  BY JoinedBySteps
<1> HIDE DEF J, n
<1>3. 0 \in P
  BY <1>1
<1>4. ASSUME NEW k \in Nat, k \in P PROVE k + 1 \in P
  <2> SUFFICES ASSUME k + 1 \in 1 .. n PROVE AreParts(rule, S, J(k + 1), all[k + 1])
    OBVIOUS
  <2>1. k \in 0 .. n - 1
    BY <1>1
  <2>2. J(k + 1) = IF J(k) = <<>> THEN ps[k + 1] ELSE Behind(Behind(J(k), Comma), ps[k + 1])
    BY <1>2, <2>1
  <2>3. IsPart(rule, ps[k + 1], one[k + 1]) /\ OfList(rule, S, one[k + 1])
    BY DEF n
  <2>4. CASE k = 0
    <3>1. J(k + 1) = ps[k + 1] /\ all[k + 1] = one[k + 1]
      BY <1>2, <2>2, <2>4
    <3> QED BY <2>3, <3>1, PartIsParts
  <2>5. CASE k # 0
    <3>1. k \in 1 .. n /\ k \in 1 .. n - 1
      BY <1>1, <2>1, <2>5
    <3>2. AreParts(rule, S, J(k), all[k])
      BY <1>4, <3>1
    <3>3. J(k) # <<>>
      BY <3>2 DEF AreParts, Stands
    <3>4. all[k + 1] = Together(all[k], one[k + 1])
      BY <3>1 DEF n
    <3>5. AreParts(rule, S, Behind(Behind(J(k), Comma), ps[k + 1]), Together(all[k], one[k + 1]))
      BY <2>3, <3>2, PartsAndPart
    <3> QED BY <2>2, <3>3, <3>4, <3>5
  <2> QED BY <2>4, <2>5
<1> HIDE DEF P
<1>5. n \in P
  BY <1>1, <1>3, <1>4, Joins!NaturalInduction
<1>6. n \in 1 .. n
  BY <1>1
<1> QED BY <1>2, <1>5, <1>6 DEF P, n

\* A value is an element of an array.
LEMMA ElementIsPart ==
    ASSUME NEW s, NEW v, Readable(s, v)
    PROVE  IsPart("elements", s, Array(<<v>>))
<1>1. Stands("elements", s)
  BY DEF Stands, Readable
<1>2. ASSUME NEW l \in Lines, NEW at, Has(l, at, s)
      PROVE  Part(l, Read(l), "elements", at) = Reads(Array(<<v>>), at + Len(s))
  <2> DEFINE value == Value(l, Read(l), at)
  <2>1. value = Reads(v, at + Len(s))
    BY <1>2 DEF Readable, ParseValue
  <2>2. value.ok => ArrayElement(l, Read(l), at) = Reads(Array(<<value.value>>), value.at)
    BY ElementCases
  <2> HIDE DEF value
  <2>3. value.ok /\ value.value = v /\ value.at = at + Len(s)
    BY <2>1, ParseFacts
  <2>4. ArrayElement(l, Read(l), at) = Reads(Array(<<v>>), at + Len(s))
    BY <2>2, <2>3
  <2> QED BY <2>4, Zenon DEF Part
<1> QED BY <1>1, <1>2, Zenon DEF IsPart

\* A key, a colon with or without a space, and a value are a member of an object.
LEMMA MemberIsPart ==
    ASSUME NEW k \in Lines, NEW s, NEW v, Readable(s, v),
           NEW sep \in {<<"colon">>, <<"colon", "space">>}
    PROVE  IsPart("members", Behind(Behind(Quoted(Spelled(Spelling, k)), sep), s),
                  Object([x \in {k} |-> v]))
<1> DEFINE q == Quoted(Spelled(Spelling, k))
           qs == Behind(q, sep)
           m == Behind(qs, s)
           o == Object([x \in {k} |-> v])
<1>1. s \in Lines /\ s # <<>> /\ NoControl(s)
  BY DEF Readable
<1>2. /\ q \in Lines /\ q # <<>> /\ q[1] = "quote" /\ NoControl(q)
      /\ \A l \in Lines : \A at : Has(l, at, q) =>
           /\ at \in 1 .. Len(l) /\ At(l, at) = "quote"
           /\ Read(l)[<<"string", at + 1>>] = Reads(Text(k), at + Len(q))
  BY QuotedIsRead
<1> HIDE DEF q, o
<1>3. /\ sep \in Lines /\ NoControl(sep)
      /\ \A l, at : Has(l, at, sep) =>
           /\ At(l, at) = "colon"
           /\ Len(sep) = 1 \/ (Len(sep) = 2 /\ At(l, at + 1) = "space")
  <2>1. "colon" \in Characters /\ "space" \in Characters
    BY CharactersAssumption DEF Marks
  <2>2. CASE sep = <<"colon">>
    <3>1. /\ <<"colon">> \in Lines /\ Len(<<"colon">>) = 1 /\ <<"colon">>[1] = "colon"
          /\ \A l, at : Has(l, at, <<"colon">>) => At(l, at) = "colon"
      BY <2>1, HasOne
    <3>2. NoControl(<<"colon">>)
      BY <3>1 DEF NoControl, IsControl
    <3> QED BY <2>2, <3>1, <3>2
  <2>3. CASE sep = <<"colon", "space">>
    <3> DEFINE cs == <<"colon", "space">>
    <3>1. /\ cs \in Lines /\ Len(cs) = 2 /\ cs[1] = "colon" /\ cs[2] = "space"
          /\ \A l, at : Has(l, at, cs) => At(l, at) = "colon" /\ At(l, at + 1) = "space"
      BY <2>1, HasTwo
    <3> HIDE DEF cs
    <3>2. NoControl(cs)
      BY <3>1 DEF NoControl, IsControl
    <3>3. sep = cs
      BY <2>3 DEF cs
    <3> QED BY <3>1, <3>2, <3>3
  <2> QED BY <2>2, <2>3
<1>4. sep \in Lines /\ q \in Lines
  BY <1>2, <1>3
<1> HIDE DEF q
<1>5. qs \in Lines /\ qs # <<>> /\ qs[1] = "quote" /\ NoControl(qs)
  <2>1. qs \in Lines
    BY <1>4, BehindFacts
  <2>2. qs # <<>> /\ qs[1] = q[1]
    BY <1>2, <1>4, BehindWell
  <2>3. NoControl(qs)
    BY <1>2, <1>3, <1>4, BehindWell
  <2> QED BY <1>2, <2>1, <2>2, <2>3
<1> HIDE DEF qs
<1>6. m \in Lines /\ m # <<>> /\ m[1] = "quote" /\ NoControl(m)
  <2>1. m \in Lines
    BY <1>1, <1>5, BehindFacts
  <2>2. m # <<>> /\ m[1] = qs[1]
    BY <1>1, <1>5, BehindWell
  <2>3. NoControl(m)
    BY <1>1, <1>5, BehindWell
  <2> QED BY <1>5, <2>1, <2>2, <2>3
<1>7. Stands("members", m)
  BY <1>6 DEF Stands, Opens, IsSpace
<1>8. ASSUME NEW l \in Lines, NEW at, Has(l, at, m)
      PROVE  Part(l, Read(l), "members", at) = Reads(o, at + Len(m))
  <2> DEFINE f == Read(l)
             c == at + Len(q)
             from == SkipWhitespace(l, at)
             key == f[<<"string", from + 1>>]
             colon == SkipWhitespace(l, key.at)
             value == Value(l, f, colon + 1)
  <2>1. Has(l, at, qs) /\ Has(l, at + Len(qs), s) /\ at + Len(m) = at + Len(qs) + Len(s)
    BY <1>1, <1>5, <1>8, HasBehind
  <2>2. Has(l, at, q) /\ Has(l, c, sep) /\ at + Len(qs) = c + Len(sep)
    BY <1>4, <2>1, HasBehind DEF qs
  <2>3. /\ at \in 1 .. Len(l) /\ At(l, at) = "quote"
        /\ f[<<"string", at + 1>>] = Reads(Text(k), c)
    BY <1>2, <2>2
  <2>4. at \in 1 .. Len(l) + 1
    BY <2>3, LineCharacters
  <2>5. from = at
    BY <2>3, <2>4, SkipNothing DEF IsSpace
  <2>6. key = Reads(Text(k), c)
    BY <2>3, <2>5
  <2>7. key.ok /\ key.at = c /\ key.value.holds = k
    <3> HIDE DEF key
    <3>1. key.ok /\ key.at = c /\ key.value = Text(k)
      BY <2>6, ParseFacts
    <3> QED BY <3>1 DEF Text
  <2> HIDE DEF c, from, key
  <2>8. /\ At(l, c) = "colon"
        /\ Len(sep) = 1 \/ (Len(sep) = 2 /\ At(l, c + 1) = "space")
    BY <1>3, <2>2
  <2>9. c \in 1 .. Len(l) /\ c \in 1 .. Len(l) + 1 /\ c \in Nat
    <3>1. At(l, c) # "end" /\ Len(l) \in Nat
      BY <2>8, LineCharacters
    <3>2. c \in 1 .. Len(l)
      BY <3>1, LineCharacters
    <3> QED BY <3>1, <3>2
  <2>10. colon = c
    <3>1. SkipWhitespace(l, c) = c
      BY <2>8, <2>9, SkipNothing DEF IsSpace
    <3> QED BY <2>7, <3>1
  <2>11. Value(l, f, c + Len(sep)) = Reads(v, at + Len(m))
    BY <2>1, <2>2 DEF Readable, ParseValue
  <2>12. Value(l, f, c + 1) = Value(l, f, c + Len(sep))
    <3>1. CASE Len(sep) = 1
      BY <3>1
    <3>2. CASE Len(sep) = 2 /\ At(l, c + 1) = "space"
      <4>1. c + 1 \in 1 .. Len(l)
        <5>1. At(l, c + 1) # "end"
          BY <3>2
        <5> QED BY <5>1, LineCharacters
      <4>2. Value(l, f, c + 1) = Value(l, f, c + 1 + 1)
        BY <3>2, <4>1, ValueBehindSpace DEF IsSpace
      <4>3. c + 1 + 1 = c + Len(sep)
        BY <2>9, <3>2
      <4> QED BY <4>2, <4>3
    <3> QED BY <2>8, <3>1, <3>2
  <2>13. value = Reads(v, at + Len(m))
    BY <2>10, <2>11, <2>12
  <2>14. At(l, from) = "quote" /\ At(l, colon) = "colon"
    BY <2>3, <2>5, <2>8, <2>10
  <2>15. At(l, from) = "quote" /\ key.ok /\ At(l, colon) = "colon" /\ value.ok =>
            ObjectMember(l, f, at)
              = Reads(Object([x \in {key.value.holds} |-> value.value]), value.at)
    BY MemberCases DEF from, key
  <2> HIDE DEF f, colon, value, m
  <2>16. value.ok /\ value.value = v /\ value.at = at + Len(m)
    BY <2>13, ParseFacts
  <2>17. ObjectMember(l, f, at) = Reads(o, at + Len(m))
    BY <2>7, <2>14, <2>15, <2>16, Zenon DEF o
  <2> QED BY <2>17, Zenon DEF Part, f
<1> QED BY <1>7, <1>8, Zenon DEF IsPart, q, qs, o

\* A list between its brackets.
Opening(rule) == IF rule = "members" THEN "lbrace" ELSE "lbracket"

\* Those brackets around a text.
Enclosed(rule, s) == Behind(Behind(<<Opening(rule)>>, s), <<Closing(rule)>>)

\* The characters of a list between its brackets.
LEMMA EnclosedFacts ==
    ASSUME NEW rule \in Lists, NEW s \in Lines
    PROVE  LET u == Enclosed(rule, s)
           IN  /\ u \in Lines /\ Len(u) = Len(s) + 2 /\ Len(s) \in Nat /\ u # <<>>
               /\ u[1] = Opening(rule) /\ u[Len(s) + 2] = Closing(rule)
               /\ s # <<>> => u[2] = s[1]
               /\ NoControl(s) => NoControl(u)
               /\ \A l \in Lines : \A at : Has(l, at, u) =>
                    /\ at \in 1 .. Len(l) /\ At(l, at) = Opening(rule) /\ Has(l, at + 1, s)
                    /\ at + 1 + Len(s) \in 1 .. Len(l)
                    /\ At(l, at + 1 + Len(s)) = Closing(rule)
                    /\ at + 1 + Len(s) + 1 = at + Len(u)
<1> DEFINE o == <<Opening(rule)>>
           c == <<Closing(rule)>>
           a == Behind(o, s)
           u == Behind(a, c)
<1>1. Opening(rule) \in Characters /\ Closing(rule) \in Characters
  BY CharactersAssumption DEF Marks, Opening, Closing
<1>2. /\ o \in Lines /\ Len(o) = 1 /\ o[1] = Opening(rule)
      /\ \A l, at : Has(l, at, o) => At(l, at) = Opening(rule) /\ at \in 1 .. Len(l)
  BY <1>1, HasOne
<1>3. /\ c \in Lines /\ Len(c) = 1 /\ c[1] = Closing(rule)
      /\ \A l, at : Has(l, at, c) => At(l, at) = Closing(rule) /\ at \in 1 .. Len(l)
  BY <1>1, HasOne
<1>4. NoControl(o) /\ NoControl(c)
  BY <1>2, <1>3 DEF NoControl, IsControl, Opening, Closing
<1>5. o \in Lines /\ c \in Lines /\ o # <<>>
  BY <1>2, <1>3
<1> HIDE DEF o, c
<1>6. /\ a \in Lines /\ Len(a) = Len(o) + Len(s) /\ Len(s) \in Nat
      /\ (\A i \in 1 .. Len(o) : a[i] = o[i]) /\ (\A i \in 1 .. Len(s) : a[Len(o) + i] = s[i])
      /\ a # <<>> /\ (NoControl(s) => NoControl(a))
  BY <1>4, <1>5, BehindFacts, BehindWell
<1>7. a \in Lines /\ a # <<>>
  BY <1>6
<1> HIDE DEF a
<1>8. /\ u \in Lines /\ Len(u) = Len(a) + Len(c)
      /\ (\A i \in 1 .. Len(a) : u[i] = a[i]) /\ (\A i \in 1 .. Len(c) : u[Len(a) + i] = c[i])
      /\ u # <<>> /\ (NoControl(a) => NoControl(u))
  BY <1>4, <1>5, <1>7, BehindFacts, BehindWell
<1>9. Len(o) = 1 /\ o[1] = Opening(rule) /\ Len(c) = 1 /\ c[1] = Closing(rule)
  BY <1>2, <1>3
<1> HIDE DEF u
<1>10. /\ Len(u) = Len(s) + 2 /\ u[1] = Opening(rule) /\ u[Len(s) + 2] = Closing(rule)
  <2>1. Len(a) = 1 + Len(s) /\ Len(u) = Len(s) + 2 /\ Len(a) + 1 = Len(s) + 2
        /\ 1 \in 1 .. Len(a) /\ 1 \in 1 .. Len(o) /\ 1 \in 1 .. Len(c)
    BY <1>6, <1>8, <1>9
  <2>2. u[1] = a[1] /\ a[1] = o[1]
    BY <1>6, <1>8, <2>1
  <2>3. u[Len(a) + 1] = c[1]
    BY <1>8, <2>1
  <2> QED BY <1>9, <2>1, <2>2, <2>3
<1>11. ASSUME s # <<>> PROVE u[2] = s[1]
  <2>1. Len(s) # 0
    BY <1>11, EmptySeq DEF Lines
  <2>2. 2 \in 1 .. Len(a) /\ 1 \in 1 .. Len(s) /\ Len(o) + 1 = 2
    BY <1>6, <1>9, <2>1
  <2>3. u[2] = a[2] /\ a[Len(o) + 1] = s[1]
    BY <1>6, <1>8, <2>2
  <2> QED BY <2>2, <2>3
<1>12. ASSUME NEW l \in Lines, NEW at, Has(l, at, u)
       PROVE  /\ at \in 1 .. Len(l) /\ At(l, at) = Opening(rule) /\ Has(l, at + 1, s)
              /\ at + 1 + Len(s) \in 1 .. Len(l)
              /\ At(l, at + 1 + Len(s)) = Closing(rule)
              /\ at + 1 + Len(s) + 1 = at + Len(u)
  <2>1. Has(l, at, a) /\ Has(l, at + Len(a), c)
    BY <1>5, <1>7, <1>12, HasBehind DEF u
  <2>2. Has(l, at, o) /\ Has(l, at + Len(o), s)
    BY <1>5, <2>1, HasBehind DEF a
  <2>3. at \in 1 .. Len(l) /\ At(l, at) = Opening(rule) /\ Len(l) \in Nat
    BY <1>2, <2>2, LineCharacters
  <2>4. at + Len(a) = at + 1 + Len(s) /\ at + 1 + Len(s) + 1 = at + Len(u)
    BY <1>6, <1>9, <1>10, <2>3
  <2>5. At(l, at + Len(a)) = Closing(rule) /\ at + Len(a) \in 1 .. Len(l)
    BY <1>3, <2>1
  <2> QED BY <1>9, <2>2, <2>3, <2>4, <2>5
<1> QED BY <1>6, <1>8, <1>10, <1>11, <1>12, Zenon DEF Enclosed, u, a, o, c

\* A list of parts, and one of none, are read as what they are.
LEMMA ListIsReadable ==
    ASSUME NEW rule \in Lists, NEW S, NEW s, NEW v, AreParts(rule, S, s, v)
    PROVE  Readable(Enclosed(rule, s), v)
<1> DEFINE u == Enclosed(rule, s)
<1>1. s \in Lines /\ s # <<>> /\ Opens(s[1]) /\ NoControl(s)
  BY DEF AreParts, Stands
<1>2. /\ u \in Lines /\ u # <<>> /\ u[1] = Opening(rule) /\ NoControl(u)
      /\ \A l \in Lines : \A at : Has(l, at, u) =>
           /\ at \in 1 .. Len(l) /\ At(l, at) = Opening(rule) /\ Has(l, at + 1, s)
           /\ At(l, at + 1 + Len(s)) = Closing(rule)
           /\ at + 1 + Len(s) + 1 = at + Len(u)
  BY <1>1, EnclosedFacts
<1> HIDE DEF u
<1>3. Opens(u[1])
  BY <1>2 DEF Opens, IsSpace, Opening
<1>4. ASSUME NEW l \in Lines, NEW at, Has(l, at, u)
      PROVE  ParseValue(l, at) = Reads(v, at + Len(u))
  <2> DEFINE k == at + 1
             f == Read(l)
  <2>1. /\ at \in 1 .. Len(l) /\ At(l, at) = Opening(rule) /\ Has(l, k, s)
        /\ At(l, k + Len(s)) = Closing(rule) /\ k + Len(s) + 1 = at + Len(u)
    BY <1>2, <1>4
  <2>2. at \in 1 .. Len(l) + 1 /\ k \in 1 .. Len(l) /\ k \in 1 .. Len(l) + 1
    <3>1. k \in 1 .. Len(l) /\ Len(l) \in Nat
      BY <1>1, <2>1, HasStart, LineCharacters
    <3> QED BY <2>1, <3>1
  <2>3. At(l, k) = s[1]
    BY <1>1, <2>1, HasStart
  <2> HIDE DEF k
  <2>4. f[<<rule, k>>] = Reads(v, at + Len(u))
    <3>1. Closes(l, k, rule, s, v)
      BY DEF AreParts
    <3> QED BY <2>1, <3>1 DEF Closes
  <2>5. SkipWhitespace(l, k) = k
    BY <1>1, <2>2, <2>3, SkipNothing DEF Opens
  <2>6. At(l, k) # Closing(rule)
    BY <1>1, <2>3 DEF Opens, Closing
  <2>7. OpenList(l, f, rule, k) = f[<<rule, k>>]
    BY <2>5, <2>6, Zenon DEF OpenList
  <2>8. Value(l, f, at) = OpenList(l, f, rule, k)
    BY <2>1, <2>2, ValueHere DEF IsSpace, Opening, Lists, k
  <2> QED BY <2>4, <2>7, <2>8, Zenon DEF ParseValue, f
<1> QED BY <1>2, <1>3, <1>4, Zenon DEF Readable, u

\* A list with nothing in it is read as that.
LEMMA NoPartsAreReadable ==
    ASSUME NEW rule \in Lists
    PROVE  Readable(Enclosed(rule, <<>>), NoParts(rule))
<1> DEFINE s == <<>>
           u == Enclosed(rule, s)
<1>1. s \in Lines /\ Len(s) = 0 /\ NoControl(s)
  <2>1. s \in Lines /\ Len(s) = 0
    BY EmptySeq DEF Lines
  <2> QED BY <2>1 DEF NoControl
<1> HIDE DEF s
<1>2. /\ u \in Lines /\ u # <<>> /\ u[1] = Opening(rule) /\ NoControl(u)
      /\ \A l \in Lines : \A at : Has(l, at, u) =>
           /\ at \in 1 .. Len(l) /\ At(l, at) = Opening(rule)
           /\ at + 1 + Len(s) \in 1 .. Len(l)
           /\ At(l, at + 1 + Len(s)) = Closing(rule)
           /\ at + 1 + Len(s) + 1 = at + Len(u)
  BY <1>1, EnclosedFacts
<1> HIDE DEF u
<1>3. Opens(u[1])
  BY <1>2 DEF Opens, IsSpace, Opening
<1>4. ASSUME NEW l \in Lines, NEW at, Has(l, at, u)
      PROVE  ParseValue(l, at) = Reads(NoParts(rule), at + Len(u))
  <2> DEFINE k == at + 1
             f == Read(l)
  <2>1. /\ at \in 1 .. Len(l) /\ At(l, at) = Opening(rule) /\ k \in 1 .. Len(l)
        /\ At(l, k) = Closing(rule) /\ k + 1 = at + Len(u)
    <3>1. /\ at \in 1 .. Len(l) /\ At(l, at) = Opening(rule)
          /\ k + Len(s) \in 1 .. Len(l)
          /\ At(l, k + Len(s)) = Closing(rule) /\ k + Len(s) + 1 = at + Len(u)
      BY <1>2, <1>4
    <3>2. k + Len(s) = k
      BY <1>1, <3>1
    <3> QED BY <3>1, <3>2
  <2>2. at \in 1 .. Len(l) + 1 /\ k \in 1 .. Len(l) + 1
    BY <2>1, LineCharacters
  <2> HIDE DEF k
  <2>3. SkipWhitespace(l, k) = k
    BY <2>1, <2>2, SkipNothing DEF IsSpace, Closing
  <2>4. OpenList(l, f, rule, k) = Reads(NoParts(rule), k + 1)
    BY <2>1, <2>3, Zenon DEF OpenList
  <2>5. Value(l, f, at) = OpenList(l, f, rule, k)
    BY <2>1, <2>2, ValueHere DEF IsSpace, Opening, Lists, k
  <2> QED BY <2>1, <2>4, <2>5, Zenon DEF ParseValue, f
<1> QED BY <1>2, <1>3, <1>4, Zenon DEF Readable, u, s

-----------------------------------------------------------------------------
(* What the script writes. *)

\* A finite set as a sequence has all of it.
LEMMA SetToSeqCovers ==
    ASSUME NEW S, IsFiniteSet(S)
    PROVE  /\ SetToSeq(S) \in Seq(S)
           /\ \A x \in S : \E k \in 1 .. Len(SetToSeq(S)) : SetToSeq(S)[k] = x
<1> DEFINE s == SetToSeq(S)
           n == Cardinality(S)
<1>1. n \in Nat /\ ExistsBijection(1 .. n, S)
  BY FS_CardinalityType
<1>2. s \in [1 .. n -> S] /\ IsInjective(s)
  <2>1. PICK f : f \in Bijection(1 .. n, S)
    BY <1>1 DEF ExistsBijection
  <2>2. f \in [1 .. n -> S] /\ IsInjective(f)
    BY <2>1 DEF Bijection, Injection
  <2> QED BY <2>2, Zenon DEF SetToSeq
<1> HIDE DEF s
<1>3. s \in Seq(S) /\ Len(s) = n
  BY <1>1, <1>2
<1>4. \A x \in S : \E k \in 1 .. n : s[k] = x
  <2>1. Cardinality(1 .. n) = n /\ IsFiniteSet(1 .. n)
    BY <1>1, FS_Interval
  <2>2. s \in Injection(1 .. n, S)
    BY <1>2 DEF Injection
  <2>3. s \in Surjection(1 .. n, S)
    BY <2>1, <2>2, FS_Injection, Zenon
  <2> QED BY <2>3 DEF Surjection
<1> QED BY <1>3, <1>4 DEF s

\* An array whose elements are read as they are.
LEMMA ArrayIsReadable ==
    ASSUME NEW S, NEW vs \in Seq(S), NEW ps,
           ps = [k \in 1 .. Len(vs) |-> ps[k]],
           \A k \in 1 .. Len(vs) : Readable(ps[k], vs[k])
    PROVE  Readable(Enclosed("elements", Joined(ps)), Array(vs))
<1> DEFINE n == Len(vs)
           one == [k \in 1 .. n |-> Array(<<vs[k]>>)]
           all == [k \in 1 .. n |-> Array(SubSeq(vs, 1, k))]
<1>1. n \in Nat /\ \A k \in 1 .. n : vs[k] \in S /\ ps[k] \in Lines
  BY LenProperties, ElementOfSeq DEF Readable
<1>2. ps \in Seq(Lines) /\ Len(ps) = n
  <2>1. ps \in [1 .. n -> Lines]
    BY <1>1
  <2> QED BY <1>1, <2>1
<1>3. CASE n = 0
  <2>1. ps = <<>> /\ vs = <<>>
    BY <1>2, <1>3, EmptySeq
  <2>2. Joined(<<>>) = <<>>
    <3>1. Joins!Fold(0, <<>>) = <<>>
      BY Joins!FoldEmpty
    <3> QED BY <3>1, JoinedIsFold, Zenon
  <2>3. Readable(Enclosed("elements", <<>>), NoParts("elements"))
    BY NoPartsAreReadable DEF Lists
  <2>4. NoParts("elements") = Array(<<>>)
    BY DEF NoParts
  <2> QED BY <2>1, <2>2, <2>3, <2>4, Zenon
<1>4. CASE n # 0
  <2>1. ASSUME NEW k \in 1 .. n
        PROVE  /\ IsPart("elements", ps[k], one[k]) /\ OfList("elements", S, one[k])
               /\ SubSeq(vs, 1, k) \in Seq(S)
    <3>1. one[k] = Array(<<vs[k]>>) /\ <<vs[k]>> \in Seq(S)
      BY <1>1
    <3>2. IsPart("elements", ps[k], Array(<<vs[k]>>))
      BY ElementIsPart
    <3>3. Array(<<vs[k]>>).holds = <<vs[k]>>
      BY DEF Array
    <3>4. OfList("elements", S, Array(<<vs[k]>>))
      BY <3>1, <3>3, Zenon DEF OfList
    <3>5. SubSeq(vs, 1, k) \in Seq(S)
      <4>1. \A i \in 1 .. k : vs[i] \in S
        BY <1>1
      <4> QED BY <4>1, SubSeqProperties
    <3> QED BY <3>1, <3>2, <3>4, <3>5
  <2>2. all[1] = one[1]
    <3>1. 1 \in 1 .. n
      BY <1>1, <1>4
    <3>2. SubSeq(vs, 1, 1) = <<vs[1]>>
      <4>1. SubSeq(vs, 1, 1) = SubSeq(vs, 1, 0) \o <<vs[1]>>
        BY <3>1, SubSeqRecursiveSecond
      <4>2. SubSeq(vs, 1, 0) = <<>>
        BY SubSeqEmpty
      <4>3. <<vs[1]>> \in Seq(S)
        BY <1>1, <3>1
      <4>4. <<>> \o <<vs[1]>> = <<vs[1]>>
        BY <4>3, ConcatEmptySeq
      <4> QED BY <4>1, <4>2, <4>4
    <3> QED BY <3>1, <3>2
  <2>3. ASSUME NEW k \in 1 .. n - 1 PROVE all[k + 1] = Together(all[k], one[k + 1])
    <3>1. k + 1 \in 1 .. n /\ k \in 1 .. n /\ (k + 1) - 1 = k
      BY <1>1
    <3>2. SubSeq(vs, 1, k + 1) = SubSeq(vs, 1, k) \o <<vs[k + 1]>>
      <4>1. SubSeq(vs, 1, k + 1) = SubSeq(vs, 1, (k + 1) - 1) \o <<vs[k + 1]>>
        <5> DEFINE m == k + 1
        <5>1. 1 \in 1 .. Len(vs) /\ m \in 1 .. Len(vs)
          BY <1>1, <1>4, <3>1
        <5> HIDE DEF m, n
        <5>2. SubSeq(vs, 1, m) = SubSeq(vs, 1, m - 1) \o <<vs[m]>>
          BY <5>1, SubSeqRecursiveSecond
        <5> QED BY <5>2 DEF m
      <4> QED BY <3>1, <4>1
    <3>3. all[k + 1] = Array(SubSeq(vs, 1, k + 1)) /\ all[k] = Array(SubSeq(vs, 1, k))
          /\ one[k + 1] = Array(<<vs[k + 1]>>)
      BY <3>1
    <3>4. ASSUME NEW f, NEW g PROVE Together(Array(f), Array(g)) = Array(f \o g)
      <4>1. Array(f).type # "object" /\ Array(f).holds = f /\ Array(g).holds = g
        BY DEF Array
      <4> QED BY <4>1, Zenon DEF Together
    <3>5. Together(Array(SubSeq(vs, 1, k)), Array(<<vs[k + 1]>>))
            = Array(SubSeq(vs, 1, k) \o <<vs[k + 1]>>)
      BY <3>4
    <3> QED BY <3>2, <3>3, <3>5
  <2>4. all[n] = Array(vs)
    <3>1. SubSeq(vs, 1, n) = vs
      BY SubSeqFull
    <3>2. n \in 1 .. n
      BY <1>1, <1>4
    <3> QED BY <3>1, <3>2
  <2>5. ps # <<>>
    BY <1>2, <1>4, EmptySeq
  <2> HIDE DEF one, all
  <2>6. AreParts("elements", S, Joined(ps), all[Len(ps)])
    BY <1>2, <2>1, <2>2, <2>3, <2>5, JoinedAreParts DEF Lists
  <2>7. AreParts("elements", S, Joined(ps), Array(vs))
    BY <1>2, <2>4, <2>6
  <2> QED BY <2>7, ListIsReadable DEF Lists
<1> QED BY <1>3, <1>4

\* ps are the members of h, one for each of the keys.
Members(keys, h, ps) ==
    /\ keys \in Seq(Lines) /\ h = [x \in DOMAIN h |-> h[x]]
    /\ \A k \in 1 .. Len(keys) : keys[k] \in DOMAIN h
    /\ \A x \in DOMAIN h : \E k \in 1 .. Len(keys) : keys[k] = x
    /\ ps = [k \in 1 .. Len(keys) |-> ps[k]]
    /\ \A k \in 1 .. Len(keys) :
         /\ ps[k] \in Lines
         /\ IsPart("members", ps[k], Object([x \in {keys[k]} |-> h[keys[k]]]))

\* An object whose members, one for each of the keys, are read as they are.
LEMMA ObjectIsReadable ==
    ASSUME NEW keys, NEW h, NEW ps, Members(keys, h, ps)
    PROVE  /\ Readable(Enclosed("members", Joined(ps)), Object(h))
           /\ Joined(ps) \in Lines /\ (Joined(ps) # <<>> => Joined(ps)[1] = "quote")
<1> SUFFICES ASSUME keys \in Seq(Lines), h = [x \in DOMAIN h |-> h[x]],
                    \A k \in 1 .. Len(keys) : keys[k] \in DOMAIN h,
                    \A x \in DOMAIN h : \E k \in 1 .. Len(keys) : keys[k] = x,
                    ps = [k \in 1 .. Len(keys) |-> ps[k]],
                    \A k \in 1 .. Len(keys) :
                      /\ ps[k] \in Lines
                      /\ IsPart("members", ps[k], Object([x \in {keys[k]} |-> h[keys[k]]]))
             PROVE  /\ Readable(Enclosed("members", Joined(ps)), Object(h))
                    /\ Joined(ps) \in Lines /\ (Joined(ps) # <<>> => Joined(ps)[1] = "quote")
  BY Zenon DEF Members
<1> DEFINE n == Len(keys)
           one == [k \in 1 .. n |-> Object([x \in {keys[k]} |-> h[keys[k]]])]
           first(k) == {keys[j] : j \in 1 .. k}
           all == [k \in 1 .. n |-> Object([x \in first(k) |-> h[x]])]
<1>1. n \in Nat
  BY LenProperties
<1>2. ps \in Seq(Lines) /\ Len(ps) = n
  <2>1. ps \in [1 .. n -> Lines]
    OBVIOUS
  <2> QED BY <1>1, <2>1
<1>3. CASE n = 0
  <2>1. ps = <<>>
    BY <1>2, <1>3, EmptySeq
  <2>2. Joined(<<>>) = <<>>
    <3>1. Joins!Fold(0, <<>>) = <<>>
      BY Joins!FoldEmpty
    <3> QED BY <3>1, JoinedIsFold, Zenon
  <2>3. Readable(Enclosed("members", <<>>), NoParts("members"))
    BY NoPartsAreReadable DEF Lists
  <2>4. h = <<>>
    <3>1. DOMAIN h = {}
      <4>1. \A k : k \notin 1 .. Len(keys)
        <5> HIDE DEF one, all
        <5> QED BY <1>3
      <4> QED BY <4>1, Zenon
    <3> QED BY <3>1
  <2>5. NoParts("members") = Object(h)
    BY <2>4 DEF NoParts
  <2>6. <<>> \in Lines
    BY EmptySeq DEF Lines
  <2> QED BY <2>1, <2>2, <2>3, <2>5, <2>6, Zenon
<1>4. CASE n # 0
  <2>1. ASSUME NEW k \in 1 .. n
        PROVE  IsPart("members", ps[k], one[k]) /\ OfList("members", {}, one[k])
    <3>1. one[k] = Object([x \in {keys[k]} |-> h[keys[k]]])
      OBVIOUS
    <3>2. one[k] = Object(one[k].holds)
      BY <3>1 DEF Object
    <3> QED BY <3>1, <3>2 DEF OfList
  <2>2. all[1] = one[1]
    <3>1. 1 \in 1 .. n /\ first(1) = {keys[1]}
      BY <1>1, <1>4
    <3> QED BY <3>1
  <2>3. ASSUME NEW k \in 1 .. n - 1 PROVE all[k + 1] = Together(all[k], one[k + 1])
    <3>1. k + 1 \in 1 .. n /\ k \in 1 .. n
      BY <1>1
    <3>2. first(k + 1) = first(k) \cup {keys[k + 1]}
      <4>1. 1 .. k + 1 = (1 .. k) \cup {k + 1}
        BY <3>1
      <4> QED BY <4>1
    <3> DEFINE f == [x \in first(k) |-> h[x]]
               g == [x \in {keys[k + 1]} |-> h[keys[k + 1]]]
    <3>3. Over(f, g) = [x \in first(k + 1) |-> h[x]]
      <4> DEFINE F == first(k)
                 q == keys[k + 1]
      <4> HIDE DEF F, q
      <4>1. Over([x \in F |-> h[x]], [x \in {q} |-> h[q]]) = [x \in F \cup {q} |-> h[x]]
        BY DEF Over
      <4> QED BY <3>2, <4>1 DEF F, q
    <3>4. Together(Object(f), Object(g)) = Object(Over(f, g))
      <4> HIDE DEF f, g
      <4>1. Object(f).type = "object" /\ Object(f).holds = f /\ Object(g).holds = g
        BY DEF Object
      <4> QED BY <4>1, Zenon DEF Together, Over
    <3>5. all[k] = Object(f) /\ one[k + 1] = Object(g)
          /\ all[k + 1] = Object([x \in first(k + 1) |-> h[x]])
      BY <3>1
    <3> QED BY <3>3, <3>4, <3>5, Zenon
  <2>4. all[n] = Object(h)
    <3>1. n \in 1 .. n
      BY <1>1, <1>4
    <3>2. first(n) = DOMAIN h
      <4>1. \A x \in first(n) : x \in DOMAIN h
        BY Zenon
      <4>2. \A x \in DOMAIN h : x \in first(n)
        BY Zenon
      <4> QED BY <4>1, <4>2, Zenon
    <3>3. all[n] = Object([x \in first(n) |-> h[x]])
      BY <3>1
    <3> QED BY <3>2, <3>3
  <2>5. ps # <<>>
    BY <1>2, <1>4, EmptySeq
  <2> HIDE DEF one, all
  <2>6. AreParts("members", {}, Joined(ps), all[Len(ps)])
    BY <1>2, <2>1, <2>2, <2>3, <2>5, JoinedAreParts DEF Lists
  <2>7. AreParts("members", {}, Joined(ps), Object(h))
    BY <1>2, <2>4, <2>6
  <2>8. Joined(ps) \in Lines /\ Joined(ps)[1] = "quote"
    BY <2>7 DEF AreParts, Stands
  <2>9. Readable(Enclosed("members", Joined(ps)), Object(h))
    BY <2>7, ListIsReadable DEF Lists
  <2> QED BY <2>8, <2>9
<1> QED BY <1>3, <1>4

\* What is written for an object begins with a key, or is empty between its braces.
Braced(s) == \E t \in Lines : s = Enclosed("members", t) /\ (t # <<>> => t[1] = "quote")

\* A value is written so that it is read, if its parts are.
LEMMA WrittenIsReadable ==
    ASSUME NEW v, IsValue(v), NEW inner, inner = [k \in Parts(v) |-> inner[k]],
           \A k \in Parts(v) : Readable(inner[k], v.holds[k])
    PROVE  /\ Readable(Written(v, inner), v)
           /\ v.type = "object" => Braced(Written(v, inner))
<1>1. CASE v.type = "string"
  <2>1. v = Text(v.holds) /\ v.holds \in Lines
    BY <1>1 DEF IsValue, IsScalar, IsList, Lines
  <2>2. Written(v, inner) = Quoted(Spelled(Spelling, v.holds))
    BY <1>1, Zenon DEF Written
  <2> QED BY <1>1, <2>1, <2>2, TextIsReadable
<1>2. CASE v.type = "number"
  <2>1. v = Number(v.holds) /\ v.holds \in DOMAIN Numbers
    BY <1>2 DEF IsValue, IsScalar, IsList
  <2>2. Written(v, inner) = <<v.holds>>
    BY <1>2 DEF Written
  <2> QED BY <1>2, <2>1, <2>2, OneIsReadable
<1>3. CASE v.type = "null"
  <2>1. v = Null
    BY <1>3 DEF IsValue, IsScalar, IsList
  <2>2. Written(v, inner) = <<"null">>
    BY <1>3 DEF Written
  <2> QED BY <1>3, <2>1, <2>2, OneIsReadable
<1>4. CASE v.type = "array"
  <2> DEFINE h == v.holds
             S == Range(h)
  <2>1. v = Array(h) /\ h \in Seq(S)
    BY <1>4 DEF IsValue, IsScalar, IsList
  <2>2. Parts(v) = 1 .. Len(h)
    BY <1>4, <2>1, LenProperties DEF Parts
  <2>3. Written(v, inner) = Enclosed("elements", Joined(inner))
    <3>1. Written(v, inner) = <<"lbracket">> \o Joined(inner) \o <<"rbracket">>
      BY <1>4, Zenon DEF Written
    <3>2. Opening("elements") = "lbracket" /\ Closing("elements") = "rbracket"
      BY DEF Opening, Closing
    <3> QED BY <3>1, <3>2, Zenon DEF Enclosed, Behind
  <2> HIDE DEF h, S
  <2>4. /\ inner = [k \in 1 .. Len(h) |-> inner[k]]
        /\ \A k \in 1 .. Len(h) : Readable(inner[k], h[k])
    BY <2>2 DEF h
  <2>5. Readable(Enclosed("elements", Joined(inner)), Array(h))
    BY <2>1, <2>4, ArrayIsReadable
  <2> QED BY <1>4, <2>1, <2>3, <2>5
<1>5. CASE v.type = "object"
  <2> DEFINE h == v.holds
             D == DOMAIN h
             keys == SetToSeq(D)
             n == Len(keys)
             ps == [i \in DOMAIN keys |->
                      Behind(Behind(Quoted(Spelled(Spelling, keys[i])), <<"colon", "space">>),
                             inner[keys[i]])]
  <2>1. v = Object(h) /\ h \in [D -> Range(h)] /\ IsFiniteSet(D) /\ D \subseteq Lines
    BY <1>5 DEF IsValue, IsScalar, IsList, Lines
  <2>2. h = [x \in D |-> h[x]]
    BY <2>1
  <2>3. Parts(v) = D
    BY <1>5 DEF Parts
  <2>4. \A x \in D : Readable(inner[x], h[x])
    BY <2>3
  <2>5. Written(v, inner) = Enclosed("members", Joined(ps))
    <3>1. Written(v, inner) = <<"lbrace">> \o Joined(ps) \o <<"rbrace">>
      BY <1>5, Zenon DEF Written, Behind
    <3>2. Opening("members") = "lbrace" /\ Closing("members") = "rbrace"
      BY DEF Opening, Closing
    <3> HIDE DEF ps
    <3> QED BY <3>1, <3>2, Zenon DEF Enclosed, Behind
  <2> HIDE DEF h, D
  <2>6. /\ keys \in Seq(D) /\ \A x \in D : \E k \in 1 .. n : keys[k] = x
    <3>1. IsFiniteSet(D)
      BY <2>1
    <3> QED BY <3>1, SetToSeqCovers, Zenon
  <2> HIDE DEF keys
  <2>7. keys \in Seq(Lines) /\ DOMAIN keys = 1 .. n /\ \A k \in 1 .. n : keys[k] \in D
    <3>1. DOMAIN keys = 1 .. n /\ \A k \in 1 .. n : keys[k] \in D
      BY <2>6, LenProperties, ElementOfSeq
    <3>2. keys \in Seq(Lines)
      BY <2>1, <2>6
    <3> QED BY <3>1, <3>2
  <2>8. ps = [k \in 1 .. n |-> ps[k]]
    BY <2>7
  <2>9. ASSUME NEW k \in 1 .. n
        PROVE  /\ ps[k] \in Lines
               /\ IsPart("members", ps[k], Object([x \in {keys[k]} |-> h[keys[k]]]))
    <3> DEFINE x == keys[k]
               sep == <<"colon", "space">>
               m == Behind(Behind(Quoted(Spelled(Spelling, x)), sep), inner[x])
    <3>1. x \in Lines /\ Readable(inner[x], h[x]) /\ ps[k] = m
      BY <2>1, <2>4, <2>7
    <3> HIDE DEF x, ps
    <3>2. IsPart("members", m, Object([y \in {x} |-> h[x]]))
      BY <3>1, MemberIsPart
    <3>3. m \in Lines
      BY <3>2 DEF IsPart, Stands
    <3> QED BY <3>1, <3>2, <3>3 DEF x
  <2> HIDE DEF ps
  <2>10. D = DOMAIN h
    BY DEF D
  <2>11. /\ Readable(Enclosed("members", Joined(ps)), Object(h))
         /\ Joined(ps) \in Lines /\ (Joined(ps) # <<>> => Joined(ps)[1] = "quote")
    <3>1. /\ \A k \in 1 .. Len(keys) : keys[k] \in DOMAIN h
          /\ \A x \in DOMAIN h : \E k \in 1 .. Len(keys) : keys[k] = x
          /\ h = [x \in DOMAIN h |-> h[x]]
      BY <2>2, <2>6, <2>7, <2>10
    <3>2. Members(keys, h, ps)
      BY <2>7, <2>8, <2>9, <3>1, Zenon DEF Members
    <3> QED BY <3>2, ObjectIsReadable, Zenon
  <2> QED BY <2>1, <2>5, <2>11, Zenon DEF Braced
<1>6. v.type \in {"string", "number", "null", "array", "object"}
  BY DEF IsValue, IsScalar, IsList
<1> QED BY <1>1, <1>2, <1>3, <1>4, <1>5, <1>6

\* An answer of the script, whatever its texts and however long its lists, is read back as
\* that answer wherever it stands in a line, and its line stays one (json.dumps).
THEOREM DumpsIsReadable ==
    ASSUME NEW v, IsAnswer(v)
    PROVE  Readable(Dumps(v), v) /\ Braced(Dumps(v))
<1>1. ASSUME NEW c, IsCell(c) PROVE Readable(DumpsCell(c), c)
  <2>1. IsValue(c) /\ Parts(c) = {}
    BY <1>1 DEF IsCell
  <2>2. <<>> = [k \in Parts(c) |-> <<>>[k]]
    BY <2>1
  <2> DEFINE inner == <<>>
  <2>3. inner = [k \in Parts(c) |-> inner[k]]
    BY <2>2
  <2> HIDE DEF inner
  <2>4. Readable(Written(c, inner), c)
    BY <2>1, <2>3, WrittenIsReadable
  <2> QED BY <2>4, Zenon DEF DumpsCell, inner
<1>2. ASSUME NEW c, IsSegment(c) PROVE Readable(DumpsSegment(c), c)
  <2> DEFINE inner == [k \in Parts(c) |-> DumpsCell(c.holds[k])]
  <2>1. IsValue(c) /\ \A k \in Parts(c) : IsCell(c.holds[k])
    BY <1>2 DEF IsSegment
  <2>2. \A k \in Parts(c) : Readable(inner[k], c.holds[k])
    BY <1>1, <2>1
  <2>3. inner = [k \in Parts(c) |-> inner[k]]
    OBVIOUS
  <2> HIDE DEF inner
  <2>4. Readable(Written(c, inner), c)
    BY <2>1, <2>2, <2>3, WrittenIsReadable
  <2> QED BY <2>4, Zenon DEF DumpsSegment, inner
<1>3. ASSUME NEW c, IsSegments(c) PROVE Readable(DumpsList(c), c)
  <2> DEFINE inner == [k \in Parts(c) |-> DumpsSegment(c.holds[k])]
  <2>1. IsValue(c) /\ \A k \in Parts(c) : IsSegment(c.holds[k])
    BY <1>3 DEF IsSegments
  <2>2. \A k \in Parts(c) : Readable(inner[k], c.holds[k])
    BY <1>2, <2>1
  <2>3. inner = [k \in Parts(c) |-> inner[k]]
    OBVIOUS
  <2> HIDE DEF inner
  <2>4. Readable(Written(c, inner), c)
    BY <2>1, <2>2, <2>3, WrittenIsReadable
  <2> QED BY <2>4, Zenon DEF DumpsList, inner
<1> DEFINE inner == [k \in Parts(v) |-> DumpsList(v.holds[k])]
<1>4. IsValue(v) /\ v.type = "object" /\ \A k \in Parts(v) : IsSegments(v.holds[k])
  BY DEF IsAnswer
<1>5. \A k \in Parts(v) : Readable(inner[k], v.holds[k])
  BY <1>3, <1>4
<1>6. inner = [k \in Parts(v) |-> inner[k]]
  OBVIOUS
<1> HIDE DEF inner
<1>7. Readable(Written(v, inner), v) /\ Braced(Written(v, inner))
  BY <1>4, <1>5, <1>6, WrittenIsReadable
<1> QED BY <1>7, Zenon DEF Dumps, inner

-----------------------------------------------------------------------------
(* What is heard of a line. *)

\* Two texts, one behind the other, stand in a line of both.
LEMMA HadInside ==
    ASSUME NEW s \in Lines, NEW t \in Lines
    PROVE  Has(Behind(s, t), 1, s) /\ Has(Behind(s, t), 1 + Len(s), t)
<1> DEFINE l == Behind(s, t)
<1>1. /\ l \in Lines /\ Len(l) = Len(s) + Len(t) /\ Len(s) \in Nat /\ Len(t) \in Nat
      /\ (\A i \in 1 .. Len(s) : l[i] = s[i]) /\ (\A i \in 1 .. Len(t) : l[Len(s) + i] = t[i])
  BY BehindFacts
<1> HIDE DEF l
<1>2. \A i \in 1 .. Len(l) : At(l, i) = l[i]
  BY <1>1, LineCharacters
<1>3. \A i \in 1 .. Len(s) : At(l, 1 + i - 1) = s[i]
  <2>1. \A i \in 1 .. Len(s) : 1 + i - 1 = i /\ i \in 1 .. Len(l)
    BY <1>1
  <2> QED BY <1>1, <1>2, <2>1
<1>4. \A i \in 1 .. Len(t) : At(l, 1 + Len(s) + i - 1) = t[i]
  <2>1. \A i \in 1 .. Len(t) : 1 + Len(s) + i - 1 = Len(s) + i /\ Len(s) + i \in 1 .. Len(l)
    BY <1>1
  <2> QED BY <1>1, <1>2, <2>1
<1>5. 1 + Len(s) <= Len(l) + 1 /\ 1 + Len(s) \in Nat /\ 1 + Len(s) + Len(t) <= Len(l) + 1
      /\ 1 <= 1 + Len(s)
  BY <1>1
<1> QED BY <1>3, <1>4, <1>5 DEF Has, l

\* A value, and nothing but white space behind it.
LEMMA ParseWhole ==
    ASSUME NEW l \in Lines, NEW v, NEW e \in 1 .. Len(l) + 1, ParseValue(l, 1) = Reads(v, e),
           SkipWhitespace(l, e) = Len(l) + 1
    PROVE  Parse(l) = Reads(v, e) /\ Heard(l) = Transcribed(v)
<1> DEFINE p == ParseValue(l, 1)
<1>1. p.ok /\ p.value = v /\ p.at = e /\ p = Reads(v, e)
  BY ParseFacts
<1> HIDE DEF p
<1>2. Parse(l) = p
  BY <1>1, Zenon DEF Parse, ToTheEnd, p
<1> QED BY <1>1, <1>2, Zenon DEF Heard

\* A value that is alone in its line.
LEMMA AloneIsRead ==
    ASSUME NEW s, NEW v, Readable(s, v)
    PROVE  Parse(s) = Reads(v, 1 + Len(s)) /\ Heard(s) = Transcribed(v)
<1> DEFINE e == 1 + Len(s)
<1>1. s \in Lines /\ Len(s) \in Nat
      /\ \A l \in Lines : \A at : Has(l, at, s) => ParseValue(l, at) = Reads(v, at + Len(s))
  BY LineCharacters DEF Readable
<1>2. s \in Lines /\ Len(s) + 1 = e /\ e \in 1 .. Len(s) + 1 /\ e \notin 1 .. Len(s)
  BY <1>1
<1>3. Has(s, 1, s)
  <2>1. <<>> \in Lines
    BY EmptySeq DEF Lines
  <2>2. Behind(s, <<>>) = s
    BY <1>2, ConcatEmptySeq DEF Behind, Lines
  <2>3. Has(Behind(s, <<>>), 1, s)
    BY <1>2, <2>1, HadInside
  <2> QED BY <2>2, <2>3
<1>4. ParseValue(s, 1) = Reads(v, e)
  BY <1>1, <1>3
<1> HIDE DEF e
<1>5. SkipWhitespace(s, e) = e
  <2>1. At(s, e) = "end"
    BY <1>2, LineCharacters
  <2> QED BY <1>2, <2>1, SkipNothing DEF IsSpace
<1>6. Parse(s) = Reads(v, e) /\ Heard(s) = Transcribed(v)
  BY <1>2, <1>4, <1>5, ParseWhole
<1> QED BY <1>6 DEF e

\* Of a line that is not parsed nothing is heard.
LEMMA ParseNothing ==
    ASSUME NEW l, ~ParseValue(l, 1).ok \/ SkipWhitespace(l, ParseValue(l, 1).at) # Len(l) + 1
    PROVE  Heard(l) = <<>>
<1>1. Parse(l) = Throws
  BY Zenon DEF Parse, ToTheEnd
<1> QED BY <1>1, ParseFacts, Zenon DEF Heard

\* An answer is heard, with white space around it or none.
LEMMA IntactIsHeard ==
    ASSUME NEW said \in Said, NEW line \in Intact(said)
    PROVE  line \in Lines /\ Heard(line) = Transcribed(said.value)
<1> DEFINE s == Dumps(said.value)
           v == said.value
<1>1. Readable(s, v)
  BY LinesAssumption, DumpsIsReadable
<1>2. line \in {s, Behind(s, <<"space">>), Behind(<<"newline">>, s)}
  BY Zenon DEF Intact, Behind
<1> HIDE DEF s, v
<1>3. s \in Lines /\ s # <<>> /\ Len(s) \in Nat
      /\ \A l \in Lines : \A at : Has(l, at, s) => ParseValue(l, at) = Reads(v, at + Len(s))
  BY <1>1, LineCharacters DEF Readable
<1>4. /\ "space" \in Characters /\ "newline" \in Characters
  BY CharactersAssumption DEF Marks
<1>5. CASE line = s
  BY <1>1, <1>3, <1>5, AloneIsRead DEF v
<1>6. CASE line = Behind(s, <<"space">>)
  <2> DEFINE o == <<"space">>
             l == Behind(s, o)
             e == Len(s) + 1
             k == Len(s) + 1 + 1
  <2>1. o \in Lines /\ Len(o) = 1 /\ o[1] = "space"
    BY <1>4, HasOne
  <2> HIDE DEF o
  <2>2. /\ l \in Lines /\ Len(l) = Len(s) + Len(o)
        /\ (\A i \in 1 .. Len(s) : l[i] = s[i]) /\ (\A i \in 1 .. Len(o) : l[Len(s) + i] = o[i])
    BY <1>3, <2>1, BehindFacts
  <2> HIDE DEF l
  <2>3. /\ Len(l) = Len(s) + 1 /\ k = Len(l) + 1 /\ e \in 1 .. Len(l) /\ e \in 1 .. Len(l) + 1
        /\ k \in 1 .. Len(l) + 1 /\ l[e] = "space" /\ 1 + Len(s) = e /\ e + 1 = k
    BY <1>3, <2>1, <2>2
  <2>4. At(l, e) = "space" /\ At(l, k) = "end"
    <3>1. k \notin 1 .. Len(l)
      BY <1>3, <2>3
    <3> QED BY <2>2, <2>3, <3>1, LineCharacters
  <2>5. Has(l, 1, s)
    BY <1>3, <2>1, HadInside DEF l
  <2>6. ParseValue(l, 1) = Reads(v, e)
    BY <1>3, <2>2, <2>3, <2>5
  <2> HIDE DEF e, k
  <2>7. SkipWhitespace(l, e) = SkipWhitespace(l, e + 1)
    BY <2>2, <2>3, <2>4, SkipOne DEF IsSpace
  <2>8. SkipWhitespace(l, k) = k
    BY <2>2, <2>3, <2>4, SkipNothing DEF IsSpace
  <2>9. Heard(l) = Transcribed(v)
    BY <2>2, <2>3, <2>6, <2>7, <2>8, ParseWhole
  <2> QED BY <1>6, <2>2, <2>9 DEF v, l, o
<1>7. CASE line = Behind(<<"newline">>, s)
  <2> DEFINE o == <<"newline">>
             l == Behind(o, s)
             e == 1 + 1 + Len(s)
  <2>1. o \in Lines /\ Len(o) = 1 /\ o[1] = "newline"
    BY <1>4, HasOne
  <2> HIDE DEF o
  <2>2. /\ l \in Lines /\ Len(l) = Len(o) + Len(s)
        /\ (\A i \in 1 .. Len(o) : l[i] = o[i]) /\ (\A i \in 1 .. Len(s) : l[Len(o) + i] = s[i])
    BY <1>3, <2>1, BehindFacts
  <2> HIDE DEF l
  <2>3. /\ Len(l) = 1 + Len(s) /\ e = Len(l) + 1 /\ e \in 1 .. Len(l) + 1
        /\ l[1] = "newline" /\ 1 \in 1 .. Len(l) /\ 1 \in 1 .. Len(l) + 1
    BY <1>3, <2>1, <2>2
  <2>4. At(l, 1) = "newline" /\ At(l, e) = "end"
    <3>1. e \notin 1 .. Len(l)
      BY <1>3, <2>3
    <3> QED BY <2>2, <2>3, <3>1, LineCharacters
  <2>5. Has(l, 1 + 1, s)
    BY <1>3, <2>1, HadInside DEF l
  <2>6. ParseValue(l, 1 + 1) = Reads(v, e)
    BY <1>3, <2>2, <2>5
  <2>7. ParseValue(l, 1) = ParseValue(l, 1 + 1)
    BY <2>2, <2>3, <2>4, ValueBehindSpace DEF ParseValue, IsSpace
  <2> HIDE DEF e
  <2>8. SkipWhitespace(l, e) = e
    BY <2>2, <2>3, <2>4, SkipNothing DEF IsSpace
  <2>9. Heard(l) = Transcribed(v)
    BY <2>2, <2>3, <2>6, <2>7, <2>8, ParseWhole
  <2> QED BY <1>7, <2>2, <2>9 DEF v, l, o
<1> QED BY <1>2, <1>5, <1>6, <1>7

\* What follows a quotation mark is text, or nothing.
LEMMA QuoteIsText ==
    ASSUME NEW l \in Lines, At(l, 1) = "quote"
    PROVE  Heard(l) = <<>>
<1>1. 1 \in 1 .. Len(l) /\ Len(l) \in Nat
  <2>1. At(l, 1) # "end"
    OBVIOUS
  <2> QED BY <2>1, LineCharacters
<1>2. 1 \in 1 .. Len(l) + 1 /\ 1 + 1 \in 1 .. Len(l) + 1
  BY <1>1
<1> DEFINE p == ParseValue(l, 1)
           f == Read(l)
           next == NextCharacter(l, 1 + 1)
           rest == f[<<"string", next.at>>]
<1>3. p = StringStep(l, f, 1 + 1)
  <2>1. Value(l, f, 1) = f[<<"string", 1 + 1>>]
    BY <1>2, ValueHere DEF IsSpace
  <2>2. f[<<"string", 1 + 1>>] = ReadStep(l, f, <<"string", 1 + 1>>)
    BY <1>2, ReadIs DEF Rules
  <2> QED BY <2>1, <2>2 DEF ReadStep, ParseValue
<1>4. /\ At(l, 1 + 1) = "quote" => p = Reads(Text(<<>>), 1 + 1 + 1)
      /\ At(l, 1 + 1) # "quote" /\ next.ok /\ rest.ok =>
           p = Reads(Text(<<next.c>> \o rest.value.holds), rest.at)
      /\ \/ p = Throws
         \/ At(l, 1 + 1) = "quote"
         \/ At(l, 1 + 1) # "quote" /\ next.ok /\ rest.ok
  BY <1>3, StringCases
<1> HIDE DEF p, next, rest
<1>5. p = Throws \/ \E t, e : p = Reads(Text(t), e)
  BY <1>4, Zenon
<1>6. CASE p = Throws
  BY <1>6, ParseFacts, ParseNothing DEF p
<1>7. ASSUME NEW t, NEW e, p = Reads(Text(t), e) PROVE Heard(l) = <<>>
  <2> SUFFICES ASSUME Parse(l).ok PROVE Heard(l) = <<>>
    BY Zenon DEF Heard
  <2>1. Parse(l) = p
    BY ParseFacts, Zenon DEF Parse, ToTheEnd, p
  <2>2. Parse(l).value = Text(t)
    BY <1>7, <2>1, ParseFacts
  <2>3. Text(t).type # "object"
    BY DEF Text
  <2>4. ~BridgeReady(Text(t))
    BY <2>3, Zenon DEF BridgeReady, MemberOf
  <2>5. Transcribed(Text(t)) = <<>>
    BY <2>4, Zenon DEF Transcribed
  <2> QED BY <2>2, <2>5, Zenon DEF Heard
<1> QED BY <1>5, <1>6, <1>7

\* What begins with a closing brace, or is empty, is no value.
LEMMA BraceIsNothing ==
    ASSUME NEW l \in Lines, At(l, 1) \in {"rbrace", "end"}
    PROVE  Heard(l) = <<>>
<1>1. 1 \in 1 .. Len(l) + 1
  BY LineCharacters
<1> DEFINE from == SkipWhitespace(l, 1)
<1>2. from = 1
  BY <1>1, SkipNothing DEF IsSpace
<1>3. At(l, from) \notin {"lbrace", "lbracket", "quote", "null"} \cup DOMAIN Numbers =>
        Value(l, Read(l), 1) = Throws
  BY ValueCases
<1> HIDE DEF from
<1>4. Value(l, Read(l), 1) = Throws
  BY <1>2, <1>3 DEF Numbers
<1>5. ~ParseValue(l, 1).ok
  BY <1>4, ParseFacts DEF ParseValue
<1> QED BY <1>5, ParseNothing

\* Of a part of an answer, or two in a line, nothing is heard.
LEMMA DamagedIsNotHeard ==
    ASSUME NEW said \in Said, NEW line \in Damaged(said)
    PROVE  line \in Lines /\ Heard(line) = <<>>
<1> DEFINE s == Dumps(said.value)
           v == said.value
<1>1. Readable(s, v) /\ Braced(s)
  BY LinesAssumption, DumpsIsReadable
<1>2. \/ \E from \in {1, 2}, to \in 0 .. Len(s) : line = SubSeq(s, from, to) /\ line # s
      \/ line = Behind(s, s)
  <2>1. line \in ({SubSeq(s, from, to) : from \in {1, 2}, to \in 0 .. Len(s)} \ {s})
                  \cup {Behind(s, s)}
    <3>1. Damaged(said) = ({SubSeq(s, from, to) : from \in {1, 2}, to \in 0 .. Len(s)} \ {s})
                             \cup {s \o s}
      BY DEF Damaged
    <3>2. s \o s = Behind(s, s)
      BY DEF Behind
    <3> HIDE DEF s
    <3> QED BY <3>1, <3>2
  <2> HIDE DEF s
  <2> QED BY <2>1
<1> HIDE DEF s, v
<1>3. PICK t \in Lines : s = Enclosed("members", t) /\ (t # <<>> => t[1] = "quote")
  BY <1>1 DEF Braced
<1>4. /\ s \in Lines /\ Len(s) = Len(t) + 2 /\ Len(t) \in Nat /\ s # <<>>
      /\ s[1] = "lbrace" /\ s[Len(t) + 2] = "rbrace" /\ (t # <<>> => s[2] = t[1])
  <2>1. Opening("members") = "lbrace" /\ Closing("members") = "rbrace" /\ "members" \in Lists
    BY DEF Opening, Closing, Lists
  <2>2. LET u == Enclosed("members", t)
        IN  /\ u \in Lines /\ Len(u) = Len(t) + 2 /\ Len(t) \in Nat /\ u # <<>>
            /\ u[1] = Opening("members") /\ u[Len(t) + 2] = Closing("members")
            /\ t # <<>> => u[2] = t[1]
    BY <2>1, EnclosedFacts
  <2> QED BY <1>3, <2>1, <2>2
<1>5. \A l \in Lines : \A at : Has(l, at, s) => ParseValue(l, at) = Reads(v, at + Len(s))
  BY <1>1 DEF Readable
<1>6. /\ \A i \in 1 .. Len(s) : s[i] \in Characters
      /\ Len(s) \in Nat /\ 2 <= Len(s)
  BY <1>4, LineCharacters
<1>7. Has(s, 1, s)
  <2>1. <<>> \in Lines
    BY EmptySeq DEF Lines
  <2>2. Behind(s, <<>>) = s
    BY <1>4, ConcatEmptySeq DEF Behind, Lines
  <2>3. Has(Behind(s, <<>>), 1, s)
    BY <1>4, <2>1, HadInside
  <2> QED BY <2>2, <2>3
<1>8. ASSUME NEW from \in {1, 2}, NEW to \in 0 .. Len(s), line = SubSeq(s, from, to), line # s
      PROVE  line \in Lines /\ Heard(line) = <<>>
  <2>1. /\ line \in Lines /\ Len(line) = IF from <= to THEN to - from + 1 ELSE 0
        /\ \A i \in 1 .. to - from + 1 : line[i] = s[from + i - 1]
    <3>1. \A i \in from .. to : s[i] \in Characters
      BY <1>6
    <3>2. from \in Int /\ to \in Int
      BY <1>6
    <3> DEFINE u == SubSeq(s, from, to)
    <3>3. /\ u \in Seq(Characters) /\ Len(u) = IF from <= to THEN to - from + 1 ELSE 0
          /\ \A i \in 1 .. to - from + 1 : u[i] = s[from + i - 1]
      BY <3>1, <3>2, SubSeqProperties
    <3>4. line = u
      BY <1>8
    <3> HIDE DEF u
    <3> QED BY <3>3, <3>4 DEF Lines
  <2>2. CASE from = 1
    <3>1. Len(line) = to /\ \A i \in 1 .. to : line[i] = s[i]
      BY <1>6, <2>1, <2>2
    <3>2. to # Len(s)
      <4>1. SubSeq(s, 1, Len(s)) = s
        BY <1>4, SubSeqFull DEF Lines
      <4> QED BY <4>1, <1>8, <2>2
    <3>3. Begins(line, s)
      BY <1>6, <3>1 DEF Begins
    <3>4. ~ParseValue(line, 1).ok
      <4> SUFFICES ASSUME ParseValue(line, 1).ok PROVE FALSE
        OBVIOUS
      <4>1. /\ ParseValue(s, 1) = ParseValue(line, 1)
            /\ ParseValue(line, 1).at \in 1 .. Len(line) + 1
        BY <1>4, <2>1, <3>3, ParseExtends
      <4>2. ParseValue(s, 1) = Reads(v, 1 + Len(s))
        BY <1>4, <1>5, <1>7
      <4>3. ParseValue(s, 1).at = 1 + Len(s)
        BY <4>2, ParseFacts
      <4> QED BY <1>6, <3>1, <3>2, <4>1, <4>3
    <3> QED BY <2>1, <3>4, ParseNothing
  <2>3. CASE from = 2
    <3>1. CASE to < 2
      <4>1. 1 \notin 1 .. Len(line)
        BY <1>6, <2>1, <2>3, <3>1
      <4>2. At(line, 1) = "end"
        BY <2>1, <4>1, LineCharacters
      <4> QED BY <2>1, <4>2, BraceIsNothing
    <3>2. CASE ~(to < 2)
      <4>1. 1 \in 1 .. to - from + 1 /\ 1 \in 1 .. Len(line) /\ from + 1 - 1 = 2
        BY <1>6, <2>1, <2>3, <3>2
      <4>2. At(line, 1) = s[2]
        BY <2>1, <4>1, LineCharacters
      <4>3. CASE t = <<>>
        <5>1. s[2] = "rbrace"
          BY <1>4, <4>3, EmptySeq
        <5> QED BY <2>1, <4>2, <5>1, BraceIsNothing
      <4>4. CASE t # <<>>
        <5>1. s[2] = "quote"
          BY <1>3, <1>4, <4>4
        <5> QED BY <2>1, <4>2, <5>1, QuoteIsText
      <4> QED BY <4>3, <4>4
    <3> QED BY <3>1, <3>2
  <2> QED BY <2>2, <2>3
<1>9. CASE line = Behind(s, s)
  <2> DEFINE l == Behind(s, s)
             e == 1 + Len(s)
  <2>1. /\ l \in Lines /\ Len(l) = Len(s) + Len(s)
        /\ (\A i \in 1 .. Len(s) : l[Len(s) + i] = s[i])
    BY <1>4, BehindFacts
  <2>2. Has(l, 1, s)
    BY <1>4, HadInside
  <2> HIDE DEF l
  <2>3. ParseValue(l, 1) = Reads(v, e)
    BY <1>5, <2>1, <2>2
  <2>4. /\ 1 \in 1 .. Len(s) /\ Len(s) + 1 = e /\ e \in 1 .. Len(l) /\ e \in 1 .. Len(l) + 1
        /\ e # Len(l) + 1
    BY <1>6, <2>1
  <2> HIDE DEF e
  <2>5. At(l, e) = "lbrace"
    <3>1. l[e] = s[1]
      BY <2>1, <2>4
    <3> QED BY <1>4, <2>1, <2>4, <3>1, LineCharacters
  <2>6. SkipWhitespace(l, e) = e
    BY <2>1, <2>4, <2>5, SkipNothing DEF IsSpace
  <2>7. ParseValue(l, 1).at = e
    BY <2>3, ParseFacts
  <2>8. SkipWhitespace(l, ParseValue(l, 1).at) # Len(l) + 1
    BY <2>4, <2>6, <2>7
  <2>9. Heard(l) = <<>>
    BY <2>8, ParseNothing
  <2> QED BY <1>9, <2>1, <2>9 DEF l
<1> QED BY <1>2, <1>8, <1>9

-----------------------------------------------------------------------------
(* The request. *)

\* Three texts one behind the other, whichever two come first.
LEMMA BehindAgain ==
    ASSUME NEW x \in Lines, NEW y \in Lines, NEW z \in Lines
    PROVE  Behind(x, Behind(y, z)) = Behind(Behind(x, y), z)
BY ConcatAssociative DEF Behind, Lines

\* A name without anything to escape is spelled as it is.
LEMMA NameIsSpelled ==
    ASSUME NEW n \in Words
    PROVE  <<n>> \in Lines /\ Spelled(Spelling, <<n>>) = <<n>>
<1>1. n \in Characters
  BY CharactersAssumption
<1>2. <<>> \in Lines /\ Append(<<>>, n) = <<n>>
  BY EmptySeq DEF Lines
<1>3. Spelled(Spelling, Append(<<>>, n)) = Behind(Spelled(Spelling, <<>>), Spell(n))
  BY <1>1, <1>2, SpelledAppend
<1>4. Spelled(Spelling, <<>>) = <<>>
  BY SpelledAppend
<1>5. Spell(n) = <<n>>
  BY DEF Spell, Spelling, Words
<1>6. <<n>> \in Lines
  BY <1>1, HasOne
<1>7. Behind(<<>>, <<n>>) = <<n>>
  BY <1>6, ConcatEmptySeq DEF Behind, Lines
<1> QED BY <1>2, <1>3, <1>4, <1>5, <1>6, <1>7

\* A pair of a request is a part of an object: its key with its text.
LEMMA PairIsPart ==
    ASSUME NEW n \in Words, NEW t \in Lines
    PROVE  IsPart("members", Pair(n, EscapeJsonString(t)), Object([x \in {<<n>>} |-> Text(t)]))
<1> DEFINE k == <<n>>
<1>1. k \in Lines /\ Spelled(Spelling, k) = k
  BY NameIsSpelled
<1>2. EscapeJsonString(t) = Spelled(Spelling, t)
  <2>1. Escapes = Spelling
    BY DEF Escapes, Spelling
  <2> QED BY <2>1 DEF EscapeJsonString
<1>3. Pair(n, EscapeJsonString(t))
        = Behind(Behind(Quoted(k), <<"colon">>), Quoted(EscapeJsonString(t)))
  BY Zenon DEF Pair, Behind
<1> HIDE DEF k
<1> DEFINE sep == <<"colon">>
           m == Behind(Behind(Quoted(Spelled(Spelling, k)), sep), Quoted(Spelled(Spelling, t)))
<1>4. Readable(Quoted(Spelled(Spelling, t)), Text(t))
  BY TextIsReadable
<1>5. IsPart("members", m, Object([x \in {k} |-> Text(t)]))
  BY <1>1, <1>4, MemberIsPart
<1>6. Pair(n, EscapeJsonString(t)) = m
  BY <1>1, <1>2, <1>3
<1> QED BY <1>5, <1>6 DEF k

\* A request is read as the object that was meant, and holds no control characters.
LEMMA RequestIsRead ==
    ASSUME NEW path \in Lines, NEW language \in Lines
    PROVE  LET l == MakeInitializeRequest(path, language)
               h == Parse(l).value.holds
           IN  /\ l \in Lines /\ NoControl(l)
               /\ Parse(l).ok /\ Parse(l).value.type = "object"
               /\ h[<<"op">>] = Text(<<"initialize">>)
               /\ h[<<"model_path">>] = Text(path)
               /\ h[<<"language">>] = Text(language)
<1> DEFINE l == MakeInitializeRequest(path, language)
           init == <<"initialize">>
           k1 == <<"op">>
           k2 == <<"model_path">>
           k3 == <<"language">>
           f1 == [x \in {k1} |-> Text(init)]
           f2 == [x \in {k2} |-> Text(path)]
           f3 == [x \in {k3} |-> Text(language)]
           p1 == Pair("op", EscapeJsonString(init))
           p2 == Pair("model_path", EscapeJsonString(path))
           p3 == Pair("language", EscapeJsonString(language))
           b == <<"lbrace">>
           e == <<"rbrace">>
           c == <<"comma">>
           a2 == Behind(Behind(p1, c), p2)
           a3 == Behind(Behind(a2, c), p3)
           f == Over(Over(f1, f2), f3)
<1>1. {"op", "initialize", "model_path", "language"} \subseteq Words
  BY DEF Words
<1>2. init \in Lines /\ EscapeJsonString(init) = init
  <2>1. Escapes = Spelling
    BY DEF Escapes, Spelling
  <2>2. init \in Lines /\ Spelled(Spelling, init) = init
    BY <1>1, NameIsSpelled
  <2> QED BY <2>1, <2>2 DEF EscapeJsonString
<1>3. l = Behind(Behind(Behind(Behind(Behind(Behind(b, p1), c), p2), c), p3), e)
  <2>1. l = b \o Pair("op", init) \o c \o p2 \o c \o p3 \o e
    BY Zenon DEF MakeInitializeRequest
  <2>2. p1 = Pair("op", init)
    BY <1>2
  <2> HIDE DEF init, l, p1, p2, p3, b, e, c
  <2> QED BY <2>1, <2>2, Zenon DEF Behind
<1>4. /\ IsPart("members", p1, Object(f1)) /\ IsPart("members", p2, Object(f2))
      /\ IsPart("members", p3, Object(f3))
  <2>1. IsPart("members", p1, Object(f1))
    BY <1>1, <1>2, PairIsPart
  <2>2. IsPart("members", p2, Object(f2))
    BY <1>1, PairIsPart
  <2>3. IsPart("members", p3, Object(f3))
    BY <1>1, PairIsPart
  <2> QED BY <2>1, <2>2, <2>3
<1> HIDE DEF p1, p2, p3, l
<1>5. ASSUME NEW g PROVE OfList("members", {}, Object(g))
  <2>1. Object(g).holds = g
    BY DEF Object
  <2> QED BY <2>1, Zenon DEF OfList
<1>6. ASSUME NEW g, NEW h PROVE Together(Object(g), Object(h)) = Object(Over(g, h))
  <2>1. Object(g).type = "object" /\ Object(g).holds = g /\ Object(h).holds = h
    BY DEF Object
  <2> QED BY <2>1, Zenon DEF Together, Over
<1> HIDE DEF f1, f2, f3
<1>7. AreParts("members", {}, a3, Object(f))
  <2>1. "members" \in Lists /\ c \in {<<"comma">>, Comma}
    BY DEF Lists
  <2> HIDE DEF c
  <2>2. AreParts("members", {}, p1, Object(f1))
    BY <1>4, <1>5, <2>1, PartIsParts
  <2>3. AreParts("members", {}, a2, Together(Object(f1), Object(f2)))
    BY <1>4, <1>5, <2>1, <2>2, PartsAndPart
  <2> HIDE DEF a2
  <2>4. AreParts("members", {}, a2, Object(Over(f1, f2)))
    BY <1>6, <2>3
  <2>5. AreParts("members", {}, a3, Together(Object(Over(f1, f2)), Object(f3)))
    BY <1>4, <1>5, <2>1, <2>4, PartsAndPart
  <2> QED BY <1>6, <2>5
<1>8. Readable(Enclosed("members", a3), Object(f))
  BY <1>7, ListIsReadable DEF Lists
<1>9. l = Enclosed("members", a3)
  <2>1. p1 \in Lines /\ p2 \in Lines /\ p3 \in Lines
    BY <1>4 DEF IsPart, Stands
  <2>2. b \in Lines /\ c \in Lines
    <3>1. "lbrace" \in Characters /\ "comma" \in Characters
      BY CharactersAssumption DEF Marks
    <3> QED BY <3>1, HasOne
  <2>3. Enclosed("members", a3) = Behind(Behind(b, a3), e)
    BY Zenon DEF Enclosed, Opening, Closing
  <2> HIDE DEF b, c, e, f
  <2>4. ASSUME NEW x \in Lines, NEW y \in Lines
        PROVE  /\ Behind(Behind(x, c), y) \in Lines
               /\ Behind(b, Behind(Behind(x, c), y)) = Behind(Behind(Behind(b, x), c), y)
    <3>1. Behind(x, c) \in Lines
      BY <2>2, BehindFacts
    <3>2. Behind(Behind(x, c), y) \in Lines
      BY <3>1, BehindFacts
    <3>3. Behind(b, Behind(Behind(x, c), y)) = Behind(Behind(b, Behind(x, c)), y)
      BY <2>2, <3>1, BehindAgain
    <3>4. Behind(b, Behind(x, c)) = Behind(Behind(b, x), c)
      BY <2>2, BehindAgain
    <3> QED BY <3>2, <3>3, <3>4
  <2>5. a2 \in Lines /\ Behind(b, a2) = Behind(Behind(Behind(b, p1), c), p2)
    BY <2>1, <2>4
  <2> HIDE DEF a2
  <2>6. Behind(b, a3) = Behind(Behind(Behind(b, a2), c), p3)
    BY <2>1, <2>4, <2>5
  <2> QED BY <1>3, <2>3, <2>5, <2>6, Zenon
<1>10. l \in Lines /\ NoControl(l) /\ Readable(l, Object(f))
  BY <1>8, <1>9 DEF Readable
<1>11. Parse(l).ok /\ Parse(l).value = Object(f)
  BY <1>10, AloneIsRead, ParseFacts
<1>12. Object(f).type = "object" /\ Object(f).holds = f
  BY DEF Object
<1>13. f[k1] = Text(init) /\ f[k2] = Text(path) /\ f[k3] = Text(language)
  <2>1. k1 # k2 /\ k1 # k3 /\ k2 # k3
    BY Zenon
  <2> HIDE DEF k1, k2, k3, init
  <2>2. /\ DOMAIN f1 = {k1} /\ DOMAIN f2 = {k2} /\ DOMAIN f3 = {k3}
        /\ f1[k1] = Text(init) /\ f2[k2] = Text(path) /\ f3[k3] = Text(language)
    BY DEF f1, f2, f3
  <2>3. /\ DOMAIN Over(f1, f2) = {k1, k2}
        /\ Over(f1, f2)[k1] = f1[k1] /\ Over(f1, f2)[k2] = f2[k2]
    BY <2>1, <2>2 DEF Over
  <2>4. f[k1] = Over(f1, f2)[k1] /\ f[k2] = Over(f1, f2)[k2] /\ f[k3] = f3[k3]
    BY <2>1, <2>2, <2>3 DEF Over
  <2> QED BY <2>2, <2>3, <2>4
<1> HIDE DEF f
<1>14. Parse(l).value.type = "object" /\ Parse(l).value.holds = f
  BY <1>11, <1>12
<1> QED BY <1>10, <1>11, <1>13, <1>14, Zenon DEF l, k1, k2, k3, init

-----------------------------------------------------------------------------
(* What is made of an answer is what it means. *)

\* object_member() finds a member of a type where there is one.
LEMMA MemberIs ==
    ASSUME NEW v, NEW name, NEW type
    PROVE  MemberOf(v, name, type)
             = IF HasMember(v, name, type) THEN {v.holds[<<name>>]} ELSE {}
BY Zenon DEF MemberOf, HasMember

\* The runtime has a segment of what makes sense, and of nothing else.
LEMMA SegmentsAreSensible ==
    ASSUME NEW v
    PROVE  Segments(v) = IF IsSensible(v)
                         THEN {[start |-> TimeOf(v, "start_seconds"),
                                end |-> TimeOf(v, "end_seconds"),
                                text |-> v.holds[<<"text">>].holds]}
                         ELSE {}
<1> DEFINE A == {m \in MemberOf(v, "start_seconds", "number") : m.holds # "NaN"}
           B == {m \in MemberOf(v, "end_seconds", "number") : m.holds # "NaN"}
           C == MemberOf(v, "text", "string")
           a == v.holds[<<"start_seconds">>]
           b == v.holds[<<"end_seconds">>]
           c == v.holds[<<"text">>]
           S == {[start |-> Numbers[x.holds], end |-> Numbers[y.holds], text |-> z.holds] :
                   x \in A, y \in B, z \in C}
<1>1. A = (IF IsTime(v, "start_seconds") THEN {a} ELSE {})
  <2>1. MemberOf(v, "start_seconds", "number")
          = IF HasMember(v, "start_seconds", "number") THEN {a} ELSE {}
    BY MemberIs
  <2> HIDE DEF a
  <2> QED BY <2>1 DEF IsTime, a
<1>2. B = (IF IsTime(v, "end_seconds") THEN {b} ELSE {})
  <2>1. MemberOf(v, "end_seconds", "number")
          = IF HasMember(v, "end_seconds", "number") THEN {b} ELSE {}
    BY MemberIs
  <2> HIDE DEF b
  <2> QED BY <2>1 DEF IsTime, b
<1>3. C = (IF HasMember(v, "text", "string") THEN {c} ELSE {})
  BY MemberIs
<1>4. Segments(v) = {s \in S : 0 <= s.start /\ s.start <= s.end}
  BY DEF Segments
<1>5. Numbers[a.holds] = TimeOf(v, "start_seconds") /\ Numbers[b.holds] = TimeOf(v, "end_seconds")
  BY DEF TimeOf
<1> DEFINE r == [start |-> Numbers[a.holds], end |-> Numbers[b.holds], text |-> c.holds]
<1> HIDE DEF A, B, C, a, b, c
<1>6. S = IF /\ IsTime(v, "start_seconds") /\ IsTime(v, "end_seconds")
             /\ HasMember(v, "text", "string")
          THEN {r} ELSE {}
  BY <1>1, <1>2, <1>3
<1>7. r.start = Numbers[a.holds] /\ r.end = Numbers[b.holds]
  OBVIOUS
<1> HIDE DEF S, r
<1>8. Segments(v) = IF IsSensible(v) THEN {r} ELSE {}
  BY <1>4, <1>5, <1>6, <1>7 DEF IsSensible
<1> QED BY <1>5, <1>8, Zenon DEF r, c

\* The runtime makes of an answer what it means.
LEMMA TranscribedIsMeaning == \A v : Transcribed(v) = Meaning(v)
<1> SUFFICES ASSUME NEW v PROVE Transcribed(v) = Meaning(v)
  OBVIOUS
<1> DEFINE a == v.holds[<<"segments">>]
           list == a.holds
           lists == UNION {{x.holds} : x \in MemberOf(v, "segments", "array")}
           sensible == {l \in lists : \A i \in DOMAIN l : Segments(l[i]) # {}}
           chosen(l) == [i \in DOMAIN l |-> CHOOSE s \in Segments(l[i]) : TRUE]
           meant(x) == [start |-> TimeOf(x, "start_seconds"), end |-> TimeOf(x, "end_seconds"),
                        text |-> x.holds[<<"text">>].holds]
<1>1. BridgeReady(v)
        <=> HasMember(v, "status", "string") /\ v.holds[<<"status">>].holds = <<"ready">>
  <2>1. MemberOf(v, "status", "string")
          = IF HasMember(v, "status", "string") THEN {v.holds[<<"status">>]} ELSE {}
    BY MemberIs
  <2> QED BY <2>1, Zenon DEF BridgeReady
<1>2. lists = (IF HasMember(v, "segments", "array") THEN {list} ELSE {})
  <2>1. MemberOf(v, "segments", "array")
          = IF HasMember(v, "segments", "array") THEN {a} ELSE {}
    BY MemberIs
  <2> QED BY <2>1
<1>3. \A x : Segments(x) = IF IsSensible(x) THEN {meant(x)} ELSE {}
  BY SegmentsAreSensible
<1>4. Transcribed(v) = IF ~BridgeReady(v) \/ sensible = {} THEN <<>>
                       ELSE chosen(CHOOSE l \in sensible : TRUE)
  BY Zenon DEF Transcribed
<1>5. Meaning(v) = IF /\ HasMember(v, "status", "string")
                      /\ v.holds[<<"status">>].holds = <<"ready">>
                      /\ HasMember(v, "segments", "array")
                      /\ \A i \in DOMAIN list : IsSensible(list[i])
                   THEN [i \in DOMAIN list |-> meant(list[i])] ELSE <<>>
  BY Zenon DEF Meaning
<1> HIDE DEF lists, list, meant
<1>6. sensible = IF HasMember(v, "segments", "array") /\ \A i \in DOMAIN list : IsSensible(list[i])
                 THEN {list} ELSE {}
  BY <1>2, <1>3
<1>7. ASSUME \A i \in DOMAIN list : IsSensible(list[i])
      PROVE  chosen(list) = [i \in DOMAIN list |-> meant(list[i])]
  BY <1>3, <1>7
<1>8. CASE sensible = {list}
  <2>1. (CHOOSE l \in sensible : TRUE) = list
    BY <1>8
  <2> DEFINE picked == CHOOSE l \in sensible : TRUE
  <2>2. chosen(picked) = chosen(list)
    <3>1. picked = list
      BY <2>1
    <3> HIDE DEF picked, sensible, list
    <3> QED BY <3>1
  <2>3. HasMember(v, "segments", "array") /\ \A i \in DOMAIN list : IsSensible(list[i])
    BY <1>6, <1>8
  <2>4. chosen(list) = [i \in DOMAIN list |-> meant(list[i])]
    BY <1>7, <2>3
  <2>5. sensible # {}
    BY <1>8
  <2> HIDE DEF chosen, sensible
  <2> QED BY <1>1, <1>4, <1>5, <2>2, <2>3, <2>4, <2>5, Zenon
<1>9. CASE sensible # {list}
  BY <1>1, <1>4, <1>5, <1>6, <1>9
<1> QED BY <1>8, <1>9

-----------------------------------------------------------------------------
(* The lines of the specification. *)

\* What exchange is, and how it came to be.
LinesInv ==
    \/ exchange = [op |-> "none"]
    \/ \E path, language \in Strings :
          exchange = [op |-> "request", path |-> path, language |-> language,
                      line |-> MakeInitializeRequest(path, language)]
    \/ \E said \in Said : \E line \in Intact(said) \cup Damaged(said) :
          exchange = [op |-> "answer", said |-> said, line |-> line, heard |-> Heard(line)]

\* Every exchange is one of those.
LEMMA LinesInductive == LineSpec => []LinesInv
<1>1. LineInit => LinesInv
  BY Zenon DEF LineInit, LinesInv
<1>2. LinesInv /\ [LineNext]_exchange => LinesInv'
  <2> SUFFICES ASSUME LinesInv, [LineNext]_exchange PROVE LinesInv'
    OBVIOUS
  <2>1. CASE UNCHANGED exchange
    BY <2>1, Zenon DEF LinesInv
  <2>2. CASE ForgetLine
    BY <2>2, Zenon DEF ForgetLine, LinesInv
  <2>3. ASSUME NEW path \in Strings, NEW language \in Strings, WriteRequest(path, language)
        PROVE  LinesInv'
    BY <2>3, Zenon DEF WriteRequest, LinesInv
  <2>4. ASSUME NEW said \in Said, HearAnswer(said) PROVE LinesInv'
    BY <2>4, Zenon DEF HearAnswer, LinesInv
  <2> QED BY <2>1, <2>2, <2>3, <2>4, Zenon DEF LineNext
<1> QED BY <1>1, <1>2, PTL DEF LineSpec

\* And each of those is understood.
LEMMA LinesInvSuffices == LinesInv => LinesAreUnderstood
<1>1. CASE exchange = [op |-> "none"]
  BY <1>1 DEF LinesAreUnderstood
<1>2. ASSUME NEW path \in Strings, NEW language \in Strings,
             exchange = [op |-> "request", path |-> path, language |-> language,
                         line |-> MakeInitializeRequest(path, language)]
      PROVE  LinesAreUnderstood
  <2>1. path \in Lines /\ language \in Lines
    BY LinesAssumption DEF Lines
  <2> DEFINE l == MakeInitializeRequest(path, language)
             h == Parse(l).value.holds
  <2>2. /\ l \in Lines /\ NoControl(l) /\ Parse(l).ok /\ Parse(l).value.type = "object"
        /\ h[<<"op">>] = Text(<<"initialize">>)
        /\ h[<<"model_path">>] = Text(path) /\ h[<<"language">>] = Text(language)
    BY <2>1, RequestIsRead
  <2> HIDE DEF l
  <2>3. exchange.op = "request" /\ exchange.line = l /\ exchange.path = path
        /\ exchange.language = language
    BY <1>2 DEF l
  <2>4. \A i \in DOMAIN exchange.line : ~IsControl(exchange.line[i])
    BY <2>2, <2>3, LineCharacters DEF NoControl
  <2>5. exchange.op # "answer"
    BY <2>3
  <2> HIDE DEF h
  <2> QED BY <2>2, <2>3, <2>4, <2>5, Zenon DEF LinesAreUnderstood, IsRequest, h
<1>3. ASSUME NEW said \in Said, NEW line \in Intact(said) \cup Damaged(said),
             exchange = [op |-> "answer", said |-> said, line |-> line, heard |-> Heard(line)]
      PROVE  LinesAreUnderstood
  <2>1. exchange.op = "answer" /\ exchange.said = said /\ exchange.line = line
        /\ exchange.heard = Heard(line)
    BY <1>3
  <2>2. CASE line \in Intact(said)
    <3>1. Heard(line) = said.segments
      BY <2>2, IntactIsHeard, TranscribedIsMeaning, LinesAssumption
    <3> QED BY <2>1, <2>2, <3>1 DEF LinesAreUnderstood
  <2>3. CASE line \notin Intact(said)
    <3>1. Heard(line) = <<>>
      BY <2>3, DamagedIsNotHeard
    <3> QED BY <2>1, <2>3, <3>1 DEF LinesAreUnderstood
  <2> QED BY <2>2, <2>3
<1> QED BY <1>1, <1>2, <1>3 DEF LinesInv

\* For any characters, any paths and any answers: a request is one line and is read as it
\* was written, a whole answer is heard as what it means, and of a damaged one nothing is.
THEOREM LinesUnderstood == LineSpec => []LinesAreUnderstood
BY LinesInductive, LinesInvSuffices, PTL

====
