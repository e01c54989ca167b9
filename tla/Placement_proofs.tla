-------------------------- MODULE Placement_proofs --------------------------
(* Proofs about Placement, for every value of its constants. *)
EXTENDS Placement, FiniteSetTheorems, TLAPS

USE PlacementBounds, PlacementNone

-----------------------------------------------------------------------------
(* Calls.                                                                  *)

\* What is known of a call by being one.
LEMMA CallParts ==
  ASSUME NEW c \in Call
  PROVE  c[1] \in Req /\ c[2] \in 0..2 /\ c[3] \in Node /\ c = <<c[1], c[2], c[3]>>
BY DEF Call, MaxHop

\* A call that is made is another one.
LEMMA SubParts ==
  ASSUME NEW c \in Call, c[2] < MaxHop, NEW n \in Node
  PROVE  /\ Sub(c, n) \in Call /\ Sub(c, n) # c
         /\ Sub(c, n)[1] = c[1] /\ Sub(c, n)[2] = c[2] + 1 /\ Sub(c, n)[3] = n
BY DEF Call, MaxHop, Sub

\* The caller waits, and its call is in the queue of n.
LEMMA AskCall ==
  ASSUME RowsOK, NEW c \in Call, NEW n \in Node, NEW rest \in SUBSET Node, Ask(c, n, rest)
  PROVE  /\ Sub(c, n) \in Call /\ Sub(c, n) # c /\ c[2] < 2
         /\ Sub(c, n)[1] = c[1] /\ Sub(c, n)[2] = c[2] + 1 /\ Sub(c, n)[3] = n
         /\ call' = [d \in Call |-> IF d = Sub(c, n) THEN Queued
                                    ELSE IF d = c THEN Waiting(call[c], n, rest)
                                    ELSE call[d]]
<1>1. c[2] < 2
  BY DEF Ask, MaxHop
<1>2. /\ Sub(c, n) \in Call /\ Sub(c, n) # c
      /\ Sub(c, n)[1] = c[1] /\ Sub(c, n)[2] = c[2] + 1 /\ Sub(c, n)[3] = n
  BY <1>1, SubParts DEF MaxHop
<1> QED
  BY <1>1, <1>2 DEF Ask, RowsOK

\* The conjuncts about what requests and calls are.
Shape == RowsOK /\ ReferencesExist /\ StepsFit /\ OneHop /\ Arrived

LEMMA RowTypes ==
  /\ NoCall \in CallRow /\ Queued \in CallRow /\ Over \in CallRow
  /\ Queued.st = "queued" /\ Queued.owners = {} /\ Queued.seen = {}
  /\ Over.st = "over" /\ Over.owners = {} /\ Over.seen = {}
  /\ NoCall.st = "none" /\ NoCall.owners = {} /\ NoCall.seen = {}
BY DEF NoCall, Queued, Over, CallRow

LEMMA AskShape ==
  ASSUME Shape, NEW c \in Call, NEW n \in Node, NEW rest \in SUBSET Node, Ask(c, n, rest), Tables,
         call[c].st = "route", c[2] = 0, rest # {} => Op(c) = "list",
         Op(c) \in {"get", "delete"} => vm[req[c[1]].vm].node = n
  PROVE  Shape'
<1> DEFINE waiting == Waiting(call[c], n, rest)
<1>1. /\ Sub(c, n) \in Call /\ Sub(c, n) # c
      /\ Sub(c, n)[1] = c[1] /\ Sub(c, n)[2] = 1 /\ Sub(c, n)[3] = n
      /\ call' = [d \in Call |-> IF d = Sub(c, n) THEN Queued ELSE IF d = c THEN waiting ELSE call[d]]
  <2>1. RowsOK
    BY DEF Shape
  <2>2. c[2] + 1 = 1
    OBVIOUS
  <2> QED
    BY <2>1, <2>2, AskCall
<1>2. /\ waiting \in CallRow
      /\ waiting.st = "wait" /\ waiting.to = n /\ waiting.owners = rest /\ waiting.seen = call[c].seen
  <2>1. call[c] \in CallRow
    BY DEF Shape, RowsOK
  <2> QED
    BY <2>1 DEF CallRow, Steps, Waiting
<1> HIDE DEF waiting
<1>3. RowsOK'
  BY <1>1, <1>2, RowTypes DEF Shape, RowsOK, Tables
<1>4. ReferencesExist'
  BY <1>1, <1>2, RowTypes, CallParts DEF Shape, RowsOK, ReferencesExist, Tables, Born
<1>5. StepsFit'
  BY <1>1, <1>2, RowTypes DEF Shape, StepsFit, Fits, Tables, Op
<1>6. OneHop' /\ Arrived'
  BY <1>1, <1>2, RowTypes, CallParts DEF Shape, OneHop, Arrived, Tables, Op
<1> QED
  BY <1>3, <1>4, <1>5, <1>6 DEF Shape

-----------------------------------------------------------------------------
(* Handlers that change the row of their own call only.                    *)

\* The call c goes on with this row, which the rest of the invariant allows.
Moves(c, to) ==
  /\ to \in CallRow /\ call' = [call EXCEPT ![c] = to] /\ req' = req
  /\ call[c].st # "none"
  /\ to.st \notin {"none", "wait", "queued"}
  /\ to.st = "route" => call[c].st = "queued"
  /\ to.st \in Inserting => call[c].st \in {"queued", "route"} \cup Inserting
  /\ to.owners \subseteq call[c].owners
  /\ to.seen \subseteq Born'
  /\ Fits(c)'
  /\ to.st = "dropVpc" => \A v \in to.seen : vm'[v].vpc # req[c[1]].vpc
  /\ Op(c) = "spawn" /\ to.st \in {"readIps", "insertVm"} => vpc'[to.vpc].st \in {"default", "deleted"}

LEMMA EndRow ==
  ASSUME RowsOK, NEW c \in Call, End(c)
  PROVE  \E to \in CallRow : /\ call' = [call EXCEPT ![c] = to]
                             /\ to.st = "over" /\ to.seen = {} /\ to.owners = {}
BY RowTypes DEF End, Become

LEMMA GotoRow ==
  ASSUME RowsOK, NEW c \in Call, NEW step \in Steps, Goto(c, step)
  PROVE  \E to \in CallRow : /\ call' = [call EXCEPT ![c] = to] /\ to.st = step
                             /\ to.vpc = call[c].vpc /\ to.to = call[c].to
                             /\ to.seen = call[c].seen /\ to.owners = call[c].owners
<1> DEFINE to == [call[c] EXCEPT !.st = step]
<1>1. call[c] \in CallRow
  BY DEF RowsOK
<1>2. /\ to \in CallRow /\ to.st = step /\ to.vpc = call[c].vpc /\ to.to = call[c].to
      /\ to.seen = call[c].seen /\ to.owners = call[c].owners
  BY <1>1 DEF CallRow
<1>3. call' = [call EXCEPT ![c] = to]
  BY DEF Goto, Become
<1> HIDE DEF to
<1> QED
  BY <1>2, <1>3

LEMMA UseVpcRow ==
  ASSUME RowsOK, NEW c \in Call, NEW x \in Vpc, UseVpc(c, x)
  PROVE  \E to \in CallRow : /\ call' = [call EXCEPT ![c] = to] /\ to.st = "readIps" /\ to.vpc = x
                             /\ to.seen = call[c].seen /\ to.owners = call[c].owners
<1> DEFINE to == [call[c] EXCEPT !.st = "readIps", !.vpc = x]
<1>1. call[c] \in CallRow
  BY DEF RowsOK
<1>2. /\ to \in CallRow /\ to.st = "readIps" /\ to.vpc = x
      /\ to.seen = call[c].seen /\ to.owners = call[c].owners
  BY <1>1 DEF CallRow, Steps
<1>3. call' = [call EXCEPT ![c] = to]
  BY DEF UseVpc, Become
<1> HIDE DEF to
<1> QED
  BY <1>2, <1>3
\* Everything but the bound on the threads, which has a proof of its own.
Rest == Shape /\ InsertsOnce /\ AtMostOnce /\ DuplicateOnlyInRace /\ OthersSeen /\ IntoDefault

\* What an end, a next step and a step with a VPC need in order to be such moves.
LEMMA EndMoves ==
  ASSUME RowsOK, NEW c \in Call, End(c), req' = req, call[c].st # "none"
  PROVE  \E to : Moves(c, to)
<1>1. PICK to \in CallRow : /\ call' = [call EXCEPT ![c] = to]
                            /\ to.st = "over" /\ to.seen = {} /\ to.owners = {}
  BY EndRow
<1>2. call'[c] = to
  BY <1>1 DEF RowsOK
<1> QED
  BY <1>1, <1>2 DEF Moves, Fits, Inserting

LEMMA GotoMoves ==
  ASSUME RowsOK, ReferencesExist, NEW c \in Call, NEW step \in Steps \ {"wait"}, Goto(c, step), Tables,
         call[c].st # "none",
         step = "route" => call[c].st = "queued",
         step \in Inserting => call[c].st \in {"queued", "route"} \cup Inserting,
         step \in {"readIps", "insertVm"} => call[c].st \in {"readIps", "insertVm"},
         step # "dropVpc",
         step = "readVpc" => Op(c) = "create",
         step = "dropVm" => Op(c) = "delete",
         step = "checkVpc" => Op(c) = "deleteVpc",
         step \in {"readDefault", "insertDefault", "rereadDefault"} => Op(c) = "spawn",
         Fits(c), IntoDefault
  PROVE  \E to : Moves(c, to)
<1>1. PICK to \in CallRow : /\ call' = [call EXCEPT ![c] = to] /\ to.st = step
                            /\ to.vpc = call[c].vpc /\ to.to = call[c].to
                            /\ to.seen = call[c].seen /\ to.owners = call[c].owners
  BY GotoRow
<1>2. call'[c] = to /\ vm' = vm /\ vpc' = vpc /\ req' = req
  BY <1>1 DEF RowsOK, Tables
<1>3. Fits(c)'
  BY <1>1, <1>2 DEF Fits, Op
<1>4. to.seen \subseteq Born'
  BY <1>1, <1>2 DEF ReferencesExist, Born
<1>5. Op(c) = "spawn" /\ to.st \in {"readIps", "insertVm"} => vpc'[to.vpc].st \in {"default", "deleted"}
  BY <1>1, <1>2 DEF IntoDefault
<1> QED
  BY <1>1, <1>2, <1>3, <1>4, <1>5 DEF Moves, Steps

LEMMA UseVpcMoves ==
  ASSUME RowsOK, ReferencesExist, NEW c \in Call, NEW x \in Vpc, UseVpc(c, x), req' = req, vm' = vm,
         call[c].st \in Inserting,
         Op(c) \in {"spawn", "create"},
         Op(c) = "spawn" => vpc'[x].st = "default"
  PROVE  \E to : Moves(c, to)
<1>1. PICK to \in CallRow : /\ call' = [call EXCEPT ![c] = to] /\ to.st = "readIps" /\ to.vpc = x
                            /\ to.seen = call[c].seen /\ to.owners = call[c].owners
  BY UseVpcRow
<1>2. call'[c] = to
  BY <1>1 DEF RowsOK
<1>3. Fits(c)'
  BY <1>1, <1>2 DEF Fits, Op
<1>4. to.seen \subseteq Born'
  BY <1>1 DEF ReferencesExist, Born
<1> QED
  BY <1>1, <1>2, <1>3, <1>4 DEF Moves, Inserting
-----------------------------------------------------------------------------
(* Every handler but Return moves on, or makes a call.                     *)

Asks(c, n, rest) ==
  /\ n \in Node /\ rest \in SUBSET Node
  /\ Ask(c, n, rest) /\ Tables
  /\ call[c].st = "route" /\ c[2] = 0
  /\ rest # {} => Op(c) = "list"
  /\ Op(c) \in {"get", "delete"} => vm[req[c[1]].vm].node = n

GoesOn(c) == (\E to : Moves(c, to)) \/ (\E n, rest : Asks(c, n, rest))

LEMMA AcceptGoesOn ==
  ASSUME Rest, NEW c \in Call, Accept(c)
  PROVE  \E to : Moves(c, to)
<1>1. FirstStep(Op(c)) \in {"insertVpc", "checkVpc", "route"} /\ (FirstStep(Op(c)) = "checkVpc" => Op(c) = "deleteVpc")
  BY DEF FirstStep
<1>2. /\ At(c, "queued") /\ Goto(c, FirstStep(Op(c))) /\ Tables
      /\ RowsOK /\ ReferencesExist /\ Fits(c) /\ IntoDefault
  BY DEF Accept, Rest, Shape, StepsFit
<1>3. FirstStep(Op(c)) \in Steps \ {"wait"}
  BY <1>1 DEF Steps
<1> DEFINE step == FirstStep(Op(c))
<1> HIDE DEF step
<1>4. call[c].st = "queued" /\ step \in {"insertVpc", "checkVpc", "route"} /\ (step = "checkVpc" => Op(c) = "deleteVpc")
  BY <1>1, <1>2 DEF At, step
<1>5. Goto(c, step) /\ step \in Steps \ {"wait"}
  BY <1>2, <1>3 DEF step
<1> QED
  BY <1>2, <1>4, <1>5, GotoMoves DEF Inserting

LEMMA RouteGoesOn ==
  ASSUME Rest, NEW c \in Call, RouteSpawn(c) \/ RouteCreate(c) \/ RouteOwner(c) \/ RouteList(c)
  PROVE  GoesOn(c)
<1>1. /\ RowsOK /\ ReferencesExist /\ Fits(c) /\ IntoDefault /\ OneHop /\ Arrived /\ req' = req /\ Tables
      /\ call[c].st = "route"
  BY DEF Rest, Shape, StepsFit, RouteSpawn, RouteCreate, RouteOwner, RouteList, At, Tables
<1>2. c[2] \in 0..2 /\ c[3] \in Node /\ c[1] \in Req
  BY CallParts
<1>3. End(c) => \E to : Moves(c, to)
  BY <1>1, EndMoves
<1>4. CASE RouteSpawn(c)
  <2>1. Op(c) = "spawn"
    BY <1>4 DEF RouteSpawn
  <2>2. Goto(c, "readDefault") => \E to : Moves(c, to)
    BY <1>1, <2>1, GotoMoves DEF Steps, Inserting
  <2>3. ASSUME NEW n \in Node, Forward(c, n), ~Marked(c)
        PROVE  Asks(c, n, {})
    BY <1>1, <1>2, <2>1, <2>3 DEF Asks, Forward, Marked
  <2> QED
    BY <1>2, <1>3, <1>4, <2>2, <2>3 DEF RouteSpawn, Serve, GoesOn
<1>5. CASE RouteCreate(c)
  <2>1. Op(c) = "create"
    BY <1>5 DEF RouteCreate
  <2>2. Goto(c, "readVpc") => \E to : Moves(c, to)
    BY <1>1, <2>1, GotoMoves DEF Steps, Inserting
  <2>3. ASSUME NEW n \in Node, Forward(c, n), c[2] = 0
        PROVE  Asks(c, n, {})
    BY <1>1, <2>1, <2>3 DEF Asks, Forward
  <2> QED
    BY <1>2, <1>5, <2>2, <2>3 DEF RouteCreate, Serve, GoesOn
<1>6. CASE RouteOwner(c)
  <2> DEFINE v == req[c[1]].vm
  <2>1. Op(c) \in {"get", "delete"} /\ v \in Born /\ vm[v].node \in Node
    BY <1>1, <1>2, <1>6 DEF RouteOwner, ReferencesExist, Op
  <2>2. Goto(c, "dropVm") /\ Op(c) # "get" => \E to : Moves(c, to)
    BY <1>1, <2>1, GotoMoves DEF Steps, Inserting
  <2>3. ASSUME vm[v].node # c[3], Forward(c, vm[v].node)
        PROVE  Asks(c, vm[v].node, {})
    <3>1. c[2] # 1 /\ c[2] # 2
      BY <1>1, <2>1, <2>3 DEF Arrived, OneHop
    <3> QED
      BY <1>1, <1>2, <2>1, <2>3, <3>1 DEF Asks, Forward
  <2> HIDE DEF v
  <2>4. \/ End(c)
        \/ vm[v].node # c[3] /\ Forward(c, vm[v].node)
        \/ Goto(c, "dropVm") /\ Op(c) # "get"
    BY <1>6 DEF RouteOwner, v
  <2> QED
    BY <1>3, <2>2, <2>3, <2>4 DEF GoesOn
<1>7. CASE RouteList(c)
  <2> DEFINE owners == {vm[v].node : v \in {w \in Vm : Present(w)}} \ {c[3]}
  <2>1. Op(c) = "list"
    BY <1>7 DEF RouteList
  <2>2. owners \in SUBSET Node
    BY <1>1 DEF ReferencesExist, Born, Present
  <2> HIDE DEF owners
  <2>3. ASSUME NEW n \in owners, Ask(c, n, owners \ {n}), ~Marked(c)
        PROVE  Asks(c, n, owners \ {n})
    BY <1>1, <1>2, <2>1, <2>2, <2>3 DEF Asks, Marked
  <2>4. End(c) \/ (~Marked(c) /\ \E n \in owners : Ask(c, n, owners \ {n}))
    BY <1>7 DEF RouteList, owners
  <2> QED
    BY <1>3, <2>3, <2>4 DEF GoesOn
<1> QED
  BY <1>4, <1>5, <1>6, <1>7
LEMMA EndingsGoOn ==
  ASSUME Rest, NEW c \in Live, Timeout(c) \/ BringUp(c) \/ DropVm(c) \/ InsertVpc(c) \/ Raise(c)
  PROVE  \E to : Moves(c, to)
<1>1. RowsOK /\ req' = req /\ End(c) /\ c \in Call /\ call[c].st # "none"
  BY DEF Rest, Shape, Timeout, BringUp, DropVm, InsertVpc, Raise, Tables, Live
<1> QED
  BY <1>1, EndMoves

LEMMA DefaultGoesOn ==
  ASSUME Rest, NEW c \in Call, ReadDefault(c) \/ InsertDefault(c) \/ RereadDefault(c)
  PROVE  \E to : Moves(c, to)
<1>1. /\ RowsOK /\ ReferencesExist /\ Fits(c) /\ IntoDefault /\ req' = req /\ vm' = vm
      /\ call[c].st \in {"readDefault", "insertDefault", "rereadDefault"}
  BY DEF Rest, Shape, StepsFit, ReadDefault, InsertDefault, RereadDefault, At, Tables
<1>2. Op(c) = "spawn" /\ call[c].st \in Inserting
  BY <1>1 DEF Fits, Inserting
<1>3. End(c) => \E to : Moves(c, to)
  BY <1>1, EndMoves
<1>4. ASSUME NEW x \in Default, vpc' = vpc, UseVpc(c, x)
      PROVE  \E to : Moves(c, to)
  BY <1>1, <1>2, <1>4, UseVpcMoves DEF Default
<1>5. ASSUME NEW x \in Vpc, vpc' = [vpc EXCEPT ![x].st = "default"], UseVpc(c, x)
      PROVE  \E to : Moves(c, to)
  <2>1. vpc'[x].st = "default"
    BY <1>1, <1>5 DEF RowsOK, VpcRow
  <2> QED
    BY <1>1, <1>2, <1>5, <2>1, UseVpcMoves
<1>6. ASSUME NEW step \in {"insertDefault", "rereadDefault"}, vpc' = vpc, Goto(c, step)
      PROVE  \E to : Moves(c, to)
  <2>1. step \in Steps \ {"wait"} /\ Tables
    BY <1>1, <1>6 DEF Steps, Tables
  <2> QED
    BY <1>1, <1>2, <1>6, <2>1, GotoMoves
<1> QED
  BY <1>3, <1>4, <1>5, <1>6 DEF ReadDefault, InsertDefault, RereadDefault, Tables

LEMMA CreateGoesOn ==
  ASSUME Rest, NEW c \in Call, ReadVpc(c) \/ ReadIps(c) \/ InsertVm(c)
  PROVE  \E to : Moves(c, to)
<1>1. /\ RowsOK /\ ReferencesExist /\ Fits(c) /\ IntoDefault /\ req' = req
      /\ call[c].st \in {"readVpc", "readIps", "insertVm"}
  BY DEF Rest, Shape, StepsFit, ReadVpc, ReadIps, InsertVm, At, Tables
<1>2. c[1] \in Req /\ call[c] \in CallRow
  BY <1>1, CallParts DEF RowsOK
<1>3. End(c) => \E to : Moves(c, to)
  BY <1>1, EndMoves
<1>4. CASE ReadVpc(c)
  <2> DEFINE x == req[c[1]].vpc
  <2>1. Op(c) = "create" /\ x \in Vpc
    BY <1>1, <1>2, <1>4 DEF ReadVpc, At, Fits, ReferencesExist, Op
  <2>2. UseVpc(c, x) => \E to : Moves(c, to)
    BY <1>1, <1>4, <2>1, UseVpcMoves DEF ReadVpc, Tables, Inserting
  <2> HIDE DEF x
  <2>3. UseVpc(c, x) \/ End(c)
    BY <1>4 DEF ReadVpc, x
  <2> QED
    BY <1>3, <2>2, <2>3
<1>5. CASE ReadIps(c)
  <2> DEFINE to == [call[c] EXCEPT !.st = "insertVm", !.seen = Members(call[c].vpc)]
  <2>1. Members(call[c].vpc) \subseteq Born /\ Members(call[c].vpc) \subseteq Vm
    BY DEF Members, Born, Present
  <2>2. /\ to \in CallRow /\ to.st = "insertVm" /\ to.vpc = call[c].vpc
        /\ to.seen \subseteq Born /\ to.owners = call[c].owners
    BY <1>2, <2>1 DEF CallRow, Steps
  <2>3. call' = [call EXCEPT ![c] = to]
    BY <1>5 DEF ReadIps, Become
  <2> HIDE DEF to
  <2>4. call'[c] = to /\ vm' = vm /\ vpc' = vpc /\ Born' = Born /\ call[c].st = "readIps"
    BY <1>1, <1>5, <2>3 DEF ReadIps, RowsOK, Tables, Born, At
  <2>5. Fits(c)'
    BY <1>1, <2>2, <2>4 DEF Fits, Op
  <2>6. Op(c) = "spawn" => vpc'[to.vpc].st \in {"default", "deleted"}
    BY <2>2, <2>4 DEF Rest, IntoDefault
  <2> QED
    BY <1>1, <2>2, <2>3, <2>4, <2>5, <2>6 DEF Moves, Inserting
<1>6. CASE InsertVm(c)
  <2>1. Goto(c, "bringUp") => \E to : Moves(c, to)
    <3>1. SUFFICES ASSUME Goto(c, "bringUp")
                   PROVE  \E to : Moves(c, to)
      OBVIOUS
    <3>2. "bringUp" \in Steps
      BY DEF Steps
    <3>3. PICK to \in CallRow : /\ call' = [call EXCEPT ![c] = to] /\ to.st = "bringUp"
                                /\ to.seen = call[c].seen /\ to.owners = call[c].owners
      BY <1>1, <3>1, <3>2, GotoRow
    <3>4. call'[c] = to
      BY <1>1, <3>3 DEF RowsOK
    <3>5. Fits(c)'
      BY <3>3, <3>4 DEF Fits
    <3>6. Born \subseteq Born'
      BY <1>1, <1>6 DEF InsertVm, Born, RowsOK
    <3>7. to.seen \subseteq Born'
      BY <1>1, <3>3, <3>6 DEF ReferencesExist
    <3> QED
      BY <1>1, <3>3, <3>4, <3>5, <3>7 DEF Moves, Inserting
  <2> QED
    BY <1>3, <1>6, <2>1 DEF InsertVm
<1> QED
  BY <1>4, <1>5, <1>6

LEMMA VpcGoesOn ==
  ASSUME Rest, NEW c \in Call, CheckVpc(c) \/ DropVpc(c)
  PROVE  \E to : Moves(c, to)
<1>1. /\ RowsOK /\ ReferencesExist /\ Fits(c) /\ IntoDefault /\ req' = req
      /\ call[c].st \in {"checkVpc", "dropVpc"} /\ Op(c) = "deleteVpc"
  BY DEF Rest, Shape, StepsFit, CheckVpc, DropVpc, At, Tables, Fits
<1>2. c[1] \in Req /\ call[c] \in CallRow
  BY <1>1, CallParts DEF RowsOK
<1>3. End(c) => \E to : Moves(c, to)
  BY <1>1, EndMoves
<1>4. CASE CheckVpc(c) /\ ~End(c)
  <2> DEFINE present == {v \in Vm : Present(v)}
             to == [call[c] EXCEPT !.st = "dropVpc", !.seen = present]
  <2>1. present \subseteq Born /\ present \subseteq Vm
    BY DEF Born, Present
  <2>2. to \in CallRow /\ to.st = "dropVpc" /\ to.seen = present /\ to.owners = call[c].owners
    BY <1>2, <2>1 DEF CallRow, Steps
  <2>3. call' = [call EXCEPT ![c] = to]
    BY <1>4 DEF CheckVpc, Become
  <2>4. \A v \in present : vm[v].vpc # req[c[1]].vpc
    BY <1>4 DEF CheckVpc, Members
  <2> HIDE DEF to, present
  <2>5. call'[c] = to /\ vm' = vm /\ vpc' = vpc /\ Born' = Born
    BY <1>1, <1>4, <2>3 DEF CheckVpc, RowsOK, Tables, Born
  <2>6. Fits(c)'
    BY <1>1, <2>2, <2>5 DEF Fits, Op
  <2> QED
    BY <1>1, <2>1, <2>2, <2>3, <2>4, <2>5, <2>6 DEF Moves, Inserting
<1> QED
  BY <1>3, <1>4 DEF DropVpc, CheckVpc
-----------------------------------------------------------------------------
(* What such a move preserves.                                             *)

\* Rows of VMs are added ...
VmGrows ==
  /\ vm' \in [Vm -> VmRow]
  /\ \A v \in Born : v \in Born' /\ vm'[v].node = vm[v].node
  /\ \A v \in Vm : v \in Born' => vm'[v].node \in Node /\ vm'[v].vpc \in Vpc
  /\ \A v \in Vm : vm'[v].by # None => v \in Born' /\ req[vm'[v].by] # NoWant
  /\ \A v \in Vm : vm'[v].seen \subseteq Born'

\* ... or only marked as deleted.
VmKept ==
  /\ vm' \in [Vm -> VmRow]
  /\ \A v \in Vm : /\ vm'[v].node = vm[v].node /\ vm'[v].vpc = vm[v].vpc /\ vm'[v].ip = vm[v].ip
                   /\ vm'[v].by = vm[v].by /\ vm'[v].seen = vm[v].seen
                   /\ Present(v)' => Present(v)
                   /\ v \in Born' <=> v \in Born

VpcKept ==
  /\ vpc' \in [Vpc -> VpcRow]
  /\ \A x \in Vpc : vpc'[x].seen \subseteq Born /\ \A v \in vpc'[x].seen : vm[v].vpc # x
  /\ \A x \in Vpc : vpc[x].st \in {"default", "deleted"} => vpc'[x].st \in {"default", "deleted"}
  /\ \A x, y \in Vpc : vpc'[x].st = "default" /\ vpc'[y].st = "default" => x = y

LEMMA MoveShape ==
  ASSUME Shape, NEW c \in Call, NEW to, Moves(c, to), VmGrows, VpcKept
  PROVE  Shape'
<1>1. /\ RowsOK /\ ReferencesExist /\ StepsFit /\ OneHop /\ Arrived
      /\ call'[c] = to /\ \A d \in Call : d # c => call'[d] = call[d]
      /\ req' = req /\ Born \subseteq Born' /\ c[1] \in Req
  BY CallParts DEF Shape, Moves, RowsOK, VmGrows
<1>2. RowsOK'
  BY <1>1 DEF RowsOK, Moves, VmGrows, VpcKept
<1>3. ReferencesExist'
  <2>1. \A v \in Born' : vm'[v].node \in Node /\ vm'[v].vpc \in Vpc
    BY DEF VmGrows, Born
  <2>2. \A r \in Req : /\ req'[r].op \in {"get", "delete"} => req'[r].vm \in Born'
                       /\ req'[r].op \in {"create", "deleteVpc"} => req'[r].vpc \in Vpc
    BY <1>1 DEF ReferencesExist
  <2>3. \A d \in Call : call'[d].st # "none" => req'[d[1]] # NoWant
    BY <1>1 DEF ReferencesExist, Moves
  <2>4. \A d \in Call : call'[d].seen \subseteq Born'
    BY <1>1 DEF ReferencesExist, Moves
  <2>5. \A x \in Vpc : vpc'[x].seen \subseteq Born'
    BY <1>1 DEF VpcKept
  <2>6. \A v \in Vm : /\ vm'[v].by # None => v \in Born' /\ req'[vm'[v].by] # NoWant
                      /\ vm'[v].seen \subseteq Born'
    BY <1>1 DEF VmGrows
  <2> QED
    BY <2>1, <2>2, <2>3, <2>4, <2>5, <2>6 DEF ReferencesExist
<1>4. StepsFit'
  <2>1. ASSUME NEW d \in Call, d # c
        PROVE  Fits(d)'
    BY <1>1, <2>1 DEF StepsFit, Fits, Op
  <2> QED
    BY <2>1 DEF StepsFit, Moves
<1>5. OneHop'
  BY <1>1 DEF OneHop, Moves
<1>6. Arrived'
  <2>1. \A d \in Call : d[2] = 1 => call'[d].st # "wait"
    BY <1>1 DEF Arrived, Moves
  <2>2. \A d \in Call : call'[d].owners # {} => Op(d)' = "list"
    <3>1. \A d \in Call : Op(d)' = Op(d) /\ call'[d].owners \subseteq call[d].owners
      BY <1>1 DEF Op, Moves
    <3> QED
      BY <1>1, <3>1 DEF Arrived
  <2>3. ASSUME NEW d \in Call, d[2] = 1, call'[d].st \in {"queued", "route"}, Op(d)' \in {"get", "delete"}
        PROVE  vm'[req'[d[1]].vm].node = d[3]
    <3>1. d[1] \in Req /\ Op(d) = Op(d)'
      BY <1>1, CallParts DEF Op
    <3>2. call[d].st \in {"queued", "route"}
      BY <1>1, <2>3 DEF Moves
    <3>3. vm[req[d[1]].vm].node = d[3] /\ req[d[1]].vm \in Born
      BY <1>1, <2>3, <3>1, <3>2 DEF Arrived, ReferencesExist, Op
    <3> QED
      BY <1>1, <3>3 DEF VmGrows
  <2> QED
    BY <2>1, <2>2, <2>3 DEF Arrived
<1> QED
  BY <1>2, <1>3, <1>4, <1>5, <1>6 DEF Shape

LEMMA MoveRest ==
  ASSUME Rest, NEW c \in Call, NEW to, Moves(c, to), VmKept, VpcKept
  PROVE  Rest'
<1>1. /\ Shape /\ InsertsOnce /\ AtMostOnce /\ DuplicateOnlyInRace /\ OthersSeen /\ IntoDefault
      /\ RowsOK /\ ReferencesExist
      /\ call'[c] = to /\ \A d \in Call : d # c => call'[d] = call[d]
      /\ req' = req /\ Born = Born' /\ c[1] \in Req
  BY CallParts DEF Rest, Shape, Moves, RowsOK, VmKept, Born
<1>2. Shape'
  <2>1. VmGrows
    BY <1>1 DEF VmKept, VmGrows, ReferencesExist, Born
  <2> QED
    BY <1>1, <2>1, MoveShape
<1>3. InsertsOnce'
  <2>1. ASSUME NEW d \in Call, MayInsert(d)'
        PROVE  MayInsert(d)
    BY <1>1, <2>1 DEF MayInsert, Moves, Op
  <2> QED
    BY <1>1, <2>1 DEF InsertsOnce, VmKept
<1>4. AtMostOnce'
  BY <1>1 DEF AtMostOnce, VmKept
<1>5. DuplicateOnlyInRace'
  BY <1>1 DEF DuplicateOnlyInRace, VmKept
<1>6. OthersSeen'
  <2>1. \A d \in Call : call'[d].st = "dropVpc" => \A v \in call'[d].seen : vm'[v].vpc # req'[d[1]].vpc
    <3>1. ASSUME NEW d \in Call, d # c, call'[d].st = "dropVpc", NEW v \in call'[d].seen
          PROVE  vm'[v].vpc # req'[d[1]].vpc
      <4>1. v \in Vm
        BY <1>1, <3>1 DEF ReferencesExist, Born
      <4> QED
        BY <1>1, <3>1, <4>1 DEF OthersSeen, VmKept
    <3> QED
      BY <1>1, <3>1 DEF Moves
  <2>2. \A x \in Vpc : \A v \in vpc'[x].seen : vm'[v].vpc # x
    BY <1>1 DEF VpcKept, VmKept, Born
  <2> QED
    BY <2>1, <2>2 DEF OthersSeen
<1>7. IntoDefault'
  <2>1. \A x, y \in Default' : x = y
    BY DEF VpcKept, Default
  <2>2. ASSUME NEW d \in Call, Op(d)' = "spawn", call'[d].st \in {"readIps", "insertVm"}
        PROVE  call'[d].vpc \in Vpc /\ vpc'[call'[d].vpc].st \in {"default", "deleted"}
    <3>1. Op(d) = "spawn"
      BY <1>1, <2>2 DEF Op
    <3>2. CASE d = c
      BY <1>1, <2>2, <3>1, <3>2 DEF Moves, Fits
    <3>3. CASE d # c
      BY <1>1, <2>2, <3>1, <3>3 DEF IntoDefault, VpcKept
    <3> QED
      BY <3>2, <3>3
  <2>3. \A v \in Vm : Spawned(v)' => vm'[v].vpc \in Vpc /\ vpc'[vm'[v].vpc].st \in {"default", "deleted"}
    BY <1>1 DEF IntoDefault, VpcKept, VmKept, Spawned
  <2> QED
    BY <2>1, <2>2, <2>3 DEF IntoDefault
<1> QED
  BY <1>2, <1>3, <1>4, <1>5, <1>6, <1>7 DEF Rest

\* The rows stay, or no more than the one of a VM is marked.
LEMMA TablesKept ==
  ASSUME Rest, vm' = vm, vpc' = vpc
  PROVE  VmKept /\ VpcKept
<1>1. RowsOK /\ ReferencesExist /\ OthersSeen /\ IntoDefault
  BY DEF Rest, Shape
<1> QED
  BY <1>1 DEF RowsOK, ReferencesExist, OthersSeen, IntoDefault, VmKept, VpcKept, Born, Present, Default

\* A VM is born: it has the first address that none of the VMs seen has.
LEMMA BirthRest ==
  ASSUME Rest, NEW c \in Call, InsertVm(c), vm' # vm
  PROVE  Rest'
<1>1. /\ Shape /\ InsertsOnce /\ AtMostOnce /\ DuplicateOnlyInRace /\ OthersSeen /\ IntoDefault
      /\ RowsOK /\ ReferencesExist /\ call[c].st = "insertVm" /\ call[c] \in CallRow
      /\ req' = req /\ vpc' = vpc /\ c[1] \in Req /\ c[3] \in Node
  BY CallParts DEF Rest, Shape, InsertVm, At, RowsOK
<1>2. Op(c) \in {"spawn", "create"} /\ call[c].vpc \in Vpc /\ MayInsert(c)
  BY <1>1 DEF Shape, StepsFit, Fits, MayInsert, Inserting
<1>3. PICK to : Moves(c, to)
  BY CreateGoesOn
<1>4. PICK i \in PickIp(call[c].seen), v \in Unborn :
           vm' = [vm EXCEPT ![v] = [st |-> "present", node |-> c[3], vpc |-> call[c].vpc,
                                    ip |-> i, by |-> c[1], seen |-> call[c].seen]]
  BY DEF InsertVm
<1>5. v \in Vm /\ v \notin Born /\ i \in 0..Hosts /\ \A w \in call[c].seen : vm[w].ip # i
  BY <1>4 DEF Unborn, Born, PickIp
<1>6. /\ vm'[v].node = c[3] /\ vm'[v].vpc = call[c].vpc /\ vm'[v].ip = i
      /\ vm'[v].by = c[1] /\ vm'[v].seen = call[c].seen /\ vm'[v].st = "present"
      /\ \A w \in Vm : w # v => vm'[w] = vm[w]
      /\ vm' \in [Vm -> VmRow]
  BY <1>1, <1>2, <1>4, <1>5 DEF RowsOK, VmRow, CallRow
<1>7. Born' = Born \cup {v} /\ v \in Born' /\ req[c[1]] # NoWant /\ call[c].seen \subseteq Born
  BY <1>1, <1>5, <1>6 DEF Born, ReferencesExist
<1>8. call'[c] = to /\ to.st = "bringUp" /\ \A d \in Call : d # c => call'[d] = call[d]
  <2>1. Goto(c, "bringUp") /\ "bringUp" \in Steps
    BY <1>3, <1>4, <1>5 DEF InsertVm, Steps
  <2>2. PICK row \in CallRow : call' = [call EXCEPT ![c] = row] /\ row.st = "bringUp"
    BY <1>1, <2>1, GotoRow
  <2>3. call'[c] = row
    BY <1>1, <2>2 DEF RowsOK
  <2>4. call'[c] = to /\ \A d \in Call : d # c => call'[d] = call[d]
    BY <1>1, <1>3 DEF Moves, RowsOK
  <2> QED
    BY <2>2, <2>3, <2>4
<1>9. Shape'
  <2>1. VmGrows
    <3>1. \A w \in Born : w \in Born' /\ vm'[w].node = vm[w].node
      BY <1>5, <1>6, <1>7 DEF Born
    <3>2. \A w \in Vm : w \in Born' => vm'[w].node \in Node /\ vm'[w].vpc \in Vpc
      BY <1>1, <1>2, <1>6, <1>7 DEF ReferencesExist
    <3>3. \A w \in Vm : vm'[w].by # None => w \in Born' /\ req[vm'[w].by] # NoWant
      BY <1>1, <1>6, <1>7 DEF ReferencesExist
    <3>4. \A w \in Vm : vm'[w].seen \subseteq Born'
      BY <1>1, <1>6, <1>7 DEF ReferencesExist
    <3> QED
      BY <1>6, <3>1, <3>2, <3>3, <3>4 DEF VmGrows
  <2>2. VpcKept
    BY <1>1 DEF VpcKept, RowsOK, ReferencesExist, OthersSeen, IntoDefault, Default
  <2> QED
    BY <1>1, <1>3, <2>1, <2>2, MoveShape
<1>10. InsertsOnce'
  <2>1. ASSUME NEW d \in Call, MayInsert(d)'
        PROVE  MayInsert(d) /\ d # c
    <3>1. Op(d)' = Op(d)
      BY <1>1 DEF Op
    <3>2. d # c
      BY <1>8, <2>1 DEF MayInsert, Inserting
    <3> QED
      BY <1>8, <2>1, <3>1, <3>2 DEF MayInsert
  <2>2. \A d, e \in Call : d[1] = e[1] /\ MayInsert(d)' /\ MayInsert(e)' => d = e
    BY <1>1, <2>1 DEF InsertsOnce
  <2>3. \A d \in Call, w \in Vm : MayInsert(d)' => vm'[w].by # d[1]
    BY <1>1, <1>2, <1>6, <2>1 DEF InsertsOnce
  <2> QED
    BY <2>2, <2>3 DEF InsertsOnce
<1>11. AtMostOnce'
  <2>1. \A w \in Vm : w # v => vm[w].by # c[1]
    BY <1>1, <1>2 DEF InsertsOnce
  <2> QED
    BY <1>1, <1>6, <2>1 DEF AtMostOnce
<1>12. DuplicateOnlyInRace'
  <2>1. ASSUME NEW w \in Vm, w # v, vm'[w].ip = i
        PROVE  v \notin vm'[w].seen /\ w \notin vm'[v].seen
    BY <1>1, <1>5, <1>6, <2>1 DEF ReferencesExist
  <2>2. \A w \in Vm : w # v => Present(w)' = Present(w)
    BY <1>6 DEF Present
  <2> QED
    BY <1>1, <1>6, <2>1, <2>2 DEF DuplicateOnlyInRace
<1>13. OthersSeen'
  <2>1. \A d \in Call : call'[d].st = "dropVpc" => \A w \in call'[d].seen : vm'[w].vpc # req'[d[1]].vpc
    BY <1>1, <1>5, <1>6, <1>8 DEF OthersSeen, ReferencesExist, Born
  <2>2. \A x \in Vpc : \A w \in vpc'[x].seen : vm'[w].vpc # x
    BY <1>1, <1>5, <1>6 DEF OthersSeen, ReferencesExist, Born
  <2> QED
    BY <2>1, <2>2 DEF OthersSeen
<1>14. IntoDefault'
  <2>1. \A x, y \in Default' : x = y
    BY <1>1 DEF IntoDefault, Default
  <2>2. \A d \in Call : Op(d)' = "spawn" /\ call'[d].st \in {"readIps", "insertVm"}
                          => call'[d].vpc \in Vpc /\ vpc'[call'[d].vpc].st \in {"default", "deleted"}
    BY <1>1, <1>8 DEF IntoDefault, Op
  <2>3. ASSUME NEW w \in Vm, Spawned(w)'
        PROVE  vm'[w].vpc \in Vpc /\ vpc'[vm'[w].vpc].st \in {"default", "deleted"}
    <3>1. CASE w = v
      BY <1>1, <1>6, <2>3, <3>1 DEF IntoDefault, Spawned, Op
    <3>2. CASE w # v
      BY <1>1, <1>6, <2>3, <3>2 DEF IntoDefault, Spawned
    <3> QED
      BY <3>1, <3>2
  <2> QED
    BY <2>1, <2>2, <2>3 DEF IntoDefault
<1> QED
  BY <1>9, <1>10, <1>11, <1>12, <1>13, <1>14 DEF Rest

\* The other handlers that write to the tables.
LEMMA WritesKept ==
  ASSUME Rest, NEW c \in Call, InsertDefault(c) \/ DropVm(c) \/ InsertVpc(c) \/ DropVpc(c)
  PROVE  VmKept /\ VpcKept
<1>1. RowsOK /\ ReferencesExist /\ Fits(c) /\ OthersSeen /\ IntoDefault /\ c[1] \in Req
  BY CallParts DEF Rest, Shape, StepsFit
<1>2. vm' = vm => VmKept
  BY <1>1 DEF RowsOK, VmKept, Born, Present
<1>3. vpc' = vpc => VpcKept
  BY <1>1, TablesKept DEF RowsOK, ReferencesExist, OthersSeen, IntoDefault, VpcKept, Default
<1>4. CASE DropVm(c)
  <2> DEFINE v == req[c[1]].vm
  <2>1. v \in Born
    BY <1>1, <1>4 DEF DropVm, At, Fits, Op, ReferencesExist
  <2>2. vm' = [vm EXCEPT ![v].st = "deleted"] /\ vpc' = vpc
    BY <1>4 DEF DropVm
  <2> HIDE DEF v
  <2>3. VmKept
    BY <1>1, <2>1, <2>2 DEF RowsOK, VmRow, VmKept, Born, Present
  <2> QED
    BY <1>3, <2>2, <2>3
<1>5. ASSUME NEW x \in Vpc, NEW st \in {"default", "other"}, vpc[x].st = "unborn",
             st = "default" => Default = {},
             vpc' = [vpc EXCEPT ![x].st = st]
      PROVE  VpcKept
  BY <1>1, <1>5 DEF RowsOK, VpcRow, ReferencesExist, OthersSeen, IntoDefault, VpcKept, Default
<1>6. CASE InsertDefault(c)
  <2>1. vm' = vm
    BY <1>6 DEF InsertDefault
  <2>2. vpc' # vpc => \E x \in Vpc : /\ vpc[x].st = "unborn" /\ Default = {}
                                     /\ vpc' = [vpc EXCEPT ![x].st = "default"]
    BY <1>6 DEF InsertDefault
  <2> QED
    BY <1>2, <1>3, <1>5, <2>1, <2>2
<1>7. CASE InsertVpc(c)
  BY <1>2, <1>3, <1>5, <1>7 DEF InsertVpc
<1>8. CASE DropVpc(c)
  <2> DEFINE x == req[c[1]].vpc
  <2>1. /\ Op(c) = "deleteVpc" /\ x \in Vpc /\ vm' = vm /\ call[c].seen \subseteq Born /\ Born \subseteq Vm
        /\ \A v \in call[c].seen : vm[v].vpc # x
    BY <1>1, <1>8 DEF DropVpc, At, Fits, Op, ReferencesExist, OthersSeen, Born
  <2>2. vpc' # vpc => vpc' = [vpc EXCEPT ![x] = [st |-> "deleted", seen |-> call[c].seen]]
    BY <1>8 DEF DropVpc
  <2> HIDE DEF x
  <2>3. vpc' = [vpc EXCEPT ![x] = [st |-> "deleted", seen |-> call[c].seen]] => VpcKept
    BY <1>1, <2>1 DEF RowsOK, VpcRow, ReferencesExist, OthersSeen, IntoDefault, VpcKept, Default
  <2> QED
    BY <1>2, <1>3, <2>1, <2>2, <2>3
<1> QED
  BY <1>4, <1>6, <1>7, <1>8

-----------------------------------------------------------------------------
(* Calls of one node to another.                                           *)

\* A forward takes along what the caller may still do.
LEMMA AskRest ==
  ASSUME Rest, NEW c \in Call, NEW n, NEW rest, Asks(c, n, rest)
  PROVE  Rest'
<1> DEFINE sub == Sub(c, n)
<1>1. /\ Shape /\ InsertsOnce /\ AtMostOnce /\ DuplicateOnlyInRace /\ OthersSeen /\ IntoDefault /\ RowsOK
      /\ vm' = vm /\ vpc' = vpc /\ req' = req /\ call[c].st = "route" /\ n \in Node /\ rest \in SUBSET Node
      /\ Ask(c, n, rest)
  BY DEF Rest, Shape, Asks, Tables
<1>2. Shape'
  BY <1>1, AskShape DEF Asks
<1>3. /\ sub \in Call /\ sub # c /\ sub[1] = c[1]
      /\ call'[sub] = Queued
      /\ call'[c].st = "wait"
      /\ \A d \in Call : d # c /\ d # sub => call'[d] = call[d]
  <2>1. call[c] \in CallRow
    BY <1>1 DEF RowsOK
  <2>2. Waiting(call[c], n, rest).st = "wait"
    BY <2>1 DEF Waiting, CallRow
  <2> QED
    BY <1>1, <2>2, AskCall
<1> HIDE DEF sub
<1>4. \A d \in Call : Op(d)' = Op(d)
  BY <1>1 DEF Op
<1>5. InsertsOnce'
  <2>1. ~MayInsert(c)' /\ (MayInsert(sub)' => MayInsert(c))
    BY <1>1, <1>3, <1>4, RowTypes DEF MayInsert, Inserting, Op
  <2>2. \A d \in Call : d # c /\ d # sub /\ MayInsert(d)' => MayInsert(d)
    BY <1>3, <1>4 DEF MayInsert
  <2>3. \A d, e \in Call : d[1] = e[1] /\ MayInsert(d)' /\ MayInsert(e)' => d = e
    <3>1. SUFFICES ASSUME NEW d \in Call, NEW e \in Call, d[1] = e[1], MayInsert(d)', MayInsert(e)'
                   PROVE  d = e
      OBVIOUS
    <3> QED
      BY <1>1, <1>3, <2>1, <2>2, <3>1 DEF InsertsOnce
  <2>4. \A d \in Call, v \in Vm : MayInsert(d)' => vm'[v].by # d[1]
    BY <1>1, <1>3, <2>1, <2>2 DEF InsertsOnce
  <2> QED
    BY <2>3, <2>4 DEF InsertsOnce
<1>6. AtMostOnce' /\ DuplicateOnlyInRace'
  BY <1>1 DEF AtMostOnce, DuplicateOnlyInRace, Present
<1>7. OthersSeen'
  BY <1>1, <1>3, RowTypes DEF OthersSeen
<1>8. IntoDefault'
  <2>1. \A d \in Call : call'[d].st \in {"readIps", "insertVm"} => call'[d] = call[d]
    BY <1>3, RowTypes
  <2> QED
    BY <1>1, <1>4, <2>1 DEF IntoDefault, Default, Spawned
<1> QED
  BY <1>2, <1>5, <1>6, <1>7, <1>8 DEF Rest

\* What a call may be after an answer: itself, over, waiting for the next owner,
\* forgotten, or in the queue of that owner.
Answered(c, d) ==
  \/ call'[d] = call[d]
  \/ d = c /\ call'[d] = Over
  \/ /\ d = c /\ call'[d] \in CallRow
     /\ call'[d].st = "wait" /\ call'[d].to \in Node
     /\ call'[d].owners \subseteq call[d].owners /\ call'[d].seen = call[d].seen
  \/ call'[d] = NoCall
  \/ call'[d] = Queued /\ d[1] = c[1] /\ d[2] = 1 /\ Op(c) = "list"

LEMMA ReturnAnswers ==
  ASSUME Rest, NEW c \in Call, Return(c)
  PROVE  c[2] = 0 /\ \A d \in Call : Answered(c, d)
<1> DEFINE sub == Sub(c, call[c].to)
<1>1. /\ RowsOK /\ Fits(c) /\ OneHop /\ Arrived /\ call[c].st = "wait" /\ call[c] \in CallRow
      /\ c[2] \in 0..2
  BY CallParts DEF Rest, Shape, StepsFit, Return, At, RowsOK
<1>2. c[2] = 0 /\ call[c].to \in Node /\ call[c].owners \in SUBSET Node
  BY <1>1 DEF OneHop, Arrived, Fits, CallRow
<1>3. sub \in Call /\ sub # c
  BY <1>2, SubParts DEF MaxHop
<1> HIDE DEF sub
<1>4. CASE call' = [call EXCEPT ![sub] = NoCall, ![c] = Over]
  <2>1. \A d \in Call : call'[d] = IF d = c THEN Over ELSE IF d = sub THEN NoCall ELSE call[d]
    BY <1>1, <1>3, <1>4 DEF RowsOK
  <2> QED
    BY <1>2, <2>1 DEF Answered
<1>5. ASSUME NEW n \in call[c].owners,
             call' = [call EXCEPT ![sub] = NoCall, ![c] = Waiting(@, n, call[c].owners \ {n}),
                                  ![Sub(c, n)] = Queued]
      PROVE  \A d \in Call : Answered(c, d)
  <2> DEFINE rest == call[c].owners \ {n}
             next == Waiting(call[c], n, rest)
  <2>1. n \in Node /\ rest \in SUBSET Node /\ rest \subseteq call[c].owners /\ Op(c) = "list"
    BY <1>1, <1>2 DEF Arrived
  <2>2. /\ next \in CallRow /\ next.st = "wait" /\ next.to \in Node
        /\ next.owners \subseteq call[c].owners /\ next.seen = call[c].seen
    <3> HIDE DEF rest
    <3> QED
      BY <1>1, <2>1 DEF Waiting, CallRow, Steps
  <2>3. /\ Sub(c, n) \in Call /\ Sub(c, n) # c
        /\ Sub(c, n)[1] = c[1] /\ Sub(c, n)[2] = 1
    <3>1. c[2] < MaxHop /\ c[2] + 1 = 1
      BY <1>2 DEF MaxHop
    <3> QED
      BY <2>1, <3>1, SubParts
  <2>4. call' = [call EXCEPT ![sub] = NoCall, ![c] = next, ![Sub(c, n)] = Queued]
    BY <1>1, <1>3, <1>5 DEF RowsOK
  <2> HIDE DEF next
  <2>5. \A d \in Call : call'[d] = IF d = Sub(c, n) THEN Queued
                                   ELSE IF d = c THEN next
                                   ELSE IF d = sub THEN NoCall ELSE call[d]
    BY <1>1, <1>3, <2>3, <2>4 DEF RowsOK
  <2> QED
    BY <2>1, <2>2, <2>3, <2>5 DEF Answered
<1> QED
  BY <1>2, <1>4, <1>5 DEF Return, sub

LEMMA ReturnRest ==
  ASSUME Rest, NEW c \in Call, Return(c)
  PROVE  Rest'
<1>1. /\ Shape /\ InsertsOnce /\ AtMostOnce /\ DuplicateOnlyInRace /\ OthersSeen /\ IntoDefault
      /\ RowsOK /\ ReferencesExist /\ StepsFit /\ OneHop /\ Arrived
      /\ vm' = vm /\ vpc' = vpc /\ req' = req /\ call[c].st = "wait" /\ c[1] \in Req
      /\ Born' = Born
  BY CallParts DEF Rest, Shape, Return, At, Tables, Born
<1>2. /\ \A d \in Call : d[1] \in Req /\ Op(d)' = Op(d)
      /\ \A d \in Call : Answered(c, d)
      /\ c[2] = 0
  BY <1>1, ReturnAnswers, CallParts DEF Op
<1>3. RowsOK'
  <2>1. \A d \in Call : call'[d] \in CallRow
    BY <1>1, <1>2, RowTypes DEF Answered, RowsOK
  <2>2. call' = [d \in Call |-> call'[d]]
    BY <1>1 DEF Return, RowsOK
  <2> QED
    BY <1>1, <2>1, <2>2 DEF RowsOK
<1>4. ReferencesExist'
  <2>1. \A d \in Call : /\ call'[d].st # "none" => req[d[1]] # NoWant
                        /\ call'[d].seen \subseteq Born
    BY <1>1, <1>2, RowTypes DEF ReferencesExist, Answered
  <2> QED
    BY <1>1, <2>1 DEF ReferencesExist
<1>5. StepsFit'
  <2>1. ASSUME NEW d \in Call
        PROVE  Fits(d)'
    <3>1. CASE call'[d] = call[d]
      BY <1>1, <1>2, <3>1 DEF StepsFit, Fits
    <3>2. CASE call'[d].st = "wait" /\ call'[d].to \in Node
      BY <3>2 DEF Fits
    <3>3. CASE call'[d].st \in {"over", "none", "queued"}
      BY <3>3 DEF Fits
    <3> QED
      BY <1>2, <3>1, <3>2, <3>3, RowTypes DEF Answered
  <2> QED
    BY <2>1 DEF StepsFit
<1>6. OneHop' /\ Arrived'
  <2>1. \A d \in Call : d[2] > 1 => call'[d].st = "none"
    BY <1>1, <1>2, RowTypes DEF OneHop, Answered
  <2>2. \A d \in Call : d[2] = 1 => call'[d].st # "wait"
    BY <1>1, <1>2, RowTypes DEF Arrived, Answered
  <2>3. \A d \in Call : d[2] = 1 /\ call'[d].st \in {"queued", "route"} /\ Op(d) \in {"get", "delete"}
                          => vm[req[d[1]].vm].node = d[3]
    BY <1>1, <1>2, RowTypes DEF Arrived, Answered, Op
  <2>4. \A d \in Call : call'[d].owners # {} => Op(d) = "list"
    BY <1>1, <1>2, RowTypes DEF Arrived, Answered
  <2> QED
    BY <1>1, <1>2, <2>1, <2>2, <2>3, <2>4 DEF OneHop, Arrived
<1>7. InsertsOnce'
  <2>1. ASSUME NEW d \in Call, MayInsert(d)'
        PROVE  MayInsert(d)
    <3>1. call'[d].st \in {"queued", "route"} \cup Inserting /\ Op(d) \in {"spawn", "create"}
      BY <1>2, <2>1 DEF MayInsert
    <3>2. call'[d] = call[d]
      BY <1>2, <3>1, RowTypes DEF Answered, Inserting, Op
    <3> QED
      BY <3>1, <3>2 DEF MayInsert
  <2> QED
    BY <1>1, <2>1 DEF InsertsOnce
<1>8. AtMostOnce' /\ DuplicateOnlyInRace'
  BY <1>1 DEF AtMostOnce, DuplicateOnlyInRace, Present
<1>9. OthersSeen'
  <2>1. \A d \in Call : call'[d].st = "dropVpc" => call'[d] = call[d]
    BY <1>2, RowTypes DEF Answered
  <2> QED
    BY <1>1, <2>1 DEF OthersSeen
<1>10. IntoDefault'
  <2>1. \A d \in Call : call'[d].st \in {"readIps", "insertVm"} => call'[d] = call[d]
    BY <1>2, RowTypes DEF Answered
  <2> QED
    BY <1>1, <1>2, <2>1 DEF IntoDefault, Default, Spawned
<1> QED
  BY <1>3, <1>4, <1>5, <1>6, <1>7, <1>8, <1>9, <1>10 DEF Rest, Shape

-----------------------------------------------------------------------------
(* Requests of clients.                                                    *)

LEMMA SendRest ==
  ASSUME Rest, NEW r \in Req, NEW n \in Node, Send(r, n)
  PROVE  Rest'
<1> DEFINE c == <<r, 0, n>>
<1>1. /\ Shape /\ InsertsOnce /\ AtMostOnce /\ DuplicateOnlyInRace /\ OthersSeen /\ IntoDefault
      /\ RowsOK /\ ReferencesExist /\ StepsFit /\ OneHop /\ Arrived
      /\ vm' = vm /\ vpc' = vpc /\ Born' = Born /\ req[r] = NoWant
  BY DEF Rest, Shape, Send, Born
<1>2. c \in Call /\ c[1] = r /\ c[2] = 0
  BY DEF Call, MaxHop
<1>3. PICK w \in Want : /\ w.op # "none"
                        /\ (w.vm = None) <=> (w.op \notin {"get", "delete"})
                        /\ (w.vpc = None) <=> (w.op \notin {"create", "deleteVpc"})
                        /\ w.vm # None => vm[w.vm].st # "unborn"
                        /\ req' = [req EXCEPT ![r] = w]
  BY DEF Send
<1>4. /\ w # NoWant
      /\ w.op \in {"get", "delete"} => w.vm \in Born
      /\ w.op \in {"create", "deleteVpc"} => w.vpc \in Vpc
  BY <1>3 DEF Want, NoWant, Born
<1> HIDE DEF c
<1>5. call' = [call EXCEPT ![c] = Queued]
  BY DEF Send, c
<1>6. /\ call'[c] = Queued /\ \A d \in Call : d # c => call'[d] = call[d]
      /\ req'[r] = w /\ \A q \in Req : q # r => req'[q] = req[q]
  BY <1>1, <1>2, <1>3, <1>5 DEF RowsOK
<1>7. \A d \in Call : d[1] \in Req /\ (d[1] = r => call[d].st = "none") /\ (d[1] # r => Op(d)' = Op(d))
  BY <1>1, <1>6, CallParts DEF ReferencesExist, Op
<1>8. \A v \in Vm : vm[v].by # r
  BY <1>1 DEF ReferencesExist
<1>9. \A d \in Call : \/ d[1] # r /\ call'[d] = call[d]
                      \/ d = c
                      \/ d[1] = r /\ call'[d] = call[d] /\ call[d].st = "none"
  BY <1>6, <1>7
<1>10. RowsOK'
  BY <1>1, <1>2, <1>3, <1>5, RowTypes DEF RowsOK
<1>11. ReferencesExist'
  <2>1. \A q \in Req : /\ req'[q].op \in {"get", "delete"} => req'[q].vm \in Born
                       /\ req'[q].op \in {"create", "deleteVpc"} => req'[q].vpc \in Vpc
                       /\ req[q] # NoWant => req'[q] # NoWant
    BY <1>1, <1>4, <1>6 DEF ReferencesExist
  <2>2. \A d \in Call : /\ call'[d].st # "none" => req'[d[1]] # NoWant
                        /\ call'[d].seen \subseteq Born
    BY <1>1, <1>2, <1>4, <1>6, <1>7, <1>9, RowTypes DEF ReferencesExist
  <2>3. \A v \in Vm : vm[v].by # None => vm[v].by \in Req
    BY <1>1 DEF RowsOK, VmRow
  <2> QED
    BY <1>1, <2>1, <2>2, <2>3 DEF ReferencesExist
<1>12. StepsFit'
  <2>1. ASSUME NEW d \in Call
        PROVE  Fits(d)'
    <3>1. CASE d[1] # r /\ call'[d] = call[d]
      BY <1>1, <1>7, <3>1 DEF StepsFit, Fits
    <3>2. CASE call'[d].st \in {"none", "queued"}
      BY <3>2 DEF Fits
    <3> QED
      BY <1>6, <1>9, <3>1, <3>2, RowTypes
  <2> QED
    BY <2>1 DEF StepsFit
<1>13. OneHop' /\ Arrived'
  <2>1. \A d \in Call : d[2] > 0 => \/ call'[d] = call[d] /\ d[1] # r
                                    \/ call'[d] = call[d] /\ call[d].st = "none"
    BY <1>2, <1>9
  <2>2. OneHop'
    BY <1>1, <2>1, CallParts DEF OneHop
  <2>3. \A d \in Call : call'[d].owners # {} => Op(d)' = "list"
    <3>1. \A d \in Call : call[d].owners # {} => d[1] # r \/ d = c
      BY <1>1, <1>7 DEF Arrived, Op, NoWant
    <3> QED
      BY <1>1, <1>6, <1>7, <1>9, <3>1, RowTypes DEF Arrived
  <2>4. \A d \in Call : d[2] = 1 => call'[d].st # "wait"
    BY <1>1, <2>1 DEF Arrived
  <2>5. ASSUME NEW d \in Call, d[2] = 1, call'[d].st \in {"queued", "route"}, Op(d)' \in {"get", "delete"}
        PROVE  vm'[req'[d[1]].vm].node = d[3]
    <3>1. d[1] # r /\ call'[d] = call[d]
      BY <2>1, <2>5
    <3>2. Op(d) = Op(d)' /\ req'[d[1]] = req[d[1]]
      BY <1>6, <1>7, <3>1
    <3> QED
      BY <1>1, <2>5, <3>1, <3>2 DEF Arrived
  <2> QED
    BY <2>2, <2>3, <2>4, <2>5 DEF Arrived
<1>14. InsertsOnce'
  <2>1. ASSUME NEW d \in Call, MayInsert(d)'
        PROVE  d = c \/ (d[1] # r /\ MayInsert(d))
    <3>1. call'[d].st # "none" /\ call'[d].st \in {"queued", "route"} \cup Inserting /\ Op(d)' \in {"spawn", "create"}
      BY <2>1 DEF MayInsert, Inserting
    <3> QED
      BY <1>7, <1>9, <3>1 DEF MayInsert
  <2>2. \A d, e \in Call : d[1] = e[1] /\ MayInsert(d)' /\ MayInsert(e)' => d = e
    BY <1>1, <1>2, <2>1 DEF InsertsOnce
  <2>3. \A d \in Call, v \in Vm : MayInsert(d)' => vm[v].by # d[1]
    BY <1>1, <1>2, <1>8, <2>1 DEF InsertsOnce
  <2> QED
    BY <1>1, <2>2, <2>3 DEF InsertsOnce
<1>15. AtMostOnce' /\ DuplicateOnlyInRace'
  BY <1>1 DEF AtMostOnce, DuplicateOnlyInRace, Present
<1>16. OthersSeen'
  <2>1. \A d \in Call : call'[d].st = "dropVpc" => call'[d] = call[d] /\ d[1] # r
    BY <1>6, <1>9, RowTypes
  <2>2. \A d \in Call : d[1] # r => req'[d[1]] = req[d[1]]
    BY <1>6, <1>7
  <2> QED
    BY <1>1, <2>1, <2>2 DEF OthersSeen
<1>17. IntoDefault'
  <2>1. \A d \in Call : call'[d].st \in {"readIps", "insertVm"} => call'[d] = call[d] /\ Op(d)' = Op(d)
    BY <1>6, <1>7, <1>9, RowTypes
  <2>2. \A v \in Vm : Spawned(v)' => Spawned(v)
    <3>1. \A v \in Vm : vm[v].by # None => vm[v].by \in Req
      BY <1>1 DEF RowsOK, VmRow
    <3> QED
      BY <1>1, <1>6, <1>8, <3>1 DEF Spawned
  <2> QED
    BY <1>1, <2>1, <2>2 DEF IntoDefault, Default
<1> QED
  BY <1>10, <1>11, <1>12, <1>13, <1>14, <1>15, <1>16, <1>17 DEF Rest, Shape

-----------------------------------------------------------------------------
(* Worker threads.                                                         *)

\* A handler frees a thread or keeps it.
LEMMA FewerBusy ==
  ASSUME WorkersOK, \A c \in Call : call'[c].st \in Steps => call[c].st \in Steps
  PROVE  WorkersOK'
<1>1. SUFFICES ASSUME NEW n \in Node
               PROVE  IsFiniteSet(Busy(n)') /\ Cardinality(Busy(n)') <= Workers
  BY DEF WorkersOK
<1>2. Busy(n)' \subseteq Busy(n)
  BY DEF Busy
<1>3. IsFiniteSet(Busy(n)) /\ Cardinality(Busy(n)) <= Workers
  BY DEF WorkersOK
<1>4. IsFiniteSet(Busy(n)') /\ Cardinality(Busy(n)') <= Cardinality(Busy(n))
  BY <1>2, <1>3, FS_Subset
<1>5. Cardinality(Busy(n)') \in Nat /\ Cardinality(Busy(n)) \in Nat
  BY <1>3, <1>4, FS_CardinalityType
<1> QED
  BY <1>3, <1>4, <1>5

\* A call that is accepted takes a free one.
LEMMA AcceptBusy ==
  ASSUME RowsOK, WorkersOK, NEW c \in Call, Accept(c)
  PROVE  WorkersOK'
<1>1. SUFFICES ASSUME NEW n \in Node
               PROVE  IsFiniteSet(Busy(n)') /\ Cardinality(Busy(n)') <= Workers
  BY DEF WorkersOK
<1>2. IsFiniteSet(Busy(n)) /\ Cardinality(Busy(n)) <= Workers /\ Cardinality(Busy(n)) \in Nat
  BY FS_CardinalityType DEF WorkersOK
<1>3. call[c].st = "queued" /\ \A d \in Call : d # c => call'[d] = call[d]
  BY DEF Accept, At, Goto, Become, RowsOK
<1>4. CASE n # c[3]
  <2>1. Busy(n)' = Busy(n)
    BY <1>3, <1>4 DEF Busy
  <2> QED
    BY <1>2, <2>1
<1>5. CASE n = c[3]
  <2>1. Busy(n)' \subseteq Busy(n) \cup {c} /\ Cardinality(Busy(n)) < Workers
    BY <1>3, <1>5 DEF Busy, Accept
  <2>2. /\ IsFiniteSet(Busy(n) \cup {c})
        /\ Cardinality(Busy(n) \cup {c}) <= Cardinality(Busy(n)) + 1
    <3>1. /\ IsFiniteSet(Busy(n) \cup {c})
          /\ Cardinality(Busy(n) \cup {c}) =
               IF c \in Busy(n) THEN Cardinality(Busy(n)) ELSE Cardinality(Busy(n)) + 1
      BY <1>2, FS_AddElement
    <3> QED
      BY <1>2, <3>1
  <2>3. /\ IsFiniteSet(Busy(n)')
        /\ Cardinality(Busy(n)') <= Cardinality(Busy(n) \cup {c})
    BY <2>1, <2>2, FS_Subset
  <2>4. Cardinality(Busy(n)') \in Nat /\ Cardinality(Busy(n) \cup {c}) \in Nat
    BY <2>2, <2>3, FS_CardinalityType
  <2> QED
    BY <1>2, <2>1, <2>2, <2>3, <2>4
<1> QED
  BY <1>4, <1>5

-----------------------------------------------------------------------------
(* The inductive invariant.                                                *)

LEMMA InitRest == Init => Rest
<1>1. SUFFICES ASSUME Init
               PROVE  Rest
  OBVIOUS
<1>2. call = [c \in Call |-> NoCall] /\ req = [r \in Req |-> NoWant] /\ \A c \in Call : c[1] \in Req
  BY <1>1, CallParts DEF Init
<1>3. PICK st \in {"unborn", "default"} :
        vpc = [x \in Vpc |-> [st |-> IF x = First THEN st ELSE "unborn", seen |-> {}]]
  BY <1>1 DEF Init
<1>4. PICK old \in SUBSET (IF Default = {} THEN {} ELSE Vm) :
        \E at \in [old -> Node], ip \in [old -> 2..Hosts] :
          /\ \A v, w \in old : ip[v] = ip[w] => v = w
          /\ vm = [v \in Vm |-> IF v \in old THEN Old(at[v], ip[v]) ELSE NoVm]
  BY <1>1 DEF Init
<1>5. PICK at \in [old -> Node], ip \in [old -> 2..Hosts] :
        /\ \A v, w \in old : ip[v] = ip[w] => v = w
        /\ vm = [v \in Vm |-> IF v \in old THEN Old(at[v], ip[v]) ELSE NoVm]
  BY <1>4
<1>6. old # {} => First \in Vpc /\ vpc[First].st = "default"
  BY <1>3 DEF Default
<1>7. \A v \in Vm : /\ vm[v] \in VmRow /\ vm[v].by = None /\ vm[v].seen = {}
                    /\ v \in Born => vm[v].node \in Node /\ vm[v].vpc \in Vpc
  <2>1. NoVm \in VmRow /\ NoVm.by = None /\ NoVm.seen = {} /\ NoVm.st = "unborn"
    BY DEF NoVm, VmRow
  <2>2. ASSUME NEW n \in Node, NEW i \in 2..Hosts, First \in Vpc
        PROVE  /\ Old(n, i) \in VmRow /\ Old(n, i).by = None /\ Old(n, i).seen = {}
               /\ Old(n, i).node = n /\ Old(n, i).vpc = First
    <3>1. i \in 0..Hosts
      OBVIOUS
    <3> QED
      BY <2>1, <2>2, <3>1 DEF Old, VmRow
  <2>3. ASSUME NEW v \in Vm
        PROVE  /\ vm[v] \in VmRow /\ vm[v].by = None /\ vm[v].seen = {}
               /\ vm[v].st # "unborn" => vm[v].node \in Node /\ vm[v].vpc \in Vpc
    <3>1. CASE v \in old
      <4>1. vm[v] = Old(at[v], ip[v]) /\ at[v] \in Node /\ ip[v] \in 2..Hosts /\ First \in Vpc
        BY <1>5, <1>6, <3>1
      <4> QED
        BY <2>2, <4>1
    <3>2. CASE v \notin old
      BY <1>5, <2>1, <3>2
    <3> QED
      BY <3>1, <3>2
  <2> QED
    BY <2>3 DEF Born
<1>8. \A x \in Vpc : vpc[x] \in VpcRow /\ vpc[x].seen = {} /\ vpc[x].st \in {"unborn", "default"}
  BY <1>3 DEF VpcRow
<1>9. RowsOK
  <2>1. NoWant \in Want
    BY DEF NoWant, Want
  <2>2. vm = [v \in Vm |-> vm[v]] /\ vpc = [x \in Vpc |-> vpc[x]]
    BY <1>3, <1>5
  <2> QED
    BY <1>2, <1>7, <1>8, <2>1, <2>2, RowTypes DEF RowsOK
<1>10. Shape
  <2>1. \A r \in Req : req[r].op = "none"
    BY <1>2 DEF NoWant
  <2>2. ReferencesExist
    BY <1>2, <1>7, <1>8, <2>1, RowTypes DEF ReferencesExist, Born
  <2>3. StepsFit /\ OneHop /\ Arrived
    BY <1>2, RowTypes DEF StepsFit, Fits, OneHop, Arrived
  <2> QED
    BY <1>9, <2>2, <2>3 DEF Shape
<1>11. InsertsOnce /\ AtMostOnce /\ DuplicateOnlyInRace /\ OthersSeen
  BY <1>2, <1>7, <1>8, RowTypes DEF InsertsOnce, MayInsert, Inserting, AtMostOnce, DuplicateOnlyInRace, OthersSeen
<1>12. IntoDefault
  BY <1>2, <1>3, <1>7, RowTypes DEF IntoDefault, Default, Spawned
<1> QED
  BY <1>10, <1>11, <1>12 DEF Rest

LEMMA InitWorkers == Init => WorkersOK
<1>1. SUFFICES ASSUME Init, NEW n \in Node
               PROVE  IsFiniteSet(Busy(n)) /\ Cardinality(Busy(n)) <= Workers
  BY DEF WorkersOK
<1>2. call = [c \in Call |-> NoCall]
  BY <1>1 DEF Init
<1>3. Busy(n) = {}
  BY <1>2, RowTypes DEF Busy, Steps
<1> QED
  BY <1>3, FS_EmptySet

LEMMA NextRest ==
  ASSUME Rest, [Next]_vars
  PROVE  Rest'
<1>1. ASSUME NEW c \in Call, NEW to, Moves(c, to), VmKept, VpcKept
      PROVE  Rest'
  BY <1>1, MoveRest
<1>2. vm' = vm /\ vpc' = vpc => VmKept /\ VpcKept
  BY TablesKept
<1>3. ASSUME NEW r \in Req, NEW n \in Node, Send(r, n)
      PROVE  Rest'
  BY <1>3, SendRest
<1>4. ASSUME NEW c \in Live, Handle(c) \/ Raise(c)
      PROVE  Rest'
  <2>1. c \in Call
    BY DEF Live
  <2>2. CASE Accept(c)
    BY <1>1, <1>2, <2>1, <2>2, AcceptGoesOn DEF Accept, Tables
  <2>3. CASE RouteSpawn(c) \/ RouteCreate(c) \/ RouteOwner(c) \/ RouteList(c)
    <3>1. vm' = vm /\ vpc' = vpc
      BY <2>3 DEF RouteSpawn, RouteCreate, RouteOwner, RouteList, Tables
    <3> QED
      BY <1>1, <1>2, <2>1, <2>3, <3>1, RouteGoesOn, AskRest DEF GoesOn
  <2>4. CASE Return(c)
    BY <2>1, <2>4, ReturnRest
  <2>5. CASE Timeout(c) \/ BringUp(c) \/ Raise(c)
    <3>1. vm' = vm /\ vpc' = vpc
      BY <2>5 DEF Timeout, BringUp, Raise, Tables
    <3> QED
      BY <1>1, <1>2, <2>1, <2>5, <3>1, EndingsGoOn
  <2>6. CASE DropVm(c) \/ InsertVpc(c)
    BY <1>1, <2>1, <2>6, EndingsGoOn, WritesKept
  <2>7. CASE ReadDefault(c) \/ RereadDefault(c)
    <3>1. vm' = vm /\ vpc' = vpc
      BY <2>7 DEF ReadDefault, RereadDefault, Tables
    <3> QED
      BY <1>1, <1>2, <2>1, <2>7, <3>1, DefaultGoesOn
  <2>8. CASE InsertDefault(c)
    BY <1>1, <2>1, <2>8, DefaultGoesOn, WritesKept
  <2>9. CASE ReadVpc(c) \/ ReadIps(c)
    <3>1. vm' = vm /\ vpc' = vpc
      BY <2>9 DEF ReadVpc, ReadIps, Tables
    <3> QED
      BY <1>1, <1>2, <2>1, <2>9, <3>1, CreateGoesOn
  <2>10. CASE InsertVm(c)
    <3>1. vpc' = vpc
      BY <2>10 DEF InsertVm
    <3> QED
      BY <1>1, <1>2, <2>1, <2>10, <3>1, CreateGoesOn, BirthRest
  <2>11. CASE CheckVpc(c)
    BY <1>1, <1>2, <2>1, <2>11, VpcGoesOn DEF CheckVpc, Tables
  <2>12. CASE DropVpc(c)
    BY <1>1, <2>1, <2>12, VpcGoesOn, WritesKept
  <2> QED
    BY <1>4, <2>2, <2>3, <2>4, <2>5, <2>6, <2>7, <2>8, <2>9, <2>10, <2>11, <2>12 DEF Handle
<1>5. CASE UNCHANGED vars
  BY <1>5 DEF vars, Rest, Shape, RowsOK, ReferencesExist, Born, StepsFit, Fits, Op, OneHop, Arrived,
              InsertsOnce, MayInsert, AtMostOnce, DuplicateOnlyInRace, Present, OthersSeen,
              IntoDefault, Default, Spawned
<1> QED
  BY <1>3, <1>4, <1>5 DEF Next, Quiet
LEMMA NextWorkers ==
  ASSUME Rest, WorkersOK, [Next]_vars
  PROVE  WorkersOK'
<1> DEFINE fewer == \A d \in Call : call'[d].st \in Steps => call[d].st \in Steps
<1>1. RowsOK
  BY DEF Rest, Shape
<1>2. ASSUME NEW c \in Call, call[c].st \in Steps, NEW to, Moves(c, to)
      PROVE  fewer
  BY <1>1, <1>2 DEF RowsOK, Moves
<1>3. ASSUME NEW c \in Call, NEW n, NEW rest, Asks(c, n, rest)
      PROVE  fewer
  <2>1. n \in Node /\ rest \in SUBSET Node /\ Ask(c, n, rest) /\ call[c].st = "route"
    BY <1>3 DEF Asks
  <2>2. \A d \in Call : call'[d] = call[d] \/ call'[d] = Queued \/ d = c
    BY <1>1, <2>1, AskCall
  <2> QED
    BY <2>1, <2>2, RowTypes DEF Steps
<1>4. ASSUME NEW c \in Call, Return(c)
      PROVE  fewer
  <2>1. call[c].st = "wait" /\ \A d \in Call : Answered(c, d)
    BY <1>4, ReturnAnswers DEF Return, At
  <2> QED
    BY <2>1, RowTypes DEF Answered, Steps
<1>5. ASSUME NEW r \in Req, NEW n \in Node, Send(r, n)
      PROVE  fewer
  <2>1. \A d \in Call : call'[d] = call[d] \/ call'[d] = Queued
    BY <1>1, <1>5 DEF Send, RowsOK
  <2> QED
    BY <2>1, RowTypes DEF Steps
<1>6. ASSUME NEW c \in Call, End(c)
      PROVE  fewer
  <2>1. \A d \in Call : call'[d] = call[d] \/ call'[d] = Over
    BY <1>1, <1>6 DEF End, Become, RowsOK
  <2> QED
    BY <2>1, RowTypes DEF Steps
<1>7. ASSUME UNCHANGED vars
      PROVE  fewer
  BY <1>7 DEF vars
<1>8. ASSUME NEW c \in Live, Handle(c) \/ Raise(c)
      PROVE  fewer \/ Accept(c)
  <2>1. c \in Call
    BY DEF Live
  <2>2. CASE RouteSpawn(c) \/ RouteCreate(c) \/ RouteOwner(c) \/ RouteList(c)
    <3>1. call[c].st \in Steps
      BY <2>2 DEF RouteSpawn, RouteCreate, RouteOwner, RouteList, At, Steps
    <3> QED
      BY <1>2, <1>3, <2>1, <2>2, <3>1, RouteGoesOn DEF GoesOn
  <2>3. CASE ReadDefault(c) \/ InsertDefault(c) \/ RereadDefault(c)
    <3>1. call[c].st \in Steps
      BY <2>3 DEF ReadDefault, InsertDefault, RereadDefault, At, Steps
    <3> QED
      BY <1>2, <2>1, <2>3, <3>1, DefaultGoesOn
  <2>4. CASE ReadVpc(c) \/ ReadIps(c) \/ InsertVm(c)
    <3>1. call[c].st \in Steps
      BY <2>4 DEF ReadVpc, ReadIps, InsertVm, At, Steps
    <3> QED
      BY <1>2, <2>1, <2>4, <3>1, CreateGoesOn
  <2>5. CASE CheckVpc(c) \/ DropVpc(c)
    <3>1. call[c].st \in Steps
      BY <2>5 DEF CheckVpc, DropVpc, At, Steps
    <3> QED
      BY <1>2, <2>1, <2>5, <3>1, VpcGoesOn
  <2>6. CASE Timeout(c) \/ BringUp(c) \/ DropVm(c) \/ InsertVpc(c) \/ Raise(c)
    BY <1>6, <2>1, <2>6 DEF Timeout, BringUp, DropVm, InsertVpc, Raise
  <2>7. CASE Return(c)
    BY <1>4, <2>1, <2>7
  <2> QED
    BY <1>8, <2>2, <2>3, <2>4, <2>5, <2>6, <2>7 DEF Handle
<1>9. ASSUME NEW c \in Live, Accept(c)
      PROVE  WorkersOK'
  BY <1>1, <1>9, AcceptBusy DEF Live
<1>10. fewer => WorkersOK'
  BY FewerBusy
<1> HIDE DEF fewer
<1> QED
  BY <1>5, <1>7, <1>8, <1>9, <1>10 DEF Next, Quiet

\* Where requests are served, what they insert and which rows they go by: all
\* that the code is relied on for while nodes forward to each other, statements
\* of different nodes interleave, and connections break.
THEOREM InductiveInvariant == Spec => []IInv
<1>1. Init => Rest /\ WorkersOK
  BY InitRest, InitWorkers
<1>2. Rest /\ WorkersOK /\ [Next]_vars => (Rest /\ WorkersOK)'
  BY NextRest, NextWorkers
<1>3. Rest /\ WorkersOK => IInv
  BY DEF IInv, Rest, Shape, TypeOK
<1> QED
  BY <1>1, <1>2, <1>3, PTL DEF Spec

-----------------------------------------------------------------------------
(* What the runs check.                                                    *)

\* The tables and calls have their types, and no node has more calls under way
\* than it has threads.
THEOREM TypeCorrect == Spec => []TypeOK
<1>1. IInv => TypeOK
  BY DEF IInv
<1> QED
  BY <1>1, InductiveInvariant, PTL

\* X-Nyc-Pin and X-Nyc-Local: a forwarded request is not forwarded again.
THEOREM ForwardedOnce == Spec => []OneHop
<1>1. IInv => OneHop
  BY DEF IInv
<1> QED
  BY <1>1, InductiveInvariant, PTL

\* A request inserts at most one VM, although its forward may time out.
THEOREM InsertedOnce == Spec => []AtMostOnce
<1>1. IInv => AtMostOnce
  BY DEF IInv
<1> QED
  BY <1>1, InductiveInvariant, PTL

\* pick_ip: only VMs that were inserted side by side share an address.
THEOREM SharedInRace == Spec => []DuplicateOnlyInRace
<1>1. IInv => DuplicateOnlyInRace
  BY DEF IInv
<1> QED
  BY <1>1, InductiveInvariant, PTL

\* DELETE /vpcs: only VMs that were inserted after its check lose their VPC.
THEOREM StrandedInRace == Spec => []StrandedOnlyInRace
<1>1. IInv => StrandedOnlyInRace
  <2>1. SUFFICES ASSUME IInv, NEW v \in Vm, Present(v), v \in vpc[vm[v].vpc].seen
                 PROVE  FALSE
    BY DEF StrandedOnlyInRace
  <2>2. vm[v].vpc \in Vpc
    BY <2>1 DEF IInv, ReferencesExist, Born, Present
  <2> QED
    BY <2>1, <2>2 DEF IInv, OthersSeen
<1> QED
  BY <1>1, InductiveInvariant, PTL

\* ensure_default_vpc: spawned VMs are in one VPC, for as long as it exists.
THEOREM SpawnedTogether == Spec => []TurnkeyTogether
<1>1. IInv => TurnkeyTogether
  BY DEF IInv, IntoDefault, TurnkeyTogether, HasVpc, Default
<1> QED
  BY <1>1, InductiveInvariant, PTL
=============================================================================
