------------------------- MODULE DeviceControl_proofs -------------------------
(***************************************************************************)
(* The device control library for any number of instances and servicers,   *)
(* on either tile: the invariants of queues, tables and routes, and, from  *)
(* them, that the library implements ControlCalls.                         *)
(***************************************************************************)
EXTENDS DeviceControl, FiniteSetTheorems, SequenceTheorems, TLAPS

Entries == [servicer : Servicers, remote : BOOLEAN]

\* A command in hand has an entry in the servicer table.
Targeted ==
  \A g \in Gateways : gw[g] \in {"send", "wait"} =>
    call[g] # "special" /\ resourceTable[g][call[g]] # 0

TypeInv == GatewayTypeOK /\ TablesTypeOK /\ Targeted /\ QueuesTypeOK

-----------------------------------------------------------------------------
(***************************************************************************)
(* Lemmas about messages and tables                                        *)
(***************************************************************************)
LEMMA MessageTypes ==
  /\ \A s \in Servicers : Registration(s) \in Messages
  /\ \A s \in Servicers, st \in ServicerStatuses : Answer(s, st) \in Messages
  /\ \A m \in Messages : m.from \in Servicers
  BY DEF Registration, Answer, Messages

\* The servicer table is a sequence of entries.
LEMMA TableFacts ==
  ASSUME TablesTypeOK, NEW g \in Gateways
  PROVE  /\ servicerTable[g] \in Seq(Entries)
         /\ Len(servicerTable[g]) \in Nat
         /\ \A i \in 1 .. Len(servicerTable[g]) : servicerTable[g][i] \in Entries
  <1>1. servicerTable[g] \in Seq(Entries)
    BY DEF TablesTypeOK, Entries
  <1> QED
    BY <1>1, LenProperties, ElementOfSeq

\* A gateway with a command in hand has a servicer to send it to.
LEMMA EntryType ==
  ASSUME GatewayTypeOK, TablesTypeOK, Targeted,
         NEW g \in Gateways, gw[g] \in {"send", "wait"}
  PROVE  /\ resourceTable[g][call[g]] \in 1 .. Len(servicerTable[g])
         /\ Entry(g) \in Entries /\ Entry(g).servicer \in Servicers
         /\ Command(g) \in Commands /\ call[g] \in Resources
  <1>1. call[g] \in Resources
    BY DEF GatewayTypeOK
  <1>2. resourceTable[g][call[g]] \in 1 .. Len(servicerTable[g])
    BY <1>1, TableFacts DEF TablesTypeOK, Targeted
  <1>3. Entry(g) \in Entries
    BY <1>2, TableFacts DEF Entry
  <1>4. Entry(g).servicer \in Servicers
    BY <1>3 DEF Entries
  <1> QED
    BY <1>1, <1>2, <1>3, <1>4 DEF Command, Commands

-----------------------------------------------------------------------------
(***************************************************************************)
(* Type correctness                                                        *)
(***************************************************************************)
LEMMA TypeInit == Init => TypeInv
  <1> SUFFICES ASSUME Init PROVE TypeInv
    OBVIOUS
  <1>1. GatewayTypeOK
    BY ControlAssumption DEF Init, GatewayTypeOK
  <1>2. TablesTypeOK
    BY DEF Init, TablesTypeOK
  <1>3. Targeted
    BY DEF Init, Targeted
  <1>4. QueuesTypeOK
    BY DEF Init, QueuesTypeOK, Lone
  <1> QED
    BY <1>1, <1>2, <1>3, <1>4 DEF TypeInv

\* What the steps that take no registration do to the tables
LEMMA TablesKept ==
  ASSUME TablesTypeOK, UNCHANGED <<servicerTable, resourceTable>>,
         toRegister' = toRegister
           \/ \E s \in Servicers, g \in Gateways :
                toRegister' = [toRegister EXCEPT ![s] = @ \ {g}]
  PROVE  TablesTypeOK'
  BY DEF TablesTypeOK

\* The registration that a gateway takes leaves tables of the right type.
LEMMA TypeTakeRegistration ==
  ASSUME TypeInv, NEW g \in Gateways, TakeRegistration(g)
  PROVE  TypeInv'
  <1> USE DEF TypeInv
  <1>1. PICK m \in Messages, remote \in BOOLEAN :
          /\ servicerTable' = [servicerTable EXCEPT ![g] =
               Append(@, [servicer |-> m.from, remote |-> remote])]
          /\ resourceTable' = [resourceTable EXCEPT ![g] = TableWith(g, m.from)]
          /\ gatewayQueue' \in {gatewayQueue, [gatewayQueue EXCEPT ![g] = {}]}
          /\ up' \in {up, [up EXCEPT ![g] = {}]}
    BY DEF TakeRegistration, QueuesTypeOK
  <1>2. m.from \in Servicers
    BY MessageTypes
  <1>3. servicerTable[g] \in Seq(Entries) /\ Len(servicerTable[g]) \in Nat
    BY TableFacts
  <1>4. TableWith(g, m.from) \in [Resources -> 0 .. Len(servicerTable[g]) + 1]
    BY <1>3 DEF TableWith, TablesTypeOK
  <1>5. /\ servicerTable' \in [Gateways -> Seq(Entries)]
        /\ Len(servicerTable'[g]) = Len(servicerTable[g]) + 1
    <2>1. [servicer |-> m.from, remote |-> remote] \in Entries
      BY <1>2 DEF Entries
    <2>2. LET t == Append(servicerTable[g], [servicer |-> m.from, remote |-> remote])
          IN  t \in Seq(Entries) /\ Len(t) = Len(servicerTable[g]) + 1
      BY <1>3, <2>1, AppendProperties
    <2>3. servicerTable \in [Gateways -> Seq(Entries)]
      BY DEF TablesTypeOK, Entries
    <2> QED
      BY <1>1, <2>2, <2>3
  <1>6. /\ resourceTable' \in [Gateways -> [Resources -> Nat]]
        /\ \A h \in Gateways, r \in Resources : resourceTable'[h][r] <= Len(servicerTable'[h])
    BY <1>1, <1>3, <1>4, <1>5 DEF TablesTypeOK
  <1>7. TablesTypeOK'
    BY <1>5, <1>6 DEF TakeRegistration, TablesTypeOK, Entries
  <1>8. GatewayTypeOK'
    BY DEF TakeRegistration, GatewayTypeOK, statusVars
  <1>9. Targeted'
    BY <1>1 DEF TakeRegistration, Targeted, GatewayTypeOK, TablesTypeOK
  <1>10. QueuesTypeOK'
    BY <1>1 DEF TakeRegistration, QueuesTypeOK, servicerVars, Lone
  <1> QED
    BY <1>7, <1>8, <1>9, <1>10

\* TypeInv is inductive.
LEMMA TypeStep == TypeInv /\ [Next]_vars => TypeInv'
  <1> SUFFICES ASSUME TypeInv, [Next]_vars PROVE TypeInv'
    OBVIOUS
  <1> USE DEF TypeInv
  <1>1. ASSUME NEW s \in Servicers, NEW g \in Gateways, Register(s, g) PROVE TypeInv'
    <2>1. TablesTypeOK'
      BY <1>1, TablesKept DEF Register
    <2>2. GatewayTypeOK' /\ Targeted'
      BY <1>1 DEF Register, GatewayTypeOK, Targeted, statusVars
    <2>3. PICK m \in Messages :
            /\ gatewayQueue' \in {gatewayQueue, [gatewayQueue EXCEPT ![g] = {m}]}
            /\ up' \in {up, [up EXCEPT ![g] = {m}]}
      BY <1>1, MessageTypes DEF Register
    <2>4. QueuesTypeOK'
      BY <1>1, <2>3 DEF Register, QueuesTypeOK, servicerVars, Lone
    <2> QED
      BY <2>1, <2>2, <2>4
  <1>2. ASSUME NEW g \in Gateways, TakeRegistration(g) PROVE TypeInv'
    BY <1>2, TypeTakeRegistration
  <1>3. ASSUME NEW g \in Gateways,
               RegistrationFails(g) \/ AllocateStatus(g) \/ ClearStatus(g)
        PROVE  TypeInv'
    <2> USE DEF RegistrationFails, AllocateStatus, ClearStatus
    <2>1. TablesTypeOK'
      BY <1>3, TablesKept DEF bootVars
    <2>2. GatewayTypeOK'
      <3>1. /\ gw' \in {[gw EXCEPT ![g] = "halted"], [gw EXCEPT ![g] = "clear"],
                        [gw EXCEPT ![g] = "ready"]}
            /\ statusLen' \in {statusLen, [statusLen EXCEPT ![g] = TRUE]}
            /\ statusBuffer' \in {statusBuffer, [statusBuffer EXCEPT ![g] = 0]}
            /\ call' = call
        BY <1>3 DEF statusVars
      <3>2. statusLen' \in [Gateways -> BOOLEAN]
        BY <3>1, Zenon DEF GatewayTypeOK
      <3>3. gw' \in [Gateways -> {"register", "clear", "ready", "send", "wait", "halted"}]
        BY <3>1 DEF GatewayTypeOK
      <3>4. statusBuffer' \in [Gateways -> Nat]
        BY <3>1 DEF GatewayTypeOK
      <3> QED
        BY <3>1, <3>2, <3>3, <3>4 DEF GatewayTypeOK
    <2>3. Targeted'
      BY <1>3 DEF GatewayTypeOK, Targeted, bootVars
    <2>4. QueuesTypeOK'
      BY <1>3 DEF QueuesTypeOK, channelVars, servicerVars
    <2> QED
      BY <2>1, <2>2, <2>3, <2>4
  <1>4. ASSUME NEW g \in Gateways, NEW r \in Resources,
               Refuse(g, r) \/ Special(g) \/ Begin(g, r)
        PROVE  TypeInv'
    <2> USE DEF Refuse, Special, Begin
    <2>1. TablesTypeOK'
      BY <1>4, TablesKept DEF bootVars
    <2>2. GatewayTypeOK'
      BY <1>4, ControlAssumption DEF GatewayTypeOK, statusVars
    <2>3. Targeted'
      BY <1>4 DEF GatewayTypeOK, Targeted, bootVars, Found
    <2>4. QueuesTypeOK'
      BY <1>4 DEF QueuesTypeOK, channelVars, servicerVars
    <2> QED
      BY <2>1, <2>2, <2>3, <2>4
  <1>5. ASSUME NEW g \in Gateways, SendOnTile(g) \/ SendOffTile(g) PROVE TypeInv'
    <2>1. TablesTypeOK'
      BY <1>5, TablesKept DEF SendOnTile, SendOffTile, bootVars
    <2>2. GatewayTypeOK' /\ Targeted'
      BY <1>5 DEF SendOnTile, SendOffTile, GatewayTypeOK, Targeted, bootVars, statusVars
    <2>3. Entry(g).servicer \in Servicers /\ Command(g) \in Commands
      BY <1>5, EntryType DEF SendOnTile, SendOffTile
    <2>4. CASE SendOnTile(g)
      <3>1. QueuesTypeOK'
        BY <2>3, <2>4 DEF SendOnTile, QueuesTypeOK, channelVars, Lone
      <3> QED
        BY <2>1, <2>2, <3>1
    <2>5. CASE SendOffTile(g)
      <3>1. QueuesTypeOK'
        BY <2>3, <2>5 DEF SendOffTile, QueuesTypeOK, servicerVars, Lone
      <3> QED
        BY <2>1, <2>2, <3>1
    <2> QED
      BY <1>5, <2>4, <2>5
  <1>6. ASSUME NEW g \in Gateways, TakeAnswer(g) PROVE TypeInv'
    <2>1. TablesTypeOK'
      BY <1>6, TablesKept DEF TakeAnswer, bootVars
    <2>2. GatewayTypeOK' /\ Targeted'
      BY <1>6 DEF TakeAnswer, GatewayTypeOK, Targeted, bootVars, statusVars
    <2>3. QueuesTypeOK'
      BY <1>6 DEF TakeAnswer, QueuesTypeOK, servicerVars, Lone
    <2> QED
      BY <2>1, <2>2, <2>3
  <1>7. ASSUME NEW g \in Gateways, ClientReceive(g) \/ ClientForward(g) PROVE TypeInv'
    <2>1. TablesTypeOK'
      BY <1>7, TablesKept DEF ClientReceive, ClientForward, bootVars
    <2>2. GatewayTypeOK' /\ Targeted'
      BY <1>7 DEF ClientReceive, ClientForward, GatewayTypeOK, Targeted, bootVars, statusVars
    <2>3. CASE ClientReceive(g)
      <3>1. QueuesTypeOK'
        <4> DEFINE To(c) == <<[c[1] EXCEPT !.remote = TRUE], c[2]>>
        <4>1. \A c \in Commands \X Servicers : To(c) \in Commands \X Servicers
          BY DEF Commands
        <4>2. client' = [client EXCEPT ![g] = {To(c) : c \in down[g]}]
          BY <2>3 DEF ClientReceive
        <4> HIDE DEF To
        <4>3. {To(c) : c \in down[g]} \subseteq Commands \X Servicers
          BY <4>1 DEF QueuesTypeOK
        <4>4. Lone({To(c) : c \in down[g]})
          BY DEF QueuesTypeOK, Lone
        <4>5. /\ client' \in [Gateways -> SUBSET (Commands \X Servicers)]
              /\ \A h \in Gateways : Lone(client'[h])
          BY <4>2, <4>3, <4>4 DEF QueuesTypeOK
        <4>6. /\ down' \in [Gateways -> SUBSET (Commands \X Servicers)]
              /\ \A h \in Gateways : Lone(down'[h])
          BY <2>3 DEF ClientReceive, QueuesTypeOK, Lone
        <4> QED
          BY <2>3, <4>5, <4>6 DEF ClientReceive, QueuesTypeOK
      <3> QED
        BY <2>1, <2>2, <3>1
    <2>4. CASE ClientForward(g)
      <3>1. QueuesTypeOK'
        BY <2>4 DEF ClientForward, QueuesTypeOK, channelVars, Lone
      <3> QED
        BY <2>1, <2>2, <3>1
    <2> QED
      BY <1>7, <2>3, <2>4
  <1>8. ASSUME NEW s \in Servicers, Receive(s) \/ Execute(s) \/ Reply(s) PROVE TypeInv'
    <2>1. TablesTypeOK'
      BY <1>8, TablesKept DEF Receive, Execute, Reply, bootVars
    <2>2. GatewayTypeOK' /\ Targeted'
      BY <1>8 DEF Receive, Execute, Reply, GatewayTypeOK, Targeted, bootVars, statusVars
    <2>3. CASE Receive(s) \/ Execute(s)
      <3>1. QueuesTypeOK'
        BY <2>3 DEF Receive, Execute, QueuesTypeOK, channelVars, Lone
      <3> QED
        BY <2>1, <2>2, <3>1
    <2>4. CASE Reply(s)
      <3>1. Answer(s, result[s]) \in Messages
        BY <2>4, MessageTypes DEF Reply, QueuesTypeOK
      <3>2. QueuesTypeOK'
        BY <2>4, <3>1 DEF Reply, QueuesTypeOK, Lone
      <3> QED
        BY <2>1, <2>2, <3>2
    <2> QED
      BY <1>8, <2>3, <2>4
  <1>9. CASE UNCHANGED vars
    <2>1. TablesTypeOK'
      BY <1>9, TablesKept DEF vars, bootVars
    <2> QED
      BY <1>9, <2>1 DEF vars, bootVars, channelVars, servicerVars, statusVars,
                        GatewayTypeOK, Targeted, QueuesTypeOK
  <1> QED
    BY <1>1, <1>2, <1>3, <1>4, <1>5, <1>6, <1>7, <1>8, <1>9, ControlAssumption
       DEF Next, Gateway, Sends, Servicer

-----------------------------------------------------------------------------
(***************************************************************************)
(* The tables, and the tile that a message comes from                      *)
(***************************************************************************)
InTable(g, s) ==
  \E i \in 1 .. Len(servicerTable[g]) : servicerTable[g][i].servicer = s

\* An entry says which tile its servicer is on, an index which servicer owns
\* the resource.
TableInv ==
  \A g \in Gateways :
    /\ \A i \in 1 .. Len(servicerTable[g]) :
         servicerTable[g][i].remote = (servicerTable[g][i].servicer \notin OnTile)
    /\ \A r \in Resources : resourceTable[g][r] # 0 =>
         r \in Owned[servicerTable[g][resourceTable[g][r]].servicer]

TileInv ==
  \A g \in Gateways :
    /\ \A m \in gatewayQueue[g] : m.from \in OnTile
    /\ \A m \in up[g] : m.from \notin OnTile

\* What TakeRegistration does, for the lemmas below
LEMMA TakenRegistration ==
  ASSUME TypeInv, NEW g \in Gateways, TakeRegistration(g)
  PROVE  \E m \in gatewayQueue[g] \cup up[g], remote \in BOOLEAN :
           /\ m \in Messages
           /\ remote => m \in up[g]
           /\ ~remote => m \in gatewayQueue[g]
           /\ gatewayQueue' = IF remote THEN gatewayQueue
                              ELSE [gatewayQueue EXCEPT ![g] = {}]
           /\ up' = IF remote THEN [up EXCEPT ![g] = {}] ELSE up
           /\ Len(servicerTable'[g]) = Len(servicerTable[g]) + 1
           /\ servicerTable'[g][Len(servicerTable[g]) + 1]
                = [servicer |-> m.from, remote |-> remote]
           /\ \A i \in 1 .. Len(servicerTable[g]) :
                servicerTable'[g][i] = servicerTable[g][i]
           /\ resourceTable' = [resourceTable EXCEPT ![g] = TableWith(g, m.from)]
           /\ \A h \in Gateways \ {g} : servicerTable'[h] = servicerTable[h]
  <1>0. PICK remote \in BOOLEAN : \E m \in IF remote THEN up[g] ELSE gatewayQueue[g] :
          /\ gatewayQueue' = IF remote THEN gatewayQueue
                             ELSE [gatewayQueue EXCEPT ![g] = {}]
          /\ up' = IF remote THEN [up EXCEPT ![g] = {}] ELSE up
          /\ servicerTable' = [servicerTable EXCEPT ![g] =
               Append(@, [servicer |-> m.from, remote |-> remote])]
          /\ resourceTable' = [resourceTable EXCEPT ![g] = TableWith(g, m.from)]
    BY DEF TakeRegistration
  <1>1. PICK m \in IF remote THEN up[g] ELSE gatewayQueue[g] :
          /\ gatewayQueue' = IF remote THEN gatewayQueue
                             ELSE [gatewayQueue EXCEPT ![g] = {}]
          /\ up' = IF remote THEN [up EXCEPT ![g] = {}] ELSE up
          /\ servicerTable' = [servicerTable EXCEPT ![g] =
               Append(@, [servicer |-> m.from, remote |-> remote])]
          /\ resourceTable' = [resourceTable EXCEPT ![g] = TableWith(g, m.from)]
    BY <1>0
  <1>2. m \in Messages
    BY DEF TypeInv, QueuesTypeOK
  <1>3. [servicer |-> m.from, remote |-> remote] \in Entries
    BY <1>2, MessageTypes DEF Entries
  <1>4. servicerTable[g] \in Seq(Entries) /\ servicerTable \in [Gateways -> Seq(Entries)]
    BY DEF TypeInv, TablesTypeOK, Entries
  <1>5. LET t == Append(servicerTable[g], [servicer |-> m.from, remote |-> remote])
        IN  /\ Len(t) = Len(servicerTable[g]) + 1
            /\ t[Len(servicerTable[g]) + 1] = [servicer |-> m.from, remote |-> remote]
            /\ \A i \in 1 .. Len(servicerTable[g]) : t[i] = servicerTable[g][i]
    BY <1>3, <1>4, AppendProperties
  <1>6. /\ servicerTable'[g] = Append(servicerTable[g],
                                      [servicer |-> m.from, remote |-> remote])
        /\ \A h \in Gateways \ {g} : servicerTable'[h] = servicerTable[h]
    BY <1>1, <1>4
  <1> QED
    BY <1>1, <1>2, <1>5, <1>6

\* No other step touches the tables.
LEMMA TablesUntouched ==
  ASSUME [Next]_vars, \A g \in Gateways : ~TakeRegistration(g)
  PROVE  UNCHANGED <<servicerTable, resourceTable>>
  BY DEF Next, Gateway, Sends, Servicer, Register, RegistrationFails, AllocateStatus,
         ClearStatus, Refuse, Special, Begin, SendOnTile, SendOffTile, TakeAnswer,
         ClientReceive, ClientForward, Receive, Execute, Reply, bootVars, vars

\* An entry is added with the tile its registration came from.
LEMMA TableStep == TypeInv /\ TileInv /\ TableInv /\ [Next]_vars => TableInv'
  <1> SUFFICES ASSUME TypeInv, TileInv, TableInv, [Next]_vars PROVE TableInv'
    OBVIOUS
  <1>1. CASE \A g \in Gateways : ~TakeRegistration(g)
    BY <1>1, TablesUntouched DEF TableInv
  <1>2. ASSUME NEW g \in Gateways, TakeRegistration(g) PROVE TableInv'
    <2>1. PICK m \in gatewayQueue[g] \cup up[g], remote \in BOOLEAN :
           /\ m \in Messages
           /\ remote => m \in up[g]
           /\ ~remote => m \in gatewayQueue[g]
           /\ Len(servicerTable'[g]) = Len(servicerTable[g]) + 1
           /\ servicerTable'[g][Len(servicerTable[g]) + 1]
                = [servicer |-> m.from, remote |-> remote]
           /\ \A i \in 1 .. Len(servicerTable[g]) :
                servicerTable'[g][i] = servicerTable[g][i]
           /\ resourceTable' = [resourceTable EXCEPT ![g] = TableWith(g, m.from)]
           /\ \A h \in Gateways \ {g} : servicerTable'[h] = servicerTable[h]
      BY <1>2, TakenRegistration
    <2>2. m.from \in Servicers /\ remote = (m.from \notin OnTile)
      BY <2>1, MessageTypes DEF TileInv
    <2>3. Len(servicerTable[g]) \in Nat /\ resourceTable \in [Gateways -> [Resources -> Nat]]
      BY TableFacts DEF TypeInv, TablesTypeOK
    <2>4. ASSUME NEW i \in 1 .. Len(servicerTable'[g])
          PROVE  servicerTable'[g][i].remote = (servicerTable'[g][i].servicer \notin OnTile)
      <3>1. CASE i = Len(servicerTable[g]) + 1
        BY <2>1, <2>2, <3>1
      <3>2. CASE i \in 1 .. Len(servicerTable[g])
        BY <2>1, <3>2 DEF TableInv
      <3> QED
        BY <2>1, <2>3, <3>1, <3>2
    <2>5. ASSUME NEW r \in Resources, resourceTable'[g][r] # 0
          PROVE  r \in Owned[servicerTable'[g][resourceTable'[g][r]].servicer]
      <3>1. CASE r \in Owned[m.from]
        <4>1. resourceTable'[g][r] = Len(servicerTable[g]) + 1
          BY <2>1, <2>3, <3>1 DEF TableWith
        <4> QED
          BY <2>1, <3>1, <4>1
      <3>2. CASE r \notin Owned[m.from]
        <4>1. resourceTable'[g][r] = resourceTable[g][r]
          BY <2>1, <2>3, <3>2 DEF TableWith
        <4>2. resourceTable[g][r] \in 1 .. Len(servicerTable[g])
          BY <2>3, <2>5, <4>1 DEF TypeInv, TablesTypeOK
        <4> QED
          BY <2>1, <2>5, <4>1, <4>2 DEF TableInv
      <3> QED
        BY <3>1, <3>2
    <2>6. \A h \in Gateways \ {g} : resourceTable'[h] = resourceTable[h]
      BY <2>1, <2>3
    <2> QED
      BY <2>1, <2>4, <2>5, <2>6 DEF TableInv
  <1> QED
    BY <1>1, <1>2

-----------------------------------------------------------------------------
(***************************************************************************)
(* Where the command of a waiting gateway is                               *)
(***************************************************************************)
\* The servicer that the command in hand is for
Own(g) == Entry(g).servicer

AnswerInv ==
  \A g \in Gateways : \A m \in Answers(g) : gw[g] = "wait" /\ m.from = Own(g)

TransitInv ==
  \A g \in Gateways :
    /\ \A c \in down[g] :
         gw[g] = "wait" /\ Own(g) \notin OnTile /\ c = <<Command(g), Own(g)>>
    /\ \A c \in client[g] :
         /\ gw[g] = "wait" /\ Own(g) \notin OnTile
         /\ c = <<[Command(g) EXCEPT !.remote = TRUE], Own(g)>>

ServedInv ==
  \A s \in Servicers : \A c \in queue[s] \cup held[s] :
    /\ gw[c.gateway] = "wait" /\ c.resource = call[c.gateway]
    /\ s = Own(c.gateway) /\ c.remote = (s \notin OnTile)

Kinds == {"down", "client", "queue", "held", "answer"}

At(g, k) ==
  \/ k = "down" /\ down[g] # {}
  \/ k = "client" /\ client[g] # {}
  \/ k = "queue" /\ \E s \in Servicers : QueuedFor(g, s) # {}
  \/ k = "held" /\ \E s \in Servicers : HeldFor(g, s) # {}
  \/ k = "answer" /\ Answers(g) # {}

PlaceInv ==
  \A g \in Gateways : gw[g] = "wait" =>
    \E k \in Kinds : \A j \in Kinds : At(g, j) <=> j = k

\* No registration meets an answer: a servicer is yet to register, announced,
\* or in the table, and all of them are in it once the instance is ready.
Booted(g) == gw[g] \notin {"register", "halted"}
Announced(g, s) == Registration(s) \in gatewayQueue[g] \cup up[g]

RegInv ==
  \A g \in Gateways :
    /\ \A s \in Servicers : g \in toRegister[s] => ~Announced(g, s) /\ ~InTable(g, s)
    /\ \A s \in Servicers : Announced(g, s) => ~InTable(g, s)
    /\ \A i, j \in 1 .. Len(servicerTable[g]) :
         servicerTable[g][i].servicer = servicerTable[g][j].servicer => i = j
    /\ Booted(g) => \A s \in Servicers : g \notin toRegister[s] /\ ~Announced(g, s)

RouteInv == AnswerInv /\ TransitInv /\ ServedInv /\ PlaceInv
ControlInv == TypeInv /\ TileInv /\ TableInv /\ RegInv /\ RouteInv

\* The invariant holds at boot.
LEMMA ControlInit == Init => ControlInv
  <1> SUFFICES ASSUME Init PROVE ControlInv
    OBVIOUS
  <1>1. TypeInv
    BY TypeInit
  <1>2. TileInv /\ TableInv
    BY DEF Init, TileInv, TableInv
  <1>3. RegInv
    BY DEF Init, RegInv, Announced, InTable, Booted
  <1>4. AnswerInv /\ TransitInv /\ ServedInv /\ PlaceInv
    BY DEF Init, AnswerInv, TransitInv, ServedInv, PlaceInv, Answers
  <1> QED
    BY <1>1, <1>2, <1>3, <1>4 DEF ControlInv, RouteInv

\* The servicer a command is for owns its resource, on the tile its entry names.
LEMMA OwnFacts ==
  ASSUME TypeInv, TableInv, NEW g \in Gateways, gw[g] \in {"send", "wait"}
  PROVE  /\ Own(g) \in Servicers /\ call[g] \in Owned[Own(g)]
         /\ Entry(g).remote = (Own(g) \notin OnTile)
  <1>1. /\ resourceTable[g][call[g]] \in 1 .. Len(servicerTable[g])
        /\ call[g] \in Resources /\ Own(g) \in Servicers
    BY EntryType DEF TypeInv, Own
  <1> QED
    BY <1>1 DEF TableInv, Own, Entry

\* The tables of an instance do not change while it has a command in hand,
\* and only its answer ends its waiting.
LEMMA OwnKept ==
  ASSUME TypeInv, [Next]_vars, NEW g \in Gateways, gw[g] \in {"send", "wait"}
  PROVE  /\ call'[g] = call[g]
         /\ Entry(g)' = Entry(g) /\ Own(g)' = Own(g) /\ Command(g)' = Command(g)
         /\ gw[g] = "wait" /\ ~TakeAnswer(g) => gw'[g] = "wait"
  <1>1. servicerTable'[g] = servicerTable[g] /\ resourceTable'[g] = resourceTable[g]
    <2>1. CASE \A h \in Gateways : ~TakeRegistration(h)
      BY <2>1, TablesUntouched
    <2>2. ASSUME NEW h \in Gateways, TakeRegistration(h)
          PROVE  servicerTable'[g] = servicerTable[g] /\ resourceTable'[g] = resourceTable[g]
      <3>1. h # g
        BY <2>2 DEF TakeRegistration
      <3>2. servicerTable'[g] = servicerTable[g]
        BY <2>2, <3>1, TakenRegistration
      <3>3. PICK t : resourceTable' = [resourceTable EXCEPT ![h] = t]
        BY <2>2, TakenRegistration
      <3> QED
        BY <3>1, <3>2, <3>3 DEF TypeInv, TablesTypeOK
    <2> QED
      BY <2>1, <2>2
  <1>2. call'[g] = call[g]
    BY DEF TypeInv, GatewayTypeOK, Next, Gateway, Sends, Servicer, Register,
           TakeRegistration, RegistrationFails, AllocateStatus, ClearStatus, Refuse,
           Special, Begin, SendOnTile, SendOffTile, TakeAnswer, ClientReceive,
           ClientForward, Receive, Execute, Reply, vars
  <1>3. gw[g] = "wait" /\ ~TakeAnswer(g) => gw'[g] = "wait"
    BY DEF TypeInv, GatewayTypeOK, Next, Gateway, Sends, Servicer, Register,
           TakeRegistration, RegistrationFails, AllocateStatus, ClearStatus, Refuse,
           Special, Begin, SendOnTile, SendOffTile, TakeAnswer, ClientReceive,
           ClientForward, Receive, Execute, Reply, vars
  <1> QED
    BY <1>1, <1>2, <1>3 DEF Entry, Own, Command

\* What there is to know of a command that its servicer has
LEMMA ServedFacts ==
  ASSUME TypeInv, ServedInv, NEW s \in Servicers, NEW c \in queue[s] \cup held[s]
  PROVE  /\ c \in Commands /\ c.gateway \in Gateways /\ c.remote = (s \notin OnTile)
         /\ gw[c.gateway] = "wait" /\ s = Own(c.gateway)
  BY DEF TypeInv, QueuesTypeOK, ServedInv, Commands

-----------------------------------------------------------------------------
(***************************************************************************)
(* Registration                                                            *)
(***************************************************************************)
LEMMA TileStep == ControlInv /\ [Next]_vars => TileInv'
  <1> SUFFICES ASSUME ControlInv, [Next]_vars PROVE TileInv'
    OBVIOUS
  <1> USE DEF ControlInv
  <1>1. ASSUME NEW s \in Servicers, NEW g \in Gateways, Register(s, g) PROVE TileInv'
    <2>1. Registration(s).from = s
      BY DEF Registration
    <2> QED
      BY <1>1, <2>1 DEF Register, TileInv, TypeInv, QueuesTypeOK
  <1>2. ASSUME NEW g \in Gateways, TakeRegistration(g) \/ TakeAnswer(g) PROVE TileInv'
    <2>1. /\ gatewayQueue' \in {gatewayQueue, [gatewayQueue EXCEPT ![g] = {}]}
          /\ up' \in {up, [up EXCEPT ![g] = {}]}
      BY <1>2 DEF TakeRegistration, TakeAnswer
    <2> QED
      BY <2>1 DEF TileInv, TypeInv, QueuesTypeOK
  <1>3. ASSUME NEW s \in Servicers, Reply(s) PROVE TileInv'
    <2>1. PICK c \in held[s] :
            IF c.remote
            THEN /\ up' = [up EXCEPT ![c.gateway] = {Answer(s, result[s])}]
                 /\ UNCHANGED gatewayQueue
            ELSE /\ gatewayQueue' = [gatewayQueue EXCEPT ![c.gateway] = {Answer(s, result[s])}]
                 /\ UNCHANGED up
      BY <1>3 DEF Reply
    <2>2. c.remote = (s \notin OnTile) /\ c.gateway \in Gateways
      BY ServedFacts DEF RouteInv
    <2>3. Answer(s, result[s]).from = s
      BY DEF Answer
    <2>4. CASE s \in OnTile
      <3>1. /\ gatewayQueue' = [gatewayQueue EXCEPT ![c.gateway] = {Answer(s, result[s])}]
            /\ UNCHANGED up
        BY <2>1, <2>2, <2>4
      <3> QED
        BY <2>2, <2>3, <2>4, <3>1 DEF TileInv, TypeInv, QueuesTypeOK
    <2>5. CASE s \notin OnTile
      <3>1. /\ up' = [up EXCEPT ![c.gateway] = {Answer(s, result[s])}]
            /\ UNCHANGED gatewayQueue
        BY <2>1, <2>2, <2>5
      <3> QED
        BY <2>2, <2>3, <2>5, <3>1 DEF TileInv, TypeInv, QueuesTypeOK
    <2> QED
      BY <2>4, <2>5
  <1>4. CASE UNCHANGED <<gatewayQueue, up>>
    BY <1>4 DEF TileInv
  <1>5. ASSUME NEW g \in Gateways,
               \/ AllocateStatus(g) \/ ClearStatus(g) \/ SendOffTile(g) \/ Sends(g)
               \/ ClientReceive(g) \/ RegistrationFails(g) \/ Special(g)
               \/ \E r \in Resources : Refuse(g, r) \/ Begin(g, r)
        PROVE  UNCHANGED <<gatewayQueue, up>>
    BY <1>5 DEF AllocateStatus, ClearStatus, SendOffTile, Sends, SendOnTile, ClientForward,
                ClientReceive, RegistrationFails, Special, Refuse, Begin, channelVars
  <1>6. ASSUME NEW s \in Servicers, Receive(s) \/ Execute(s)
        PROVE  UNCHANGED <<gatewayQueue, up>>
    BY <1>6 DEF Receive, Execute, channelVars
  <1>7. CASE UNCHANGED vars
    BY <1>4, <1>7 DEF vars, channelVars
  <1> QED
    BY <1>1, <1>2, <1>3, <1>4, <1>5, <1>6, <1>7 DEF Next, Gateway, Servicer

\* What is in the queues before an instance is ready is a registration.
LEMMA StillRegistration ==
  ASSUME TypeInv, AnswerInv, NEW g \in Gateways, gw[g] # "wait",
         NEW m \in gatewayQueue[g] \cup up[g]
  PROVE  m = Registration(m.from) /\ m.from \in Servicers
  <1>1. m \in Messages /\ m.kind # "answer"
    BY DEF AnswerInv, Answers, TypeInv, QueuesTypeOK
  <1> QED
    BY <1>1 DEF Messages, Registration

\* A full table, in which nobody is twice, has everybody in it.
LEMMA FullTable ==
  ASSUME TypeInv, RegInv, NEW g \in Gateways, Complete(g), NEW s \in Servicers
  PROVE  InTable(g, s)
  <1> DEFINE n == Len(servicerTable[g])
             f == [i \in 1 .. n |-> servicerTable[g][i].servicer]
  <1>1. n \in Nat /\ \A i \in 1 .. n : servicerTable[g][i].servicer \in Servicers
    BY TableFacts DEF TypeInv, Entries
  <1>2. \A i, j \in 1 .. n :
          servicerTable[g][i].servicer = servicerTable[g][j].servicer => i = j
    BY DEF RegInv
  <1>3. f \in Injection(1 .. n, Servicers)
    BY <1>1, <1>2 DEF Injection, IsInjective
  <1>4. Cardinality(1 .. n) = n
    BY <1>1, FS_Interval
  <1>5. n = Cardinality(Servicers)
    BY DEF Complete
  <1>6. f \in Surjection(1 .. n, Servicers)
    <2> HIDE DEF f
    <2> QED
      BY <1>3, <1>4, <1>5, FS_Injection, ControlAssumption
  <1> QED
    BY <1>6 DEF Surjection, InTable

\* No step registers a servicer twice or leaves a registration behind.
LEMMA RegStep == ControlInv /\ [Next]_vars => RegInv'
  <1> SUFFICES ASSUME ControlInv, [Next]_vars PROVE RegInv'
    OBVIOUS
  <1> USE DEF ControlInv
  <1>1. ASSUME NEW s \in Servicers, NEW g \in Gateways, Register(s, g) PROVE RegInv'
    <2>1. /\ g \in toRegister[s] /\ toRegister' = [toRegister EXCEPT ![s] = @ \ {g}]
          /\ UNCHANGED <<gw, servicerTable>>
      BY <1>1 DEF Register, NextInArray
    <2>2. ~InTable(g, s) /\ ~Booted(g)
      BY <2>1 DEF RegInv
    <2>3. \A h \in Gateways, t \in Servicers :
            Announced(h, t)' <=> Announced(h, t) \/ (h = g /\ t = s)
      BY <1>1 DEF Register, Announced, Registration, TypeInv, QueuesTypeOK
    <2>4. \A h \in Gateways, t \in Servicers :
            h \in toRegister'[t] <=> h \in toRegister[t] /\ ~(h = g /\ t = s)
      BY <2>1 DEF TypeInv, TablesTypeOK
    <2>5. \A h \in Gateways, t \in Servicers : InTable(h, t)' <=> InTable(h, t)
      BY <2>1 DEF InTable
    <2>6. \A h \in Gateways : Booted(h)' <=> Booted(h)
      BY <2>1 DEF Booted
    <2> QED
      BY <2>1, <2>2, <2>3, <2>4, <2>5, <2>6 DEF RegInv
  <1>2. ASSUME NEW g \in Gateways, TakeRegistration(g) PROVE RegInv'
    <2>1. PICK m \in gatewayQueue[g] \cup up[g], remote \in BOOLEAN :
           /\ m \in Messages
           /\ remote => m \in up[g]
           /\ ~remote => m \in gatewayQueue[g]
           /\ gatewayQueue' = IF remote THEN gatewayQueue
                              ELSE [gatewayQueue EXCEPT ![g] = {}]
           /\ up' = IF remote THEN [up EXCEPT ![g] = {}] ELSE up
           /\ Len(servicerTable'[g]) = Len(servicerTable[g]) + 1
           /\ servicerTable'[g][Len(servicerTable[g]) + 1]
                = [servicer |-> m.from, remote |-> remote]
           /\ \A i \in 1 .. Len(servicerTable[g]) :
                servicerTable'[g][i] = servicerTable[g][i]
           /\ \A h \in Gateways \ {g} : servicerTable'[h] = servicerTable[h]
      BY <1>2, TakenRegistration
    <2>2. gw[g] = "register" /\ UNCHANGED <<gw, toRegister>>
      BY <1>2 DEF TakeRegistration
    <2>3. m = Registration(m.from) /\ m.from \in Servicers
      BY <2>2, StillRegistration DEF RouteInv
    <2>4. Announced(g, m.from) /\ ~InTable(g, m.from)
      BY <2>3 DEF Announced, RegInv
    <2>5. \A t \in Servicers : Announced(g, t)' => Announced(g, t) /\ t # m.from
      <3>1. \A t : Registration(t).from = t
        BY DEF Registration
      <3>2. remote => m.from \notin OnTile
        BY <2>1 DEF TileInv
      <3>3. ~remote => m.from \in OnTile
        BY <2>1 DEF TileInv
      <3>4. CASE remote
        <4>1. up'[g] = {} /\ gatewayQueue'[g] = gatewayQueue[g]
          BY <2>1, <3>4 DEF TypeInv, QueuesTypeOK
        <4> QED
          BY <3>1, <3>2, <3>4, <4>1 DEF Announced, TileInv
      <3>5. CASE ~remote
        <4>1. gatewayQueue'[g] = {} /\ up'[g] = up[g]
          BY <2>1, <3>5 DEF TypeInv, QueuesTypeOK
        <4> QED
          BY <3>1, <3>3, <3>5, <4>1 DEF Announced, TileInv
      <3> QED
        BY <3>4, <3>5
    <2>6. Len(servicerTable[g]) \in Nat
      BY TableFacts DEF TypeInv
    <2>7. \A t \in Servicers : InTable(g, t)' => InTable(g, t) \/ t = m.from
      BY <2>1, <2>6 DEF InTable
    <2>8. \A i, j \in 1 .. Len(servicerTable'[g]) :
            servicerTable'[g][i].servicer = servicerTable'[g][j].servicer => i = j
      <3>1. servicerTable'[g][Len(servicerTable[g]) + 1].servicer = m.from
        BY <2>1
      <3>2. \A i \in 1 .. Len(servicerTable[g]) :
              /\ servicerTable'[g][i].servicer = servicerTable[g][i].servicer
              /\ servicerTable'[g][i].servicer # m.from
        BY <2>1, <2>4 DEF InTable
      <3>3. \A i \in 1 .. Len(servicerTable'[g]) :
              i \in 1 .. Len(servicerTable[g]) \/ i = Len(servicerTable[g]) + 1
        BY <2>1, <2>6
      <3>4. \A i, j \in 1 .. Len(servicerTable[g]) :
              servicerTable[g][i].servicer = servicerTable[g][j].servicer => i = j
        BY DEF RegInv
      <3> QED
        BY <3>1, <3>2, <3>3, <3>4
    <2>9. \A h \in Gateways \ {g} :
            /\ servicerTable'[h] = servicerTable[h]
            /\ \A t \in Servicers : /\ InTable(h, t)' <=> InTable(h, t)
                                    /\ Announced(h, t)' <=> Announced(h, t)
      BY <2>1 DEF InTable, Announced, TypeInv, QueuesTypeOK
    <2>10. \A h \in Gateways : Booted(h)' <=> Booted(h)
      BY <2>2 DEF Booted
    <2>11. ~Booted(g)
      BY <2>2 DEF Booted
    <2> QED
      BY <2>2, <2>4, <2>5, <2>7, <2>8, <2>9, <2>10, <2>11 DEF RegInv
  <1>3. ASSUME \A g \in Gateways : ~TakeRegistration(g), toRegister' = toRegister,
               \A g \in Gateways : Booted(g)' => Booted(g) \/ Complete(g),
               \A g \in Gateways, s \in Servicers : Announced(g, s)' => Announced(g, s)
        PROVE  RegInv'
    <2>1. UNCHANGED servicerTable
      BY <1>3, TablesUntouched
    <2>2. \A g \in Gateways, s \in Servicers : InTable(g, s)' <=> InTable(g, s)
      BY <2>1 DEF InTable
    <2>3. \A g \in Gateways, s \in Servicers : Complete(g) => InTable(g, s)
      BY FullTable
    <2> QED
      BY <1>3, <2>1, <2>2, <2>3 DEF RegInv
  <1>4. ASSUME NEW s \in Servicers, Reply(s)
        PROVE  \A g \in Gateways, t \in Servicers : Announced(g, t)' => Announced(g, t)
    <2>1. PICK c \in held[s] :
            \/ /\ up' = [up EXCEPT ![c.gateway] = {Answer(s, result[s])}]
               /\ UNCHANGED gatewayQueue
            \/ /\ gatewayQueue' = [gatewayQueue EXCEPT ![c.gateway] = {Answer(s, result[s])}]
               /\ UNCHANGED up
      BY <1>4 DEF Reply
    <2>2. \A t : Registration(t) # Answer(s, result[s])
      BY DEF Registration, Answer
    <2> QED
      BY <2>1, <2>2 DEF Announced, TypeInv, QueuesTypeOK
  <1>5. ASSUME NEW g \in Gateways, TakeAnswer(g)
        PROVE  \A h \in Gateways, t \in Servicers : Announced(h, t)' => Announced(h, t)
    <2>1. /\ gatewayQueue' \in {gatewayQueue, [gatewayQueue EXCEPT ![g] = {}]}
          /\ up' \in {up, [up EXCEPT ![g] = {}]}
      BY <1>5 DEF TakeAnswer
    <2> QED
      BY <2>1 DEF Announced, TypeInv, QueuesTypeOK
  <1>6. CASE /\ \A g \in Gateways : ~TakeRegistration(g)
             /\ \A g \in Gateways, s \in Servicers : ~Register(s, g)
    <2>1. toRegister' = toRegister
      BY <1>6 DEF Next, Gateway, Sends, Servicer, RegistrationFails, AllocateStatus,
                  ClearStatus, Refuse, Special, Begin, SendOnTile, SendOffTile,
                  TakeAnswer, ClientReceive, ClientForward, Receive, Execute, Reply,
                  bootVars, vars
    <2>2. ASSUME NEW g \in Gateways, Booted(g)' PROVE Booted(g) \/ Complete(g)
      BY <1>6, <2>2 DEF Booted, TypeInv, GatewayTypeOK, Next, Gateway, Sends, Servicer,
                   RegistrationFails, AllocateStatus, ClearStatus, Refuse, Special,
                   Begin, SendOnTile, SendOffTile, TakeAnswer, ClientReceive,
                   ClientForward, Receive, Execute, Reply, vars
    <2>3. ASSUME \A g \in Gateways : ~TakeAnswer(g), \A s \in Servicers : ~Reply(s)
          PROVE  UNCHANGED <<gatewayQueue, up>>
      BY <1>6, <2>3 DEF Next, Gateway, Sends, Servicer, RegistrationFails, AllocateStatus,
                   ClearStatus, Refuse, Special, Begin, SendOnTile, SendOffTile,
                   ClientReceive, ClientForward, Receive, Execute, channelVars, vars
    <2>4. \A g \in Gateways, s \in Servicers : Announced(g, s)' => Announced(g, s)
      BY <1>4, <1>5, <2>3 DEF Announced
    <2> QED
      BY <1>3, <1>6, <2>1, <2>2, <2>4
  <1> QED
    BY <1>1, <1>2, <1>6

-----------------------------------------------------------------------------
(***************************************************************************)
(* Commands                                                                *)
(***************************************************************************)
\* A gateway of which there is anything anywhere waits, and it is only there.
LEMMA OnlyThere ==
  ASSUME TypeInv, RouteInv, NEW g \in Gateways, NEW k \in Kinds, At(g, k)
  PROVE  gw[g] = "wait" /\ \A j \in Kinds : At(g, j) <=> j = k
  <1>1. gw[g] = "wait"
    BY DEF RouteInv, AnswerInv, TransitInv, ServedInv, At, QueuedFor, HeldFor
  <1>2. PICK i \in Kinds : \A j \in Kinds : At(g, j) <=> j = i
    BY <1>1 DEF RouteInv, PlaceInv
  <1> QED
    BY <1>1, <1>2

\* OwnKept for all gateways at once
LEMMA OwnsKept ==
  ASSUME TypeInv, [Next]_vars
  PROVE  \A h \in Gateways : gw[h] \in {"send", "wait"} =>
           Own(h)' = Own(h) /\ Command(h)' = Command(h) /\ call'[h] = call[h]
  BY OwnKept

\* Answers that are neither added nor outlived by their call
LEMMA AnswerFrame ==
  ASSUME TypeInv, RouteInv, [Next]_vars,
         \A h \in Gateways : \A m \in Answers(h)' : m \in Answers(h) /\ gw'[h] = "wait"
  PROVE  AnswerInv'
  BY OwnsKept DEF RouteInv, AnswerInv

\* Commands in transit that stay where they are
LEMMA TransitFrame ==
  ASSUME TypeInv, RouteInv, [Next]_vars, UNCHANGED <<down, client>>,
         \A h \in Gateways : down[h] # {} \/ client[h] # {} => gw'[h] = "wait"
  PROVE  TransitInv'
  BY OwnsKept DEF RouteInv, TransitInv

\* A command that a servicer has, and whose gateway still waits, is still right.
LEMMA ServedStill ==
  ASSUME TypeInv, RouteInv, [Next]_vars, NEW s \in Servicers,
         NEW c \in queue[s] \cup held[s], gw'[c.gateway] = "wait"
  PROVE  /\ gw'[c.gateway] = "wait" /\ c.resource = call'[c.gateway]
         /\ s = Own(c.gateway)' /\ c.remote = (s \notin OnTile)
  <1>1. /\ c.gateway \in Gateways /\ c.remote = (s \notin OnTile)
        /\ gw[c.gateway] = "wait" /\ s = Own(c.gateway)
    BY ServedFacts DEF RouteInv
  <1>2. c.resource = call[c.gateway]
    BY DEF RouteInv, ServedInv
  <1>3. Own(c.gateway)' = Own(c.gateway) /\ call'[c.gateway] = call[c.gateway]
    BY <1>1, OwnsKept
  <1> QED
    BY <1>1, <1>2, <1>3

\* Commands that are not handed to another servicer
LEMMA ServedFrame ==
  ASSUME TypeInv, RouteInv, [Next]_vars,
         \A s \in Servicers : \A c \in queue'[s] \cup held'[s] :
           c \in queue[s] \cup held[s] /\ gw'[c.gateway] = "wait"
  PROVE  ServedInv'
  BY ServedStill DEF ServedInv

\* A step that leaves one gateway's command in one place, and the others' where they
\* are, keeps every command in one place.
LEMMA PlaceMoved ==
  ASSUME PlaceInv, NEW g \in Gateways, NEW k \in Kinds,
         \A j \in Kinds : At(g, j)' <=> j = k,
         \A h \in Gateways \ {g} :
           /\ gw'[h] = "wait" => gw[h] = "wait"
           /\ \A j \in Kinds : At(h, j)' <=> At(h, j)
  PROVE  PlaceInv'
  BY DEF PlaceInv

\* Steps that leave the commands and answers where they are
LEMMA RouteFrame ==
  ASSUME TypeInv, RouteInv, [Next]_vars, UNCHANGED <<down, client, queue, held>>,
         \A h \in Gateways : Answers(h)' = Answers(h) /\ (gw'[h] = "wait" <=> gw[h] = "wait")
  PROVE  RouteInv'
  <1>1. AnswerInv'
    BY AnswerFrame DEF RouteInv, AnswerInv
  <1>2. TransitInv'
    BY TransitFrame DEF RouteInv, TransitInv
  <1>3. ServedInv'
    BY ServedFrame, ServedFacts DEF RouteInv
  <1>4. \A h \in Gateways, j \in Kinds : At(h, j)' <=> At(h, j)
    BY DEF At, QueuedFor, HeldFor
  <1>5. PlaceInv'
    BY <1>4 DEF RouteInv, PlaceInv
  <1> QED
    BY <1>1, <1>2, <1>3, <1>5 DEF RouteInv

\* do_command to a servicer on its tile: from nowhere into its queue
LEMMA RouteSendOnTile ==
  ASSUME ControlInv, [Next]_vars, NEW g \in Gateways, SendOnTile(g)
  PROVE  RouteInv'
  <1> USE DEF ControlInv
  <1>1. /\ gw[g] = "send" /\ gw' = [gw EXCEPT ![g] = "wait"] /\ queue[Own(g)] = {}
        /\ queue' = [queue EXCEPT ![Own(g)] = {Command(g)}]
        /\ UNCHANGED <<down, client, held, gatewayQueue, up>> /\ ~Entry(g).remote
    BY DEF SendOnTile, Own, channelVars
  <1>2. \A h \in Gateways : (h # g => gw'[h] = gw[h]) /\ gw'[g] = "wait"
    BY <1>1 DEF TypeInv, GatewayTypeOK
  <1>3. Own(g) \in Servicers /\ Own(g) \in OnTile
    BY <1>1, OwnFacts
  <1>4. \A h \in Gateways : Answers(h)' = Answers(h)
    BY <1>1 DEF Answers
  <1>5. AnswerInv'
    BY <1>2, <1>4, AnswerFrame DEF RouteInv, AnswerInv
  <1>6. TransitInv'
    BY <1>1, <1>2, TransitFrame DEF RouteInv, TransitInv
  <1>7. /\ Command(g).gateway = g /\ Command(g).resource = call[g]
        /\ Command(g).remote = FALSE
    BY DEF Command
  <1>8. Own(g)' = Own(g) /\ call'[g] = call[g]
    BY <1>1, OwnsKept
  <1>9. ServedInv'
    <2>1. ASSUME NEW s \in Servicers, NEW c \in queue'[s] \cup held'[s]
          PROVE  /\ gw'[c.gateway] = "wait" /\ c.resource = call'[c.gateway]
                 /\ s = Own(c.gateway)' /\ c.remote = (s \notin OnTile)
      <3>1. CASE c \in queue[s] \cup held[s]
        BY <1>2, <3>1, ServedFacts, ServedStill DEF RouteInv
      <3>2. CASE s = Own(g) /\ c = Command(g)
        BY <3>2, <1>2, <1>3, <1>7, <1>8
      <3> QED
        BY <1>1, <3>1, <3>2 DEF TypeInv, QueuesTypeOK
    <2> QED
      BY <2>1 DEF ServedInv
  <1>10. PlaceInv'
    <2>1. \A j \in Kinds : ~At(g, j)
      BY <1>1, OnlyThere
    <2>2. queue'[Own(g)] = {Command(g)} /\ \A s \in Servicers \ {Own(g)} : queue'[s] = queue[s]
      BY <1>1, <1>3 DEF TypeInv, QueuesTypeOK
    <2>3. \A h \in Gateways \ {g} : \A s \in Servicers : QueuedFor(h, s)' = QueuedFor(h, s)
      BY <1>1, <1>7, <2>2 DEF QueuedFor
    <2>4. QueuedFor(g, Own(g))' # {}
      BY <1>7, <1>8, <2>2 DEF QueuedFor
    <2>5. \A h \in Gateways, s \in Servicers : HeldFor(h, s)' = HeldFor(h, s)
      BY <1>1 DEF HeldFor
    <2>6. \A j \in Kinds : At(g, j)' <=> j = "queue"
      BY <1>1, <1>3, <1>4, <1>8, <2>1, <2>4, <2>5 DEF At, Kinds
    <2>7. \A h \in Gateways \ {g} : \A j \in Kinds : At(h, j)' <=> At(h, j)
      BY <1>1, <1>4, <2>3, <2>5 DEF At, Kinds
    <2> QED
      BY <1>2, <2>6, <2>7, PlaceMoved DEF RouteInv, Kinds
  <1> QED
    BY <1>5, <1>6, <1>9, <1>10 DEF RouteInv

\* do_command to the other tile: from nowhere into the channel
LEMMA RouteSendOffTile ==
  ASSUME ControlInv, [Next]_vars, NEW g \in Gateways, SendOffTile(g)
  PROVE  RouteInv'
  <1> USE DEF ControlInv
  <1>1. /\ gw[g] = "send" /\ gw' = [gw EXCEPT ![g] = "wait"]
        /\ down' = [down EXCEPT ![g] = {<<Command(g), Own(g)>>}]
        /\ UNCHANGED <<client, queue, held, gatewayQueue, up>> /\ Entry(g).remote
    BY DEF SendOffTile, Own, servicerVars
  <1>2. \A h \in Gateways : (h # g => gw'[h] = gw[h]) /\ gw'[g] = "wait"
    BY <1>1 DEF TypeInv, GatewayTypeOK
  <1>3. Own(g) \notin OnTile
    BY <1>1, OwnFacts
  <1>4. \A h \in Gateways : Answers(h)' = Answers(h)
    BY <1>1 DEF Answers
  <1>5. AnswerInv'
    BY <1>2, <1>4, AnswerFrame DEF RouteInv, AnswerInv
  <1>6. /\ down'[g] = {<<Command(g), Own(g)>>}
        /\ \A h \in Gateways \ {g} : down'[h] = down[h]
    BY <1>1 DEF TypeInv, QueuesTypeOK
  <1>7. \A j \in Kinds : ~At(g, j)
    BY <1>1, OnlyThere
  <1>8. TransitInv'
    <2>1. client'[g] = {}
      BY <1>1, <1>7 DEF At, Kinds
    <2>2. Own(g)' = Own(g) /\ Command(g)' = Command(g)
      BY <1>1, OwnsKept
    <2>3. \A h \in Gateways \ {g} : gw[h] = "wait" =>
            gw'[h] = "wait" /\ Own(h)' = Own(h) /\ Command(h)' = Command(h)
      BY <1>2, OwnsKept
    <2> QED
      BY <1>1, <1>2, <1>3, <1>6, <2>1, <2>2, <2>3 DEF RouteInv, TransitInv
  <1>9. ServedInv'
    BY <1>1, <1>2, ServedFacts, ServedFrame DEF RouteInv
  <1>10. PlaceInv'
    <2>1. \A h \in Gateways, s \in Servicers :
            QueuedFor(h, s)' = QueuedFor(h, s) /\ HeldFor(h, s)' = HeldFor(h, s)
      BY <1>1 DEF HeldFor, QueuedFor
    <2>2. \A j \in Kinds : At(g, j)' <=> j = "down"
      BY <1>1, <1>4, <1>6, <1>7, <2>1 DEF At, Kinds
    <2>3. \A h \in Gateways \ {g} : \A j \in Kinds : At(h, j)' <=> At(h, j)
      BY <1>1, <1>4, <1>6, <2>1 DEF At, Kinds
    <2> QED
      BY <1>2, <2>2, <2>3, PlaceMoved DEF RouteInv, Kinds
  <1> QED
    BY <1>5, <1>8, <1>9, <1>10 DEF RouteInv

\* The only thing a waiting gateway finds is the answer to its command.
LEMMA TakenAnswer ==
  ASSUME ControlInv, NEW g \in Gateways, TakeAnswer(g)
  PROVE  /\ \E m \in Answers(g) : lastStatus' = [lastStatus EXCEPT ![g] = m.status]
         /\ \A j \in Kinds : At(g, j) <=> j = "answer"
         /\ Answers(g)' = {}
         /\ \A h \in Gateways \ {g} : Answers(h)' = Answers(h)
  <1> USE DEF ControlInv
  <1>1. gw[g] = "wait" /\ Booted(g)
    BY DEF TakeAnswer, Booted
  <1>2. Entry(g).remote = (Own(g) \notin OnTile)
    BY <1>1, OwnFacts
  <1>3. PICK m \in IF Entry(g).remote THEN up[g] ELSE gatewayQueue[g] :
          lastStatus' = [lastStatus EXCEPT ![g] = m.status]
    BY DEF TakeAnswer
  <1>4. m \in Messages /\ m.kind # "registration"
    <2>1. m \in Messages
      BY DEF TypeInv, QueuesTypeOK
    <2>2. CASE m.kind = "registration"
      <3>1. m = Registration(m.from) /\ m.from \in Servicers
        BY <2>1, <2>2 DEF Messages, Registration
      <3> QED
        BY <1>1, <3>1 DEF RegInv, Announced
    <2> QED
      BY <2>1, <2>2
  <1>5. m \in Answers(g)
    BY <1>4 DEF Answers, Messages
  <1>6. \A j \in Kinds : At(g, j) <=> j = "answer"
    BY <1>5, OnlyThere DEF At, Kinds
  <1>7. Answers(g)' = {}
    <2>1. \A a \in Answers(g) : a.from = Own(g)
      BY DEF RouteInv, AnswerInv
    <2>2. CASE Entry(g).remote
      <3>1. up'[g] = {} /\ gatewayQueue' = gatewayQueue
        BY <2>2 DEF TakeAnswer, TypeInv, QueuesTypeOK
      <3> QED
        BY <1>2, <2>1, <2>2, <3>1 DEF TileInv, Answers
    <2>3. CASE ~Entry(g).remote
      <3>1. gatewayQueue'[g] = {} /\ up' = up
        BY <2>3 DEF TakeAnswer, TypeInv, QueuesTypeOK
      <3> QED
        BY <1>2, <2>1, <2>3, <3>1 DEF TileInv, Answers
    <2> QED
      BY <2>2, <2>3
  <1>8. \A h \in Gateways \ {g} : Answers(h)' = Answers(h)
    <2>1. /\ gatewayQueue' \in {gatewayQueue, [gatewayQueue EXCEPT ![g] = {}]}
          /\ up' \in {up, [up EXCEPT ![g] = {}]}
      BY DEF TakeAnswer
    <2> QED
      BY <2>1 DEF Answers, TypeInv, QueuesTypeOK
  <1> QED
    BY <1>3, <1>5, <1>6, <1>7, <1>8

\* do_command gets its answer: nothing is left anywhere.
LEMMA RouteTakeAnswer ==
  ASSUME ControlInv, [Next]_vars, NEW g \in Gateways, TakeAnswer(g)
  PROVE  RouteInv'
  <1> USE DEF ControlInv
  <1>1. gw' = [gw EXCEPT ![g] = "ready"] /\ UNCHANGED <<down, client, queue, held>>
    BY DEF TakeAnswer, servicerVars
  <1>2. \A h \in Gateways : (h # g => gw'[h] = gw[h]) /\ gw'[g] = "ready"
    BY <1>1 DEF TypeInv, GatewayTypeOK
  <1>3. \A j \in Kinds : At(g, j) <=> j = "answer"
    BY TakenAnswer
  <1>4. AnswerInv'
    BY <1>2, TakenAnswer, AnswerFrame DEF RouteInv, AnswerInv
  <1>5. TransitInv'
    <2>1. down[g] = {} /\ client[g] = {}
      BY <1>3 DEF At, Kinds
    <2> QED
      BY <1>1, <1>2, <2>1, TransitFrame DEF RouteInv, TransitInv
  <1>6. ServedInv'
    <2>1. ASSUME NEW s \in Servicers, NEW c \in queue[s] \cup held[s]
          PROVE  gw'[c.gateway] = "wait"
      <3>1. c.gateway \in Gateways /\ gw[c.gateway] = "wait"
        BY ServedFacts DEF RouteInv
      <3>2. At(c.gateway, "queue") \/ At(c.gateway, "held")
        BY DEF At, QueuedFor, HeldFor
      <3> QED
        BY <1>2, <1>3, <3>1, <3>2 DEF Kinds
    <2> QED
      BY <1>1, <2>1, ServedFrame
  <1>7. PlaceInv'
    <2>1. \A h \in Gateways \ {g} : \A j \in Kinds : At(h, j)' <=> At(h, j)
      BY <1>1, TakenAnswer DEF At, Kinds, QueuedFor, HeldFor
    <2> QED
      BY <1>2, <2>1 DEF RouteInv, PlaceInv
  <1> QED
    BY <1>4, <1>5, <1>6, <1>7 DEF RouteInv

\* The client thread takes a command out of the channel.
LEMMA RouteClientReceive ==
  ASSUME ControlInv, [Next]_vars, NEW g \in Gateways, ClientReceive(g)
  PROVE  RouteInv'
  <1> USE DEF ControlInv
  <1> DEFINE Sent == <<Command(g), Own(g)>>
             Got == <<[Command(g) EXCEPT !.remote = TRUE], Own(g)>>
  <1>1. /\ client[g] = {} /\ down[g] # {} /\ down' = [down EXCEPT ![g] = {}]
        /\ client' = [client EXCEPT ![g] =
             {<<[c[1] EXCEPT !.remote = TRUE], c[2]>> : c \in down[g]}]
        /\ UNCHANGED <<gw, queue, held, gatewayQueue, up>>
    BY DEF ClientReceive
  <1>2. gw[g] = "wait" /\ Own(g) \notin OnTile /\ down[g] = {Sent}
    BY <1>1 DEF RouteInv, TransitInv
  <1>3. client' = [client EXCEPT ![g] = {Got}]
    <2> DEFINE To(c) == <<[c[1] EXCEPT !.remote = TRUE], c[2]>>
    <2>1. To(Sent) = Got
      OBVIOUS
    <2>2. client' = [client EXCEPT ![g] = {To(c) : c \in down[g]}]
      BY <1>1
    <2> HIDE DEF To, Sent, Got
    <2>3. {To(c) : c \in down[g]} = {Got}
      BY <1>2, <2>1
    <2> QED
      BY <2>2, <2>3
  <1> HIDE DEF Sent, Got
  <1>4. /\ client'[g] = {Got} /\ down'[g] = {}
        /\ \A h \in Gateways \ {g} : client'[h] = client[h] /\ down'[h] = down[h]
    BY <1>1, <1>3 DEF TypeInv, QueuesTypeOK
  <1>5. \A h \in Gateways : Answers(h)' = Answers(h)
    BY <1>1 DEF Answers
  <1>6. AnswerInv'
    BY <1>1, <1>5, AnswerFrame DEF RouteInv, AnswerInv
  <1>7. TransitInv'
    <2>1. \A h \in Gateways : gw[h] = "wait" =>
            Own(h)' = Own(h) /\ Command(h)' = Command(h)
      BY OwnsKept
    <2> QED
      BY <1>1, <1>2, <1>4, <2>1 DEF RouteInv, TransitInv, Got
  <1>8. ServedInv'
    BY <1>1, ServedFacts, ServedFrame DEF RouteInv
  <1>9. PlaceInv'
    <2>1. \A h \in Gateways, s \in Servicers :
            QueuedFor(h, s)' = QueuedFor(h, s) /\ HeldFor(h, s)' = HeldFor(h, s)
      BY <1>1 DEF HeldFor, QueuedFor
    <2>2. \A j \in Kinds : At(g, j) <=> j = "down"
      BY <1>1, OnlyThere DEF At, Kinds
    <2>3. \A j \in Kinds : At(g, j)' <=> j = "client"
      BY <1>4, <1>5, <2>1, <2>2 DEF At, Kinds
    <2>4. \A h \in Gateways \ {g} : \A j \in Kinds : At(h, j)' <=> At(h, j)
      BY <1>4, <1>5, <2>1 DEF At, Kinds
    <2> QED
      BY <1>1, <2>3, <2>4, PlaceMoved DEF RouteInv, Kinds
  <1> QED
    BY <1>6, <1>7, <1>8, <1>9 DEF RouteInv

\* The client thread puts it in a servicer's queue.
LEMMA RouteClientForward ==
  ASSUME ControlInv, [Next]_vars, NEW g \in Gateways, ClientForward(g)
  PROVE  RouteInv'
  <1> USE DEF ControlInv
  <1> DEFINE Got == [Command(g) EXCEPT !.remote = TRUE]
  <1>1. PICK c \in client[g] : queue[c[2]] = {} /\ queue' = [queue EXCEPT ![c[2]] = {c[1]}]
    BY DEF ClientForward
  <1>2. gw[g] = "wait" /\ Own(g) \notin OnTile /\ c = <<Got, Own(g)>>
    BY DEF RouteInv, TransitInv
  <1>3. queue[Own(g)] = {} /\ queue' = [queue EXCEPT ![Own(g)] = {Got}]
    BY <1>1, <1>2
  <1>4. /\ Got.gateway = g /\ Got.resource = call[g] /\ Got.remote = TRUE
    BY DEF Command
  <1> HIDE DEF Got
  <1>5. client' = [client EXCEPT ![g] = {}] /\ UNCHANGED <<gw, down, held, gatewayQueue, up>>
    BY DEF ClientForward, channelVars
  <1>6. Own(g) \in Servicers
    BY <1>2, OwnFacts
  <1>7. client'[g] = {} /\ \A h \in Gateways \ {g} : client'[h] = client[h]
    BY <1>5 DEF TypeInv, QueuesTypeOK
  <1>8. queue'[Own(g)] = {Got} /\ \A s \in Servicers \ {Own(g)} : queue'[s] = queue[s]
    BY <1>3, <1>6 DEF TypeInv, QueuesTypeOK
  <1>9. \A h \in Gateways : Answers(h)' = Answers(h)
    BY <1>5 DEF Answers
  <1>10. AnswerInv'
    BY <1>5, <1>9, AnswerFrame DEF RouteInv, AnswerInv
  <1>11. TransitInv'
    <2>1. \A h \in Gateways : gw[h] = "wait" =>
            Own(h)' = Own(h) /\ Command(h)' = Command(h)
      BY OwnsKept
    <2> QED
      BY <1>5, <1>7, <2>1 DEF RouteInv, TransitInv
  <1>12. Own(g)' = Own(g) /\ call'[g] = call[g]
    BY <1>2, OwnsKept
  <1>13. ServedInv'
    <2>1. ASSUME NEW s \in Servicers, NEW d \in queue'[s] \cup held'[s]
          PROVE  /\ gw'[d.gateway] = "wait" /\ d.resource = call'[d.gateway]
                 /\ s = Own(d.gateway)' /\ d.remote = (s \notin OnTile)
      <3>1. CASE d \in queue[s] \cup held[s]
        BY <1>5, <3>1, ServedFacts, ServedStill DEF RouteInv
      <3>2. CASE s = Own(g) /\ d = Got
        BY <3>2, <1>2, <1>4, <1>5, <1>12
      <3> QED
        BY <1>5, <1>8, <3>1, <3>2
    <2> QED
      BY <2>1 DEF ServedInv
  <1>14. PlaceInv'
    <2>1. \A j \in Kinds : At(g, j) <=> j = "client"
      BY OnlyThere DEF At, Kinds
    <2>2. \A h \in Gateways \ {g} : \A s \in Servicers : QueuedFor(h, s)' = QueuedFor(h, s)
      BY <1>3, <1>4, <1>8 DEF QueuedFor
    <2>3. QueuedFor(g, Own(g))' # {}
      BY <1>4, <1>8, <1>12 DEF QueuedFor
    <2>4. \A h \in Gateways, s \in Servicers : HeldFor(h, s)' = HeldFor(h, s)
      BY <1>5 DEF HeldFor
    <2>5. \A j \in Kinds : At(g, j)' <=> j = "queue"
      BY <1>5, <1>6, <1>7, <1>9, <1>12, <2>1, <2>3, <2>4 DEF At, Kinds
    <2>6. \A h \in Gateways \ {g} : \A j \in Kinds : At(h, j)' <=> At(h, j)
      BY <1>5, <1>7, <1>9, <2>2, <2>4 DEF At, Kinds
    <2> QED
      BY <1>5, <2>5, <2>6, PlaceMoved DEF RouteInv, Kinds
  <1> QED
    BY <1>10, <1>11, <1>13, <1>14 DEF RouteInv

\* A servicer takes a command out of its queue.
LEMMA RouteReceive ==
  ASSUME ControlInv, [Next]_vars, NEW s \in Servicers, Receive(s)
  PROVE  RouteInv'
  <1> USE DEF ControlInv
  <1>1. /\ held[s] = {} /\ held' = [held EXCEPT ![s] = queue[s]]
        /\ queue' = [queue EXCEPT ![s] = {}]
        /\ UNCHANGED <<gw, down, client, gatewayQueue, up>>
    BY DEF Receive, channelVars
  <1>2. PICK c \in queue[s] : TRUE
    BY DEF Receive
  <1>3. queue[s] = {c}
    BY DEF TypeInv, QueuesTypeOK, Lone
  <1>4. /\ held'[s] = {c} /\ queue'[s] = {}
        /\ \A t \in Servicers \ {s} : held'[t] = held[t] /\ queue'[t] = queue[t]
    BY <1>1, <1>3 DEF TypeInv, QueuesTypeOK
  <1>5. c.gateway \in Gateways /\ gw[c.gateway] = "wait" /\ s = Own(c.gateway)
    BY ServedFacts DEF RouteInv
  <1>6. \A h \in Gateways : Answers(h)' = Answers(h)
    BY <1>1 DEF Answers
  <1>7. AnswerInv'
    BY <1>1, <1>6, AnswerFrame DEF RouteInv, AnswerInv
  <1>8. TransitInv'
    BY <1>1, TransitFrame DEF RouteInv, TransitInv
  <1>9. ServedInv'
    BY <1>1, <1>3, <1>4, ServedFacts, ServedFrame DEF RouteInv
  <1>10. PlaceInv'
    <2>1. \A j \in Kinds : At(c.gateway, j) <=> j = "queue"
      BY <1>5, OnlyThere DEF At, Kinds, QueuedFor
    <2>2. \A t \in Servicers : QueuedFor(c.gateway, t)' = {}
      <3>1. \A t \in Servicers : \A d \in queue[t] : d.gateway = c.gateway => t = s
        BY <1>5, ServedFacts DEF RouteInv
      <3> QED
        BY <1>4, <3>1 DEF QueuedFor
    <2>3. HeldFor(c.gateway, s)' # {}
      BY <1>4 DEF HeldFor
    <2>4. \A h \in Gateways \ {c.gateway} : \A t \in Servicers :
            QueuedFor(h, t)' = QueuedFor(h, t) /\ HeldFor(h, t)' = HeldFor(h, t)
      BY <1>1, <1>3, <1>4 DEF QueuedFor, HeldFor
    <2>5. \A j \in Kinds : At(c.gateway, j)' <=> j = "held"
      BY <1>1, <1>5, <1>6, <2>1, <2>2, <2>3 DEF At, Kinds
    <2>6. \A h \in Gateways \ {c.gateway} : \A j \in Kinds : At(h, j)' <=> At(h, j)
      BY <1>1, <1>6, <2>4 DEF At, Kinds
    <2> QED
      BY <1>1, <1>5, <2>5, <2>6, PlaceMoved DEF RouteInv, Kinds
  <1> QED
    BY <1>7, <1>8, <1>9, <1>10 DEF RouteInv

\* A servicer's answer takes the place of its command.
LEMMA RouteReply ==
  ASSUME ControlInv, [Next]_vars, NEW s \in Servicers, Reply(s)
  PROVE  RouteInv'
  <1> USE DEF ControlInv
  <1>1. PICK c \in held[s] :
          \/ /\ up[c.gateway] = {}
             /\ up' = [up EXCEPT ![c.gateway] = {Answer(s, result[s])}]
             /\ UNCHANGED gatewayQueue
          \/ /\ gatewayQueue[c.gateway] = {}
             /\ gatewayQueue' = [gatewayQueue EXCEPT ![c.gateway] = {Answer(s, result[s])}]
             /\ UNCHANGED up
    BY DEF Reply
  <1>2. held' = [held EXCEPT ![s] = {}] /\ UNCHANGED <<gw, down, client, queue>>
    BY DEF Reply
  <1>3. held[s] = {c}
    BY DEF TypeInv, QueuesTypeOK, Lone
  <1>4. held'[s] = {} /\ \A t \in Servicers \ {s} : held'[t] = held[t]
    BY <1>2 DEF TypeInv, QueuesTypeOK
  <1>5. c.gateway \in Gateways /\ gw[c.gateway] = "wait" /\ s = Own(c.gateway)
    BY ServedFacts DEF RouteInv
  <1>6. \A j \in Kinds : At(c.gateway, j) <=> j = "held"
    BY <1>5, OnlyThere DEF At, Kinds, HeldFor
  <1>7. Answer(s, result[s]).kind = "answer" /\ Answer(s, result[s]).from = s
    BY DEF Answer
  <1>8. /\ Answers(c.gateway)' = {Answer(s, result[s])}
        /\ \A h \in Gateways \ {c.gateway} : Answers(h)' = Answers(h)
    <2>1. Answers(c.gateway) = {}
      BY <1>6 DEF At, Kinds
    <2> DEFINE a == Answer(s, result[s])
    <2> HIDE DEF a
    <2>2. CASE up' = [up EXCEPT ![c.gateway] = {a}] /\ UNCHANGED gatewayQueue
      BY <1>5, <1>7, <2>1, <2>2 DEF Answers, TypeInv, QueuesTypeOK, a
    <2>3. CASE gatewayQueue' = [gatewayQueue EXCEPT ![c.gateway] = {a}] /\ UNCHANGED up
      BY <1>5, <1>7, <2>1, <2>3 DEF Answers, TypeInv, QueuesTypeOK, a
    <2> QED
      BY <1>1, <2>2, <2>3 DEF a
  <1>9. AnswerInv'
    <2>1. \A h \in Gateways : gw[h] = "wait" => Own(h)' = Own(h)
      BY OwnsKept
    <2> QED
      BY <1>2, <1>5, <1>7, <1>8, <2>1 DEF RouteInv, AnswerInv
  <1>10. TransitInv'
    BY <1>2, TransitFrame DEF RouteInv, TransitInv
  <1>11. ServedInv'
    BY <1>2, <1>4, ServedFacts, ServedFrame DEF RouteInv
  <1>12. PlaceInv'
    <2>1. \A t \in Servicers : HeldFor(c.gateway, t)' = {}
      <3>1. \A t \in Servicers : \A d \in held[t] : d.gateway = c.gateway => t = s
        BY <1>5, ServedFacts DEF RouteInv
      <3> QED
        BY <1>4, <3>1 DEF HeldFor
    <2>2. \A h \in Gateways, t \in Servicers : QueuedFor(h, t)' = QueuedFor(h, t)
      BY <1>2 DEF QueuedFor
    <2>3. \A h \in Gateways \ {c.gateway} : \A t \in Servicers :
            HeldFor(h, t)' = HeldFor(h, t)
      BY <1>3, <1>4 DEF HeldFor
    <2>4. \A j \in Kinds : At(c.gateway, j)' <=> j = "answer"
      <3>1. Answers(c.gateway)' # {}
        BY <1>8
      <3>2. \A t \in Servicers : QueuedFor(c.gateway, t)' = {}
        BY <1>5, <1>6, <2>2 DEF At, Kinds
      <3>3. down'[c.gateway] = {} /\ client'[c.gateway] = {}
        BY <1>2, <1>6 DEF At, Kinds
      <3> QED
        BY <2>1, <3>1, <3>2, <3>3 DEF At, Kinds
    <2>5. \A h \in Gateways \ {c.gateway} : \A j \in Kinds : At(h, j)' <=> At(h, j)
      BY <1>2, <1>8, <2>2, <2>3 DEF At, Kinds
    <2> QED
      BY <1>2, <1>5, <2>4, <2>5, PlaceMoved DEF RouteInv, Kinds
  <1> QED
    BY <1>9, <1>10, <1>11, <1>12 DEF RouteInv

\* Every step keeps every command and answer in place, or moves one.
LEMMA RouteStep == ControlInv /\ [Next]_vars => RouteInv'
  <1> SUFFICES ASSUME ControlInv, [Next]_vars PROVE RouteInv'
    OBVIOUS
  <1> USE DEF ControlInv
  <1>1. ASSUME NEW s \in Servicers, NEW g \in Gateways, Register(s, g) PROVE RouteInv'
    <2>1. Registration(s).kind = "registration"
      BY DEF Registration
    <2>2. \A h \in Gateways : Answers(h)' = Answers(h)
      BY <1>1, <2>1 DEF Register, Answers, TypeInv, QueuesTypeOK
    <2>3. UNCHANGED <<gw, down, client, queue, held>>
      BY <1>1 DEF Register, servicerVars
    <2> QED
      BY <2>2, <2>3, RouteFrame
  <1>2. ASSUME NEW g \in Gateways, TakeRegistration(g) PROVE RouteInv'
    <2>1. /\ gw[g] = "register" /\ UNCHANGED <<gw, down, client, queue, held>>
          /\ gatewayQueue' \in {gatewayQueue, [gatewayQueue EXCEPT ![g] = {}]}
          /\ up' \in {up, [up EXCEPT ![g] = {}]}
      BY <1>2 DEF TakeRegistration, servicerVars
    <2>2. Answers(g) = {}
      BY <2>1 DEF RouteInv, AnswerInv
    <2>3. \A h \in Gateways : Answers(h)' = Answers(h)
      BY <2>1, <2>2 DEF Answers, TypeInv, QueuesTypeOK
    <2> QED
      BY <2>1, <2>3, RouteFrame
  <1>3. ASSUME UNCHANGED <<gatewayQueue, up, down, client, queue, held>>,
               \A h \in Gateways : gw'[h] = "wait" <=> gw[h] = "wait"
        PROVE  RouteInv'
    BY <1>3, RouteFrame DEF Answers
  <1>4. ASSUME NEW g \in Gateways,
               RegistrationFails(g) \/ AllocateStatus(g) \/ ClearStatus(g)
        PROVE  RouteInv'
    BY <1>3, <1>4 DEF RegistrationFails, AllocateStatus, ClearStatus, channelVars,
                      servicerVars, TypeInv, GatewayTypeOK
  <1>5. ASSUME NEW g \in Gateways, NEW r \in Resources,
               Refuse(g, r) \/ Special(g) \/ Begin(g, r)
        PROVE  RouteInv'
    BY <1>3, <1>5 DEF Refuse, Special, Begin, channelVars, servicerVars, TypeInv,
                      GatewayTypeOK
  <1>6. ASSUME NEW s \in Servicers, Execute(s) PROVE RouteInv'
    BY <1>3, <1>6 DEF Execute, channelVars
  <1>7. CASE UNCHANGED vars
    BY <1>3, <1>7 DEF vars, channelVars, servicerVars
  <1> QED
    BY <1>1, <1>2, <1>4, <1>5, <1>6, <1>7, RouteSendOnTile, RouteSendOffTile,
       RouteTakeAnswer, RouteClientReceive, RouteClientForward, RouteReceive, RouteReply,
       ControlAssumption
       DEF Next, Gateway, Sends, Servicer

\* ControlInv is inductive.
LEMMA ControlStep == ControlInv /\ [Next]_vars => ControlInv'
  BY TypeStep, TileStep, TableStep, RegStep, RouteStep DEF ControlInv

\* The invariant holds of every reachable state: the tables are right, a
\* registration and an answer never meet, and a waiting gateway's command is in
\* one place, with the servicer that its entry names.
THEOREM Controlled == Spec => []ControlInv
  BY ControlInit, ControlStep, PTL DEF Spec

-----------------------------------------------------------------------------
(***************************************************************************)
(* The properties                                                          *)
(***************************************************************************)
LEMMA StatusStep == ControlInv /\ StatusTypeOK /\ [Next]_vars => StatusTypeOK'
  <1> SUFFICES ASSUME ControlInv, StatusTypeOK, [Next]_vars PROVE StatusTypeOK'
    OBVIOUS
  <1>1. ASSUME NEW g \in Gateways, TakeAnswer(g) PROVE StatusTypeOK'
    <2>1. PICK m \in Answers(g) : lastStatus' = [lastStatus EXCEPT ![g] = m.status]
      BY <1>1, TakenAnswer
    <2>2. m.status \in LastStatuses
      BY DEF Answers, ControlInv, TypeInv, QueuesTypeOK, Messages, LastStatuses
    <2> QED
      BY <2>1, <2>2 DEF StatusTypeOK
  <1>2. ASSUME NEW g \in Gateways, NEW r \in Resources, Refuse(g, r) \/ Special(g)
        PROVE  StatusTypeOK'
    BY <1>2 DEF Refuse, Special, StatusTypeOK, LastStatuses, ServicerStatuses
  <1>3. CASE lastStatus' = lastStatus
    BY <1>3 DEF StatusTypeOK
  <1> QED
    BY <1>1, <1>2, <1>3, ControlAssumption
       DEF Next, Gateway, Sends, Servicer, Register, TakeRegistration, RegistrationFails,
           AllocateStatus, ClearStatus, Begin, SendOnTile, SendOffTile, ClientReceive,
           ClientForward, Receive, Execute, Reply, vars

\* Every variable keeps its type and no queue ever holds two messages: what is
\* sent to a queue of length one finds it empty, and the status a gateway keeps
\* is never what a registration would have left there.
THEOREM TypeCorrect == Spec => []TypeOK
  <1>1. Init => StatusTypeOK
    BY DEF Init, StatusTypeOK, LastStatuses, ServicerStatuses
  <1>2. ControlInv /\ StatusTypeOK => TypeOK
    BY DEF ControlInv, TypeInv, TypeOK
  <1> QED
    BY <1>1, <1>2, ControlInit, ControlStep, StatusStep, PTL DEF Spec

\* Registrations and answers share the gateway's queue and its channel, and no
\* gateway ever takes one for the other (do_command against the loop of
\* device_control_resources_register), for any number of servicers and
\* instances, whatever the order in which each servicer goes through them.
THEOREM BootCorrect == Spec => []BootQueueIsBoot
  <1>1. ControlInv => BootQueueIsBoot
    <2> SUFFICES ASSUME ControlInv, NEW g \in Gateways,
                        NEW m \in gatewayQueue[g] \cup up[g]
                 PROVE  m.kind = IF gw[g] \in {"register", "halted"} THEN "registration"
                                 ELSE "answer"
      BY DEF BootQueueIsBoot
    <2> USE DEF ControlInv
    <2>1. CASE gw[g] \in {"register", "halted"}
      <3>1. m = Registration(m.from)
        BY <2>1, StillRegistration DEF RouteInv
      <3> QED
        BY <2>1, <3>1 DEF Registration
    <2>2. CASE Booted(g)
      <3>1. m \in Messages
        BY DEF TypeInv, QueuesTypeOK
      <3>2. m.kind # "registration"
        <4> SUFFICES ASSUME m.kind = "registration" PROVE FALSE
          OBVIOUS
        <4>1. m = Registration(m.from) /\ m.from \in Servicers
          BY <3>1 DEF Messages, Registration
        <4> QED
          BY <2>2, <4>1 DEF RegInv, Announced
      <3> QED
        BY <2>2, <3>1, <3>2 DEF Messages, Booted
    <2> QED
      BY <2>1, <2>2 DEF Booted
  <1> QED
    BY <1>1, Controlled, PTL

\* A servicer only ever holds commands for resources it registered, with the
\* way back that its tile calls for, and a gateway only ever finds answers of
\* the servicer that registered the resource it asked for.
THEOREM RoutedCorrect == Spec => []RoutedToOwner
  <1>1. ControlInv => RoutedToOwner
    <2> SUFFICES ASSUME ControlInv PROVE RoutedToOwner
      OBVIOUS
    <2> USE DEF ControlInv
    <2>1. ASSUME NEW s \in Servicers, NEW c \in queue[s] \cup held[s]
          PROVE  /\ c.resource = call[c.gateway] /\ c.resource \in Owned[s]
                 /\ c.remote = (s \notin OnTile)
      <3>1. /\ c.gateway \in Gateways /\ gw[c.gateway] = "wait" /\ s = Own(c.gateway)
            /\ c.remote = (s \notin OnTile) /\ c.resource = call[c.gateway]
        BY ServedFacts DEF RouteInv, ServedInv
      <3> QED
        BY <3>1, OwnFacts
    <2>2. ASSUME NEW g \in Gateways, NEW m \in Answers(g) PROVE m.from \in Owners(g)
      <3>1. gw[g] = "wait" /\ m.from = Own(g)
        BY DEF RouteInv, AnswerInv
      <3> QED
        BY <3>1, OwnFacts DEF Owners
    <2> QED
      BY <2>1, <2>2 DEF RoutedToOwner
  <1> QED
    BY <1>1, Controlled, PTL

\* The places of CommandAccountedFor are those of PlaceInv, with the servicer.
LEMMA PlacesAt ==
  ASSUME ControlInv, NEW g \in Gateways
  PROVE  /\ \A x \in Places(g) : \E k \in Kinds : At(g, k) /\ x = <<k, Own(g)>>
         /\ \A k \in Kinds : At(g, k) => <<k, Own(g)>> \in Places(g)
  <1> USE DEF ControlInv
  <1>1. /\ \A c \in down[g] : c[2] = Own(g)
        /\ \A c \in client[g] : c[2] = Own(g)
        /\ \A m \in Answers(g) : m.from = Own(g)
    BY DEF RouteInv, TransitInv, AnswerInv
  <1>2. \A s \in Servicers : QueuedFor(g, s) # {} \/ HeldFor(g, s) # {} => s = Own(g)
    BY ServedFacts DEF RouteInv, QueuedFor, HeldFor
  <1>3. ASSUME NEW x \in Places(g)
        PROVE  \E k \in Kinds : At(g, k) /\ x = <<k, Own(g)>>
    <2>1. \/ x = <<"down", Own(g)>> /\ At(g, "down")
          \/ x = <<"client", Own(g)>> /\ At(g, "client")
          \/ x = <<"queue", Own(g)>> /\ At(g, "queue")
          \/ x = <<"held", Own(g)>> /\ At(g, "held")
          \/ x = <<"answer", Own(g)>> /\ At(g, "answer")
      BY <1>1, <1>2 DEF Places, At
    <2> QED
      BY <2>1 DEF Kinds
  <1>4. ASSUME NEW k \in Kinds, At(g, k) PROVE <<k, Own(g)>> \in Places(g)
    <2>1. CASE k = "down"
      BY <1>1, <1>4, <2>1 DEF At, Places
    <2>2. CASE k = "client"
      BY <1>1, <1>4, <2>2 DEF At, Places
    <2>3. CASE k = "queue"
      BY <1>2, <1>4, <2>3 DEF At, Places
    <2>4. CASE k = "held"
      BY <1>2, <1>4, <2>4 DEF At, Places
    <2>5. CASE k = "answer"
      BY <1>1, <1>4, <2>5 DEF At, Places
    <2> QED
      BY <2>1, <2>2, <2>3, <2>4, <2>5 DEF Kinds
  <1> QED
    BY <1>3, <1>4

\* A gateway that waits is waited for in exactly one place, and nothing is left
\* anywhere for one that does not wait: no command is lost, executed twice or
\* answered late, however many instances compete for the servicers' queues.
THEOREM AccountedCorrect == Spec => []CommandAccountedFor
  <1>1. ControlInv => CommandAccountedFor
    <2> SUFFICES ASSUME ControlInv, NEW g \in Gateways
                 PROVE  Cardinality(Places(g)) = IF gw[g] = "wait" THEN 1 ELSE 0
      BY DEF CommandAccountedFor
    <2> USE DEF ControlInv
    <2>1. CASE gw[g] = "wait"
      <3>1. PICK k \in Kinds : \A j \in Kinds : At(g, j) <=> j = k
        BY <2>1 DEF RouteInv, PlaceInv
      <3>2. Places(g) = {<<k, Own(g)>>}
        BY <3>1, PlacesAt
      <3> QED
        BY <2>1, <3>2, FS_Singleton
    <2>2. CASE gw[g] # "wait"
      <3>1. \A k \in Kinds : ~At(g, k)
        BY <2>2, OnlyThere
      <3>2. Places(g) = {}
        BY <3>1, PlacesAt
      <3> QED
        BY <2>2, <3>2, FS_EmptySet
    <2> QED
      BY <2>1, <2>2
  <1> QED
    BY <1>1, Controlled, PTL

-----------------------------------------------------------------------------
(***************************************************************************)
(* More about the library: what everybody registered is found, and only a  *)
(* servicer that holds a command has a result.                             *)
(***************************************************************************)
FoundInv ==
  \A g \in Gateways :
    /\ \A s \in Servicers : InTable(g, s) => \A r \in Owned[s] : resourceTable[g][r] # 0
    /\ Booted(g) => Complete(g)

ResultInv == \A s \in Servicers : result[s] # "none" => held[s] # {}

LibraryInv == ControlInv /\ FoundInv /\ ResultInv

LEMMA FoundStep == TypeInv /\ FoundInv /\ [Next]_vars => FoundInv'
<1> SUFFICES ASSUME TypeInv, FoundInv, [Next]_vars PROVE FoundInv'
  OBVIOUS
<1>1. ASSUME NEW g \in Gateways, TakeRegistration(g) PROVE FoundInv'
  <2>1. PICK m \in gatewayQueue[g] \cup up[g], remote \in BOOLEAN :
          /\ servicerTable' = [servicerTable EXCEPT ![g] =
               Append(@, [servicer |-> m.from, remote |-> remote])]
          /\ resourceTable' = [resourceTable EXCEPT ![g] = TableWith(g, m.from)]
    BY <1>1 DEF TakeRegistration
  <2>2. gw' = gw /\ gw[g] = "register"
    BY <1>1 DEF TakeRegistration
  <2>3. PICK n : n = Len(servicerTable[g])
    OBVIOUS
  <2>4. n \in Nat /\ servicerTable[g] \in Seq(Entries) /\ m.from \in Servicers
    BY <2>3, TableFacts, MessageTypes DEF TypeInv, QueuesTypeOK
  <2>5. PICK e : e = [servicer |-> m.from, remote |-> remote]
    OBVIOUS
  <2>6. e \in Entries /\ e.servicer = m.from
    BY <2>4, <2>5 DEF Entries
  <2>7. /\ servicerTable'[g] = Append(servicerTable[g], e)
        /\ resourceTable'[g] = TableWith(g, m.from)
        /\ \A h \in Gateways \ {g} : /\ servicerTable'[h] = servicerTable[h]
                                     /\ resourceTable'[h] = resourceTable[h]
    BY <2>1, <2>5 DEF TypeInv, TablesTypeOK
  <2>8. /\ Len(servicerTable'[g]) = n + 1 /\ servicerTable'[g][n + 1] = e
        /\ \A i \in 1 .. n : servicerTable'[g][i] = servicerTable[g][i]
    BY <2>3, <2>4, <2>6, <2>7, AppendProperties
  <2>9. \A s \in Servicers : InTable(g, s)' => InTable(g, s) \/ s = m.from
    <3> SUFFICES ASSUME NEW s \in Servicers, InTable(g, s)'
                 PROVE  InTable(g, s) \/ s = m.from
      OBVIOUS
    <3>1. PICK i \in 1 .. n + 1 : servicerTable'[g][i].servicer = s
      BY <2>8 DEF InTable
    <3>2. i \in 1 .. n \/ i = n + 1
      BY <2>4
    <3>3. QED BY <2>3, <2>6, <2>8, <3>1, <3>2 DEF InTable
  <2>10. \A r \in Resources :
           /\ resourceTable[g][r] # 0 => resourceTable'[g][r] # 0
           /\ r \in Owned[m.from] => resourceTable'[g][r] # 0
    BY <2>3, <2>4, <2>7 DEF TableWith
  <2>11. \A s \in Servicers : Owned[s] \subseteq Resources
    BY ControlAssumption
  <2>12. ASSUME NEW h \in Gateways, NEW s \in Servicers, InTable(h, s)', NEW r \in Owned[s]
         PROVE  resourceTable'[h][r] # 0
    <3>1. CASE h = g
      BY <2>9, <2>10, <2>11, <2>12, <3>1 DEF FoundInv
    <3>2. CASE h # g
      <4>1. InTable(h, s)
        BY <2>7, <2>12, <3>2 DEF InTable
      <4>2. QED BY <2>7, <2>12, <3>2, <4>1 DEF FoundInv
    <3>3. QED BY <3>1, <3>2
  <2>13. ASSUME NEW h \in Gateways, Booted(h)' PROVE Complete(h)'
    BY <2>2, <2>7, <2>13 DEF FoundInv, Booted, Complete
  <2>14. QED BY <2>12, <2>13 DEF FoundInv
<1>2. CASE \A g \in Gateways : ~TakeRegistration(g)
  <2>1. UNCHANGED <<servicerTable, resourceTable>>
    BY <1>2, TablesUntouched
  <2>2. \A g \in Gateways : Booted(g)' => Booted(g) \/ Complete(g)
    BY DEF Booted, TypeInv, GatewayTypeOK, Next, Gateway, Sends, Servicer, Register,
           TakeRegistration, RegistrationFails, AllocateStatus, ClearStatus, Refuse,
           Special, Begin, SendOnTile, SendOffTile, TakeAnswer, ClientReceive,
           ClientForward, Receive, Execute, Reply, vars
  <2>3. QED BY <2>1, <2>2 DEF FoundInv, InTable, Complete
<1>3. QED BY <1>1, <1>2

LEMMA ResultStep == TypeInv /\ ResultInv /\ [Next]_vars => ResultInv'
<1> SUFFICES ASSUME TypeInv, ResultInv, [Next]_vars PROVE ResultInv'
  OBVIOUS
<1>1. ASSUME NEW s \in Servicers, Receive(s) PROVE ResultInv'
  BY <1>1 DEF Receive, ResultInv, TypeInv, QueuesTypeOK
<1>2. ASSUME NEW s \in Servicers, Execute(s) PROVE ResultInv'
  BY <1>2 DEF Execute, ResultInv, TypeInv, QueuesTypeOK
<1>3. ASSUME NEW s \in Servicers, Reply(s) PROVE ResultInv'
  BY <1>3 DEF Reply, ResultInv, TypeInv, QueuesTypeOK
<1>4. CASE UNCHANGED <<held, result>>
  BY <1>4 DEF ResultInv
<1>5. QED
  BY <1>1, <1>2, <1>3, <1>4
     DEF Next, Gateway, Sends, Servicer, Register, TakeRegistration, RegistrationFails,
         AllocateStatus, ClearStatus, Refuse, Special, Begin, SendOnTile, SendOffTile,
         TakeAnswer, ClientReceive, ClientForward, vars, servicerVars

LEMMA LibraryStarts == Init => LibraryInv
<1> SUFFICES ASSUME Init PROVE LibraryInv
  OBVIOUS
<1>1. FoundInv
  BY DEF Init, FoundInv, InTable, Booted
<1>2. ResultInv
  BY DEF Init, ResultInv
<1>3. QED BY <1>1, <1>2, ControlInit DEF LibraryInv

LEMMA LibraryStep == LibraryInv /\ [Next]_vars => LibraryInv'
<1>1. ControlInv => TypeInv
  BY DEF ControlInv
<1>2. QED BY <1>1, ControlStep, FoundStep, ResultStep DEF LibraryInv

\* A ready instance finds exactly the resources that somebody registered.
OwnedBySome(r) == \E s \in Servicers : r \in Owned[s]

LEMMA FoundIsOwned ==
  ASSUME LibraryInv, NEW g \in Gateways, gw[g] = "ready", NEW r \in Resources
  PROVE  Found(g, r) <=> r = "special" \/ OwnedBySome(r)
<1>1. TypeInv /\ TableInv /\ RegInv /\ FoundInv
  BY DEF LibraryInv, ControlInv
<1>2. Complete(g)
  BY <1>1 DEF FoundInv, Booted
<1>3. OwnedBySome(r) => resourceTable[g][r] # 0
  BY <1>1, <1>2, FullTable DEF FoundInv, OwnedBySome
<1>4. ASSUME resourceTable[g][r] # 0 PROVE OwnedBySome(r)
  <2>1. PICK i : i = resourceTable[g][r]
    OBVIOUS
  <2>2. i \in 1 .. Len(servicerTable[g])
    BY <1>1, <1>4, <2>1, TableFacts DEF TypeInv, TablesTypeOK
  <2>3. servicerTable[g][i].servicer \in Servicers
    BY <1>1, <2>2, TableFacts DEF TypeInv, Entries
  <2>4. r \in Owned[servicerTable[g][i].servicer]
    BY <1>1, <1>4, <2>1 DEF TableInv
  <2>5. QED BY <2>3, <2>4 DEF OwnedBySome
<1>5. QED BY <1>3, <1>4 DEF Found

-----------------------------------------------------------------------------
(***************************************************************************)
(* The refinement: every step of the library is a step of the calls it     *)
(* promises, or changes nothing of them.                                   *)
(***************************************************************************)
LEMMA AnswerTypes ==
  ASSUME ControlInv, NEW g \in Gateways, NEW m \in Answers(g)
  PROVE  m.status \in ServicerStatuses /\ m.from = Own(g) /\ gw[g] = "wait"
<1>1. m \in Messages /\ m.kind = "answer"
  BY DEF Answers, ControlInv, TypeInv, QueuesTypeOK
<1>2. m.status \in ServicerStatuses
  BY <1>1 DEF Messages
<1>3. QED BY <1>2 DEF ControlInv, RouteInv, AnswerInv

\* What the servicers know of the call of a gateway
LEMMA ResultFrom ==
  ASSUME LibraryInv, NEW g \in Gateways, NEW x \in Results(g)
  PROVE  /\ gw[g] = "wait" /\ x[1] = Own(g) /\ x[2] \in ServicerStatuses
         /\ x = <<x[1], x[2]>>
<1>1. ControlInv /\ TypeInv /\ ServedInv
  BY DEF LibraryInv, ControlInv, RouteInv
<1>2. ASSUME NEW m \in Answers(g), x = <<m.from, m.status>>
      PROVE  gw[g] = "wait" /\ x[1] = Own(g) /\ x[2] \in ServicerStatuses
  BY <1>1, <1>2, AnswerTypes
<1>3. ASSUME NEW s \in Servicers, HeldFor(g, s) # {}, result[s] # "none", x = <<s, result[s]>>
      PROVE  gw[g] = "wait" /\ x[1] = Own(g) /\ x[2] \in ServicerStatuses
  <2>1. PICK c \in held[s] : c.gateway = g
    BY <1>3 DEF HeldFor
  <2>2. gw[g] = "wait" /\ s = Own(g)
    BY <1>1, <2>1, ServedFacts
  <2>3. result[s] \in ServicerStatuses
    BY <1>1, <1>3 DEF TypeInv, QueuesTypeOK
  <2>4. QED BY <1>3, <2>2, <2>3
<1>4. QED BY <1>2, <1>3 DEF Results

\* There is one result at most.
LEMMA OneResult ==
  ASSUME LibraryInv, NEW g \in Gateways, NEW x \in Results(g), NEW y \in Results(g)
  PROVE  x = y
<1>1. ControlInv /\ TypeInv /\ TileInv /\ TableInv /\ RouteInv /\ ServedInv
  BY DEF LibraryInv, ControlInv, RouteInv
<1>2. gw[g] = "wait" /\ x[1] = Own(g) /\ y[1] = Own(g)
  BY ResultFrom
<1>3. \A m, n \in Answers(g) : m = n
  <2> SUFFICES ASSUME NEW m \in Answers(g), NEW n \in Answers(g) PROVE m = n
    OBVIOUS
  <2>1. m.from = Own(g) /\ n.from = Own(g)
    BY <1>1, AnswerTypes
  <2>2. CASE Own(g) \in OnTile
    <3>1. m \in gatewayQueue[g] /\ n \in gatewayQueue[g]
      BY <1>1, <2>1, <2>2 DEF Answers, TileInv
    <3>2. QED BY <1>1, <3>1 DEF TypeInv, QueuesTypeOK, Lone
  <2>3. CASE Own(g) \notin OnTile
    <3>1. m \in up[g] /\ n \in up[g]
      BY <1>1, <2>1, <2>3 DEF Answers, TileInv
    <3>2. QED BY <1>1, <3>1 DEF TypeInv, QueuesTypeOK, Lone
  <2>4. QED BY <2>2, <2>3
<1>4. ASSUME Answers(g) # {}, NEW s \in Servicers PROVE HeldFor(g, s) = {}
  <2>1. At(g, "answer")
    BY <1>4 DEF At
  <2>2. ~At(g, "held")
    BY <1>1, <2>1, OnlyThere DEF Kinds
  <2>3. QED BY <2>2 DEF At
<1>5. CASE Answers(g) # {}
  <2>1. \A z \in Results(g) : \E m \in Answers(g) : z = <<m.from, m.status>>
    BY <1>4, <1>5 DEF Results
  <2>2. QED BY <1>3, <2>1
<1>6. CASE Answers(g) = {}
  <2>1. \A z \in Results(g) : \E s \in Servicers : z = <<s, result[s]>>
    BY <1>6 DEF Results
  <2>2. PICK s \in Servicers, t \in Servicers : x = <<s, result[s]>> /\ y = <<t, result[t]>>
    BY <2>1
  <2>3. s = t
    BY <1>2, <2>2
  <2>4. QED BY <2>2, <2>3
<1>7. QED BY <1>5, <1>6

\* What the call of a gateway looks like
CallLooks(g) ==
  /\ gw[g] # "wait" => Results(g) = {}
  /\ gw[g] \notin {"send", "wait"} => PhaseOf(g) = "idle"
  /\ gw[g] \in {"send", "wait"} /\ Results(g) = {} => PhaseOf(g) = "called"
  /\ Results(g) = {} => ExecutedBy(g) = {} /\ StatusOf(g) = lastStatus[g]
  /\ \A x \in Results(g) :
       PhaseOf(g) = "executed" /\ ExecutedBy(g) = {x[1]} /\ StatusOf(g) = x[2]

LEMMA CallFacts == ASSUME LibraryInv, NEW g \in Gateways PROVE CallLooks(g)
<1>1. gw[g] # "wait" => Results(g) = {}
  BY ResultFrom
<1>2. ASSUME NEW x \in Results(g)
      PROVE  PhaseOf(g) = "executed" /\ ExecutedBy(g) = {x[1]} /\ StatusOf(g) = x[2]
  <2>1. gw[g] = "wait"
    BY ResultFrom
  <2>2. Results(g) = {x}
    BY OneResult
  <2>3. (CHOOSE y \in Results(g) : TRUE) = x
    BY <2>2
  <2>4. QED BY <2>1, <2>2, <2>3 DEF PhaseOf, ExecutedBy, StatusOf
<1>3. gw[g] \notin {"send", "wait"} => PhaseOf(g) = "idle"
  BY DEF PhaseOf
<1>4. gw[g] \in {"send", "wait"} /\ Results(g) = {} => PhaseOf(g) = "called"
  BY DEF PhaseOf
<1>5. Results(g) = {} => ExecutedBy(g) = {} /\ StatusOf(g) = lastStatus[g]
  BY DEF ExecutedBy, StatusOf
<1>6. QED BY <1>1, <1>2, <1>3, <1>4, <1>5 DEF CallLooks

LEMMA CallFactsNext == LibraryInv' => \A g \in Gateways : CallLooks(g)'
<1>1. LibraryInv => \A g \in Gateways : CallLooks(g)
  BY CallFacts
<1>2. (LibraryInv => \A g \in Gateways : CallLooks(g))'
  BY <1>1, PTL
<1>3. QED BY <1>2

CallInv == LibraryInv /\ StatusTypeOK

LEMMA SameResults ==
  ASSUME NEW g \in Gateways, Answers(g)' = Answers(g), UNCHANGED <<held, result>>
  PROVE  Results(g)' = Results(g)
BY DEF Results, HeldFor

\* A gateway whose call goes on as before
LEMMA SameCall ==
  ASSUME LibraryInv, LibraryInv', NEW g \in Gateways, Results(g)' = Results(g),
         lastStatus'[g] = lastStatus[g],
         gw'[g] \in {"send", "wait"} <=> gw[g] \in {"send", "wait"}
  PROVE  /\ PhaseOf(g)' = PhaseOf(g) /\ ExecutedBy(g)' = ExecutedBy(g)
         /\ StatusOf(g)' = StatusOf(g)
<1>1. CallLooks(g) /\ CallLooks(g)'
  BY CallFacts, CallFactsNext
<1>2. CASE Results(g) = {}
  <2>1. CASE gw[g] \in {"send", "wait"}
    BY <1>1, <1>2, <2>1 DEF CallLooks
  <2>2. CASE gw[g] \notin {"send", "wait"}
    BY <1>1, <1>2, <2>2 DEF CallLooks
  <2>3. QED BY <2>1, <2>2
<1>3. ASSUME NEW x \in Results(g)
      PROVE  /\ PhaseOf(g)' = PhaseOf(g) /\ ExecutedBy(g)' = ExecutedBy(g)
             /\ StatusOf(g)' = StatusOf(g)
  BY <1>1, <1>3 DEF CallLooks
<1>4. QED BY <1>2, <1>3

\* Only the call of gateway g changes.
LEMMA OneCallMoves ==
  ASSUME LibraryInv, LibraryInv', NEW g \in Gateways,
         \A h \in Gateways \ {g} :
           /\ Results(h)' = Results(h) /\ lastStatus'[h] = lastStatus[h] /\ gw'[h] = gw[h]
  PROVE  /\ CallPhase' = [CallPhase EXCEPT ![g] = PhaseOf(g)']
         /\ CallExecutedBy' = [CallExecutedBy EXCEPT ![g] = ExecutedBy(g)']
         /\ CallStatus' = [CallStatus EXCEPT ![g] = StatusOf(g)']
<1>1. \A h \in Gateways \ {g} :
        /\ PhaseOf(h)' = PhaseOf(h) /\ ExecutedBy(h)' = ExecutedBy(h)
        /\ StatusOf(h)' = StatusOf(h)
  BY SameCall
<1>2. CallPhase' = [CallPhase EXCEPT ![g] = PhaseOf(g)']
  BY <1>1 DEF CallPhase
<1>3. CallExecutedBy' = [CallExecutedBy EXCEPT ![g] = ExecutedBy(g)']
  BY <1>1 DEF CallExecutedBy
<1>4. CallStatus' = [CallStatus EXCEPT ![g] = StatusOf(g)']
  BY <1>1 DEF CallStatus
<1>5. QED BY <1>2, <1>3, <1>4

\* No call changes.
LEMMA NoCallMoves ==
  ASSUME LibraryInv, LibraryInv', call' = call, lastStatus' = lastStatus,
         \A g \in Gateways :
           /\ Results(g)' = Results(g)
           /\ gw'[g] \in {"send", "wait"} <=> gw[g] \in {"send", "wait"}
  PROVE  UNCHANGED Calls!vars
<1>1. \A g \in Gateways :
        /\ PhaseOf(g)' = PhaseOf(g) /\ ExecutedBy(g)' = ExecutedBy(g)
        /\ StatusOf(g)' = StatusOf(g)
  BY SameCall
<1>2. CallPhase' = CallPhase
  BY <1>1 DEF CallPhase
<1>3. CallExecutedBy' = CallExecutedBy
  BY <1>1 DEF CallExecutedBy
<1>4. CallStatus' = CallStatus
  BY <1>1 DEF CallStatus
<1>5. QED BY <1>2, <1>3, <1>4 DEF Calls!vars

\* A gateway that does not wait for an answer has no result, before or after.
LEMMA NoResults ==
  ASSUME LibraryInv, LibraryInv', NEW g \in Gateways, gw[g] # "wait", gw'[g] # "wait"
  PROVE  Results(g)' = Results(g) /\ Results(g) = {}
<1>1. CallLooks(g) /\ CallLooks(g)'
  BY CallFacts, CallFactsNext
<1>2. QED BY <1>1 DEF CallLooks

-----------------------------------------------------------------------------
(***************************************************************************)
(* The steps that are none of the calls'                                   *)
(***************************************************************************)
LEMMA BootIsSilent ==
  ASSUME LibraryInv, LibraryInv', NEW g \in Gateways,
         TakeRegistration(g) \/ AllocateStatus(g) \/ ClearStatus(g) \/ RegistrationFails(g)
  PROVE  UNCHANGED Calls!vars
<1>1. /\ UNCHANGED <<call, lastStatus, held, result>>
      /\ gw[g] \in {"register", "clear"}
      /\ gw' \in {gw, [gw EXCEPT ![g] = "clear"], [gw EXCEPT ![g] = "ready"],
                  [gw EXCEPT ![g] = "halted"]}
  BY DEF TakeRegistration, AllocateStatus, ClearStatus, RegistrationFails, servicerVars
<1>2. /\ gw'[g] \notin {"send", "wait"}
      /\ \A h \in Gateways \ {g} : gw'[h] = gw[h]
  BY <1>1 DEF LibraryInv, ControlInv, TypeInv, GatewayTypeOK
<1>3. \A h \in Gateways \ {g} : Answers(h)' = Answers(h)
  <2>1. CASE TakeRegistration(g)
    BY <2>1 DEF TakeRegistration, Answers, LibraryInv, ControlInv, TypeInv, QueuesTypeOK
  <2>2. CASE AllocateStatus(g) \/ ClearStatus(g) \/ RegistrationFails(g)
    BY <2>2 DEF AllocateStatus, ClearStatus, RegistrationFails, channelVars, Answers
  <2>3. QED BY <2>1, <2>2
<1>4. ASSUME NEW h \in Gateways
      PROVE  /\ Results(h)' = Results(h)
             /\ gw'[h] \in {"send", "wait"} <=> gw[h] \in {"send", "wait"}
  <2>1. CASE h = g
    BY <1>1, <1>2, <2>1, NoResults
  <2>2. CASE h # g
    <3>1. Results(h)' = Results(h)
      BY <1>1, <1>3, <2>2, SameResults
    <3>2. QED BY <1>2, <2>2, <3>1
  <2>3. QED BY <2>1, <2>2
<1>5. QED BY <1>1, <1>4, NoCallMoves

LEMMA TransitIsSilent ==
  ASSUME LibraryInv, LibraryInv', NEW g \in Gateways,
         Sends(g) \/ SendOffTile(g) \/ ClientReceive(g)
  PROVE  UNCHANGED Calls!vars
<1>1. UNCHANGED <<call, lastStatus, held, result, gatewayQueue, up>>
  BY DEF Sends, SendOnTile, SendOffTile, ClientReceive, ClientForward, servicerVars,
         channelVars
<1>2. \A h \in Gateways : gw'[h] \in {"send", "wait"} <=> gw[h] \in {"send", "wait"}
  BY DEF Sends, SendOnTile, SendOffTile, ClientReceive, ClientForward, LibraryInv,
         ControlInv, TypeInv, GatewayTypeOK
<1>3. \A h \in Gateways : Results(h)' = Results(h)
  BY <1>1 DEF Results, Answers, HeldFor
<1>4. QED BY <1>1, <1>2, <1>3, NoCallMoves

LEMMA RegisterIsSilent ==
  ASSUME LibraryInv, LibraryInv', NEW s \in Servicers, NEW g \in Gateways, Register(s, g)
  PROVE  UNCHANGED Calls!vars
<1>1. UNCHANGED <<gw, call, lastStatus, held, result>>
  BY DEF Register, servicerVars
<1>2. \A h \in Gateways : Answers(h)' = Answers(h)
  BY DEF Register, Answers, Registration, LibraryInv, ControlInv, TypeInv, QueuesTypeOK
<1>3. \A h \in Gateways : Results(h)' = Results(h)
  BY <1>1, <1>2, SameResults
<1>4. QED BY <1>1, <1>3, NoCallMoves

LEMMA ReceiveIsSilent ==
  ASSUME LibraryInv, LibraryInv', NEW s \in Servicers, Receive(s)
  PROVE  UNCHANGED Calls!vars
<1>1. UNCHANGED <<gw, call, lastStatus, gatewayQueue, up, result>>
  BY DEF Receive, channelVars
<1>2. held[s] = {} /\ \A t \in Servicers \ {s} : held'[t] = held[t]
  BY DEF Receive, LibraryInv, ControlInv, TypeInv, QueuesTypeOK
<1>3. result[s] = "none"
  BY <1>2 DEF LibraryInv, ResultInv
<1>4. ASSUME NEW h \in Gateways PROVE Results(h)' = Results(h)
  <2>1. {t \in Servicers : HeldFor(h, t) # {} /\ result[t] # "none"}' =
          {t \in Servicers : HeldFor(h, t) # {} /\ result[t] # "none"}
    BY <1>1, <1>2, <1>3 DEF HeldFor
  <2>2. QED BY <1>1, <2>1 DEF Results, Answers
<1>5. QED BY <1>1, <1>4, NoCallMoves

\* The result of a servicer becomes its answer.
LEMMA OneResultNext ==
  LibraryInv' => \A g \in Gateways : \A x, y \in Results(g)' : x = y
<1>1. LibraryInv => \A g \in Gateways : \A x, y \in Results(g) : x = y
  BY OneResult
<1>2. (LibraryInv => \A g \in Gateways : \A x, y \in Results(g) : x = y)'
  BY <1>1, PTL
<1>3. QED BY <1>2

LEMMA ReplyIsSilent ==
  ASSUME LibraryInv, LibraryInv', NEW s \in Servicers, Reply(s)
  PROVE  UNCHANGED Calls!vars
<1>1. TypeInv /\ ServedInv
  BY DEF LibraryInv, ControlInv, RouteInv
<1>2. UNCHANGED <<gw, call, lastStatus>>
  BY DEF Reply
<1>3. PICK c \in held[s] :
        IF c.remote
        THEN /\ up' = [up EXCEPT ![c.gateway] = {Answer(s, result[s])}]
             /\ up[c.gateway] = {} /\ UNCHANGED gatewayQueue
        ELSE /\ gatewayQueue' = [gatewayQueue EXCEPT ![c.gateway] = {Answer(s, result[s])}]
             /\ gatewayQueue[c.gateway] = {} /\ UNCHANGED up
  BY DEF Reply
<1>4. PICK g \in Gateways : g = c.gateway
  BY <1>1, ServedFacts
<1>5. held[s] = {c} /\ result[s] # "none"
  BY <1>1, <1>3 DEF Reply, TypeInv, QueuesTypeOK, Lone
<1>6. held'[s] = {} /\ \A t \in Servicers \ {s} : held'[t] = held[t] /\ result'[t] = result[t]
  BY <1>1 DEF Reply, TypeInv, QueuesTypeOK
<1>7. Answer(s, result[s]) \in Answers(g)'
  BY <1>1, <1>3, <1>4 DEF Answers, Answer, TypeInv, QueuesTypeOK
<1>8. <<s, result[s]>> \in Results(g)
  BY <1>4, <1>5 DEF Results, HeldFor
<1>9. PICK x : x = <<s, result[s]>>
  OBVIOUS
<1>10. x \in Results(g)'
  BY <1>7, <1>9 DEF Results, Answer
<1>11. Results(g)' = Results(g)
  <2>3. Results(g) = {x}
    BY <1>8, <1>9, OneResult
  <2>4. \A z \in Results(g)' : z = x
    BY <1>10, OneResultNext
  <2>5. Results(g)' = {x}
    BY <1>10, <2>4
  <2>6. QED BY <2>3, <2>5
<1>12. ASSUME NEW h \in Gateways, h # g PROVE Results(h)' = Results(h)
  <2>1. Answers(h)' = Answers(h)
    BY <1>1, <1>3, <1>4, <1>12 DEF Answers, TypeInv, QueuesTypeOK
  <2>2. HeldFor(h, s) = {} /\ HeldFor(h, s)' = {}
    BY <1>4, <1>5, <1>6, <1>12 DEF HeldFor
  <2>3. \A t \in Servicers \ {s} : HeldFor(h, t)' = HeldFor(h, t)
    BY <1>6 DEF HeldFor
  <2>4. \A t \in {u \in Servicers : HeldFor(h, u) # {} /\ result[u] # "none"} :
          t # s /\ HeldFor(h, t)' # {} /\ result'[t] = result[t]
    BY <1>6, <2>2, <2>3
  <2>5. \A t \in Servicers : HeldFor(h, t)' # {} /\ result'[t] # "none" =>
          t # s /\ HeldFor(h, t) # {} /\ result'[t] = result[t]
    BY <1>6, <2>2, <2>3
  <2>6. PICK T : T = {t \in Servicers : HeldFor(h, t) # {} /\ result[t] # "none"}
    OBVIOUS
  <2>7. T = {t \in Servicers : HeldFor(h, t)' # {} /\ result'[t] # "none"}
    BY <2>4, <2>5, <2>6
  <2>8. /\ Results(h) = {<<m.from, m.status>> : m \in Answers(h)}
                        \cup {<<t, result[t]>> : t \in T}
        /\ Results(h)' = {<<m.from, m.status>> : m \in Answers(h)'}
                        \cup {<<t, result'[t]>> : t \in T}
    BY <2>6, <2>7, Zenon DEF Results
  <2>9. \A t \in T : result'[t] = result[t]
    BY <2>4, <2>6
  <2>10. QED BY <2>1, <2>8, <2>9
<1>13. \A h \in Gateways : Results(h)' = Results(h)
  BY <1>11, <1>12
<1>14. QED BY <1>2, <1>13, NoCallMoves

-----------------------------------------------------------------------------
(***************************************************************************)
(* The steps that are those of the calls                                   *)
(***************************************************************************)
\* Called and answered on the spot, or begun
LEMMA TransportCalls ==
  ASSUME CallInv, LibraryInv', NEW g \in Gateways, NEW r \in Resources,
         Refuse(g, r) \/ Special(g) \/ Begin(g, r)
  PROVE  Calls!Next
<1>1. LibraryInv /\ gw[g] = "ready" /\ g \in DOMAIN lastStatus
  BY DEF CallInv, StatusTypeOK, Refuse, Special, Begin
<1>2. UNCHANGED <<held, result, gatewayQueue, up>>
  BY DEF Refuse, Special, Begin, channelVars, servicerVars
<1>3. \A h \in Gateways : Results(h)' = Results(h)
  BY <1>2 DEF Results, Answers, HeldFor
<1>4. CallLooks(g) /\ CallLooks(g)'
  BY <1>1, CallFacts, CallFactsNext
<1>5. Results(g) = {} /\ Results(g)' = {}
  BY <1>1, <1>3, <1>4 DEF CallLooks
<1>6. /\ PhaseOf(g) = "idle" /\ ExecutedBy(g) = {} /\ ExecutedBy(g)' = {}
      /\ StatusOf(g) = lastStatus[g] /\ StatusOf(g)' = lastStatus'[g]
  BY <1>1, <1>4, <1>5 DEF CallLooks
<1>7. CallPhase[g] = "idle" /\ CallStatus[g] = lastStatus[g] /\ CallExecutedBy[g] = {}
  BY <1>6 DEF CallPhase, CallStatus, CallExecutedBy
<1>8. \A h \in Gateways \ {g} : lastStatus'[h] = lastStatus[h] /\ gw'[h] = gw[h]
  <2>1. lastStatus \in [Gateways -> LastStatuses]
    BY DEF CallInv, StatusTypeOK
  <2>2. gw \in [Gateways -> {"register", "clear", "ready", "send", "wait", "halted"}]
    BY <1>1 DEF LibraryInv, ControlInv, TypeInv, GatewayTypeOK
  <2>3. gw' = gw \/ gw' = [gw EXCEPT ![g] = "send"]
    BY DEF Refuse, Special, Begin
  <2>4. lastStatus' = lastStatus \/ \E st : lastStatus' = [lastStatus EXCEPT ![g] = st]
    <3>1. CASE Refuse(g, r)
      BY <3>1 DEF Refuse
    <3>2. CASE Special(g)
      BY <3>2 DEF Special
    <3>3. CASE Begin(g, r)
      BY <3>3 DEF Begin
    <3>4. QED BY <3>1, <3>2, <3>3
  <2>5. \A h \in Gateways \ {g} : gw'[h] = gw[h]
    BY <2>2, <2>3
  <2>6. \A h \in Gateways \ {g} : lastStatus'[h] = lastStatus[h]
    BY <2>1, <2>4
  <2>7. QED BY <2>5, <2>6
<1>9. /\ CallPhase' = [CallPhase EXCEPT ![g] = PhaseOf(g)']
      /\ CallExecutedBy' = CallExecutedBy
      /\ CallStatus' = [CallStatus EXCEPT ![g] = lastStatus'[g]]
  <2>1. /\ CallPhase' = [CallPhase EXCEPT ![g] = PhaseOf(g)']
        /\ CallExecutedBy' = [CallExecutedBy EXCEPT ![g] = ExecutedBy(g)']
        /\ CallStatus' = [CallStatus EXCEPT ![g] = StatusOf(g)']
    BY <1>1, <1>3, <1>8, OneCallMoves
  <2>2. [CallExecutedBy EXCEPT ![g] = {}] = CallExecutedBy
    BY <1>7 DEF CallExecutedBy
  <2>3. QED BY <1>6, <2>1, <2>2
<1>10. \A q \in Resources : q \in Calls!Registered <=> OwnedBySome(q)
  BY DEF Calls!Registered, OwnedBySome
<1>11. \A q \in Resources : Found(g, q) <=> q = "special" \/ OwnedBySome(q)
  BY <1>1, FoundIsOwned
<1>12. CASE Refuse(g, r) \/ Special(g)
  <2>1. PICK q \in Resources,
             st \in {"SUCCESS", "BAD_COMMAND", "BAD_RESOURCE", "DATA_LENGTH_ERROR",
                    CallStatus[g]} :
          /\ call' = [call EXCEPT ![g] = q] /\ lastStatus'[g] = st
          /\ \/ st = "DATA_LENGTH_ERROR"
             \/ q = "special" /\ st \in {"SUCCESS", "BAD_COMMAND"}
             \/ q # "special" /\ q \notin Calls!Registered
                  /\ st \in {"BAD_RESOURCE", CallStatus[g]}
    <3>1. CASE Refuse(g, r)
      BY <1>1, <1>7, <1>10, <1>11, <3>1 DEF Refuse
    <3>2. CASE Special(g)
      <4>1. "special" \in Resources
        BY ControlAssumption
      <4>2. QED BY <1>1, <3>2, <4>1 DEF Special
    <3>3. QED BY <1>12, <3>1, <3>2
  <2>2. gw'[g] = "ready"
    BY <1>1, <1>12 DEF Refuse, Special
  <2>3. PhaseOf(g)' = "idle"
    BY <1>4, <2>2 DEF CallLooks
  <2>4. CallPhase' = CallPhase
    BY <1>7, <1>9, <2>3 DEF CallPhase
  <2>5. Calls!Answer(g, q, st)
    BY <1>7, <1>9, <2>1, <2>4 DEF Calls!Answer
  <2>6. QED BY <2>5 DEF Calls!Next
<1>13. CASE Begin(g, r)
  <2>1. /\ r \in Calls!Registered /\ call' = [call EXCEPT ![g] = r]
        /\ gw'[g] = "send" /\ lastStatus' = lastStatus
    BY <1>10, <1>11, <1>13 DEF Begin, LibraryInv, ControlInv, TypeInv, GatewayTypeOK
  <2>2. PhaseOf(g)' = "called"
    BY <1>4, <1>5, <2>1 DEF CallLooks
  <2>3. CallStatus' = CallStatus
    BY <1>7, <1>9, <2>1 DEF CallStatus
  <2>4. Calls!Call(g)
    BY <1>7, <1>9, <2>1, <2>2, <2>3 DEF Calls!Call
  <2>5. QED BY <2>4 DEF Calls!Next
<1>14. QED BY <1>12, <1>13

\* The owner of the resource executes the command.
LEMMA ExecuteIsExecute ==
  ASSUME LibraryInv, LibraryInv', NEW s \in Servicers, Execute(s)
  PROVE  Calls!Next
<1>1. ControlInv /\ TypeInv /\ TableInv /\ RouteInv /\ ServedInv
  BY DEF LibraryInv, ControlInv, RouteInv
<1>2. PICK st \in ServicerStatuses : result' = [result EXCEPT ![s] = st]
  BY DEF Execute
<1>3. /\ result[s] = "none" /\ UNCHANGED <<gw, call, lastStatus, held, gatewayQueue, up>>
  BY DEF Execute, channelVars
<1>4. PICK c \in held[s] : TRUE
  BY DEF Execute
<1>5. PICK g \in Gateways : g = c.gateway
  BY <1>1, ServedFacts
<1>6. gw[g] = "wait" /\ s = Own(g) /\ call[g] \in Owned[s]
  BY <1>1, <1>4, <1>5, ServedFacts, OwnFacts
<1>7. Results(g) = {}
  <2>1. At(g, "held") /\ HeldFor(g, s) # {}
    BY <1>4, <1>5 DEF At, HeldFor
  <2>2. ~At(g, "answer")
    BY <1>1, <2>1, OnlyThere DEF Kinds
  <2>3. Answers(g) = {}
    BY <2>2 DEF At
  <2>4. ASSUME NEW x \in Results(g) PROVE FALSE
    <3>1. x[1] = s
      BY <1>6, ResultFrom
    <3>2. PICK t \in Servicers : result[t] # "none" /\ x = <<t, result[t]>>
      BY <2>3 DEF Results
    <3>3. QED BY <1>3, <3>1, <3>2
  <2>5. QED BY <2>4
<1>8. st # "none" /\ result'[s] = st /\ \A t \in Servicers \ {s} : result'[t] = result[t]
  BY <1>1, <1>2 DEF ServicerStatuses, TypeInv, QueuesTypeOK
<1>9. PICK x : x = <<s, st>>
  OBVIOUS
<1>10. x \in Results(g)' /\ x[1] = s /\ x[2] = st
  <2>1. HeldFor(g, s)' # {}
    BY <1>3, <1>4, <1>5 DEF HeldFor
  <2>2. x \in {<<t, result'[t]>> : t \in {u \in Servicers : HeldFor(g, u)' # {}
                                                             /\ result'[u] # "none"}}
    BY <1>8, <1>9, <2>1
  <2>3. QED BY <1>9, <2>2 DEF Results
<1>11. ASSUME NEW h \in Gateways \ {g} PROVE Results(h)' = Results(h)
  <2>1. Answers(h)' = Answers(h) /\ \A t \in Servicers : HeldFor(h, t)' = HeldFor(h, t)
    BY <1>3 DEF Answers, HeldFor
  <2>2. HeldFor(h, s) = {}
    BY <1>1, <1>4, <1>5 DEF HeldFor, TypeInv, QueuesTypeOK, Lone
  <2>3. PICK T : T = {t \in Servicers : HeldFor(h, t) # {} /\ result[t] # "none"}
    OBVIOUS
  <2>4. T = {t \in Servicers : HeldFor(h, t)' # {} /\ result'[t] # "none"}
    BY <1>8, <2>1, <2>2, <2>3
  <2>5. /\ Results(h) = {<<m.from, m.status>> : m \in Answers(h)}
                        \cup {<<t, result[t]>> : t \in T}
        /\ Results(h)' = {<<m.from, m.status>> : m \in Answers(h)'}
                        \cup {<<t, result'[t]>> : t \in T}
    BY <2>3, <2>4, Zenon DEF Results
  <2>6. \A t \in T : result'[t] = result[t]
    BY <1>8, <2>2, <2>3
  <2>7. QED BY <2>1, <2>5, <2>6
<1>12. CallLooks(g) /\ CallLooks(g)'
  BY CallFacts, CallFactsNext
<1>13. PhaseOf(g) = "called"
  BY <1>6, <1>7, <1>12 DEF CallLooks
<1>14. PhaseOf(g)' = "executed" /\ ExecutedBy(g)' = {s} /\ StatusOf(g)' = st
  BY <1>10, <1>12 DEF CallLooks
<1>15. /\ CallPhase' = [CallPhase EXCEPT ![g] = PhaseOf(g)']
       /\ CallExecutedBy' = [CallExecutedBy EXCEPT ![g] = ExecutedBy(g)']
       /\ CallStatus' = [CallStatus EXCEPT ![g] = StatusOf(g)']
  BY <1>3, <1>11, OneCallMoves
<1>16. CallPhase[g] = "called"
  BY <1>13 DEF CallPhase
<1>17. Calls!Execute(g, s, st)
  BY <1>3, <1>6, <1>14, <1>15, <1>16 DEF Calls!Execute
<1>18. QED BY <1>17 DEF Calls!Next

\* The call returns with the status that its servicer gave.
LEMMA TakeAnswerReturns ==
  ASSUME CallInv, LibraryInv', NEW g \in Gateways, TakeAnswer(g)
  PROVE  Calls!Next
<1>1. LibraryInv /\ ControlInv /\ g \in DOMAIN lastStatus
  BY DEF CallInv, LibraryInv, StatusTypeOK
<1>2. PICK m \in Answers(g) : lastStatus' = [lastStatus EXCEPT ![g] = m.status]
  BY <1>1, TakenAnswer
<1>3. \A h \in Gateways \ {g} : Answers(h)' = Answers(h)
  BY <1>1, TakenAnswer
<1>4. gw' = [gw EXCEPT ![g] = "ready"] /\ UNCHANGED <<call, held, result>>
  BY DEF TakeAnswer, servicerVars
<1>5. gw'[g] = "ready" /\ \A h \in Gateways \ {g} : gw'[h] = gw[h]
  BY <1>1, <1>4 DEF ControlInv, TypeInv, GatewayTypeOK
<1>6. \A h \in Gateways \ {g} : Results(h)' = Results(h) /\ lastStatus'[h] = lastStatus[h]
  BY <1>2, <1>3, <1>4, SameResults
<1>7. PICK x : x = <<m.from, m.status>>
  OBVIOUS
<1>8. x \in Results(g) /\ x[2] = m.status
  BY <1>7 DEF Results
<1>9. CallLooks(g) /\ CallLooks(g)'
  BY <1>1, CallFacts, CallFactsNext
<1>10. PhaseOf(g) = "executed" /\ StatusOf(g) = m.status
  BY <1>8, <1>9 DEF CallLooks
<1>11. Results(g)' = {}
  BY <1>5, <1>9 DEF CallLooks
<1>12. PhaseOf(g)' = "idle" /\ ExecutedBy(g)' = {} /\ StatusOf(g)' = m.status
  BY <1>1, <1>2, <1>5, <1>9, <1>11 DEF CallLooks
<1>13. /\ CallPhase' = [CallPhase EXCEPT ![g] = PhaseOf(g)']
       /\ CallExecutedBy' = [CallExecutedBy EXCEPT ![g] = ExecutedBy(g)']
       /\ CallStatus' = [CallStatus EXCEPT ![g] = StatusOf(g)']
  BY <1>1, <1>5, <1>6, OneCallMoves
<1>14. CallPhase[g] = "executed" /\ CallStatus[g] = m.status
  BY <1>10 DEF CallPhase, CallStatus
<1>15. CallStatus' = CallStatus
  BY <1>12, <1>13, <1>14 DEF CallStatus
<1>16. Calls!Return(g)
  BY <1>4, <1>12, <1>13, <1>14, <1>15 DEF Calls!Return
<1>17. QED BY <1>16 DEF Calls!Next

LEMMA CallsStart == Init => Calls!Init
<1> SUFFICES ASSUME Init PROVE Calls!Init
  OBVIOUS
<1>1. \A g \in Gateways : Results(g) = {} /\ gw[g] = "register" /\ lastStatus[g] = "SUCCESS"
  BY DEF Init, Results, Answers, HeldFor
<1>2. \A g \in Gateways :
        PhaseOf(g) = "idle" /\ ExecutedBy(g) = {} /\ StatusOf(g) = "SUCCESS"
  <2> SUFFICES ASSUME NEW g \in Gateways
               PROVE  PhaseOf(g) = "idle" /\ ExecutedBy(g) = {} /\ StatusOf(g) = "SUCCESS"
    OBVIOUS
  <2>1. CallLooks(g)
    BY LibraryStarts, CallFacts
  <2>2. QED BY <1>1, <2>1 DEF CallLooks
<1>3. CallPhase = [g \in Gateways |-> "idle"]
  BY <1>2 DEF CallPhase
<1>4. CallExecutedBy = [g \in Gateways |-> {}]
  BY <1>2 DEF CallExecutedBy
<1>5. CallStatus = [g \in Gateways |-> "SUCCESS"]
  BY <1>2 DEF CallStatus
<1>6. call = [g \in Gateways |-> "special"]
  BY DEF Init
<1>7. QED BY <1>3, <1>4, <1>5, <1>6 DEF Calls!Init

LEMMA CallsStep == CallInv /\ LibraryInv' /\ [Next]_vars => [Calls!Next]_Calls!vars
<1> SUFFICES ASSUME CallInv, LibraryInv', [Next]_vars
             PROVE  Calls!Next \/ UNCHANGED Calls!vars
  OBVIOUS
<1> USE DEF CallInv
<1>1. ASSUME NEW g \in Gateways, Gateway(g) PROVE Calls!Next \/ UNCHANGED Calls!vars
  <2>1. CASE TakeAnswer(g)
    BY <2>1, TakeAnswerReturns
  <2>2. CASE SendOffTile(g)
    BY <2>2, TransitIsSilent
  <2>3. CASE TakeRegistration(g) \/ AllocateStatus(g) \/ ClearStatus(g)
    BY <2>3, BootIsSilent
  <2>4. QED BY <1>1, <2>1, <2>2, <2>3 DEF Gateway
<1>2. ASSUME NEW g \in Gateways, Sends(g) \/ ClientReceive(g)
      PROVE  Calls!Next \/ UNCHANGED Calls!vars
  BY <1>2, TransitIsSilent
<1>3. ASSUME NEW g \in Gateways, RegistrationFails(g)
      PROVE  Calls!Next \/ UNCHANGED Calls!vars
  BY <1>3, BootIsSilent
<1>4. ASSUME NEW g \in Gateways, NEW r \in Resources, Refuse(g, r) \/ Begin(g, r)
      PROVE  Calls!Next \/ UNCHANGED Calls!vars
  BY <1>4, TransportCalls
<1>5. ASSUME NEW g \in Gateways, Special(g) PROVE Calls!Next \/ UNCHANGED Calls!vars
  <2>1. "special" \in Resources
    BY ControlAssumption
  <2>2. QED BY <1>5, <2>1, TransportCalls
<1>6. ASSUME NEW s \in Servicers, Servicer(s) PROVE Calls!Next \/ UNCHANGED Calls!vars
  <2>1. CASE Execute(s)
    BY <2>1, ExecuteIsExecute
  <2>2. CASE Receive(s)
    BY <2>2, ReceiveIsSilent
  <2>3. CASE Reply(s)
    BY <2>3, ReplyIsSilent
  <2>4. ASSUME NEW g \in Gateways, Register(s, g) PROVE UNCHANGED Calls!vars
    BY <2>4, RegisterIsSilent
  <2>5. QED BY <1>6, <2>1, <2>2, <2>3, <2>4 DEF Servicer
<1>7. CASE UNCHANGED vars
  <2>1. UNCHANGED <<gw, call, lastStatus, held, result, gatewayQueue, up>>
    BY <1>7 DEF vars, channelVars, servicerVars
  <2>2. \A h \in Gateways : Results(h)' = Results(h)
    BY <2>1 DEF Results, Answers, HeldFor
  <2>3. QED BY <2>1, <2>2, NoCallMoves
<1>8. QED BY <1>1, <1>2, <1>3, <1>4, <1>5, <1>6, <1>7 DEF Next

\* Every call is executed exactly once, by the servicer that registered its
\* resource, and returns with the status of that servicer, for any number of
\* instances and servicers on either tile: what goes on in queues, channel and
\* threads in between is no more than the call, its execution and its return.
THEOREM CallsImplemented == Spec => ImplementsCalls
<1>1. Init => CallInv
  BY LibraryStarts DEF CallInv, Init, StatusTypeOK, LastStatuses, ServicerStatuses
<1>2. CallInv /\ [Next]_vars => CallInv'
  BY LibraryStep, StatusStep DEF CallInv, LibraryInv
<1>3. CallInv /\ CallInv' /\ [Next]_vars => [Calls!Next]_Calls!vars
  BY CallsStep DEF CallInv
<1>4. QED BY <1>1, <1>2, <1>3, CallsStart, PTL DEF Spec, ImplementsCalls, Calls!Spec
=============================================================================
