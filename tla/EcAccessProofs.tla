--------------------------- MODULE EcAccessProofs ---------------------------
(***************************************************************************)
(* Proofs about EcAccess, for any number of threads, any RAM, any fields   *)
(* and both interpreters: mutexes and regions balance, a thread writes     *)
(* only its own field, a call fails only on a collision, and, with the     *)
(* history of MCEcAccess, every byte of a reply was held by the RAM.       *)
(***************************************************************************)
EXTENDS MCEcAccess, TLAPS

Serials == {"RECB", "WECB"}

\* What TypeOK leaves open: which buffers and replies there are.
Shape ==
  /\ DOMAIN TEMP = Serials
  /\ DOMAIN reply = Threads

\* Where a thread is in its field.
Position ==
  \A t \in Threads :
    /\ pc[t] = "called" => next[t] = call[t].first
    /\ pc[t] \in {"loop", "byte"} => call[t].first <= next[t] /\ next[t] <= End(t)
    /\ pc[t] = "byte" => next[t] < End(t)

\* WECB's buffer is the argument of the thread that holds WECB.
Argument == \A t \in Threads : owner["WECB"] = t => TEMP["WECB"] = Payload(t)

EcInv == TypeOK /\ Shape /\ LocksBalanced /\ Position /\ Argument

\* A call has a method, a place in RAM and a length of whole bytes.
LEMMA CallFacts ==
  ASSUME TypeOK, NEW t \in Threads
  PROVE  /\ call[t].method \in Methods
         /\ call[t].first \in Nat /\ call[t].bits \in Nat /\ call[t].data \in Seq(Bytes)
         /\ Length(t) \in Nat /\ Length(t) = (call[t].bits + 7) \div 8
         /\ End(t) \in Nat /\ next[t] \in Nat
         /\ ~Serialized(t) => Length(t) = 1
<1>1. call[t] \in CallType /\ call[t] \in Calls /\ next[t] \in Nat
  BY CallsAssumption DEF TypeOK
<1>2. /\ call[t].method \in Methods
      /\ call[t].first \in Nat /\ call[t].bits \in Nat /\ call[t].data \in Seq(Bytes)
  BY <1>1 DEF CallType
<1>3. call[t].bits + 7 \in Nat /\ Count(call[t].bits) \in Nat
  BY <1>2 DEF Count
<1>4. CASE Serialized(t)
  BY <1>1, <1>2, <1>3, <1>4 DEF Length, Count, End
<1>5. CASE ~Serialized(t)
  <2>1. call[t].bits = 8
    BY <1>1, <1>2, <1>5, CallsAssumption DEF Serialized, Methods
  <2>2. (8 + 7) \div 8 = 1
    OBVIOUS
  <2>3. QED
    BY <1>1, <1>2, <1>5, <2>1, <2>2 DEF Length, End
<1>6. QED
  BY <1>4, <1>5

\* The buffer WECB makes of its argument has the length of the field.
LEMMA PayloadFits ==
  ASSUME TypeOK, NEW t \in Threads
  PROVE  Payload(t) \in [0..(Length(t) - 1) -> Bytes]
<1>1. call[t].data \in Seq(Bytes) /\ Length(t) \in Nat
  BY CallFacts
<1>2. \A i \in 0..(Length(t) - 1) :
         (IF i < Len(call[t].data) THEN call[t].data[i + 1] ELSE 0) \in Bytes
  BY <1>1, BytesAssumption
<1>3. QED
  BY <1>2 DEF Payload, Store

\* What the firmware of the machine starts from.
LEMMA InitEc == Init => EcInv
<1> SUFFICES ASSUME Init PROVE EcInv
  OBVIOUS
<1>1. TypeOK
  BY CallsAssumption, NoThreadAssumption, BytesAssumption DEF Init, TypeOK, Zeros
<1>2. QED
  BY <1>1, NoThreadAssumption DEF Init, EcInv, Shape, LocksBalanced, Position, Argument, Serials

\* A method that ends, however it ends, gives up what its thread holds and nothing else.
LEMMA ExitFrees ==
  ASSUME EcInv, NEW t \in Threads, NEW status \in {"ok", "failed"}, NEW bytes,
         Exit(t, status, bytes)
  PROVE  /\ owner' \in [Serials -> Threads \cup {NoThread}]
         /\ \A m \in Serials, u \in Threads : owner'[m] = u <=> owner[m] = u /\ u # t
         /\ DOMAIN TEMP' = Serials
         /\ \A m \in Serials : owner'[m] # NoThread => owner'[m] = owner[m] /\ TEMP'[m] = TEMP[m]
         /\ DOMAIN reply' = Threads
         /\ \A u \in Threads : reply'[u] = IF u = t THEN [status |-> status, bytes |-> bytes]
                                           ELSE reply[u]
         /\ pc' = [pc EXCEPT ![t] = "idle"]
<1>1. owner \in [Serials -> Threads \cup {NoThread}] /\ DOMAIN TEMP = Serials
  BY DEF EcInv, TypeOK, Shape, Serials
<1>2. owner' = [m \in Serials |-> IF owner[m] = t THEN NoThread ELSE owner[m]]
  BY <1>1 DEF Exit, Held
<1>3. TEMP' = [m \in Serials |-> IF owner[m] = t THEN Zeros(0) ELSE TEMP[m]]
  BY <1>1 DEF Exit, Held
<1>4. \A m \in Serials, u \in Threads : owner'[m] = u <=> owner[m] = u /\ u # t
  BY <1>1, <1>2, NoThreadAssumption
<1>5. \A m \in Serials : owner'[m] # NoThread => owner'[m] = owner[m] /\ TEMP'[m] = TEMP[m]
  BY <1>1, <1>2, <1>3
<1>6. reply' = [reply EXCEPT ![t] = [status |-> status, bytes |-> bytes]] /\ DOMAIN reply = Threads
  BY DEF Exit, EcInv, Shape
<1>7. owner' \in [Serials -> Threads \cup {NoThread}]
  BY <1>1, <1>2
<1>8. DOMAIN reply' = Threads
         /\ \A u \in Threads : reply'[u] = IF u = t THEN [status |-> status, bytes |-> bytes]
                                           ELSE reply[u]
  BY <1>6
<1>9. QED
  BY <1>3, <1>4, <1>5, <1>7, <1>8 DEF Exit, Goto

\* A call that ends at its loop leaves the invariant true.
LEMMA ExitLoop ==
  ASSUME EcInv, NEW t \in Threads, NEW status \in {"ok", "failed"}, NEW bytes,
         pc[t] = "loop", Exit(t, status, bytes), UNCHANGED <<ram, policy, inside, call, next>>
  PROVE  EcInv'
<1> USE DEF EcInv
<1>1. /\ owner' \in [Serials -> Threads \cup {NoThread}]
      /\ \A m \in Serials, u \in Threads : owner'[m] = u <=> owner[m] = u /\ u # t
      /\ DOMAIN TEMP' = Serials
      /\ \A m \in Serials : owner'[m] # NoThread => owner'[m] = owner[m] /\ TEMP'[m] = TEMP[m]
      /\ DOMAIN reply' = Threads
      /\ \A u \in Threads : reply'[u] = IF u = t THEN [status |-> status, bytes |-> bytes]
                                        ELSE reply[u]
      /\ pc' = [pc EXCEPT ![t] = "idle"]
  BY ExitFrees
<1>2. TypeOK'
  <2>1. /\ ram' \in [Address -> Bytes] /\ policy' \in Policies /\ call' \in [Threads -> Calls]
        /\ inside' \in [{"RE1B", "WE1B"} -> Threads \cup {NoThread}] /\ next' \in [Threads -> Nat]
        /\ owner' \in [{"RECB", "WECB"} -> Threads \cup {NoThread}]
        /\ pc' \in [Threads -> {"idle", "called", "loop", "byte"}]
    BY <1>1 DEF TypeOK, Serials
  <2>2. \A m \in {"RECB", "WECB"}, u \in Threads :
           owner'[m] = u => TEMP'[m] \in [0..(Length(u)' - 1) -> Bytes]
    <3>1. \A u \in Threads : Length(u)' = Length(u)
      BY DEF Length, Serialized
    <3>2. SUFFICES ASSUME NEW m \in Serials, NEW u \in Threads, owner'[m] = u
                   PROVE  TEMP'[m] \in [0..(Length(u) - 1) -> Bytes]
      BY <3>1 DEF Serials
    <3>3. owner[m] = u /\ TEMP'[m] = TEMP[m]
      BY <1>1, <3>2, NoThreadAssumption
    <3>4. QED
      BY <3>3 DEF TypeOK, Serials
  <2>3. \A u \in Threads : reply'[u].status \in {"none", "ok", "failed"}
    <3>1. reply'[t] = [status |-> status, bytes |-> bytes]
      BY <1>1
    <3>2. reply'[t].status = status
      BY <3>1
    <3>3. \A u \in Threads \ {t} : reply'[u] = reply[u]
      BY <1>1
    <3>4. QED
      BY <3>2, <3>3 DEF TypeOK
  <2>4. QED
    BY <2>1, <2>2, <2>3 DEF TypeOK
<1>3. Shape'
  BY <1>1 DEF Shape
<1>4. LocksBalanced'
  BY <1>1 DEF TypeOK, LocksBalanced, ByteMethod, Reads, Serials
<1>5. Position'
  BY <1>1 DEF TypeOK, Position, End, Length, Serialized
<1>6. Argument'
  <2>1. \A u \in Threads : Payload(u)' = Payload(u)
    BY DEF Payload, Length, Serialized
  <2>2. QED
    BY <1>1, <2>1, NoThreadAssumption DEF Argument, Serials
<1>7. QED
  BY <1>2, <1>3, <1>4, <1>5, <1>6

\* A call that ends inside a byte method leaves the region of that method behind for no one.
LEMMA ExitByte ==
  ASSUME EcInv, NEW t \in Threads, NEW status \in {"ok", "failed"}, NEW bytes,
         pc[t] = "byte", Exit(t, status, bytes), LeaveByte(t),
         ram' \in [Address -> Bytes], next' \in [Threads -> Nat],
         \A u \in Threads \ {t} : next'[u] = next[u],
         UNCHANGED <<policy, call>>
  PROVE  EcInv'
<1> USE DEF EcInv
<1>1. /\ owner' \in [Serials -> Threads \cup {NoThread}]
      /\ \A m \in Serials, u \in Threads : owner'[m] = u <=> owner[m] = u /\ u # t
      /\ DOMAIN TEMP' = Serials
      /\ \A m \in Serials : owner'[m] # NoThread => owner'[m] = owner[m] /\ TEMP'[m] = TEMP[m]
      /\ DOMAIN reply' = Threads
      /\ \A u \in Threads : reply'[u] = IF u = t THEN [status |-> status, bytes |-> bytes]
                                        ELSE reply[u]
      /\ pc' = [pc EXCEPT ![t] = "idle"]
  BY ExitFrees
<1>2. /\ inside' \in [{"RE1B", "WE1B"} -> Threads \cup {NoThread}]
      /\ \A b \in {"RE1B", "WE1B"}, u \in Threads : inside'[b] = u <=> inside[b] = u /\ u # t
  <2>1. ByteMethod(t) \in {"RE1B", "WE1B"} /\ inside[ByteMethod(t)] = t
    BY DEF LocksBalanced, ByteMethod
  <2>2. \A b \in {"RE1B", "WE1B"} : inside[b] = t => b = ByteMethod(t)
    BY DEF LocksBalanced
  <2>3. QED
    BY <2>1, <2>2, NoThreadAssumption DEF LeaveByte, TypeOK
<1>3. TypeOK'
  <2>1. /\ ram' \in [Address -> Bytes] /\ policy' \in Policies /\ call' \in [Threads -> Calls]
        /\ inside' \in [{"RE1B", "WE1B"} -> Threads \cup {NoThread}] /\ next' \in [Threads -> Nat]
        /\ owner' \in [{"RECB", "WECB"} -> Threads \cup {NoThread}]
        /\ pc' \in [Threads -> {"idle", "called", "loop", "byte"}]
    BY <1>1, <1>2 DEF TypeOK, Serials
  <2>2. \A m \in {"RECB", "WECB"}, u \in Threads :
           owner'[m] = u => TEMP'[m] \in [0..(Length(u)' - 1) -> Bytes]
    <3>1. \A u \in Threads : Length(u)' = Length(u)
      BY DEF Length, Serialized
    <3>2. SUFFICES ASSUME NEW m \in Serials, NEW u \in Threads, owner'[m] = u
                   PROVE  TEMP'[m] \in [0..(Length(u) - 1) -> Bytes]
      BY <3>1 DEF Serials
    <3>3. owner[m] = u /\ TEMP'[m] = TEMP[m]
      BY <1>1, <3>2, NoThreadAssumption
    <3>4. QED
      BY <3>3 DEF TypeOK, Serials
  <2>3. \A u \in Threads : reply'[u].status \in {"none", "ok", "failed"}
    <3>1. reply'[t] = [status |-> status, bytes |-> bytes]
      BY <1>1
    <3>2. reply'[t].status = status
      BY <3>1
    <3>3. \A u \in Threads \ {t} : reply'[u] = reply[u]
      BY <1>1
    <3>4. QED
      BY <3>2, <3>3 DEF TypeOK
  <2>4. QED
    BY <2>1, <2>2, <2>3 DEF TypeOK
<1>4. Shape'
  BY <1>1 DEF Shape
<1>5. LocksBalanced'
  BY <1>1, <1>2 DEF TypeOK, LocksBalanced, ByteMethod, Reads, Serials
<1>6. Position'
  BY <1>1 DEF TypeOK, Position, End, Length, Serialized
<1>7. Argument'
  <2>1. \A u \in Threads : Payload(u)' = Payload(u)
    BY DEF Payload, Length, Serialized
  <2>2. QED
    BY <1>1, <2>1, NoThreadAssumption DEF Argument, Serials
<1>8. QED
  BY <1>3, <1>4, <1>5, <1>6, <1>7

\* A thread that begins a call holds nothing yet.
LEMMA CallStep ==
  ASSUME EcInv, NEW t \in Threads, NEW c \in Calls, Call(t, c)
  PROVE  EcInv'
<1> USE DEF EcInv
<1>1. /\ pc[t] = "idle" /\ pc' = [pc EXCEPT ![t] = "called"]
      /\ call' = [call EXCEPT ![t] = c] /\ next' = [next EXCEPT ![t] = c.first]
      /\ UNCHANGED <<ram, policy, owner, TEMP, inside>>
  BY DEF Call, Goto
<1>2. c.first \in Nat
  BY CallsAssumption DEF CallType
<1>3. \A m \in Serials : owner[m] # t
  BY <1>1 DEF LocksBalanced, Serials
<1>4. \A u \in Threads \ {t} : /\ Length(u)' = Length(u) /\ End(u)' = End(u)
                               /\ Payload(u)' = Payload(u) /\ ByteMethod(u)' = ByteMethod(u)
  BY <1>1 DEF TypeOK, Length, Serialized, End, Payload, ByteMethod, Reads
<1>5. /\ reply' = [reply EXCEPT ![t] = [status |-> "none", bytes |-> Zeros(0)]]
      /\ DOMAIN reply = Threads
  BY DEF Call, Shape
<1>6. TypeOK'
  BY <1>1, <1>2, <1>3, <1>4, <1>5 DEF TypeOK, Serials
<1>7. Shape'
  BY <1>1, <1>5 DEF Shape
<1>8. LocksBalanced'
  BY <1>1, <1>3, <1>4 DEF TypeOK, LocksBalanced, Serials
<1>9. Position'
  BY <1>1, <1>4 DEF TypeOK, Position
<1>10. Argument'
  BY <1>1, <1>3, <1>4 DEF Argument, Serials
<1>11. QED
  BY <1>6, <1>7, <1>8, <1>9, <1>10

\* The mutex is free when a thread takes it, and the buffer it makes has the field's length.
LEMMA EnterStep ==
  ASSUME EcInv, NEW t \in Threads, Enter(t)
  PROVE  EcInv'
<1> USE DEF EcInv
<1>1. /\ pc[t] = "called" /\ pc' = [pc EXCEPT ![t] = "loop"]
      /\ UNCHANGED <<ram, policy, inside, call, next, reply>>
  BY DEF Enter, Goto
<1>2. \A u \in Threads : /\ Length(u)' = Length(u) /\ End(u)' = End(u)
                         /\ Payload(u)' = Payload(u) /\ ByteMethod(u)' = ByteMethod(u)
  BY <1>1 DEF Length, Serialized, End, Payload, ByteMethod, Reads
<1>3. /\ Length(t) \in Nat /\ Payload(t) \in [0..(Length(t) - 1) -> Bytes]
      /\ Zeros(Length(t)) \in [0..(Length(t) - 1) -> Bytes]
      /\ End(t) \in Nat /\ call[t].first <= End(t)
      /\ call[t].method \in Methods
  BY CallFacts, PayloadFits, BytesAssumption DEF Zeros, End
<1>4. Position'
  BY <1>1, <1>2, <1>3 DEF TypeOK, Position
<1>5. CASE Serialized(t)
  <2> DEFINE m == call[t].method
             buffer == IF Reads(t) THEN Zeros(Length(t)) ELSE Payload(t)
  <2>1. /\ m \in Serials /\ owner[m] = NoThread
        /\ owner' = [owner EXCEPT ![m] = t] /\ TEMP' = [TEMP EXCEPT ![m] = buffer]
        /\ DOMAIN TEMP = Serials
    BY <1>5 DEF Enter, Serialized, Serials, Shape
  <2>2. buffer \in [0..(Length(t) - 1) -> Bytes]
    BY <1>3
  <2>3. m = "WECB" => buffer = Payload(t)
    BY DEF Reads
  <2>4. m = call[t].method
    OBVIOUS
  <2> HIDE DEF m, buffer
  <2>5. TypeOK'
    <3>1. ram' \in [Address -> Bytes] /\ policy' \in Policies
      BY <1>1 DEF TypeOK
    <3>2. owner' \in [{"RECB", "WECB"} -> Threads \cup {NoThread}]
      BY <2>1 DEF TypeOK, Serials
    <3>3. \A n \in {"RECB", "WECB"}, u \in Threads :
             owner'[n] = u => TEMP'[n] \in [0..(Length(u)' - 1) -> Bytes]
      BY <1>2, <2>1, <2>2, NoThreadAssumption DEF TypeOK, Serials
    <3>4. QED
      BY <1>1, <3>1, <3>2, <3>3 DEF TypeOK
  <2>6. Shape'
    BY <1>1, <2>1 DEF Shape
  <2>7. LocksBalanced'
    BY <1>1, <1>2, <2>1, <2>4, NoThreadAssumption DEF TypeOK, LocksBalanced, Serials
  <2>8. Argument'
    BY <1>2, <2>1, <2>3, NoThreadAssumption DEF TypeOK, Argument, Serials
  <2>9. QED
    BY <1>4, <2>5, <2>6, <2>7, <2>8
<1>6. CASE ~Serialized(t)
  <2>1. UNCHANGED <<owner, TEMP>> /\ call[t].method \notin Serials
    BY <1>6 DEF Enter, Serialized, Serials
  <2>2. TypeOK'
    BY <1>1, <1>2, <2>1 DEF TypeOK
  <2>3. Shape' /\ Argument'
    BY <1>1, <1>2, <2>1 DEF Shape, Argument
  <2>4. LocksBalanced'
    BY <1>1, <1>2, <2>1 DEF TypeOK, LocksBalanced, Serials
  <2>5. QED
    BY <1>4, <2>2, <2>3, <2>4
<1>7. QED
  BY <1>5, <1>6

\* A byte method that is entered was free.
LEMMA EnterByteStep ==
  ASSUME EcInv, NEW t \in Threads, EnterByte(t)
  PROVE  EcInv'
<1> USE DEF EcInv
<1> DEFINE b == ByteMethod(t)
<1>1. /\ pc[t] = "loop" /\ next[t] < End(t) /\ pc' = [pc EXCEPT ![t] = "byte"]
      /\ inside[b] = NoThread /\ inside' = [inside EXCEPT ![b] = t]
      /\ UNCHANGED <<ram, policy, owner, TEMP, call, next, reply>>
      /\ b \in {"RE1B", "WE1B"}
  BY DEF EnterByte, More, Goto, ByteMethod
<1>2. \A u \in Threads : /\ Length(u)' = Length(u) /\ End(u)' = End(u)
                         /\ Payload(u)' = Payload(u) /\ ByteMethod(u)' = ByteMethod(u)
  BY <1>1 DEF Length, Serialized, End, Payload, ByteMethod, Reads
<1>3. b = ByteMethod(t)
  OBVIOUS
<1> HIDE DEF b
<1>4. TypeOK'
  BY <1>1, <1>2 DEF TypeOK
<1>5. Shape' /\ Argument'
  BY <1>1, <1>2 DEF Shape, Argument
<1>6. LocksBalanced'
  <2>1. \A u \in Threads : pc'[u] \in {"loop", "byte"} <=> pc[u] \in {"loop", "byte"}
    BY <1>1 DEF TypeOK
  <2>2. \A m \in {"RECB", "WECB"}, u \in Threads :
          owner'[m] = u <=> pc'[u] \in {"loop", "byte"} /\ call'[u].method = m
    BY <1>1, <2>1 DEF LocksBalanced
  <2>3. \A c \in {"RE1B", "WE1B"}, u \in Threads :
          inside'[c] = u <=> pc'[u] = "byte" /\ ByteMethod(u) = c
    BY <1>1, <1>3, NoThreadAssumption DEF TypeOK, LocksBalanced
  <2>4. QED
    BY <1>2, <2>2, <2>3 DEF LocksBalanced
<1>7. Position'
  BY <1>1, <1>2 DEF TypeOK, Position
<1>8. QED
  BY <1>4, <1>5, <1>6, <1>7

\* One access of a loop moves one byte between RAM and the buffer of the thread's own mutex.
LEMMA AccessFieldStep ==
  ASSUME EcInv, NEW t \in Threads, AccessField(t)
  PROVE  EcInv'
<1> USE DEF EcInv
<1>1. /\ pc[t] = "byte" /\ pc' = [pc EXCEPT ![t] = "loop"] /\ Serialized(t)
      /\ next' = [next EXCEPT ![t] = @ + 1] /\ next[t] \in Address
      /\ UNCHANGED <<policy, owner, call, reply>>
  BY DEF AccessField, Goto
<1>2. \A u \in Threads : /\ Length(u)' = Length(u) /\ End(u)' = End(u)
                         /\ Payload(u)' = Payload(u) /\ ByteMethod(u)' = ByteMethod(u)
  BY <1>1 DEF Length, Serialized, End, Payload, ByteMethod, Reads
<1>3. /\ inside' \in [{"RE1B", "WE1B"} -> Threads \cup {NoThread}]
      /\ \A b \in {"RE1B", "WE1B"}, u \in Threads : inside'[b] = u <=> inside[b] = u /\ u # t
  <2>1. ByteMethod(t) \in {"RE1B", "WE1B"} /\ inside[ByteMethod(t)] = t
    BY <1>1 DEF LocksBalanced, ByteMethod
  <2>2. \A b \in {"RE1B", "WE1B"} : inside[b] = t => b = ByteMethod(t)
    BY DEF LocksBalanced
  <2>3. LeaveByte(t)
    BY DEF AccessField
  <2>4. QED
    BY <2>1, <2>2, <2>3, NoThreadAssumption DEF LeaveByte, TypeOK
<1>4. /\ call[t].first \in Nat /\ next[t] \in Nat /\ End(t) \in Nat /\ Length(t) \in Nat
      /\ call[t].first <= next[t] /\ next[t] < End(t) /\ End(t) = call[t].first + Length(t)
      /\ call[t].method \in Methods
  BY <1>1, CallFacts DEF Position, End
<1>5. next[t] - call[t].first \in 0..(Length(t) - 1)
  BY <1>4
<1>6. /\ ram' \in [Address -> Bytes] /\ DOMAIN TEMP' = Serials
      /\ TEMP'["WECB"] = TEMP["WECB"]
      /\ \A u \in Threads :
           owner["RECB"] = u => TEMP'["RECB"] \in [0..(Length(u) - 1) -> Bytes]
  <2>1. DOMAIN TEMP = Serials /\ ram \in [Address -> Bytes]
    BY DEF Shape, TypeOK
  <2>2. \A u \in Threads : owner["RECB"] = u => TEMP["RECB"] \in [0..(Length(u) - 1) -> Bytes]
    BY DEF TypeOK
  <2>3. CASE Reads(t)
    <3>1. /\ UNCHANGED ram
          /\ TEMP' = [TEMP EXCEPT !["RECB"][next[t] - call[t].first] = ram[next[t]]]
      BY <2>3 DEF AccessField, ReadByte
    <3>2. ram[next[t]] \in Bytes
      BY <1>1, <2>1
    <3>3. \A u \in Threads :
            owner["RECB"] = u => TEMP'["RECB"] \in [0..(Length(u) - 1) -> Bytes]
      BY <2>1, <2>2, <3>1, <3>2 DEF Serials
    <3>4. DOMAIN TEMP' = Serials /\ TEMP'["WECB"] = TEMP["WECB"]
      BY <2>1, <3>1 DEF Serials
    <3>5. QED
      BY <2>1, <3>1, <3>3, <3>4
  <2>4. CASE ~Reads(t)
    <3>1. /\ UNCHANGED TEMP
          /\ ram' = [ram EXCEPT ![next[t]] = TEMP["WECB"][next[t] - call[t].first]]
      BY <2>4 DEF AccessField, WriteByte
    <3>2. owner["WECB"] = t
      BY <1>1, <2>4 DEF LocksBalanced, Serialized, Reads
    <3>3. TEMP["WECB"][next[t] - call[t].first] \in Bytes
      BY <1>5, <3>2 DEF TypeOK
    <3>4. QED
      BY <2>1, <2>2, <3>1, <3>3
  <2>5. QED
    BY <2>3, <2>4
<1>7. TypeOK'
  <2>1. \A m \in {"RECB", "WECB"}, u \in Threads :
           owner'[m] = u => TEMP'[m] \in [0..(Length(u)' - 1) -> Bytes]
    BY <1>1, <1>2, <1>6 DEF TypeOK
  <2>2. next' \in [Threads -> Nat] /\ pc' \in [Threads -> {"idle", "called", "loop", "byte"}]
    BY <1>1, <1>4 DEF TypeOK
  <2>3. QED
    BY <1>1, <1>3, <1>6, <2>1, <2>2 DEF TypeOK
<1>8. Shape' /\ Argument'
  BY <1>1, <1>2, <1>6 DEF Shape, Argument
<1>9. LocksBalanced'
  <2>1. \A u \in Threads : /\ pc'[u] \in {"loop", "byte"} <=> pc[u] \in {"loop", "byte"}
                           /\ pc'[u] = "byte" <=> pc[u] = "byte" /\ u # t
    BY <1>1 DEF TypeOK
  <2>2. QED
    BY <1>1, <1>2, <1>3, <2>1 DEF LocksBalanced
<1>10. Position'
  <2>1. next'[t] = next[t] + 1 /\ \A u \in Threads \ {t} : next'[u] = next[u] /\ pc'[u] = pc[u]
    BY <1>1 DEF TypeOK
  <2>2. call[t].first <= next[t] + 1 /\ next[t] + 1 <= End(t) /\ pc'[t] = "loop"
    BY <1>1, <1>4 DEF TypeOK
  <2>3. QED
    BY <1>1, <1>2, <2>1, <2>2 DEF Position
<1>11. QED
  BY <1>7, <1>8, <1>9, <1>10

\* RE1B or WE1B on its own ends with its access.
LEMMA AccessByteStep ==
  ASSUME EcInv, NEW t \in Threads, AccessByte(t)
  PROVE  EcInv'
<1> USE DEF EcInv
<1>1. /\ pc[t] = "byte" /\ LeaveByte(t) /\ next[t] \in Address /\ ~Serialized(t)
      /\ next' = [next EXCEPT ![t] = @ + 1]
      /\ UNCHANGED <<policy, call>>
      /\ ram \in [Address -> Bytes]
  BY DEF AccessByte, TypeOK
<1>2. next' \in [Threads -> Nat] /\ \A u \in Threads \ {t} : next'[u] = next[u]
  BY <1>1 DEF TypeOK
<1>3. Payload(t)[0] \in Bytes
  BY <1>1, CallFacts, PayloadFits
<1>4. PICK bytes : Exit(t, "ok", bytes)
  BY DEF AccessByte
<1>5. ram' \in [Address -> Bytes]
  BY <1>1, <1>3 DEF AccessByte
<1>6. QED
  BY <1>1, <1>2, <1>4, <1>5, ExitByte

\* A failed access gives up the region and, through it, the mutex of RECB or WECB.
LEMMA AccessPastEndStep ==
  ASSUME EcInv, NEW t \in Threads, AccessPastEnd(t)
  PROVE  EcInv'
<1>1. /\ pc[t] = "byte" /\ LeaveByte(t) /\ Exit(t, "failed", Zeros(0))
      /\ UNCHANGED <<ram, policy, call, next>>
  BY DEF AccessPastEnd
<1>2. ram \in [Address -> Bytes] /\ next \in [Threads -> Nat]
  BY DEF EcInv, TypeOK
<1>3. QED
  BY <1>1, <1>2, ExitByte

\* Steps that touch no method: the firmware's, and stuttering.
LEMMA FirmwareStep ==
  ASSUME EcInv, (\E a \in Address, b \in Bytes : Firmware(a, b)) \/ UNCHANGED vars
  PROVE  EcInv'
<1>1. /\ UNCHANGED <<policy, owner, TEMP, inside, call, pc, next, reply>>
      /\ ram' \in [Address -> Bytes]
  BY DEF Firmware, vars, locals, EcInv, TypeOK
<1>2. QED
  BY <1>1 DEF EcInv, TypeOK, Shape, LocksBalanced, Position, Argument, Length, Serialized,
              End, Payload, ByteMethod, Reads

\* Every step of the model, one action after the other.
LEMMA NextKeepsEc ==
  ASSUME EcInv, [Next]_vars
  PROVE  EcInv'
<1>1. CASE (\E a \in Address, b \in Bytes : Firmware(a, b)) \/ UNCHANGED vars
  BY <1>1, FirmwareStep
<1>2. ASSUME NEW t \in Threads, NEW c \in Calls, Call(t, c) PROVE EcInv'
  BY <1>2, CallStep
<1>3. ASSUME NEW t \in Threads, Step(t) PROVE EcInv'
  <2>1. CASE Enter(t)
    BY <2>1, EnterStep
  <2>2. CASE EnterByte(t)
    BY <2>2, EnterByteStep
  <2>3. CASE Collide(t)
    <3>1. /\ pc[t] = "loop" /\ Exit(t, "failed", Zeros(0))
          /\ UNCHANGED <<ram, policy, inside, call, next>>
      BY <2>3 DEF Collide, More
    <3>2. QED
      BY <3>1, ExitLoop
  <2>4. CASE AccessField(t)
    BY <2>4, AccessFieldStep
  <2>5. CASE AccessByte(t)
    BY <2>5, AccessByteStep
  <2>6. CASE AccessPastEnd(t)
    BY <2>6, AccessPastEndStep
  <2>7. CASE Return(t)
    <3>1. /\ pc[t] = "loop" /\ Exit(t, "ok", TEMP[call[t].method])
          /\ UNCHANGED <<ram, policy, inside, call, next>>
      BY <2>7 DEF Return
    <3>2. QED
      BY <3>1, ExitLoop
  <2>8. QED
    BY <1>3, <2>1, <2>2, <2>3, <2>4, <2>5, <2>6, <2>7 DEF Step
<1>4. QED
  BY <1>1, <1>2, <1>3 DEF Next

\* The invariant: the regions and mutexes say which thread is where, and where it is in its
\* field; no step of another thread can disturb that.
LEMMA EcInvariant == Spec => []EcInv
<1>1. EcInv /\ [Next]_vars => EcInv'
  BY NextKeepsEc
<1>2. QED
  BY InitEc, <1>1, PTL DEF Spec

\* Nothing is read or written outside a buffer of its field's length.
THEOREM EcTypeCorrect == Spec => []TypeOK
<1>1. EcInv => TypeOK
  BY DEF EcInv
<1>2. QED
  BY EcInvariant, <1>1, PTL

\* However a method ends, its mutex and its region end with it.
THEOREM NothingStaysLocked == Spec => []LocksBalanced
<1>1. EcInv => LocksBalanced
  BY DEF EcInv
<1>2. QED
  BY EcInvariant, <1>1, PTL

\* Which step a thread takes when it leaves a byte method or fails, and that it is its own.
LEMMA OwnStep ==
  ASSUME EcInv, [Next]_vars, NEW t \in Threads,
         \/ pc[t] = "byte" /\ pc'[t] # "byte"
         \/ reply[t].status # "failed" /\ reply'[t].status = "failed"
  PROVE  Step(t)
<1> USE DEF EcInv
<1>1. DOMAIN pc = Threads /\ DOMAIN reply = Threads
  BY DEF TypeOK, Shape
<1>2. ASSUME UNCHANGED <<pc, reply>> PROVE FALSE
  BY <1>2
<1>3. ~UNCHANGED vars /\ ~(\E a \in Address, b \in Bytes : Firmware(a, b))
  BY <1>2 DEF vars, locals, Firmware
<1>4. ASSUME NEW u \in Threads, NEW c \in Calls, Call(u, c) PROVE FALSE
  <2>1. /\ pc[u] = "idle" /\ pc' = [pc EXCEPT ![u] = "called"]
        /\ reply' = [reply EXCEPT ![u] = [status |-> "none", bytes |-> Zeros(0)]]
    BY <1>4 DEF Call, Goto
  <2>2. CASE u = t
    <3>1. reply'[t] = [status |-> "none", bytes |-> Zeros(0)]
      BY <1>1, <2>1, <2>2
    <3>2. reply'[t].status = "none"
      BY <3>1
    <3>3. QED
      BY <2>1, <2>2, <3>2
  <2>3. CASE u # t
    BY <1>1, <2>1, <2>3
  <2>4. QED
    BY <2>2, <2>3
<1>5. ASSUME NEW u \in Threads \ {t}, Step(u) PROVE FALSE
  <2>1. ASSUME NEW status \in {"ok", "failed"}, NEW bytes, Exit(u, status, bytes) PROVE FALSE
    <3>1. pc'[t] = pc[t] /\ reply'[t] = reply[t]
      BY <1>1, <2>1 DEF Exit, Goto
    <3>2. QED
      BY <3>1
  <2>2. ASSUME NEW label, Goto(u, label), UNCHANGED reply PROVE FALSE
    BY <1>1, <2>2 DEF Goto
  <2>3. CASE Enter(u)
    BY <2>2, <2>3 DEF Enter
  <2>4. CASE EnterByte(u)
    BY <2>2, <2>4 DEF EnterByte
  <2>5. CASE AccessField(u)
    BY <2>2, <2>5 DEF AccessField
  <2>6. CASE Collide(u)
    BY <2>1, <2>6 DEF Collide
  <2>7. CASE AccessByte(u)
    BY <2>1, <2>7 DEF AccessByte
  <2>8. CASE AccessPastEnd(u)
    BY <2>1, <2>8 DEF AccessPastEnd
  <2>9. CASE Return(u)
    BY <2>1, <2>9 DEF Return
  <2>10. QED
    BY <1>5, <2>3, <2>4, <2>5, <2>6, <2>7, <2>8, <2>9 DEF Step
<1>6. QED
  BY <1>3, <1>4, <1>5 DEF Next

\* Mutual exclusion of WECB's buffer is what makes each byte written the right one.
THEOREM WritesStayInField == Spec => WritesOwnField
<1>1. ASSUME EcInv, [Next]_vars, NEW t \in Threads, NEW a \in Address,
             pc[t] = "byte", pc'[t] # "byte", ram'[a] # ram[a]
      PROVE  /\ ~Reads(t) /\ a - call[t].first \in 0..((call[t].bits + 7) \div 8 - 1)
             /\ ram'[a] = IF a - call[t].first < Len(call[t].data)
                          THEN call[t].data[a - call[t].first + 1] ELSE 0
  <2> USE DEF EcInv
  <2>1. Step(t)
    BY <1>1, OwnStep
  <2>2. ram \in [Address -> Bytes]
    BY <1>1 DEF TypeOK
  <2>3. /\ call[t].first \in Nat /\ next[t] \in Nat /\ call[t].first <= next[t]
        /\ next[t] < call[t].first + Length(t) /\ Length(t) = (call[t].bits + 7) \div 8
        /\ Length(t) \in Nat /\ call[t].method \in Methods
        /\ ~Serialized(t) => Length(t) = 1
    BY <1>1, CallFacts DEF Position, End
  <2>4. AccessField(t) \/ AccessByte(t)
    BY <1>1, <2>1 DEF Step, Enter, EnterByte, Collide, More, AccessPastEnd, Return
  <2> DEFINE i == next[t] - call[t].first
  <2>5. i \in 0..(Length(t) - 1) /\ (~Serialized(t) => i = 0)
    BY <2>3
  <2>6. Payload(t)[i] = IF i < Len(call[t].data) THEN call[t].data[i + 1] ELSE 0
    BY <2>5 DEF Payload, Store
  <2>7. ~Reads(t) /\ ram' = [ram EXCEPT ![next[t]] = Payload(t)[i]]
    <3>1. CASE AccessField(t)
      <4>1. ~Reads(t)
        BY <1>1, <3>1 DEF AccessField, ReadByte
      <4>2. owner["WECB"] = t
        BY <1>1, <2>3, <3>1, <4>1 DEF AccessField, LocksBalanced, Serialized, Reads
      <4>3. TEMP["WECB"] = Payload(t)
        BY <1>1, <4>2 DEF Argument
      <4>4. QED
        BY <3>1, <4>1, <4>3 DEF AccessField, WriteByte
    <3>2. CASE AccessByte(t)
      <4>1. ~Reads(t)
        BY <1>1, <3>2 DEF AccessByte
      <4>2. i = 0
        BY <2>5, <3>2 DEF AccessByte
      <4>3. QED
        BY <3>2, <4>1, <4>2 DEF AccessByte
    <3>3. QED
      BY <2>4, <3>1, <3>2
  <2>8. a = next[t] /\ ram'[a] = Payload(t)[i]
    BY <1>1, <2>2, <2>7
  <2>9. QED
    BY <2>3, <2>5, <2>6, <2>7, <2>8
<1>2. EcInv /\ [Next]_vars =>
        [\A t \in Threads, a \in Address :
           pc[t] = "byte" /\ pc'[t] # "byte" /\ ram'[a] # ram[a] =>
             /\ ~Reads(t) /\ a - call[t].first \in 0..((call[t].bits + 7) \div 8 - 1)
             /\ ram'[a] = IF a - call[t].first < Len(call[t].data)
                          THEN call[t].data[a - call[t].first + 1] ELSE 0]_vars
  BY <1>1
<1>3. QED
  BY EcInvariant, <1>2, PTL DEF Spec, WritesOwnField

\* Inside the RAM a call can only fail by meeting another thread in the same byte method.
THEOREM FailureIsCollision == Spec => FailsOnlyOnCollision
<1>1. ASSUME EcInv, [Next]_vars, NEW t \in Threads,
             reply[t].status # "failed", reply'[t].status = "failed"
      PROVE  \/ call[t].first + (call[t].bits + 7) \div 8 > Size
             \/ \E u \in Threads \ {t} : pc[u] = "byte" /\ ByteMethod(u) = ByteMethod(t)
  <2> USE DEF EcInv
  <2>1. Step(t)
    BY <1>1, OwnStep
  <2>2. ASSUME NEW bytes, Exit(t, "ok", bytes) PROVE FALSE
    <3>1. reply' = [reply EXCEPT ![t] = [status |-> "ok", bytes |-> bytes]] /\ t \in DOMAIN reply
      BY <1>1, <2>2 DEF Exit, Shape
    <3>2. reply'[t] = [status |-> "ok", bytes |-> bytes]
      BY <3>1
    <3>3. QED
      BY <1>1, <3>2
  <2>3. Collide(t) \/ AccessPastEnd(t)
    <3>1. ~UNCHANGED reply
      BY <1>1
    <3>2. ~AccessByte(t)
      BY <2>2 DEF AccessByte
    <3>3. ~Return(t)
      BY <2>2 DEF Return
    <3>4. QED
      BY <2>1, <3>1, <3>2, <3>3 DEF Step, Enter, EnterByte, AccessField
  <2>4. CASE Collide(t)
    <3>1. inside[ByteMethod(t)] \in Threads /\ pc[t] = "loop" /\ ByteMethod(t) \in {"RE1B", "WE1B"}
      BY <1>1, <2>4 DEF Collide, More, TypeOK, ByteMethod
    <3>2. PICK u \in Threads : u = inside[ByteMethod(t)]
      BY <3>1
    <3>3. pc[u] = "byte" /\ ByteMethod(u) = ByteMethod(t)
      BY <1>1, <3>1, <3>2 DEF LocksBalanced
    <3>4. QED
      BY <3>1, <3>3
  <2>5. CASE AccessPastEnd(t)
    <3>1. /\ next[t] \in Nat /\ next[t] < call[t].first + Length(t)
          /\ Length(t) = (call[t].bits + 7) \div 8 /\ call[t].first \in Nat /\ Length(t) \in Nat
      BY <1>1, <2>5, CallFacts DEF Position, End, AccessPastEnd
    <3>2. next[t] >= Size
      BY <2>5, <3>1, SizeAssumption DEF AccessPastEnd, Address
    <3>3. QED
      BY <3>1, <3>2, SizeAssumption
  <2>6. QED
    BY <2>3, <2>4, <2>5
<1>2. EcInv /\ [Next]_vars =>
        [\A t \in Threads :
           reply[t].status # "failed" /\ reply'[t].status = "failed" =>
             \/ call[t].first + (call[t].bits + 7) \div 8 > Size
             \/ \E u \in Threads \ {t} : pc[u] = "byte" /\ ByteMethod(u) = ByteMethod(t)]_vars
  BY <1>1
<1>3. QED
  BY EcInvariant, <1>2, PTL DEF Spec, FailsOnlyOnCollision

\* With an interpreter that lets a thread wait for the byte method another one is in.
WaitsInstead ==
  \A t \in Threads :
    policy = "wait" /\ reply[t].status # "failed" /\ reply'[t].status = "failed" =>
      pc[t] = "byte" /\ next[t] >= Size

\* Under an interpreter that waits a call fails at an address past the RAM and nowhere else.
THEOREM WaitingNeverFails == Spec => [][WaitsInstead]_vars
<1>1. ASSUME EcInv, [Next]_vars, NEW t \in Threads, policy = "wait",
             reply[t].status # "failed", reply'[t].status = "failed"
      PROVE  pc[t] = "byte" /\ next[t] >= Size
  <2>1. Step(t)
    BY <1>1, OwnStep
  <2>2. DOMAIN reply = Threads
    BY <1>1 DEF EcInv, Shape
  <2>3. ASSUME NEW bytes, Exit(t, "ok", bytes) PROVE FALSE
    <3>1. reply'[t] = [status |-> "ok", bytes |-> bytes]
      BY <2>2, <2>3 DEF Exit
    <3>2. QED
      BY <1>1, <3>1
  <2>4. ~Return(t) /\ ~AccessByte(t)
    BY <2>3 DEF Return, AccessByte
  <2>5. ~Enter(t) /\ ~EnterByte(t) /\ ~AccessField(t) /\ ~Collide(t)
    BY <1>1 DEF Enter, EnterByte, AccessField, Collide
  <2>6. pc[t] = "byte" /\ next[t] \notin Address
    BY <2>1, <2>4, <2>5 DEF Step, AccessPastEnd
  <2>7. next[t] \in Nat
    BY <1>1 DEF EcInv, TypeOK
  <2>8. QED
    BY <2>6, <2>7, SizeAssumption DEF Address
<1>2. EcInv /\ [Next]_vars => [WaitsInstead]_vars
  BY <1>1 DEF WaitsInstead
<1>3. QED
  BY EcInvariant, <1>2, PTL DEF Spec

-----------------------------------------------------------------------------
(* Progress, the safety half of SomeCallReturns: nobody waits in a circle, and what   *)
(* is left of a call only gets less.                                                  *)

\* The steps to the end of a call: two for each byte, one in and one out.
StepsLeft(t) ==
  CASE pc[t] = "called" -> 2 * (End(t) - next[t]) + 2
    [] pc[t] = "loop" -> 2 * (End(t) - next[t]) + 1
    [] pc[t] = "byte" -> 2 * (End(t) - next[t])
    [] OTHER -> 0

\* The guards of Step(t).
CanStep(t) ==
  \/ pc[t] = "called" /\ (~Serialized(t) \/ owner[call[t].method] = NoThread)
  \/ pc[t] = "loop" /\ (next[t] >= End(t) \/ policy = "fail" \/ inside[ByteMethod(t)] = NoThread)
  \/ pc[t] = "byte"

\* Whom a thread waits for: the holder of its mutex, or whoever is in its byte method.
Blocker(t) == IF pc[t] = "called" THEN owner[call[t].method] ELSE inside[ByteMethod(t)]

\* A chain of waiting threads ends after at most two in one that can go on.
NoCircle ==
  \A t \in Threads : pc[t] # "idle" /\ ~CanStep(t) =>
    LET u == Blocker(t) IN
    /\ u \in Threads \ {t} /\ pc[u] # "idle"
    /\ CanStep(u) \/ (Blocker(u) \in Threads \ {t, u} /\ CanStep(Blocker(u)))

\* A thread in a call comes closer to its end by each step of its own, whatever the
\* firmware and the other threads do in between.
Closer ==
  \A t \in Threads : pc[t] # "idle" =>
    IF Step(t) THEN StepsLeft(t)' < StepsLeft(t) ELSE StepsLeft(t)' = StepsLeft(t)

\* A holder of RECB or WECB waits at most for a thread inside RE1B or WE1B, and that one
\* waits for nobody: the byte methods are entered last and left before the next is entered.
THEOREM MethodsNeverDeadlock == Spec => []NoCircle
<1>1. EcInv => NoCircle
  <2> SUFFICES ASSUME EcInv, NEW t \in Threads, pc[t] # "idle", ~CanStep(t)
               PROVE  /\ Blocker(t) \in Threads \ {t} /\ pc[Blocker(t)] # "idle"
                      /\ \/ CanStep(Blocker(t))
                         \/ /\ Blocker(Blocker(t)) \in Threads \ {t, Blocker(t)}
                            /\ CanStep(Blocker(Blocker(t)))
    BY DEF NoCircle
  <2>1. /\ owner \in [{"RECB", "WECB"} -> Threads \cup {NoThread}]
        /\ inside \in [{"RE1B", "WE1B"} -> Threads \cup {NoThread}]
        /\ \A u \in Threads : pc[u] \in {"idle", "called", "loop", "byte"}
        /\ \A u \in Threads : ByteMethod(u) \in {"RE1B", "WE1B"}
    BY DEF EcInv, TypeOK, ByteMethod
  <2>2. \A m \in {"RECB", "WECB"}, u \in Threads :
          owner[m] = u => pc[u] \in {"loop", "byte"} /\ call[u].method = m
    BY DEF EcInv, LocksBalanced
  <2>3. \A b \in {"RE1B", "WE1B"}, u \in Threads : inside[b] = u => pc[u] = "byte"
    BY DEF EcInv, LocksBalanced
  <2>4. ASSUME NEW u \in Threads, pc[u] = "loop", ~CanStep(u)
        PROVE  /\ Blocker(u) \in Threads \ {u} /\ pc[Blocker(u)] = "byte"
               /\ CanStep(Blocker(u))
    BY <2>1, <2>3, <2>4 DEF CanStep, Blocker
  <2>5. CASE pc[t] = "called"
    <3>1. Blocker(t) \in Threads /\ pc[Blocker(t)] \in {"loop", "byte"}
      BY <2>1, <2>2, <2>5 DEF CanStep, Blocker, Serialized
    <3>2. CASE CanStep(Blocker(t))
      BY <2>5, <3>1, <3>2
    <3>3. CASE ~CanStep(Blocker(t))
      BY <2>4, <2>5, <3>1, <3>3 DEF CanStep
    <3>4. QED
      BY <3>2, <3>3
  <2>6. CASE pc[t] = "loop"
    BY <2>4, <2>6
  <2>7. QED
    BY <2>1, <2>5, <2>6 DEF CanStep
<1>2. QED
  BY <1>1, EcInvariant, PTL

\* A call of a field of n bytes takes at most 2n + 2 steps of its thread.
THEOREM MethodsOnlyAdvance ==
  Spec => /\ [](\A t \in Threads : StepsLeft(t) \in 0..(2 * Length(t) + 2))
          /\ [][Closer]_vars
<1>1. EcInv => \A t \in Threads : StepsLeft(t) \in 0..(2 * Length(t) + 2)
  <2> SUFFICES ASSUME EcInv, NEW t \in Threads
               PROVE  StepsLeft(t) \in 0..(2 * Length(t) + 2)
    OBVIOUS
  <2>1. /\ Length(t) \in Nat /\ next[t] \in Nat /\ call[t].first \in Nat
        /\ End(t) = call[t].first + Length(t)
    BY CallFacts DEF EcInv, End
  <2>2. /\ pc[t] = "called" => next[t] = call[t].first
        /\ pc[t] \in {"loop", "byte"} => call[t].first <= next[t] /\ next[t] <= End(t)
    BY DEF EcInv, Position
  <2>3. QED
    BY <2>1, <2>2 DEF StepsLeft
<1>2. EcInv /\ [Next]_vars => [Closer]_vars
  <2> SUFFICES ASSUME EcInv, Next, NEW t \in Threads, pc[t] # "idle"
               PROVE  IF Step(t) THEN StepsLeft(t)' < StepsLeft(t)
                                 ELSE StepsLeft(t)' = StepsLeft(t)
    BY DEF Closer
  <2>1. /\ End(t) \in Nat /\ next[t] \in Nat
        /\ DOMAIN pc = Threads /\ DOMAIN next = Threads /\ DOMAIN call = Threads
    BY CallFacts DEF EcInv, TypeOK
  <2>2. /\ pc[t] = "called" => next[t] <= End(t)
        /\ pc[t] \in {"loop", "byte"} => next[t] <= End(t)
        /\ pc[t] = "byte" => next[t] < End(t)
    <3>1. call[t].first \in Nat /\ Length(t) \in Nat
      BY CallFacts DEF EcInv
    <3>2. QED
      BY <3>1 DEF EcInv, Position, End
  <2>3. \A label : Goto(t, label) => pc'[t] = label
    BY <2>1 DEF Goto
  <2>4. CASE Step(t)
    <3>1. UNCHANGED call
      BY <2>4 DEF Step, Enter, EnterByte, Collide, AccessField, AccessByte, AccessPastEnd, Return
    <3>2. End(t)' = End(t)
      BY <3>1 DEF End, Length, Serialized
    <3>3. \/ pc[t] = "called" /\ pc'[t] = "loop" /\ next'[t] = next[t]
          \/ pc[t] = "loop" /\ pc'[t] = "byte" /\ next'[t] = next[t]
          \/ pc[t] = "byte" /\ pc'[t] = "loop" /\ next'[t] = next[t] + 1
          \/ pc'[t] = "idle"
      BY <2>1, <2>3, <2>4 DEF Step, Enter, EnterByte, More, Collide, Exit, AccessField,
                              AccessByte, AccessPastEnd, Return
    <3>4. pc[t] \in {"called", "loop", "byte"}
      BY DEF EcInv, TypeOK
    <3>5. StepsLeft(t)' < StepsLeft(t)
      BY <2>1, <2>2, <3>2, <3>3, <3>4 DEF StepsLeft
    <3>6. QED
      BY <2>4, <3>5
  <2>5. CASE ~Step(t)
    <3>1. pc'[t] = pc[t] /\ next'[t] = next[t] /\ call'[t] = call[t]
      <4>1. ASSUME NEW a \in Address, NEW b \in Bytes, Firmware(a, b)
            PROVE  pc'[t] = pc[t] /\ next'[t] = next[t] /\ call'[t] = call[t]
        BY <4>1 DEF Firmware, locals
      <4>2. ASSUME NEW u \in Threads, NEW c \in Calls, Call(u, c)
            PROVE  pc'[t] = pc[t] /\ next'[t] = next[t] /\ call'[t] = call[t]
        BY <2>1, <4>2 DEF Call, Goto
      <4>3. ASSUME NEW u \in Threads, Step(u)
            PROVE  pc'[t] = pc[t] /\ next'[t] = next[t] /\ call'[t] = call[t]
        <5>1. u # t
          BY <2>5, <4>3
        <5>2. \A label : Goto(u, label) => pc'[t] = pc[t]
          BY <2>1, <5>1 DEF Goto
        <5>3. pc'[t] = pc[t]
          BY <4>3, <5>2 DEF Step, Enter, EnterByte, Collide, Exit, AccessField, AccessByte,
                            AccessPastEnd, Return
        <5>4. next'[t] = next[t] /\ call'[t] = call[t]
          BY <2>1, <4>3, <5>1 DEF Step, Enter, EnterByte, Collide, AccessField, AccessByte,
                                  AccessPastEnd, Return
        <5>5. QED
          BY <5>3, <5>4
      <4>4. QED
        BY <4>1, <4>2, <4>3 DEF Next
    <3>2. End(t)' = End(t)
      BY <3>1 DEF End, Length, Serialized
    <3>3. QED
      BY <2>5, <3>1, <3>2 DEF StepsLeft
  <2>6. QED
    BY <2>4, <2>5
<1>3. QED
  BY <1>1, <1>2, EcInvariant, PTL DEF Spec

-----------------------------------------------------------------------------
(* What the calls read.                                                               *)

\* What is behind next has been moved, and the RAM has held it since the call began.
Moved ==
  \A t \in Threads : pc[t] \in {"loop", "byte"} /\ Serialized(t) =>
    \A i \in 0..(Length(t) - 1) : i < next[t] - call[t].first =>
      /\ call[t].first + i \in Address
      /\ TEMP[call[t].method][i] \in held[t][call[t].first + i]

\* No other thread touches the buffer of a thread that holds its mutex, nor its locals.
LEMMA OthersKeep ==
  ASSUME EcInv, NEW t \in Threads, NEW u \in Threads \ {t}, Step(u),
         NEW m \in Serials, owner[m] = t
  PROVE  TEMP'[m] = TEMP[m] /\ pc'[t] = pc[t] /\ next'[t] = next[t] /\ call'[t] = call[t]
<1> USE DEF EcInv
<1>1. /\ DOMAIN TEMP = Serials /\ DOMAIN pc = Threads /\ DOMAIN next = Threads
      /\ owner \in [Serials -> Threads \cup {NoThread}]
  BY DEF Shape, TypeOK, Serials
<1>2. ASSUME NEW status, NEW bytes, Exit(u, status, bytes)
      PROVE  TEMP'[m] = TEMP[m] /\ pc'[t] = pc[t]
  BY <1>1, <1>2 DEF Exit, Held, Goto
<1>3. CASE Enter(u)
  <2>1. call[u].method # m \/ ~Serialized(u)
    BY <1>3, NoThreadAssumption DEF Enter
  <2>2. TEMP'[m] = TEMP[m]
    BY <1>1, <1>3, <2>1 DEF Enter
  <2>3. QED
    BY <1>1, <1>3, <2>2 DEF Enter, Goto
<1>4. CASE EnterByte(u)
  BY <1>1, <1>4 DEF EnterByte, Goto
<1>5. CASE Collide(u)
  BY <1>2, <1>5 DEF Collide
<1>6. CASE AccessField(u)
  <2>1. Reads(u) => owner["RECB"] = u
    BY <1>6 DEF AccessField, LocksBalanced, Serialized, Reads
  <2>2. Reads(u) => m # "RECB"
    BY <2>1
  <2>3. TEMP'[m] = TEMP[m]
    BY <1>1, <1>6, <2>2 DEF AccessField, ReadByte, WriteByte
  <2>4. QED
    BY <1>1, <1>6, <2>3 DEF AccessField, Goto
<1>7. CASE AccessByte(u)
  <2>1. TEMP'[m] = TEMP[m] /\ pc'[t] = pc[t]
    BY <1>2, <1>7 DEF AccessByte
  <2>2. QED
    BY <1>1, <1>7, <2>1 DEF AccessByte
<1>8. CASE AccessPastEnd(u)
  BY <1>2, <1>8 DEF AccessPastEnd
<1>9. CASE Return(u)
  BY <1>2, <1>9 DEF Return
<1>10. QED
  BY <1>3, <1>4, <1>5, <1>6, <1>7, <1>8, <1>9 DEF Step

\* Every byte a thread has moved stays in the history of its call.
LEMMA MovedStep ==
  ASSUME EcInv, Moved, MCNext
  PROVE  Moved'
<1> USE DEF EcInv
<1> SUFFICES ASSUME NEW t \in Threads, pc'[t] \in {"loop", "byte"}, Serialized(t)',
                    NEW i \in 0..(Length(t)' - 1), i < next'[t] - call'[t].first
             PROVE  /\ call'[t].first + i \in Address
                    /\ TEMP'[call'[t].method][i] \in held'[t][call'[t].first + i]
  BY DEF Moved, Address
<1>1. Next /\ Observe
  BY DEF MCNext
<1> DEFINE m == call[t].method
           a == call[t].first + i
\* The call has not just begun.
<1>2. /\ pc[t] # "idle" /\ call'[t] = call[t]
      /\ \A c \in Calls : ~Call(t, c)
  <2>1. \A c \in Calls : ~Call(t, c)
    BY DEF Call, Goto, TypeOK
  <2>2. ASSUME NEW u \in Threads, Step(u) PROVE pc[t] # "idle" /\ call' = call
    <3>1. call' = call
      BY <2>2 DEF Step, Enter, EnterByte, Collide, AccessField, AccessByte, AccessPastEnd, Return
    <3>2. \E label : pc' = [pc EXCEPT ![u] = label]
      BY <2>2 DEF Step, Enter, EnterByte, Collide, AccessField, AccessByte, AccessPastEnd, Return,
                  Exit, Goto
    <3>3. pc[u] # "idle"
      BY <2>2 DEF Step, Enter, EnterByte, Collide, More, AccessField, AccessByte, AccessPastEnd, Return
    <3>4. QED
      BY <3>1, <3>2, <3>3 DEF TypeOK
  <2>3. ASSUME NEW x \in Address, NEW b \in Bytes, Firmware(x, b) PROVE pc[t] # "idle" /\ call' = call
    BY <2>3 DEF Firmware, locals
  <2>4. ASSUME NEW u \in Threads \ {t}, NEW c \in Calls, Call(u, c)
        PROVE  pc[t] # "idle" /\ call'[t] = call[t]
    BY <2>4 DEF Call, Goto, TypeOK
  <2>5. QED
    BY <1>1, <2>1, <2>2, <2>3, <2>4 DEF Next
<1>3. held'[t] = Seen(t)
  BY <1>1, <1>2 DEF Observe
<1>4. Length(t)' = Length(t) /\ Serialized(t) /\ m \in Serials
  BY <1>2 DEF Length, Serialized, Serials
<1>5. \A x \in Address : held[t][x] \cup {ram[x], ram'[x]} = held'[t][x]
  BY <1>3 DEF Seen
\* Nothing moves: what had been moved still has been.
<1>6. ASSUME pc[t] \in {"loop", "byte"}, next'[t] = next[t], TEMP'[m] = TEMP[m]
      PROVE  a \in Address /\ TEMP'[m][i] \in held'[t][a]
  <2>1. a \in Address /\ TEMP[m][i] \in held[t][a]
    BY <1>2, <1>4, <1>6 DEF Moved
  <2>2. QED
    BY <1>5, <1>6, <2>1
<1>7. ASSUME \/ \E x \in Address, b \in Bytes : Firmware(x, b)
             \/ \E u \in Threads \ {t}, c \in Calls : Call(u, c)
      PROVE  a \in Address /\ TEMP'[m][i] \in held'[t][a]
  <2>1. pc'[t] = pc[t] /\ next'[t] = next[t] /\ TEMP' = TEMP
    BY <1>7 DEF Firmware, locals, Call, Goto, TypeOK
  <2>2. QED
    BY <1>2, <1>6, <2>1
<1>8. ASSUME NEW u \in Threads \ {t}, Step(u)
      PROVE  a \in Address /\ TEMP'[m][i] \in held'[t][a]
  <2>1. pc'[t] = pc[t]
    <3>1. \E label : pc' = [pc EXCEPT ![u] = label]
      BY <1>8 DEF Step, Enter, EnterByte, Collide, AccessField, AccessByte, AccessPastEnd, Return,
                  Exit, Goto
    <3>2. QED
      BY <3>1 DEF TypeOK
  <2>2. owner[m] = t
    BY <1>4, <2>1 DEF LocksBalanced, Serials
  <2>3. TEMP'[m] = TEMP[m] /\ next'[t] = next[t]
    BY <1>4, <1>8, <2>2, OthersKeep
  <2>4. QED
    BY <1>6, <2>1, <2>3
<1>9. ASSUME Step(t)
      PROVE  a \in Address /\ TEMP'[m][i] \in held'[t][a]
  <2>1. CASE Enter(t)
    <3>1. next'[t] = call[t].first /\ call[t].first \in Nat
      BY <2>1, CallFacts DEF Enter, Position
    <3>2. QED
      BY <1>2, <3>1
  <2>2. CASE EnterByte(t)
    BY <1>6, <2>2 DEF EnterByte, More
  <2>3. CASE AccessField(t)
    <3>1. /\ pc[t] = "byte" /\ next'[t] = next[t] + 1 /\ next[t] \in Address
          /\ next[t] \in Nat /\ call[t].first \in Nat /\ call[t].first <= next[t]
          /\ DOMAIN TEMP = Serials /\ ram \in [Address -> Bytes]
      BY <2>3, CallFacts DEF AccessField, Position, TypeOK, Shape
    <3>2. owner[m] = t
      BY <1>4, <3>1 DEF LocksBalanced, Serials
    <3>3. TEMP[m] \in [0..(Length(t) - 1) -> Bytes]
      BY <1>4, <3>2 DEF TypeOK, Serials
    <3>4. CASE i < next[t] - call[t].first
      <4>1. a \in Address /\ TEMP[m][i] \in held[t][a]
        BY <1>4, <3>1, <3>4 DEF Moved
      <4>2. TEMP'[m][i] = TEMP[m][i]
        <5>1. i # next[t] - call[t].first
          BY <3>1, <3>4
        <5>2. QED
          BY <1>4, <2>3, <3>1, <3>3, <5>1 DEF AccessField, ReadByte, WriteByte, Serials
      <4>3. QED
        BY <1>5, <4>1, <4>2
    <3>5. CASE ~(i < next[t] - call[t].first)
      <4>1. i = next[t] - call[t].first /\ a = next[t] /\ i \in 0..(Length(t) - 1)
        BY <1>2, <1>4, <3>1, <3>5
      <4>2. CASE Reads(t)
        <5>1. m = "RECB"
          BY <1>4, <4>2 DEF Reads, Serials
        <5>2. TEMP' = [TEMP EXCEPT !["RECB"][i] = ram[a]]
          BY <2>3, <4>1, <4>2 DEF AccessField, ReadByte
        <5>3. TEMP'[m][i] = ram[a]
          BY <1>4, <3>1, <3>3, <4>1, <5>1, <5>2
        <5>4. QED
          BY <1>5, <3>1, <4>1, <5>3
      <4>3. CASE ~Reads(t)
        <5>1. m = "WECB"
          BY <1>4, <4>3 DEF Reads, Serials
        <5>2. TEMP' = TEMP /\ ram' = [ram EXCEPT ![a] = TEMP["WECB"][i]]
          BY <2>3, <4>1, <4>3 DEF AccessField, WriteByte
        <5>3. ram'[a] = TEMP'[m][i]
          BY <3>1, <4>1, <5>1, <5>2
        <5>4. QED
          BY <1>5, <3>1, <4>1, <5>3
      <4>4. QED
        BY <4>2, <4>3
    <3>6. QED
      BY <3>4, <3>5
  <2>4. ASSUME Collide(t) \/ AccessByte(t) \/ AccessPastEnd(t) \/ Return(t) PROVE FALSE
    <3>1. pc' = [pc EXCEPT ![t] = "idle"]
      BY <2>4 DEF Collide, AccessByte, AccessPastEnd, Return, Exit, Goto
    <3>2. QED
      BY <3>1 DEF TypeOK
  <2>5. QED
    BY <1>9, <2>1, <2>2, <2>3, <2>4 DEF Step
<1>10. a \in Address /\ TEMP'[m][i] \in held'[t][a]
  BY <1>1, <1>2, <1>7, <1>8, <1>9 DEF Next
<1>11. QED
  BY <1>2, <1>10

\* RE1B and WE1B on their own end with their first access.
AtFirst ==
  \A t \in Threads : pc[t] \in {"loop", "byte"} /\ ~Serialized(t) => next[t] = call[t].first

\* Only an access of a field steps to a next byte.
LEMMA AtFirstStep ==
  ASSUME EcInv, AtFirst, [Next]_vars
  PROVE  AtFirst'
<1> USE DEF EcInv
<1> SUFFICES ASSUME NEW t \in Threads, pc'[t] \in {"loop", "byte"}, ~Serialized(t)'
             PROVE  next'[t] = call'[t].first
  BY DEF AtFirst
<1>1. /\ DOMAIN pc = Threads /\ DOMAIN next = Threads /\ DOMAIN call = Threads
  BY DEF TypeOK
<1>2. ASSUME UNCHANGED <<call, pc, next>> PROVE next'[t] = call'[t].first
  BY <1>2 DEF AtFirst, Serialized
<1>3. ASSUME NEW u \in Threads, NEW c \in Calls, Call(u, c) PROVE next'[t] = call'[t].first
  <2>1. u # t
    BY <1>1, <1>3 DEF Call, Goto
  <2>2. QED
    BY <1>1, <1>3, <2>1 DEF Call, Goto, AtFirst, Serialized
<1>4. ASSUME NEW u \in Threads \ {t}, Step(u) PROVE next'[t] = call'[t].first
  <2>1. pc'[t] = pc[t]
    BY <1>1, <1>4 DEF Step, Enter, EnterByte, Collide, AccessField, AccessByte, AccessPastEnd,
                      Return, Exit, Goto
  <2>2. next'[t] = next[t] /\ call' = call
    BY <1>1, <1>4 DEF Step, Enter, EnterByte, Collide, AccessField, AccessByte, AccessPastEnd, Return
  <2>3. QED
    BY <2>1, <2>2 DEF AtFirst, Serialized
<1>5. CASE Step(t)
  <2>1. CASE Enter(t)
    BY <2>1 DEF Enter, Position
  <2>2. CASE EnterByte(t)
    BY <2>2 DEF EnterByte, More, AtFirst, Serialized
  <2>3. CASE AccessField(t)
    BY <2>3 DEF AccessField, Serialized
  <2>4. ASSUME Collide(t) \/ AccessByte(t) \/ AccessPastEnd(t) \/ Return(t) PROVE FALSE
    BY <1>1, <2>4 DEF Collide, AccessByte, AccessPastEnd, Return, Exit, Goto
  <2>5. QED
    BY <1>5, <2>1, <2>2, <2>3, <2>4 DEF Step
<1>6. QED
  BY <1>2, <1>3, <1>4, <1>5 DEF Next, Firmware, vars, locals

\* The invariant of the model with its history.
LEMMA MovedInvariant == MCSpec => [](EcInv /\ Moved /\ AtFirst)
<1>1. MCInit => EcInv /\ Moved /\ AtFirst
  <2>1. MCInit => Moved /\ AtFirst
    BY DEF MCInit, Init, Moved, AtFirst
  <2>2. QED
    BY <2>1, InitEc DEF MCInit
<1>2. EcInv /\ Moved /\ AtFirst /\ [MCNext]_<<vars, held>> => (EcInv /\ Moved /\ AtFirst)'
  <2> SUFFICES ASSUME EcInv, Moved, AtFirst, [MCNext]_<<vars, held>>
               PROVE  EcInv' /\ Moved' /\ AtFirst'
    OBVIOUS
  <2>1. [Next]_vars
    BY DEF MCNext
  <2>2. EcInv' /\ AtFirst'
    BY <2>1, NextKeepsEc, AtFirstStep
  <2>3. CASE MCNext
    BY <2>2, <2>3, MovedStep
  <2>4. CASE UNCHANGED <<vars, held>>
    BY <2>2, <2>4 DEF Moved, vars, locals, Length, Serialized
  <2>5. QED
    BY <2>2, <2>3, <2>4
<1>3. QED
  BY <1>1, <1>2, PTL DEF MCSpec

\* A call returns from its loop, or with the one access of RE1B or WE1B.
LEMMA LastStep ==
  ASSUME EcInv, Next, NEW t \in Threads,
         pc[t] # "idle", pc'[t] = "idle", reply'[t].status = "ok"
  PROVE  /\ Return(t) \/ AccessByte(t)
         /\ \A status, bytes : Exit(t, status, bytes) => reply'[t].bytes = bytes
<1> USE DEF EcInv
<1>1. DOMAIN pc = Threads /\ DOMAIN reply = Threads
  BY DEF TypeOK, Shape
<1>2. Step(t)
  <2>1. ASSUME NEW u \in Threads, Step(u) PROVE \E label : pc' = [pc EXCEPT ![u] = label]
    BY <2>1 DEF Step, Enter, EnterByte, Collide, AccessField, AccessByte, AccessPastEnd, Return,
                Exit, Goto
  <2>2. ASSUME NEW u \in Threads \ {t}, Step(u) PROVE FALSE
    BY <1>1, <2>1, <2>2
  <2>3. ASSUME NEW u \in Threads, NEW c \in Calls, Call(u, c) PROVE FALSE
    BY <1>1, <2>3 DEF Call, Goto
  <2>4. ASSUME NEW x \in Address, NEW b \in Bytes, Firmware(x, b) PROVE FALSE
    BY <2>4 DEF Firmware, locals
  <2>5. QED
    BY <2>2, <2>3, <2>4 DEF Next
<1>3. ASSUME NEW status, NEW bytes, Exit(t, status, bytes)
      PROVE  status = "ok" /\ reply'[t].bytes = bytes
  <2>1. reply'[t] = [status |-> status, bytes |-> bytes]
    BY <1>1, <1>3 DEF Exit
  <2>2. QED
    BY <2>1
<1>4. Return(t) \/ AccessByte(t)
  <2>1. ~Collide(t) /\ ~AccessPastEnd(t)
    BY <1>3 DEF Collide, AccessPastEnd
  <2>2. ~Enter(t) /\ ~EnterByte(t) /\ ~AccessField(t)
    BY <1>1 DEF Enter, EnterByte, AccessField, Goto
  <2>3. QED
    BY <1>2, <2>1, <2>2 DEF Step
<1>5. QED
  BY <1>3, <1>4

\* Bytes are never mixed up between addresses, calls or threads.
THEOREM RepliesAreReal == MCSpec => BytesAreReal
<1> DEFINE got(t) == reply'[t].bytes
           Goal(t) == /\ DOMAIN got(t) = 0..(Length(t) - 1)
                      /\ \A i \in DOMAIN got(t) : got(t)[i] \in Seen(t)[call[t].first + i]
<1>1. ASSUME EcInv, Moved, AtFirst, MCNext, NEW t \in Threads,
             pc[t] # "idle", pc'[t] = "idle", reply'[t].status = "ok"
      PROVE  Goal(t)
  <2> USE DEF EcInv
  <2>1. DOMAIN pc = Threads /\ DOMAIN reply = Threads /\ ram \in [Address -> Bytes]
    BY <1>1 DEF TypeOK, Shape
  <2>2. ASSUME NEW status, NEW bytes, Exit(t, status, bytes)
        PROVE  got(t) = bytes
    BY <1>1, <2>2, LastStep DEF MCNext
  <2>3. \A x \in Address : Seen(t)[x] = held[t][x] \cup {ram[x], ram'[x]}
    BY DEF Seen
  <2>4. Return(t) \/ AccessByte(t)
    BY <1>1, LastStep DEF MCNext
  <2>5. CASE AccessByte(t)
    <3>1. /\ next[t] = call[t].first /\ Length(t) = 1 /\ next[t] \in Address
          /\ call[t].first \in Nat /\ 0..(Length(t) - 1) = {0}
      <4>1. pc[t] = "byte" /\ ~Serialized(t) /\ next[t] \in Address
        BY <2>5 DEF AccessByte
      <4>2. /\ Length(t) = 1 /\ call[t].first \in Nat /\ next[t] \in Nat
            /\ call[t].first <= next[t] /\ next[t] < call[t].first + Length(t)
        BY <1>1, <4>1, CallFacts DEF Position, End
      <4>3. QED
        BY <4>1, <4>2
    <3>2. CASE Reads(t)
      <4>1. got(t) = [i \in {0} |-> ram[next[t]]]
        BY <2>2, <2>5, <3>2 DEF AccessByte
      <4>2. QED
        BY <2>3, <3>1, <4>1
    <3>3. CASE ~Reads(t)
      <4>1. got(t) = Payload(t) /\ ram' = [ram EXCEPT ![next[t]] = Payload(t)[0]]
        BY <2>2, <2>5, <3>3 DEF AccessByte
      <4>2. DOMAIN Payload(t) = 0..(Length(t) - 1)
        BY DEF Payload, Store
      <4>3. ram'[next[t]] = got(t)[0]
        BY <2>1, <3>1, <4>1
      <4>4. QED
        BY <2>3, <3>1, <4>1, <4>2, <4>3
    <3>4. QED
      BY <3>2, <3>3
  <2>6. CASE Return(t)
    <3> DEFINE m == call[t].method
    <3>1. pc[t] = "loop" /\ next[t] >= End(t) /\ got(t) = TEMP[m]
      BY <2>2, <2>6 DEF Return
    <3>2. /\ call[t].first \in Nat /\ next[t] \in Nat /\ Length(t) \in Nat
          /\ call[t].first <= next[t] /\ End(t) = call[t].first + Length(t)
      BY <1>1, <3>1, CallFacts DEF Position, End
    <3>3. CASE Serialized(t)
      <4>1. m \in Serials /\ owner[m] = t
        BY <1>1, <3>1, <3>3 DEF LocksBalanced, Serialized, Serials
      <4>2. TEMP[m] \in [0..(Length(t) - 1) -> Bytes]
        BY <1>1, <4>1 DEF TypeOK, Serials
      <4>3. ASSUME NEW i \in 0..(Length(t) - 1)
            PROVE  call[t].first + i \in Address /\ TEMP[m][i] \in held[t][call[t].first + i]
        <5>1. i < next[t] - call[t].first
          BY <3>1, <3>2
        <5>2. QED
          BY <1>1, <3>1, <3>3, <5>1 DEF Moved
      <4>4. QED
        BY <2>3, <3>1, <4>2, <4>3
    <3>4. CASE ~Serialized(t)
      BY <1>1, <3>1, <3>2, <3>4, CallFacts DEF AtFirst
    <3>5. QED
      BY <3>3, <3>4
  <2>7. QED
    BY <2>4, <2>5, <2>6
<1>2. EcInv /\ Moved /\ AtFirst /\ [MCNext]_<<vars, held>> =>
        [\A t \in Threads :
           pc[t] # "idle" /\ pc'[t] = "idle" /\ reply'[t].status = "ok" => Goal(t)]_<<vars, held>>
  BY <1>1
<1>3. QED
  BY MovedInvariant, <1>2, PTL DEF MCSpec, BytesAreReal

\* Every byte of the argument has been in its place in RAM before a write returns.
WholeArgument ==
  \A t \in Threads :
    pc[t] # "idle" /\ pc'[t] = "idle" /\ reply'[t].status = "ok" /\ ~Reads(t) =>
      \A i \in 0..(Length(t) - 1) : Payload(t)[i] \in Seen(t)[call[t].first + i]

\* A WE1B or WECB that returns has put its whole argument into RAM, each byte at its place:
\* no byte is skipped, whoever else runs, and a failure is never reported as a success.
THEOREM WritesAreWhole == MCSpec => [][WholeArgument]_<<vars, held>>
<1>1. ASSUME EcInv, Moved, AtFirst, MCNext, NEW t \in Threads,
             pc[t] # "idle", pc'[t] = "idle", reply'[t].status = "ok", ~Reads(t),
             NEW i \in 0..(Length(t) - 1)
      PROVE  Payload(t)[i] \in Seen(t)[call[t].first + i]
  <2> USE DEF EcInv
  <2>1. Return(t) \/ AccessByte(t)
    BY <1>1, LastStep DEF MCNext
  <2>2. \A x \in Address : Seen(t)[x] = held[t][x] \cup {ram[x], ram'[x]}
    BY DEF Seen
  <2>3. CASE AccessByte(t)
    <3>1. next[t] = call[t].first /\ Length(t) = 1 /\ call[t].first \in Nat
      BY <1>1, <2>3, CallFacts DEF AccessByte, AtFirst
    <3>2. i = 0 /\ call[t].first + i = next[t] /\ next[t] \in Address
      BY <2>3, <3>1 DEF AccessByte
    <3>3. ram \in [Address -> Bytes] /\ ram' = [ram EXCEPT ![next[t]] = Payload(t)[0]]
      BY <1>1, <2>3 DEF AccessByte, TypeOK
    <3>4. ram'[next[t]] = Payload(t)[i]
      BY <3>2, <3>3
    <3>5. QED
      BY <2>2, <3>2, <3>4
  <2>4. CASE Return(t)
    <3>1. pc[t] = "loop" /\ next[t] >= End(t)
      BY <2>4 DEF Return
    <3>2. /\ call[t].first \in Nat /\ next[t] \in Nat /\ Length(t) \in Nat
          /\ End(t) = call[t].first + Length(t) /\ call[t].method \in Methods
          /\ ~Serialized(t) => Length(t) = 1
      BY <1>1, CallFacts DEF End
    <3>3. Serialized(t) /\ call[t].method = "WECB"
      BY <1>1, <3>1, <3>2 DEF AtFirst, Serialized, Reads, Methods
    <3>4. owner["WECB"] = t
      BY <1>1, <3>1, <3>3 DEF LocksBalanced
    <3>5. TEMP["WECB"] = Payload(t)
      BY <1>1, <3>4 DEF Argument
    <3>6. i < next[t] - call[t].first
      BY <3>1, <3>2
    <3>7. /\ call[t].first + i \in Address
          /\ TEMP["WECB"][i] \in held[t][call[t].first + i]
      BY <1>1, <3>1, <3>3, <3>6 DEF Moved
    <3>8. QED
      BY <2>2, <3>5, <3>7
  <2>5. QED
    BY <2>1, <2>3, <2>4
<1>2. EcInv /\ Moved /\ AtFirst /\ [MCNext]_<<vars, held>> => [WholeArgument]_<<vars, held>>
  BY <1>1 DEF WholeArgument
<1>3. QED
  BY MovedInvariant, <1>2, PTL DEF MCSpec
=============================================================================
