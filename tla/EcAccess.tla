------------------------------ MODULE EcAccess ------------------------------
(***************************************************************************)
(* The embedded controller methods of SSDT-ALL.dsl, lines 691-742: RE1B    *)
(* and WE1B access one byte through an operation region they create, RECB  *)
(* and WECB a field of several bytes, one RE1B or WE1B after the other.    *)
(*                                                                         *)
(* RECB and WECB are Serialized, RE1B and WE1B are not although they       *)
(* create named objects.  The ACPI interpreter, which is not in this       *)
(* repository, runs other threads while the controller answers.  A thread  *)
(* that enters RE1B while its objects exist is made to wait or fails,      *)
(* depending on the interpreter (policy).                                  *)
(***************************************************************************)
EXTENDS Integers, Sequences

CONSTANTS
  Threads,   \* the threads that evaluate the methods
  NoThread,
  Size,      \* the bytes of controller RAM, 0x100
  Bytes,     \* the values of a byte
  Calls,     \* the calls that are made
  Policies   \* what the interpreter may do when a method's objects exist already

Methods == {"RE1B", "WE1B", "RECB", "WECB"}
CallType == [method : Methods, first : Nat, bits : Nat, data : Seq(Bytes)]

ASSUME NoThreadAssumption == NoThread \notin Threads
ASSUME SizeAssumption == Size \in Nat
ASSUME BytesAssumption == 0 \in Bytes
ASSUME CallsAssumption ==
  /\ Calls # {} /\ Calls \subseteq CallType
  /\ \A c \in Calls : c.method \in {"RE1B", "WE1B"} => c.bits = 8
ASSUME PoliciesAssumption == Policies \subseteq {"wait", "fail"}

VARIABLES
  ram,       \* the controller's RAM
  policy,    \* the interpreter's
  owner,     \* who holds the mutex of RECB and of WECB
  TEMP,      \* the buffer of that name in each of them
  inside,    \* whose ERAM region exists, in RE1B and in WE1B
  call,      \* the call each thread is in, or was in last
  pc,        \* where it is
  next,      \* Arg0: the address it accesses next
  reply      \* how the last call ended, with the bytes it read or wrote

locals == <<call, pc, next, reply>>
vars == <<ram, policy, owner, TEMP, inside, locals>>

Address == 0..(Size - 1)
Reads(t) == call[t].method \in {"RE1B", "RECB"}
Serialized(t) == call[t].method \in {"RECB", "WECB"}
ByteMethod(t) == IF Reads(t) THEN "RE1B" ELSE "WE1B"

\* Mutant: a field of whole bytes gets one byte too many.
CountUp(bits) == (bits + 8) \div 8

\* Arg1 of RECB and WECB is a number of bits.
Count(bits) == (bits + 7) \div 8

Length(t) == IF Serialized(t) THEN Count(call[t].bits) ELSE 1
End(t) == call[t].first + Length(t)

Zeros(n) == [i \in 0..(n - 1) |-> 0]

\* Mutant: the argument becomes the buffer, at its own length.
StoreAsIs(data, n) == [i \in 0..(Len(data) - 1) |-> data[i + 1]]

\* TEMP = Arg2: TEMP keeps its length, the argument is cut or filled with zeros.
Store(data, n) == [i \in 0..(n - 1) |-> IF i < Len(data) THEN data[i + 1] ELSE 0]

\* What a call has to write.
Payload(t) == Store(call[t].data, Length(t))

TypeOK ==
  /\ ram \in [Address -> Bytes]
  /\ policy \in Policies
  /\ owner \in [{"RECB", "WECB"} -> Threads \cup {NoThread}]
  /\ \A m \in {"RECB", "WECB"}, t \in Threads :
       owner[m] = t => TEMP[m] \in [0..(Length(t) - 1) -> Bytes]
  /\ inside \in [{"RE1B", "WE1B"} -> Threads \cup {NoThread}]
  /\ call \in [Threads -> Calls]
  /\ pc \in [Threads -> {"idle", "called", "loop", "byte"}]
  /\ next \in [Threads -> Nat]
  /\ \A t \in Threads : reply[t].status \in {"none", "ok", "failed"}

Init ==
  /\ ram = [a \in Address |-> 0]
  /\ policy \in Policies
  /\ owner = [m \in {"RECB", "WECB"} |-> NoThread]
  /\ TEMP = [m \in {"RECB", "WECB"} |-> Zeros(0)]
  /\ inside = [m \in {"RE1B", "WE1B"} |-> NoThread]
  /\ call \in [Threads -> {CHOOSE c \in Calls : TRUE}]
  /\ pc = [t \in Threads |-> "idle"]
  /\ next = [t \in Threads |-> 0]
  /\ reply = [t \in Threads |-> [status |-> "none", bytes |-> Zeros(0)]]

-----------------------------------------------------------------------------
\* The controller's firmware changes its RAM whenever it likes.
Firmware(a, b) ==
  /\ ram[a] # b
  /\ ram' = [ram EXCEPT ![a] = b]
  /\ UNCHANGED <<policy, owner, TEMP, inside, locals>>

Goto(t, label) == pc' = [pc EXCEPT ![t] = label]

Call(t, c) ==
  /\ pc[t] = "idle"
  /\ call' = [call EXCEPT ![t] = c]
  /\ next' = [next EXCEPT ![t] = c.first]
  /\ reply' = [reply EXCEPT ![t] = [status |-> "none", bytes |-> Zeros(0)]]
  /\ Goto(t, "called")
  /\ UNCHANGED <<ram, policy, owner, TEMP, inside>>

\* RECB and WECB take their mutex and create TEMP.
Enter(t) ==
  /\ pc[t] = "called"
  /\ IF Serialized(t)
     THEN LET m == call[t].method IN
          /\ owner[m] = NoThread
          /\ owner' = [owner EXCEPT ![m] = t]
          /\ TEMP' = [TEMP EXCEPT ![m] = IF Reads(t) THEN Zeros(Length(t)) ELSE Payload(t)]
     ELSE UNCHANGED <<owner, TEMP>>
  /\ Goto(t, "loop")
  /\ UNCHANGED <<ram, policy, inside, call, next, reply>>

More(t) == pc[t] = "loop" /\ next[t] < End(t)

EnterByte(t) ==
  /\ More(t)
  /\ inside[ByteMethod(t)] = NoThread
  /\ inside' = [inside EXCEPT ![ByteMethod(t)] = t]
  /\ Goto(t, "byte")
  /\ UNCHANGED <<ram, policy, owner, TEMP, call, next, reply>>

Held(t) == {m \in DOMAIN owner : owner[m] = t}

\* Mutant: a failing method keeps its mutex.
ExitLocked(t, status, bytes) ==
  /\ owner' = [m \in DOMAIN owner |->
                 IF m \in Held(t) /\ status = "ok" THEN NoThread ELSE owner[m]]
  /\ TEMP' = [m \in DOMAIN TEMP |-> IF m \in Held(t) THEN Zeros(0) ELSE TEMP[m]]
  /\ reply' = [reply EXCEPT ![t] = [status |-> status, bytes |-> bytes]]
  /\ Goto(t, "idle")

\* The call is over: the interpreter releases its mutex and deletes its TEMP.
Exit(t, status, bytes) ==
  /\ owner' = [m \in DOMAIN owner |-> IF m \in Held(t) THEN NoThread ELSE owner[m]]
  /\ TEMP' = [m \in DOMAIN TEMP |-> IF m \in Held(t) THEN Zeros(0) ELSE TEMP[m]]
  /\ reply' = [reply EXCEPT ![t] = [status |-> status, bytes |-> bytes]]
  /\ Goto(t, "idle")

\* The objects of RE1B or WE1B exist already: the method fails, and its caller with it.
Collide(t) ==
  /\ More(t) /\ policy = "fail"
  /\ inside[ByteMethod(t)] # NoThread
  /\ Exit(t, "failed", Zeros(0))
  /\ UNCHANGED <<ram, policy, inside, call, next>>

LeaveByte(t) == inside' = [inside EXCEPT ![ByteMethod(t)] = NoThread]

\* Mutant: RECB stores what it read one place too far.
ReadByteLate(t) ==
  LET i == next[t] - call[t].first IN
  /\ TEMP' = [TEMP EXCEPT !["RECB"] = [j \in DOMAIN @ |-> IF j = i + 1 THEN ram[next[t]] ELSE @[j]]]
  /\ UNCHANGED ram

\* TEMP [Local0] = RE1B (Arg0)
ReadByte(t) ==
  /\ TEMP' = [TEMP EXCEPT !["RECB"][next[t] - call[t].first] = ram[next[t]]]
  /\ UNCHANGED ram

\* Mutant: WECB does not step through its argument.
WriteByteFirst(t) ==
  /\ ram' = [ram EXCEPT ![next[t]] = TEMP["WECB"][0]]
  /\ UNCHANGED TEMP

\* WE1B (Arg0, DerefOf (TEMP [Local0]))
WriteByte(t) ==
  /\ ram' = [ram EXCEPT ![next[t]] = TEMP["WECB"][next[t] - call[t].first]]
  /\ UNCHANGED TEMP

\* Mutant: the loop does not step to the next address.
AccessFieldAgain(t) ==
  /\ pc[t] = "byte" /\ next[t] \in Address /\ Serialized(t)
  /\ IF Reads(t) THEN ReadByte(t) ELSE WriteByte(t)
  /\ LeaveByte(t) /\ Goto(t, "loop")
  /\ UNCHANGED <<policy, owner, call, next, reply>>

\* The access of a loop of RECB or WECB.
AccessField(t) ==
  /\ pc[t] = "byte" /\ next[t] \in Address /\ Serialized(t)
  /\ IF Reads(t) THEN ReadByte(t) ELSE WriteByte(t)
  /\ next' = [next EXCEPT ![t] = @ + 1]
  /\ LeaveByte(t) /\ Goto(t, "loop")
  /\ UNCHANGED <<policy, owner, call, reply>>

\* RE1B or WE1B called on its own.
AccessByte(t) ==
  /\ pc[t] = "byte" /\ next[t] \in Address /\ ~Serialized(t)
  /\ IF Reads(t)
     THEN Exit(t, "ok", [i \in {0} |-> ram[next[t]]]) /\ UNCHANGED ram
     ELSE ram' = [ram EXCEPT ![next[t]] = Payload(t)[0]] /\ Exit(t, "ok", Payload(t))
  /\ next' = [next EXCEPT ![t] = @ + 1]
  /\ LeaveByte(t)
  /\ UNCHANGED <<policy, call>>

\* The region lies past the controller's RAM: the access fails, the bytes before it stay.
AccessPastEnd(t) ==
  /\ pc[t] = "byte" /\ next[t] \notin Address
  /\ Exit(t, "failed", Zeros(0))
  /\ LeaveByte(t)
  /\ UNCHANGED <<ram, policy, call, next>>

Return(t) ==
  /\ pc[t] = "loop" /\ next[t] >= End(t)
  /\ Exit(t, "ok", TEMP[call[t].method])
  /\ UNCHANGED <<ram, policy, inside, call, next>>

Step(t) ==
  \/ Enter(t) \/ EnterByte(t) \/ Collide(t)
  \/ AccessField(t) \/ AccessByte(t) \/ AccessPastEnd(t) \/ Return(t)

Next ==
  \/ \E a \in Address, b \in Bytes : Firmware(a, b)
  \/ \E t \in Threads : Step(t) \/ \E c \in Calls : Call(t, c)

Spec == Init /\ [][Next]_vars

\* The interpreter goes on with every method it has begun, in any order.
FairSpec == Spec /\ \A t \in Threads : WF_vars(Step(t))

-----------------------------------------------------------------------------
(* What must hold. *)

\* The mutex of RECB and of WECB is held exactly by the thread that runs it, and a failure
\* in the middle of a field leaves neither the mutex nor a region of RE1B or WE1B behind.
LocksBalanced ==
  /\ \A m \in {"RECB", "WECB"}, t \in Threads :
       owner[m] = t <=> pc[t] \in {"loop", "byte"} /\ call[t].method = m
  /\ \A b \in {"RE1B", "WE1B"}, t \in Threads :
       inside[b] = t <=> pc[t] = "byte" /\ ByteMethod(t) = b

\* A thread writes nothing but the bytes of its own field, each with the byte of its
\* argument that belongs there, whoever else is in WECB, RECB or WE1B at the time.
WritesOwnField ==
  [][\A t \in Threads, a \in Address :
       pc[t] = "byte" /\ pc'[t] # "byte" /\ ram'[a] # ram[a] =>
         /\ ~Reads(t) /\ a - call[t].first \in 0..((call[t].bits + 7) \div 8 - 1)
         /\ ram'[a] = IF a - call[t].first < Len(call[t].data)
                      THEN call[t].data[a - call[t].first + 1] ELSE 0]_vars

\* A call on a field inside the controller's RAM fails only because another thread is in
\* the same unserialized byte method at that very moment.
FailsOnlyOnCollision ==
  [][\A t \in Threads :
       reply[t].status # "failed" /\ reply'[t].status = "failed" =>
         \/ call[t].first + (call[t].bits + 7) \div 8 > Size
         \/ \E u \in Threads \ {t} : pc[u] = "byte" /\ ByteMethod(u) = ByteMethod(t)]_vars

\* Calls never block each other for good.
SomeCallReturns ==
  \/ []<>(\A t \in Threads : pc[t] = "idle")
  \/ []<><<\E t \in Threads : pc[t] # "idle" /\ pc'[t] = "idle">>_vars

=============================================================================
